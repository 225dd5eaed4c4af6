SPECIFICATION Spec
CONSTANTS
  p1 = p1
  p2 = p2
  p3 = p3
  x1 = x1
  People = {p1, p2, p3}
  Problems = {x1}
  Author <- OneAuthor
  Requests = {r1, r2}
  Mixes <- AllMixes
  Nobody = Nobody
  Idle = Idle
  MaxToken = 2
  Late = FALSE
SYMMETRY Symmetry
CHECK_DEADLOCK FALSE
INVARIANTS TypeOK StaffDoNotCompete RemovedHoldNoLink OneOwnedRow
PROPERTIES RanksStay
