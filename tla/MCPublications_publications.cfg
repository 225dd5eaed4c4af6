SPECIFICATION Spec
CONSTANTS
  p1 = p1
  p2 = p2
  p3 = p3
  p4 = p4
  a1 = a1
  a2 = a2
  a3 = a3
  Problems = {p1, p2, p3, p4}
  Author <- Authors
  Requests = {r1, r2}
  Mixes <- AllMixes
  Schedules <- Days
  None = None
  Cap = 1
  Rest = 2
  PlanRounds = 3
SYMMETRY Symmetry
CHECK_DEADLOCK FALSE
INVARIANTS TypeOK OneDestination CopiesInStep ContentSettled ReadinessIsRight
PROPERTIES RoundsStay AnnouncedIsDelivered
