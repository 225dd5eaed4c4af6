SPECIFICATION Spec
CONSTANTS
  p1 = p1
  p2 = p2
  p3 = p3
  setter = setter
  author = author
  t1 = t1
  x1 = x1
  x2 = x2
  People = {p1, p2, p3}
  Setters = {setter}
  Authors = {author}
  Operator = operator
  Problems = {x1, x2}
  Requests = {r1, r2}
  Free = Free
  Alone = Alone
  Start = 1
  FreezeAt = 2
  End = 3
  MaxClock = 3
  Points = 2
  Penalty = 1
  Results <- AllResults
  Mixes <- AllMixes
SYMMETRY Symmetry
INVARIANTS TypeOK TableFollowsTheRules FreezeKeepsSecrets RevealedIsComplete
PROPERTIES SettersStopAtTheReveal
CHECK_DEADLOCK FALSE
