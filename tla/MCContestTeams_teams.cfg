SPECIFICATION Spec
CONSTANTS
  People = {p1, p2, p3}
  Teams = {t1, t2}
  Requests = {r1, r2}
  Mixes <- AllMixes
  Out = Out
  Solo = Solo
  Idle = Idle
  AttemptLimit = 1
  MaxCode = 3
  MaxPassphrase = 2
SYMMETRY Symmetry
CHECK_DEADLOCK FALSE
INVARIANTS TypeOK TeamsFit IndividualsKeepTheirRuns SecretsGuarded
PROPERTIES OnsiteIsKept
