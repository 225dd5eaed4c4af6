SPECIFICATION Spec
CONSTANTS
  None = None
  c1 = c1
  c2 = c2
  s1 = s1
  s2 = s2
  Callers = {c1, c2}
  Window = 3
  RunLimit <- MCRunLimit
  Burst <- MCBurst
  Every <- MCEvery
  Demands <- MCDemands
  Timeout = 1
  MaxTime = 4
  Jobs <- MCJobs
  Ends = {"right", "wrong", "slow", "lost"}
  LocalRows = {s1, s2}
  LocalRuns = {x1}
  Workers = {c1, c2}
  JudgeTimeout = 2
  Minute = 1
  Overtime = 1
  MaxAge = 6
  MaxClaims = 3
  Uploads = {f1}
  Outputs = {o1}
  Completers = {c1, c2}
  Storages = {"s3", "local"}
  MaxVersions = 2
  MaxDraft = 2
  MaxJobs = 1
  Plans <- MCPlans
  Primaries <- MCPrimaries
  Bursts <- MCBursts
  Invocations = {c1, c2}
  Lead = 1
  Span = 9
  After = 1
  Horizon = 48
  Day = 12
  Budget = 20
  FallbackHold = 4
  Grace = 2
  IdleTime = 1
  Period = 1
  Delay = 0
  Lag = 1
  MaxEvents = 1
  LastEvent = 1
  EndOfTime = 16
  Attempts = {x1}
  OldHosts = {"p"}
  First = "b1"
  Senders = {a1}
  Creators = {a1}
  MaxFailedCommits = 1
  MaxResumes = 2
SYMMETRY Symmetry
INVARIANTS TypeOK WithinLimits ScoresFollowTheCases ResultOfThisClaim FilesStayUsable PoolFollowsDemand OneEnvironment
CHECK_DEADLOCK FALSE
