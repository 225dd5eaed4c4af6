SPECIFICATION Spec
CONSTANTS
  Submissions = {}
  AuthoringRuns = {}
  CodeRuns = {c1, c2, c3}
  Bridges = {b1, b2}
  Hosts = {h1}
  Verdicts = {AC}
  JE = JE
  NoVerdict = NoVerdict
  NoItem = NoItem
  NoJob = NoJob
  SpareInFlight = 2
  Cases = 0
  MaxReceiveCount = 1
  MaxAttempt = 1
  MaxFailedCommits = 0
  MaxUpdates = 0
SYMMETRY Symmetry
INVARIANTS NewWaitsBehindAtMostSpare
