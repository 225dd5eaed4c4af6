SPECIFICATION Spec
CONSTANTS
  Submissions = {s1}
  AuthoringRuns = {}
  CodeRuns = {}
  Bridges = {b1}
  Hosts = {h1, h2}
  Verdicts = {AC}
  JE = JE
  NoVerdict = NoVerdict
  NoItem = NoItem
  NoJob = NoJob
  SpareInFlight = 2
  Cases = 1
  MaxReceiveCount = 2
  MaxAttempt = 2
  MaxFailedCommits = 0
  MaxUpdates = 1
SYMMETRY Symmetry
PROPERTIES ProgressMovesForward
