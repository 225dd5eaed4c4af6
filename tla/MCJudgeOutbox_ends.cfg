SPECIFICATION FairSpec
CONSTANTS
  Submissions = {s1}
  AuthoringRuns = {a1}
  CodeRuns = {}
  Bridges = {b1}
  Hosts = {h1}
  Verdicts = {AC}
  JE = JE
  NoVerdict = NoVerdict
  NoItem = NoItem
  NoJob = NoJob
  SpareInFlight = 2
  Cases = 0
  MaxReceiveCount = 1
  MaxAttempt = 2
  MaxFailedCommits = 0
  MaxUpdates = 0
PROPERTIES EveryRowEnds
