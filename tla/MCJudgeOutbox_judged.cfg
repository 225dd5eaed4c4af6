SPECIFICATION ReliableSpec
CONSTANTS
  Submissions = {s1}
  AuthoringRuns = {}
  CodeRuns = {c1}
  Bridges = {b1}
  Hosts = {h1}
  Verdicts = {AC}
  JE = JE
  NoVerdict = NoVerdict
  NoItem = NoItem
  NoJob = NoJob
  SpareInFlight = 1
  Cases = 0
  MaxReceiveCount = 2
  MaxAttempt = 2
  MaxFailedCommits = 0
  MaxUpdates = 0
PROPERTIES EveryRowIsJudged
