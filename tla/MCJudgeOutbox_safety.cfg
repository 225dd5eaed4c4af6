SPECIFICATION Spec
CONSTANTS
  Submissions = {s1}
  AuthoringRuns = {}
  CodeRuns = {}
  Bridges = {b1, b2}
  Hosts = {h1}
  Verdicts = {AC}
  JE = JE
  NoVerdict = NoVerdict
  NoItem = NoItem
  NoJob = NoJob
  SpareInFlight = 2
  Cases = 0
  MaxReceiveCount = 2
  MaxAttempt = 2
  MaxFailedCommits = 1
  MaxUpdates = 0
SYMMETRY Symmetry
INVARIANTS TypeOK RowStaysAsRead ResultOfThisAttempt NoSilentLoss OneSendPerCommit
PROPERTIES FinalIsFinal ImplementsLife
