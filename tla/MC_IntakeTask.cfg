CONSTANTS
  Body <- MCBody
  Attributes = {"none"}
  CaseID = {1}
  TaskID = {1}
  taskID <- MCTaskID
  Input <- MCInput
  Times = {1}
  MaxEvents = 2
  MaxRevision = 2
  None = None
  InitialFiles <- MCFiles
  Handler = {h1, h2}
  Worker = {w1}
  Token = {k1, k2}
  Durations = {1}
  RetryTimes = {1}
  MaxCrashes = 1
SPECIFICATION Spec
INVARIANTS TaskIsForLatestKnownRevision
