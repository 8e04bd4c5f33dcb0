CONSTANTS
  Body <- MCBody
  Attributes = {"none"}
  CaseID = {1, 2}
  TaskID = {1, 2}
  taskID <- MCTaskID
  Input <- MCTwoCases
  Times = {1}
  MaxEvents = 2
  MaxRevision = 2
  None = None
  InitialFiles <- MCPending
  Handler = {h1, h2}
  Worker = {w1}
  Token = {k1}
  Durations = {1}
  RetryTimes = {1}
  MaxCrashes = 1
SPECIFICATION FairSpec
INVARIANTS AnsweredIsScheduled NoOrphanTask
PROPERTIES StartupClosesGap EventuallyScheduled
