CONSTANTS
  c1 = c1
  c2 = c2
  CaseID = {c1, c2}
  TaskID = {1, 2}
  taskID <- MCTaskIDOf
  Worker = {w1, w2}
  Token = {k1, k2, k3, k4}
  MaxRevision = 2
  Times = {1, 2}
  Durations = {1}
  RetryTimes = {1, 2}
  None = None
SPECIFICATION OutboxSpec
SYMMETRY Symmetry
INVARIANTS OutboxTypeOK MemoryMatchesFile  AtLeastOnce HonouredLeaseIsCurrent
PROPERTIES TaskLeavesOnlyWhenSettled ImplementsDelivery
