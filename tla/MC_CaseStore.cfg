CONSTANTS
  Body <- MCBody
  Attributes = {"none"}
  CaseID = {1, 2}
  Input <- MCInput
  Times = {1, 2}
  MaxEvents = 3
  None = None
  InitialFiles <- MCFiles
SPECIFICATION CaseStoreSpec
INVARIANTS  CaseFileLoadable MemoryIsRebuildable AcceptedEventsKept EventIDsUnique
PROPERTIES AppendOnly ImplementsMemoryStore
