CONSTANTS
  Body <- MCBody
  Attributes = {"none"}
  CaseID = {1, 2}
  Input <- MCKeyedInput
  Times = {1}
  MaxEvents = 2
  None = None
  InitialFiles <- MCEmpty
SPECIFICATION CaseStoreSpec
INVARIANTS EventIDReuseRefused
