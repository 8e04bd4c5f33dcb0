\* Deliveries whose first holder of a class may have no body.
SPECIFICATION Spec
CONSTANTS
  Dumps <- MCDumps
  Commands <- MCCommands
  SizeBits = 16
  MaxElements = 2
  MaxChain = 2
  AgeRegex = TRUE
INVARIANT EveryHolderIsDelivery
CHECK_DEADLOCK FALSE
