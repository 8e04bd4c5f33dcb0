\* Graphs, files cut short, deliveries and consumers: every dump of MCDumps.
SPECIFICATION Spec
CONSTANTS
  Dumps <- MCDumps
  Commands <- MCCommands
  SizeBits = 16
  MaxElements = 2
  MaxChain = 2
  AgeRegex = TRUE
INVARIANTS PassesInStep LookupIsExact  ReferrersAreTranspose PathsAreShortest InspectReadsBack PathsAreLabelled DeliveriesAreHolders BacklogAges NoAckIsFlagged
\* The program returns, or stops with an error.
CHECK_DEADLOCK FALSE
