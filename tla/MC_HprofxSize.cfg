\* Sizes kept in 8 bits instead of 32, and arrays around 2^7 bytes.
SPECIFICATION Spec
CONSTANTS
  Dumps <- SizeDumps
  Commands <- SizeCommands
  SizeBits = 8
  MaxElements = 2
  MaxChain = 2
  AgeRegex = FALSE
INVARIANT SizeIsShallowSize
CHECK_DEADLOCK FALSE
