CONSTANTS
  N = 4
  Graphs <- MCGraphs
  size <- MCSize
SPECIFICATION Spec
CHECK_DEADLOCK FALSE
INVARIANTS WalkIsDepthFirst SemidominatorsCorrect IdomIsImmediateDominator RetainedIsFreed DomChainIsDominatorPath LargestAreListed
PROPERTIES Terminates
