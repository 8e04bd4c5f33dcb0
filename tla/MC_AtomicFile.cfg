CONSTANTS
  Snapshot = {s1, s2}
  Missing = Missing
  Torn = Torn
SPECIFICATION FileSpec
INVARIANTS  NeverTorn ResultTellsFile
