CONSTANTS
  Session <- MCSession
  MaxSequence = 3
  MaxBlocks = 2
  Cuts = TRUE
  Repeats = FALSE
  MaxStat = 0

SPECIFICATION Spec

INVARIANTS
  CutBlocksAreSurfaced
