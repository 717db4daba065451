CONSTANTS
  Session <- MCSession
  MaxSequence = 3
  MaxBlocks = 2
  Cuts = FALSE
  Repeats = TRUE
  MaxStat = 2

SPECIFICATION FairSpec

INVARIANTS
  TypeOK
  DeliveredOrReported
  GapsAreBeingRecovered

PROPERTIES
  EverythingArrives
