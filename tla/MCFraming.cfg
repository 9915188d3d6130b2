SPECIFICATION FairSpec
CONSTANTS
  LenBytes = 2
  Sizes <- MCSizes
  Capacity = 4
  MayClose = TRUE
INVARIANTS TypeOK Aligned
PROPERTIES KeepsStream RecvReturns Delivered
CHECK_DEADLOCK FALSE
