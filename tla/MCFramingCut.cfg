SPECIFICATION Spec
CONSTANTS
  LenBytes = 2
  Sizes <- CutSizes
  Capacity = 3
  MayClose = FALSE
INVARIANTS OnlySent
CHECK_DEADLOCK FALSE
