SPECIFICATION FairSpec
CONSTANTS
  t1 = t1  t2 = t2  t3 = t3  t4 = t4
  Threads <- MCThreads
  Size = 2
  MaxUse = 1
  LastDay = 1
INVARIANTS Accounted NoLostSignal InOrder
PROPERTIES GetReturns Written
CHECK_DEADLOCK FALSE
