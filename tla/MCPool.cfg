\* A fixed pool of two threads with two callers and a queue of two places.
SPECIFICATION FairSpec
CONSTANTS
  t1 = t1  t2 = t2  t3 = t3  t4 = t4
  Tasks <- MCTasks4
  MaxCallers = 2
  MinThr = 2
  MaxThr = 2
  MaxTasks = 2
  Increment = 1
  Dynamic = FALSE
INVARIANTS TypeOK SignalPerTask
PROPERTIES KeepsRunning CloseReturns AddReturns
CHECK_DEADLOCK FALSE
