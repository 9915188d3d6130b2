\* A pool that its manager grows and shrinks.
SPECIFICATION Spec
CONSTANTS
  t1 = t1  t2 = t2  t3 = t3  t4 = t4
  Tasks <- MCTasks4
  MaxCallers = 1
  MinThr = 1
  MaxThr = 3
  MaxTasks = 2
  Increment = 2
  Dynamic = TRUE
INVARIANTS LiveCount Manned CallerRemembered NoneSleeps
PROPERTY KeepsPool
SYMMETRY Symmetric
CHECK_DEADLOCK FALSE
