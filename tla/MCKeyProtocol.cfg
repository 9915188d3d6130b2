\* Two clients, the pool's one worker, one shared-memory slot too few.
SPECIFICATION Spec
CONSTANTS
  c1 = c1  c2 = c2  f1 = f1  f2 = f2  f3 = f3  w1 = w1  w2 = w2
  NoClient = NoClient
  Clients <- MCBoth
  Fds <- MCFds3
  Workers <- MCWorker
  Ops <- MCNoCheck
  MaxOps = 2
  MaxNode = 1
  HmacSize = 1
  ConnSize = 1
  MaxFail = 1
  AttachFails = FALSE
  CommitFails = FALSE
  MaxCrash = 1
  Timeouts = FALSE
  MaxLives = 1
SYMMETRY Symmetric
INVARIANTS TypeOK AgreedKey RevokedEverywhere RevokeKept AnewAfterRestart
PROPERTIES KeepsLifecycle
CHECK_DEADLOCK FALSE
