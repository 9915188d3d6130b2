\* Answers may come late.
SPECIFICATION Spec
CONSTANTS
  c1 = c1  c2 = c2  f1 = f1  f2 = f2  f3 = f3  w1 = w1  w2 = w2
  NoClient = NoClient
  Clients <- MCOne
  Fds <- MCFds2
  Workers <- MCWorker
  Ops <- MCAll
  MaxOps = 5
  MaxNode = 1
  HmacSize = 1
  ConnSize = 1
  MaxFail = 1
  AttachFails = FALSE
  CommitFails = FALSE
  MaxCrash = 0
  Timeouts = TRUE
  MaxLives = 0
INVARIANTS AgreedKey
CHECK_DEADLOCK FALSE
