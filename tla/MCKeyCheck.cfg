\* All operations, a restart of the server, and the answer to every request.
SPECIFICATION FairSpec
CONSTANTS
  c1 = c1  c2 = c2  f1 = f1  f2 = f2  f3 = f3  w1 = w1  w2 = w2
  NoClient = NoClient
  Clients <- MCBoth
  Fds <- MCFds2
  Workers <- MCWorker
  Ops <- MCAll
  MaxOps = 3
  MaxNode = 2
  HmacSize = 1
  ConnSize = 1
  MaxFail = 1
  AttachFails = TRUE
  CommitFails = TRUE
  MaxCrash = 1
  Timeouts = FALSE
  MaxLives = 0
INVARIANTS ShmIsIssued CheckGenuine Recognised
PROPERTIES Answered
CHECK_DEADLOCK FALSE
