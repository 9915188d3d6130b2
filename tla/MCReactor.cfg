\* Three clients that may time out, leave or reset at any point, two workers.
SPECIFICATION Spec
CONSTANTS
  c1 = c1  c2 = c2  c3 = c3
  f1 = f1  f2 = f2  w1 = w1  w2 = w2
  NoConn = NoConn
  Lfd = Lfd
  Conns <- MCConns3
  Fds <- MCFds2
  Workers <- MCWorkers2
  MaxReq = 2
  MaxPhantom = 1
  Impatient = TRUE
SYMMETRY Symmetric
INVARIANTS TypeOK OneOwner NoUseAfterFree SocketMap NoRequestLost
PROPERTY KeepsService
CHECK_DEADLOCK FALSE
