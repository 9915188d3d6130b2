\* Clients that wait for their answers; enough descriptors for all of them.
SPECIFICATION FairSpec
CONSTANTS
  c1 = c1  c2 = c2  c3 = c3
  f1 = f1  f2 = f2  w1 = w1  w2 = w2
  NoConn = NoConn
  Lfd = Lfd
  Conns <- MCConns2
  Fds <- MCFds2
  Workers <- MCWorkers2
  MaxReq = 2
  MaxPhantom = 0
  Impatient = FALSE
INVARIANT OneRequest
PROPERTIES Served Dropped TaskReturns
CHECK_DEADLOCK FALSE
