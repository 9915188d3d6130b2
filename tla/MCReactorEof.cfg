\* One client leaves while its request is being read.
SPECIFICATION Spec
CONSTANTS
  c1 = c1  c2 = c2  c3 = c3
  f1 = f1  f2 = f2  w1 = w1  w2 = w2
  NoConn = NoConn
  Lfd = Lfd
  Conns <- MCConns2
  Fds <- MCFds2
  Workers <- MCWorkers1
  MaxReq = 1
  MaxPhantom = 1
  Impatient = TRUE
INVARIANTS OnlyRequests
CHECK_DEADLOCK FALSE
