--------------------------- MODULE ReactorProofs ---------------------------
(***************************************************************************)
(* What holds of Reactor for any number of connections, descriptors and    *)
(* workers.  The inductive invariant is IInv: the three properties of      *)
(* Reactor, the types, and two facts about where connections and events    *)
(* come from.  A step outside the reactor's ownership transfer (a client,  *)
(* a read, an answer) leaves Ownership alone; the other steps move one     *)
(* descriptor, or one group of them, from one holder to the next.          *)
(***************************************************************************)
EXTENDS Reactor, QueueLemmas, TLAPS

\* Only accepted or waiting connections have left "new".
PeersOK == \A c \in Conns : peer[c] = "new" => c \notin heap \cup backlog

\* The listening descriptor only reports connections.
EventsOK == \A e \in events : e.fd = Lfd => e.ev = "in"

IInv == TypeOK /\ PeersOK /\ EventsOK /\ OneOwner /\ NoUseAfterFree /\ SocketMap

----------------------------------------------------------------------------
LEMMA InitOK == Init => IInv
<1> SUFFICES ASSUME Init PROVE IInv
  OBVIOUS
<1> USE FdAssumption, ConnAssumption, BoundAssumption DEF Init
<1>1. TypeOK
  BY DEF TypeOK
<1>2. PeersOK /\ EventsOK /\ NoUseAfterFree /\ SocketMap
  BY DEF PeersOK, EventsOK, NoUseAfterFree, SocketMap, Busy
<1>3. OneOwner
  BY EmptyElems DEF OneOwner, UsedFds, EventFds, QueueFds, TaskFds, WorkFds, Busy
<1> QED BY <1>1, <1>2, <1>3 DEF IInv

----------------------------------------------------------------------------
\* A reset leaves the receive buffer a sequence of requests.
LEMMA AbortedType ==
  ASSUME TypeOK, NEW c \in Conns, Aborted(c)
  PROVE  /\ peer' \in [Conns -> {"new", "up", "fin", "rst"}]
         /\ rx' \in [Conns -> Seq(1..MaxReq)]
<1>1. PICK left \in {rx[c], <<>>} : rx' = [rx EXCEPT ![c] = left]
  BY DEF Aborted
<1>2. <<>> \in Seq(1..MaxReq) /\ rx[c] \in Seq(1..MaxReq)
  BY DEF TypeOK
<1>3. left \in Seq(1..MaxReq)
  BY <1>2
<1> QED BY <1>1, <1>3 DEF TypeOK, Aborted

\* Every step keeps the variables within their types.
LEMMA TypeNext == TypeOK /\ OneOwner /\ [Next]_vars => TypeOK'
<1> SUFFICES ASSUME TypeOK, OneOwner, [Next]_vars PROVE TypeOK'
  OBVIOUS
<1> USE FdAssumption, ConnAssumption, BoundAssumption DEF TypeOK
<1>1. ASSUME NEW c \in Conns, Connect(c) PROVE TypeOK'
  BY <1>1 DEF Connect, mainVars, workerVars
<1>2. ASSUME NEW c \in Conns, SendRequest(c) PROVE TypeOK'
  <2>1. sent[c] + 1 \in 1..MaxReq
    BY <1>2 DEF SendRequest
  <2> QED BY <1>2, <2>1 DEF SendRequest, mainVars, workerVars
<1>3. ASSUME NEW c \in Conns, Leave(c) PROVE TypeOK'
  BY <1>3 DEF Leave, mainVars, workerVars
<1>4. ASSUME NEW c \in Conns, Reset(c) PROVE TypeOK'
  BY <1>4, AbortedType DEF Reset, mainVars, workerVars
<1>5. CASE EpollWait
  <2>1. events' \in SUBSET [fd : Fds \cup {Lfd}, ev : {"in", "rdhup"}]
    BY <1>5 DEF EpollWait, EventOf
  <2> QED BY <1>5, <2>1 DEF EpollWait, clientVars, workerVars
<1>6. CASE EndAccept
  BY <1>6 DEF EndAccept, clientVars, workerVars
<1>7. ASSUME NEW e \in events, CloseConn(e) PROVE TypeOK'
  BY <1>7 DEF CloseConn, clientVars, workerVars
<1>8. ASSUME NEW e \in events, AddTask(e) PROVE TypeOK'
  BY <1>8 DEF AddTask, clientVars, workerVars
<1>9. ASSUME NEW e \in events, BeginAccept(e) PROVE TypeOK'
  BY <1>9 DEF BeginAccept, clientVars, workerVars
<1>10. ASSUME NEW c \in Conns, AcceptConn(c) PROVE TypeOK'
  BY <1>10 DEF AcceptConn, workerVars
<1>11. ASSUME NEW w \in Workers, TakeBatch(w) PROVE TypeOK'
  BY <1>11 DEF TakeBatch, clientVars, mainVars
<1>12. ASSUME NEW w \in Workers, StartTask(w) PROVE TypeOK'
  <2>1. Head(batch[w]) \in Fds /\ Tail(batch[w]) \in Seq(Fds)
    BY <1>12 DEF StartTask
  <2> QED BY <1>12, <2>1 DEF StartTask, clientVars, mainVars
<1>13. ASSUME NEW w \in Workers, RecvRequest(w) PROVE TypeOK'
  <2>1. Sock(w) \in Conns
    BY <1>13 DEF RecvRequest, Sock, OneOwner, UsedFds, TaskFds, WorkFds, Busy
  <2>2. rx[Sock(w)] \in Seq(1..MaxReq) /\ rx[Sock(w)] # <<>>
    BY <1>13, <2>1 DEF RecvRequest
  <2>3. Head(rx[Sock(w)]) \in 1..MaxReq /\ Tail(rx[Sock(w)]) \in Seq(1..MaxReq)
    BY <2>2, HeadTail
  <2>4. msgs[w] \in Seq(0..MaxReq) /\ Head(rx[Sock(w)]) \in 0..MaxReq
    BY <2>3
  <2>5. Append(msgs[w], Head(rx[Sock(w)])) \in Seq(0..MaxReq)
    BY <2>4
  <2> QED BY <1>13, <2>3, <2>5 DEF RecvRequest, mainVars
<1>14. ASSUME NEW w \in Workers, RecvAgain(w) PROVE TypeOK'
  BY <1>14 DEF RecvAgain, clientVars, mainVars
<1>15. ASSUME NEW w \in Workers, RecvEof(w) PROVE TypeOK'
  BY <1>15 DEF RecvEof, Phantom, clientVars, mainVars
<1>16. ASSUME NEW w \in Workers, Handle(w) PROVE TypeOK'
  <2>1. msgs[w] \in Seq(0..MaxReq) /\ msgs[w] # <<>>
    BY <1>16 DEF Handle
  <2>2. Head(msgs[w]) \in 0..MaxReq /\ Tail(msgs[w]) \in Seq(0..MaxReq)
    BY <2>1
  <2>3. Sock(w) \in Conns
    BY <1>16 DEF Handle, Sock, OneOwner, UsedFds, TaskFds, WorkFds, Busy
  <2>4. Append(replies[Sock(w)], Head(msgs[w])) \in Seq(0..MaxReq)
    BY <2>2, <2>3
  <2>5. replies' \in [Conns -> Seq(0..MaxReq)]
    BY <1>16, <2>4 DEF Handle
  <2>6. msgs' \in [Workers -> Seq(0..MaxReq)]
    BY <1>16, <2>2 DEF Handle
  <2>7. /\ peer' \in [Conns -> {"new", "up", "fin", "rst"}]
        /\ rx' \in [Conns -> Seq(1..MaxReq)] /\ up' \in BOOLEAN
    BY <1>16, <2>3, AbortedType DEF Handle
  <2> QED BY <1>16, <2>5, <2>6, <2>7 DEF Handle, mainVars
<1>17. ASSUME NEW w \in Workers, Rearm(w) PROVE TypeOK'
  <2>1. wfd[w] \in Fds
    BY <1>17 DEF Rearm, OneOwner, UsedFds, TaskFds, WorkFds, Busy
  <2> QED BY <1>17, <2>1 DEF Rearm, clientVars, mainVars
<1>18. ASSUME NEW w \in Workers, LookupRace(w) \/ OutOfMemory(w) \/ RecvError(w) PROVE TypeOK'
  BY <1>18 DEF LookupRace, OutOfMemory, RecvError, clientVars, mainVars, workerVars
<1>19. CASE AcceptFails
  BY <1>19 DEF AcceptFails, clientVars, mainVars, workerVars
<1>20. CASE UNCHANGED vars
  BY <1>20 DEF vars, clientVars, mainVars, workerVars
<1> QED
  BY <1>1, <1>2, <1>3, <1>4, <1>5, <1>6, <1>7, <1>8, <1>9, <1>10, <1>11, <1>12, <1>13,
     <1>14, <1>15, <1>16, <1>17, <1>18, <1>19, <1>20 DEF Next, Client, Main, Worker

----------------------------------------------------------------------------
\* Ownership and the descriptor tables, the part of IInv beside the types.
Tables == PeersOK /\ EventsOK /\ OneOwner /\ NoUseAfterFree /\ SocketMap

\* A step that moves no descriptor from one holder to another.
Still ==
  /\ backlog' = backlog
  /\ \A c \in Conns : peer'[c] = "new" => peer[c] = "new"
  /\ UNCHANGED <<open, heap, sockets, events, armed, taskq, batch, wfd, wsock>>
  /\ \A w \in Workers : wpc'[w] = "idle" <=> wpc[w] = "idle"

LEMMA Unmoved ==
  ASSUME IInv, Still
  PROVE  Tables'
<1> USE DEF IInv, Still, Busy
<1>1. /\ UsedFds' = UsedFds /\ EventFds' = EventFds /\ QueueFds' = QueueFds
      /\ \A w \in Workers : WorkFds(w)' = WorkFds(w) /\ TaskFds(w)' = TaskFds(w)
  BY DEF UsedFds, EventFds, QueueFds, TaskFds, WorkFds
<1>2. OneOwner'
  BY <1>1 DEF OneOwner
<1>3. PeersOK' /\ EventsOK' /\ NoUseAfterFree' /\ SocketMap'
  BY DEF PeersOK, EventsOK, NoUseAfterFree, SocketMap
<1> QED BY <1>2, <1>3 DEF Tables

\* Steps of the clients, the reads and the answers of the workers.
LEMMA StillSteps ==
  ASSUME IInv,
         \/ \E c \in Conns : SendRequest(c) \/ Leave(c) \/ Reset(c)
         \/ \E w \in Workers : \/ RecvRequest(w) \/ RecvAgain(w) \/ RecvEof(w)
                               \/ RecvError(w) \/ OutOfMemory(w) \/ LookupRace(w)
                               \/ Handle(w)
         \/ EndAccept \/ AcceptFails \/ UNCHANGED vars
  PROVE  Still
<1> USE DEF IInv, TypeOK
<1>1. ASSUME NEW c \in Conns, SendRequest(c) \/ Leave(c) \/ Reset(c) PROVE Still
  BY <1>1 DEF Still, SendRequest, Leave, Reset, Aborted, mainVars, workerVars
<1>2. ASSUME NEW w \in Workers, RecvRequest(w) \/ RecvEof(w) PROVE Still
  BY <1>2 DEF Still, RecvRequest, RecvEof, clientVars, mainVars
<1>3. ASSUME NEW w \in Workers, RecvAgain(w) PROVE Still
  BY <1>3 DEF Still, RecvAgain, clientVars, mainVars
<1>4. ASSUME NEW w \in Workers, RecvError(w) \/ OutOfMemory(w) \/ LookupRace(w) PROVE Still
  BY <1>4 DEF Still, RecvError, OutOfMemory, LookupRace, clientVars, mainVars, workerVars
<1>5. ASSUME NEW w \in Workers, Handle(w) PROVE Still
  BY <1>5 DEF Still, Handle, Aborted, mainVars
<1>6. CASE EndAccept
  BY <1>6 DEF Still, EndAccept, clientVars, workerVars
<1>7. CASE AcceptFails
  BY <1>7 DEF Still, AcceptFails, clientVars, mainVars, workerVars
<1>8. CASE UNCHANGED vars
  BY <1>8 DEF Still, vars, clientVars, mainVars, workerVars
<1> QED BY <1>1, <1>2, <1>3, <1>4, <1>5, <1>6, <1>7, <1>8

\* A new connection waits in the backlog; it was never accepted before.
LEMMA ConnectStep == ASSUME IInv, NEW c \in Conns, Connect(c) PROVE Tables'
<1> USE DEF IInv, TypeOK, Connect, mainVars, workerVars
<1>1. /\ UsedFds' = UsedFds /\ EventFds' = EventFds /\ QueueFds' = QueueFds
      /\ \A w \in Workers : WorkFds(w)' = WorkFds(w) /\ TaskFds(w)' = TaskFds(w)
  BY DEF UsedFds, EventFds, QueueFds, TaskFds, WorkFds, Busy
<1>2. OneOwner'
  BY <1>1 DEF OneOwner
<1>3. PeersOK' /\ EventsOK' /\ NoUseAfterFree' /\ SocketMap'
  BY DEF PeersOK, EventsOK, NoUseAfterFree, SocketMap, Busy
<1> QED BY <1>2, <1>3 DEF Tables

\* epoll_wait moves the ready descriptors from armed to the events.
LEMMA EpollWaitStep == ASSUME IInv, EpollWait PROVE Tables'
<1> DEFINE ready == {f \in armed : Readable(f)}
<1> USE DEF IInv, TypeOK
<1>1. /\ EventFds = {} /\ ready \subseteq armed
      /\ events' \subseteq {EventOf(f) : f \in ready} \cup {[fd |-> Lfd, ev |-> "in"]}
      /\ {EventOf(f) : f \in ready} \subseteq events'
      /\ armed' = armed \ ready
      /\ UNCHANGED <<clientVars, open, heap, sockets, taskq, workerVars>>
  BY DEF EpollWait, EventFds
<1>a. \A f \in ready : f \in Fds /\ EventOf(f) \in events' /\ EventOf(f).fd = f
  BY <1>1 DEF EventOf
<1>b. \A e \in events' : \/ e.fd = Lfd /\ e = [fd |-> Lfd, ev |-> "in"]
                         \/ e.fd \in ready /\ e = EventOf(e.fd)
  BY <1>1, <1>a
<1>2. EventFds' = ready
  <2> HIDE DEF ready
  <2>1. ready \subseteq EventFds'
    BY <1>a, FdAssumption DEF EventFds
  <2>2. EventFds' \subseteq ready
    BY <1>b DEF EventFds
  <2> QED BY <2>1, <2>2
<1>3. /\ UsedFds' = UsedFds /\ QueueFds' = QueueFds
      /\ \A w \in Workers : WorkFds(w)' = WorkFds(w) /\ TaskFds(w)' = TaskFds(w)
  BY <1>1 DEF UsedFds, QueueFds, TaskFds, WorkFds, Busy, workerVars
<1>4. \A d, e \in events' : d.fd = e.fd => d = e
  BY <1>a, <1>b, FdAssumption
<1>5. OneOwner'
  BY <1>1, <1>2, <1>3, <1>4 DEF OneOwner, workerVars
<1>6. EventsOK'
  BY <1>1, FdAssumption DEF EventsOK, EventOf
<1>7. PeersOK' /\ NoUseAfterFree' /\ SocketMap'
  BY <1>1 DEF PeersOK, NoUseAfterFree, SocketMap, Busy, clientVars, workerVars
<1> QED BY <1>5, <1>6, <1>7 DEF Tables

\* The main thread closes the descriptor of an event nobody else holds.
LEMMA CloseConnStep == ASSUME IInv, NEW e \in events, CloseConn(e) PROVE Tables'
<1> USE DEF IInv, TypeOK
<1>1. /\ e.fd \in Fds /\ e.fd \in EventFds /\ e.fd \in UsedFds
      /\ e.fd \notin armed /\ e.fd \notin QueueFds
      /\ \A w \in Workers : e.fd \notin TaskFds(w)
  BY FdAssumption DEF CloseConn, EventsOK, EventFds, OneOwner
<1>2. /\ events' = events \ {e} /\ armed' = armed
      /\ open' = [open EXCEPT ![e.fd] = NoConn] /\ sockets' = open'
      /\ heap' = heap \ {open[e.fd]}
      /\ UNCHANGED <<clientVars, taskq, workerVars>>
  BY <1>1 DEF CloseConn, SocketMap
<1>3. EventFds' = EventFds \ {e.fd}
  BY <1>2 DEF EventFds, OneOwner
<1>4. UsedFds' = UsedFds \ {e.fd}
  BY <1>1, <1>2 DEF UsedFds
<1>5. /\ QueueFds' = QueueFds
      /\ \A w \in Workers : WorkFds(w)' = WorkFds(w) /\ TaskFds(w)' = TaskFds(w)
  BY <1>2 DEF QueueFds, TaskFds, WorkFds, Busy, workerVars
<1>6. OneOwner'
  BY <1>1, <1>2, <1>3, <1>4, <1>5 DEF OneOwner, workerVars
<1>7. SocketMap'
  BY <1>1, <1>2 DEF SocketMap, clientVars
<1>8. NoUseAfterFree'
  <2> SUFFICES ASSUME NEW w \in Workers, Busy(w)
               PROVE  wsock[w] \in heap' /\ open'[wfd[w]] = wsock[w]
    BY <1>2 DEF NoUseAfterFree, Busy, workerVars
  <2>1. wfd[w] \in Fds /\ wfd[w] # e.fd /\ open[wfd[w]] # NoConn
    BY <1>1 DEF TaskFds, WorkFds, OneOwner, UsedFds
  <2> QED BY <1>1, <1>2, <2>1 DEF NoUseAfterFree, SocketMap
<1>9. PeersOK' /\ EventsOK'
  BY <1>2 DEF PeersOK, EventsOK, clientVars
<1> QED BY <1>6, <1>7, <1>8, <1>9 DEF Tables

\* A readable descriptor moves from the events to the task queue.
LEMMA AddTaskStep == ASSUME IInv, NEW e \in events, AddTask(e) PROVE Tables'
<1> USE DEF IInv, TypeOK
<1>1. /\ e.fd \in Fds /\ e.fd \in EventFds
      /\ e.fd \notin armed /\ e.fd \notin Range(taskq)
      /\ \A w \in Workers : e.fd \notin TaskFds(w)
  BY DEF AddTask, EventFds, QueueFds, OneOwner
<1>2. /\ events' = events \ {e} /\ taskq' = Append(taskq, e.fd)
      /\ UNCHANGED <<clientVars, open, heap, sockets, armed, workerVars>>
  BY DEF AddTask
<1>3. EventFds' = EventFds \ {e.fd}
  BY <1>2 DEF EventFds, OneOwner
<1>4. QueueFds' = QueueFds \cup {e.fd} /\ IsInjective(taskq')
  BY <1>1, <1>2, AppendElems DEF QueueFds, OneOwner
<1>5. /\ UsedFds' = UsedFds
      /\ \A w \in Workers : WorkFds(w)' = WorkFds(w) /\ TaskFds(w)' = TaskFds(w)
  BY <1>2 DEF UsedFds, TaskFds, WorkFds, Busy, workerVars
<1>6. OneOwner'
  BY <1>1, <1>2, <1>3, <1>4, <1>5 DEF OneOwner, QueueFds, workerVars
<1>7. PeersOK' /\ EventsOK' /\ NoUseAfterFree' /\ SocketMap'
  BY <1>2 DEF PeersOK, EventsOK, NoUseAfterFree, SocketMap, Busy, clientVars, workerVars
<1> QED BY <1>6, <1>7 DEF Tables

\* The listening descriptor's event starts the accept loop.
LEMMA BeginAcceptStep == ASSUME IInv, NEW e \in events, BeginAccept(e) PROVE Tables'
<1> USE DEF IInv, TypeOK
<1>1. /\ events' = events \ {e} /\ e.fd = Lfd
      /\ UNCHANGED <<clientVars, open, heap, sockets, armed, taskq, workerVars>>
  BY DEF BeginAccept
<1>2. EventFds' = EventFds
  BY <1>1 DEF EventFds
<1>3. /\ UsedFds' = UsedFds /\ QueueFds' = QueueFds
      /\ \A w \in Workers : WorkFds(w)' = WorkFds(w) /\ TaskFds(w)' = TaskFds(w)
  BY <1>1 DEF UsedFds, QueueFds, TaskFds, WorkFds, Busy, workerVars
<1>4. OneOwner'
  BY <1>1, <1>2, <1>3 DEF OneOwner, workerVars
<1>5. PeersOK' /\ EventsOK' /\ NoUseAfterFree' /\ SocketMap'
  BY <1>1 DEF PeersOK, EventsOK, NoUseAfterFree, SocketMap, Busy, clientVars, workerVars
<1> QED BY <1>4, <1>5 DEF Tables

\* An accepted connection's descriptor was free and starts armed.
LEMMA AcceptStep == ASSUME IInv, NEW c \in Conns, AcceptConn(c) PROVE Tables'
<1> USE DEF IInv, TypeOK
<1>1. PICK f \in Fds :
        /\ open[f] = NoConn
        /\ open' = [open EXCEPT ![f] = c] /\ armed' = armed \cup {f}
        /\ sockets' = open' /\ heap' = heap \cup {c} /\ backlog' = backlog \ {c}
        /\ c \in backlog /\ c \notin heap /\ peer[c] # "new"
        /\ UNCHANGED <<peer, events, taskq, workerVars>>
  BY DEF AcceptConn, SocketMap, PeersOK
<1>2. /\ f \notin UsedFds /\ f \notin armed /\ f \notin EventFds /\ f \notin QueueFds
      /\ \A w \in Workers : f \notin TaskFds(w)
  BY <1>1 DEF UsedFds, OneOwner
<1>3. UsedFds' = UsedFds \cup {f}
  BY <1>1, ConnAssumption DEF UsedFds
<1>4. /\ EventFds' = EventFds /\ QueueFds' = QueueFds
      /\ \A w \in Workers : WorkFds(w)' = WorkFds(w) /\ TaskFds(w)' = TaskFds(w)
  BY <1>1 DEF EventFds, QueueFds, TaskFds, WorkFds, Busy, workerVars
<1>5. OneOwner'
  BY <1>1, <1>2, <1>3, <1>4 DEF OneOwner, workerVars
<1>6. SocketMap'
  <2>1. \A g \in Fds : open'[g] = IF g = f THEN c ELSE open[g]
    BY <1>1
  <2>2. \A g \in Fds : open[g] # c
    BY <1>1, ConnAssumption DEF SocketMap
  <2> QED BY <1>1, <2>1, <2>2, ConnAssumption DEF SocketMap
<1>7. NoUseAfterFree'
  <2> SUFFICES ASSUME NEW w \in Workers, Busy(w)
               PROVE  wsock[w] \in heap' /\ open'[wfd[w]] = wsock[w]
    BY <1>1 DEF NoUseAfterFree, Busy, workerVars
  <2>1. wfd[w] # f
    BY <1>2 DEF TaskFds, WorkFds
  <2> QED BY <1>1, <2>1 DEF NoUseAfterFree
<1>8. PeersOK' /\ EventsOK'
  BY <1>1 DEF PeersOK, EventsOK
<1> QED BY <1>5, <1>6, <1>7, <1>8 DEF Tables

\* An idle worker without tasks takes the whole queue.
LEMMA TakeBatchStep == ASSUME IInv, NEW w \in Workers, TakeBatch(w) PROVE Tables'
<1>0. OneOwner
  BY DEF IInv
<1>1. /\ batch[w] = <<>> /\ batch' = [batch EXCEPT ![w] = taskq] /\ taskq' = <<>>
      /\ wpc[w] = "idle"
      /\ UNCHANGED <<clientVars, open, heap, sockets, events, armed, wpc, wfd, wsock>>
  BY DEF IInv, TypeOK, TakeBatch, mainVars
<1>2. QueueFds' = {} /\ TaskFds(w) = {} /\ TaskFds(w)' = QueueFds /\ WorkFds(w)' = {}
  BY <1>1, EmptyElems DEF IInv, TypeOK, QueueFds, TaskFds, WorkFds, Busy
<1>3. \A v \in Workers : WorkFds(v)' = WorkFds(v)
  BY <1>1 DEF IInv, TypeOK, WorkFds, Busy
<1>4. \A v \in Workers \ {w} : TaskFds(v)' = TaskFds(v) /\ batch'[v] = batch[v]
  BY <1>1, <1>3 DEF IInv, TypeOK, TaskFds
<1>5. UsedFds' = UsedFds /\ EventFds' = EventFds
  BY <1>1 DEF IInv, TypeOK, UsedFds, EventFds
<1>6. IsInjective(taskq') /\ \A v \in Workers : IsInjective(batch'[v])
  BY <1>1, <1>4, EmptyElems DEF IInv, TypeOK, OneOwner
<1>7. \A v \in Workers : Range(batch'[v]) \cap WorkFds(v)' = {}
  BY <1>2, <1>3, <1>4 DEF IInv, TypeOK, OneOwner
<1>8. OneOwner'
  <2>1. (UsedFds = armed \cup EventFds \cup QueueFds \cup UNION {TaskFds(v) : v \in Workers})'
    BY <1>0, <1>1, <1>2, <1>4, <1>5, <1>6, <1>7 DEF OneOwner
  <2>2. \A v \in Workers : (TaskFds(v) \cap (armed \cup EventFds \cup QueueFds) = {})'
    BY <1>0, <1>1, <1>2, <1>4, <1>5, <1>6, <1>7 DEF OneOwner
  <2>3. \A u, v \in Workers : u # v => (TaskFds(u) \cap TaskFds(v) = {})'
    BY <1>0, <1>1, <1>2, <1>4, <1>5, <1>6, <1>7 DEF OneOwner
  <2>4. (armed \cap EventFds = {} /\ QueueFds \cap (armed \cup EventFds) = {})'
    BY <1>0, <1>1, <1>2, <1>4, <1>5, <1>6, <1>7 DEF OneOwner
  <2> QED BY <2>1, <2>2, <2>3, <2>4, <1>0, <1>1, <1>2, <1>4, <1>5, <1>6, <1>7 DEF OneOwner
<1>9. PeersOK' /\ EventsOK' /\ NoUseAfterFree' /\ SocketMap'
  BY <1>1 DEF IInv, TypeOK, PeersOK, EventsOK, NoUseAfterFree, SocketMap, Busy, clientVars
<1> QED BY <1>8, <1>9 DEF Tables

\* A task begins: its descriptor stays with the worker, which finds in
\* m_sockets the socket the descriptor belongs to.
LEMMA StartTaskStep == ASSUME IInv, NEW w \in Workers, StartTask(w) PROVE Tables'
<1>0. OneOwner
  BY DEF IInv
<1> DEFINE f == Head(batch[w])
<1>1. /\ wpc[w] = "idle" /\ batch[w] # <<>> /\ batch[w] \in Seq(Fds)
      /\ batch' = [batch EXCEPT ![w] = Tail(batch[w])]
      /\ wpc' = [wpc EXCEPT ![w] = "recv"] /\ wfd' = [wfd EXCEPT ![w] = f]
      /\ wsock' = [wsock EXCEPT ![w] = sockets[f]]
      /\ UNCHANGED <<clientVars, open, heap, sockets, events, armed, taskq>>
  BY DEF IInv, TypeOK, StartTask, mainVars
<1>2. /\ Range(Tail(batch[w])) = Range(batch[w]) \ {f} /\ f \in Range(batch[w])
      /\ IsInjective(Tail(batch[w]))
  BY <1>1, TailElems DEF IInv, TypeOK, OneOwner
<1> HIDE DEF f
<1>3. WorkFds(w) = {} /\ WorkFds(w)' = {f} /\ TaskFds(w)' = TaskFds(w)
  BY <1>1, <1>2 DEF IInv, TypeOK, WorkFds, TaskFds, Busy
<1>4. \A v \in Workers \ {w} : /\ WorkFds(v)' = WorkFds(v) /\ TaskFds(v)' = TaskFds(v)
                               /\ batch'[v] = batch[v]
  BY <1>1 DEF IInv, TypeOK, WorkFds, TaskFds, Busy
<1>5. UsedFds' = UsedFds /\ EventFds' = EventFds /\ QueueFds' = QueueFds
  BY <1>1 DEF IInv, TypeOK, UsedFds, EventFds, QueueFds
<1>6. \A v \in Workers : IsInjective(batch'[v]) /\ Range(batch'[v]) \cap WorkFds(v)' = {}
  BY <1>1, <1>2, <1>3, <1>4 DEF IInv, TypeOK, OneOwner
<1>7. OneOwner'
  <2>1. (UsedFds = armed \cup EventFds \cup QueueFds \cup UNION {TaskFds(v) : v \in Workers})'
    BY <1>0, <1>1, <1>3, <1>4, <1>5, <1>6 DEF OneOwner
  <2>2. \A v \in Workers : (TaskFds(v) \cap (armed \cup EventFds \cup QueueFds) = {})'
    BY <1>0, <1>1, <1>3, <1>4, <1>5, <1>6 DEF OneOwner
  <2>3. \A u, v \in Workers : u # v => (TaskFds(u) \cap TaskFds(v) = {})'
    BY <1>0, <1>1, <1>3, <1>4, <1>5, <1>6 DEF OneOwner
  <2>4. (armed \cap EventFds = {} /\ QueueFds \cap (armed \cup EventFds) = {})'
    BY <1>0, <1>1, <1>3, <1>4, <1>5, <1>6 DEF OneOwner
  <2> QED BY <2>1, <2>2, <2>3, <2>4, <1>0, <1>1, <1>3, <1>4, <1>5, <1>6 DEF OneOwner
<1>8. f \in Fds /\ open[f] # NoConn /\ sockets[f] = open[f] /\ open[f] \in heap
  <2>1. f \in UsedFds
    BY <1>2 DEF IInv, TypeOK, OneOwner, TaskFds
  <2> QED BY <2>1 DEF IInv, TypeOK, UsedFds, SocketMap
<1>9. NoUseAfterFree'
  BY <1>1, <1>8 DEF IInv, TypeOK, NoUseAfterFree, Busy
<1>10. PeersOK' /\ EventsOK' /\ SocketMap'
  BY <1>1 DEF IInv, TypeOK, PeersOK, EventsOK, SocketMap, clientVars
<1> QED BY <1>7, <1>9, <1>10 DEF Tables

\* A task ends: its descriptor moves from the worker to epoll.
LEMMA RearmStep == ASSUME IInv, NEW w \in Workers, Rearm(w) PROVE Tables'
<1>0. OneOwner
  BY DEF IInv
<1>1. /\ Busy(w) /\ wfd[w] \in UsedFds /\ WorkFds(w) = {wfd[w]}
  BY DEF IInv, TypeOK, Rearm, Busy, WorkFds, TaskFds, OneOwner
<1>2. /\ armed' = armed \cup {wfd[w]} /\ wpc' = [wpc EXCEPT ![w] = "idle"]
      /\ UNCHANGED <<clientVars, open, heap, sockets, events, taskq, batch, wfd, wsock>>
  BY <1>1 DEF IInv, TypeOK, Rearm, UsedFds, mainVars
<1>3. /\ WorkFds(w)' = {} /\ TaskFds(w)' = Range(batch[w])
      /\ TaskFds(w) = Range(batch[w]) \cup {wfd[w]}
  BY <1>1, <1>2 DEF IInv, TypeOK, WorkFds, TaskFds, Busy
<1>4. \A v \in Workers \ {w} : WorkFds(v)' = WorkFds(v) /\ TaskFds(v)' = TaskFds(v)
  BY <1>2 DEF IInv, TypeOK, WorkFds, TaskFds, Busy
<1>5. UsedFds' = UsedFds /\ EventFds' = EventFds /\ QueueFds' = QueueFds
  BY <1>2 DEF IInv, TypeOK, UsedFds, EventFds, QueueFds
<1>6. /\ wfd[w] \notin EventFds /\ wfd[w] \notin QueueFds /\ wfd[w] \notin Range(batch[w])
      /\ \A v \in Workers \ {w} : wfd[w] \notin TaskFds(v)
  BY <1>1, <1>3 DEF IInv, TypeOK, OneOwner
<1>7. \A v \in Workers : Range(batch'[v]) \cap WorkFds(v)' = {}
  BY <1>2, <1>3, <1>4 DEF IInv, TypeOK, OneOwner
<1>8. OneOwner'
  <2>1. (UsedFds = armed \cup EventFds \cup QueueFds \cup UNION {TaskFds(v) : v \in Workers})'
    BY <1>0, <1>2, <1>3, <1>4, <1>5, <1>6, <1>7 DEF OneOwner
  <2>2. \A v \in Workers : (TaskFds(v) \cap (armed \cup EventFds \cup QueueFds) = {})'
    BY <1>0, <1>2, <1>3, <1>4, <1>5, <1>6, <1>7 DEF OneOwner
  <2>3. \A u, v \in Workers : u # v => (TaskFds(u) \cap TaskFds(v) = {})'
    BY <1>0, <1>2, <1>3, <1>4, <1>5, <1>6, <1>7 DEF OneOwner
  <2>4. (armed \cap EventFds = {} /\ QueueFds \cap (armed \cup EventFds) = {})'
    BY <1>0, <1>2, <1>3, <1>4, <1>5, <1>6, <1>7 DEF OneOwner
  <2> QED BY <2>1, <2>2, <2>3, <2>4, <1>0, <1>2, <1>3, <1>4, <1>5, <1>6, <1>7 DEF OneOwner
<1>9. PeersOK' /\ EventsOK' /\ NoUseAfterFree' /\ SocketMap'
  BY <1>2 DEF IInv, TypeOK, PeersOK, EventsOK, NoUseAfterFree, SocketMap, Busy, clientVars
<1> QED BY <1>8, <1>9 DEF Tables

----------------------------------------------------------------------------
LEMMA NextOK == IInv /\ [Next]_vars => IInv'
<1> SUFFICES ASSUME IInv, [Next]_vars PROVE IInv'
  OBVIOUS
<1>1. TypeOK'
  BY TypeNext DEF IInv
<1>2. Tables'
  <2>1. CASE \E c \in Conns : Connect(c)
    BY <2>1, ConnectStep
  <2>2. CASE EpollWait
    BY <2>2, EpollWaitStep
  <2>3. CASE \E e \in events : CloseConn(e) \/ AddTask(e) \/ BeginAccept(e)
    BY <2>3, CloseConnStep, AddTaskStep, BeginAcceptStep
  <2>4. CASE \E c \in Conns : AcceptConn(c)
    BY <2>4, AcceptStep
  <2>5. CASE \E w \in Workers : TakeBatch(w) \/ StartTask(w) \/ Rearm(w)
    BY <2>5, TakeBatchStep, StartTaskStep, RearmStep
  <2>6. CASE \/ \E c \in Conns : SendRequest(c) \/ Leave(c) \/ Reset(c)
             \/ \E w \in Workers : \/ RecvRequest(w) \/ RecvAgain(w) \/ RecvEof(w)
                                   \/ RecvError(w) \/ OutOfMemory(w) \/ LookupRace(w)
                                   \/ Handle(w)
             \/ EndAccept \/ AcceptFails \/ UNCHANGED vars
    BY <2>6, StillSteps, Unmoved
  <2> QED BY <2>1, <2>2, <2>3, <2>4, <2>5, <2>6 DEF Next, Client, Main, Worker
<1> QED BY <1>1, <1>2 DEF IInv, Tables

LEMMA Inductive == Spec => []IInv
<1> QED BY InitOK, NextOK, PTL DEF Spec

\* The variables keep their types in every behaviour of the reactor.
THEOREM Typing == Spec => []TypeOK
<1>1. IInv => TypeOK
  BY DEF IInv
<1> QED BY Inductive, <1>1, PTL

\* For any number of connections, descriptors and workers, a descriptor in
\* use has exactly one holder: no two threads are ever on the same socket.
THEOREM SingleOwner == Spec => []OneOwner
<1>1. IInv => OneOwner
  BY DEF IInv
<1> QED BY Inductive, <1>1, PTL

\* No worker ever uses a TcpSocket startwork has deleted, or a descriptor
\* that was closed and given to another connection in the meantime.
THEOREM SafeSockets == Spec => []NoUseAfterFree
<1>1. IInv => NoUseAfterFree
  BY DEF IInv
<1> QED BY Inductive, <1>1, PTL

\* m_sockets always agrees with the descriptor table.
THEOREM MapAgrees == Spec => []SocketMap
<1>1. IInv => SocketMap
  BY DEF IInv
<1> QED BY Inductive, <1>1, PTL

----------------------------------------------------------------------------
(* No request is lost.  What a worker holds of a connection is msgs of the  *)
(* one worker that is busy with it; a step moves a request from the buffer  *)
(* to that worker or from the worker to the answers.                        *)

\* What InHand chooses: two busy workers have different connections.
Hands ==
  \A c \in Conns :
    /\ \A w \in Workers : Busy(w) /\ wsock[w] = c => InHand(c) = msgs[w]
    /\ (\A w \in Workers : ~(Busy(w) /\ wsock[w] = c)) => InHand(c) = <<>>

\* A worker's socket is its descriptor's, and nobody else's.
LEMMA Alone ==
  ASSUME IInv, NEW w \in Workers, Busy(w)
  PROVE  /\ wfd[w] \in Fds /\ wsock[w] \in Conns /\ wsock[w] \in heap
         /\ Sock(w) = wsock[w] /\ Sock(w) # NoConn
         /\ \A f \in Fds : open[f] = wsock[w] => f = wfd[w]
         /\ \A v \in Workers : Busy(v) /\ wsock[v] = wsock[w] => v = w
<1>1. wfd[w] \in TaskFds(w) /\ wfd[w] \in UsedFds
  BY DEF TaskFds, WorkFds, IInv, OneOwner
<1>2. /\ wfd[w] \in Fds /\ open[wfd[w]] # NoConn
      /\ wsock[w] \in heap /\ open[wfd[w]] = wsock[w]
  BY <1>1 DEF UsedFds, IInv, NoUseAfterFree
<1>3. \A f \in Fds : open[f] = wsock[w] => f = wfd[w]
  BY <1>2 DEF IInv, SocketMap
<1>4. ASSUME NEW v \in Workers, Busy(v), wsock[v] = wsock[w] PROVE v = w
  <2>1. wfd[v] \in TaskFds(v) /\ wfd[v] \in Fds /\ open[wfd[v]] = wsock[v]
    BY <1>4 DEF TaskFds, WorkFds, IInv, OneOwner, UsedFds, NoUseAfterFree
  <2>2. wfd[v] = wfd[w]
    BY <1>3, <1>4, <2>1
  <2> QED BY <1>1, <2>1, <2>2 DEF IInv, OneOwner
<1> QED BY <1>2, <1>3, <1>4 DEF IInv, TypeOK, Sock

LEMMA HandsOK == IInv => Hands
<1> SUFFICES ASSUME IInv, NEW c \in Conns
             PROVE  /\ \A w \in Workers : Busy(w) /\ wsock[w] = c => InHand(c) = msgs[w]
                    /\ (\A w \in Workers : ~(Busy(w) /\ wsock[w] = c)) => InHand(c) = <<>>
  BY DEF Hands
<1>1. ASSUME NEW w \in Workers, Busy(w), wsock[w] = c PROVE InHand(c) = msgs[w]
  <2>1. \A v \in Workers : Busy(v) /\ wsock[v] = c <=> v = w
    BY <1>1, Alone
  <2>2. (CHOOSE v \in Workers : Busy(v) /\ wsock[v] = c) = w
    BY <2>1
  <2> QED BY <1>1, <2>2 DEF InHand
<1> QED BY <1>1 DEF InHand

LEMMA HandsNext == IInv' => Hands'
BY HandsOK, PTL

\* A connection nobody has made has no traffic.
Blank == \A c \in Conns :
  peer[c] = "new" => sent[c] = 0 /\ replies[c] = <<>> /\ rx[c] = <<>>

AInv == IInv /\ Blank /\ NoRequestLost

LEMMA StreamTypes ==
  ASSUME IInv, Hands, NEW c \in Conns
  PROVE  /\ replies[c] \in Seq(0..MaxReq)
         /\ InHand(c) \in Seq(0..MaxReq)
         /\ rx[c] \in Seq(0..MaxReq)
         /\ (replies[c] \o InHand(c)) \in Seq(0..MaxReq)
         /\ sent[c] \in 0..MaxReq /\ MaxReq \in Nat
<1>1. replies[c] \in Seq(0..MaxReq) /\ rx[c] \in Seq(1..MaxReq) /\ sent[c] \in 0..MaxReq
  BY DEF IInv, TypeOK
<1>2. 1..MaxReq \subseteq 0..MaxReq /\ MaxReq \in Nat
  BY BoundAssumption
<1>3. rx[c] \in Seq(0..MaxReq)
  BY <1>1, <1>2, WiderSeq
<1>4. InHand(c) \in Seq(0..MaxReq)
  <2>1. CASE \E w \in Workers : Busy(w) /\ wsock[w] = c
    BY <2>1 DEF Hands, IInv, TypeOK
  <2>2. CASE \A w \in Workers : ~(Busy(w) /\ wsock[w] = c)
    <3>1. InHand(c) = <<>>
      BY <2>2 DEF Hands
    <3> QED BY <3>1
  <2> QED BY <2>1, <2>2
<1>5. (replies[c] \o InHand(c)) \in Seq(0..MaxReq)
  BY <1>1, <1>4, Concat
<1> QED BY <1>1, <1>2, <1>3, <1>4, <1>5

LEMMA LostInit == Init => AInv
<1> SUFFICES ASSUME Init PROVE AInv
  OBVIOUS
<1>1. IInv
  BY InitOK
<1>2. Blank /\ NoRequestLost
  BY DEF Init, Blank, NoRequestLost
<1> QED BY <1>1, <1>2 DEF AInv

\* Most steps leave the dialogues alone; some end one.
Silent ==
  /\ UNCHANGED <<sent, replies, wpc, wsock, msgs>>
  /\ \A c \in Conns : /\ peer'[c] = "up" => peer[c] = "up" /\ rx'[c] = rx[c]
                      /\ peer'[c] = "new" => peer[c] = "new" /\ rx'[c] = rx[c]

LEMMA SilentSteps ==
  ASSUME IInv,
         \/ \E c \in Conns : Leave(c) \/ Reset(c)
         \/ \E w \in Workers : \/ TakeBatch(w) \/ LookupRace(w)
                               \/ OutOfMemory(w) \/ RecvError(w)
         \/ EpollWait \/ EndAccept \/ AcceptFails \/ UNCHANGED vars
         \/ \E e \in events : CloseConn(e) \/ AddTask(e) \/ BeginAccept(e)
         \/ \E c \in Conns : AcceptConn(c)
  PROVE  Silent
<1> USE DEF IInv, TypeOK, Silent
<1>1. ASSUME NEW c \in Conns, Leave(c) \/ Reset(c) PROVE Silent
  BY <1>1 DEF Leave, Reset, Aborted, workerVars
<1>2. ASSUME NEW w \in Workers, TakeBatch(w) \/ LookupRace(w) \/ OutOfMemory(w) \/ RecvError(w)
      PROVE  Silent
  BY <1>2 DEF TakeBatch, LookupRace, OutOfMemory, RecvError, clientVars, workerVars
<1>3. CASE EpollWait \/ EndAccept \/ AcceptFails
  BY <1>3 DEF EpollWait, EndAccept, AcceptFails, clientVars, workerVars
<1>4. ASSUME NEW e \in events, CloseConn(e) \/ AddTask(e) \/ BeginAccept(e) PROVE Silent
  BY <1>4 DEF CloseConn, AddTask, BeginAccept, clientVars, workerVars
<1>5. ASSUME NEW c \in Conns, AcceptConn(c) PROVE Silent
  BY <1>5 DEF AcceptConn, workerVars
<1>6. CASE UNCHANGED vars
  BY <1>6 DEF vars, clientVars, workerVars
<1> QED BY <1>1, <1>2, <1>3, <1>4, <1>5, <1>6

LEMMA LostSilent == ASSUME AInv, Silent PROVE Blank' /\ NoRequestLost'
<1>1. \A c \in Conns : InHand(c)' = InHand(c)
  BY DEF Silent, InHand, Busy
<1> QED BY <1>1 DEF Silent, AInv, Blank, NoRequestLost

\* The numbers up to n and the next one.
LEMMA Counting ==
  ASSUME NEW n \in Nat
  PROVE  Append([i \in 1..n |-> i], n + 1) = [i \in 1..(n + 1) |-> i]
<1> DEFINE s == [i \in 1..n |-> i]
           t == [i \in 1..(n + 1) |-> i]
<1>1. /\ s \in Seq(Nat) /\ Len(s) = n /\ t \in Seq(Nat) /\ Len(t) = n + 1
      /\ \A i \in 1..n : s[i] = i
      /\ \A i \in 1..(n + 1) : t[i] = i
  OBVIOUS
<1> HIDE DEF s, t
<1>2. /\ Append(s, n + 1) \in Seq(Nat) /\ Len(Append(s, n + 1)) = n + 1
      /\ \A i \in 1..n : Append(s, n + 1)[i] = i
      /\ Append(s, n + 1)[n + 1] = n + 1
  BY <1>1
<1>3. \A i \in 1..(n + 1) : Append(s, n + 1)[i] = t[i]
  BY <1>1, <1>2
<1>4. Append(s, n + 1) = t
  BY <1>1, <1>2, <1>3, SameSeq
<1> QED BY <1>4 DEF s, t

\* A worker that goes on to answer what it has read.
LEMMA LostRecvAgain ==
  ASSUME AInv, NEW w \in Workers, RecvAgain(w) PROVE Blank' /\ NoRequestLost'
<1>1. /\ UNCHANGED <<peer, sent, rx, replies, wsock, msgs>>
      /\ \A v \in Workers : Busy(v)' <=> Busy(v)
  BY DEF RecvAgain, clientVars, AInv, IInv, TypeOK, Busy
<1>2. \A c \in Conns : InHand(c)' = InHand(c)
  BY <1>1 DEF InHand
<1> QED BY <1>1, <1>2 DEF AInv, Blank, NoRequestLost

\* A client connects, or sends its next request.
LEMMA LostConnect ==
  ASSUME AInv, NEW c \in Conns, Connect(c) PROVE Blank' /\ NoRequestLost'
<1>1. /\ peer[c] = "new" /\ peer' = [peer EXCEPT ![c] = "up"]
      /\ UNCHANGED <<sent, rx, replies, wpc, wsock, msgs>>
  BY DEF Connect, workerVars
<1>2. \A d \in Conns : InHand(d)' = InHand(d)
  BY <1>1 DEF InHand, Busy
<1>3. InHand(c) = <<>> /\ sent[c] = 0 /\ replies[c] = <<>> /\ rx[c] = <<>>
  <2>1. c \notin heap
    BY <1>1 DEF AInv, IInv, PeersOK
  <2>2. \A w \in Workers : ~(Busy(w) /\ wsock[w] = c)
    BY <2>1, Alone DEF AInv
  <2> QED BY <1>1, <2>2, HandsOK DEF AInv, Hands, Blank
<1>4. replies[c] \o InHand(c) \o rx[c] = [i \in 1..sent[c] |-> i]
  BY <1>3
<1>5. \A d \in Conns : d # c => peer'[d] = peer[d]
  BY <1>1 DEF AInv, IInv, TypeOK
<1>6. NoRequestLost'
  BY <1>1, <1>2, <1>4, <1>5 DEF AInv, NoRequestLost
<1>7. Blank'
  BY <1>1, <1>5 DEF AInv, IInv, TypeOK, Blank
<1> QED BY <1>6, <1>7

LEMMA LostSend ==
  ASSUME AInv, NEW c \in Conns, SendRequest(c) PROVE Blank' /\ NoRequestLost'
<1>1. /\ peer[c] = "up" /\ sent' = [sent EXCEPT ![c] = sent[c] + 1]
      /\ rx' = [rx EXCEPT ![c] = Append(rx[c], sent[c] + 1)]
      /\ UNCHANGED <<peer, replies, wpc, wsock, msgs>>
      /\ sent[c] + 1 \in 0..MaxReq
  BY BoundAssumption DEF SendRequest, workerVars, AInv, IInv, TypeOK
<1>2. \A d \in Conns : InHand(d)' = InHand(d)
  BY <1>1 DEF InHand, Busy
<1>3. \A d \in Conns : d # c => rx'[d] = rx[d] /\ sent'[d] = sent[d]
  BY <1>1 DEF AInv, IInv, TypeOK
<1>4. rx'[c] = Append(rx[c], sent[c] + 1) /\ sent'[c] = sent[c] + 1
  BY <1>1 DEF AInv, IInv, TypeOK
<1>5. replies[c] \o InHand(c) \o Append(rx[c], sent[c] + 1) = [i \in 1..(sent[c] + 1) |-> i]
  <2> DEFINE s == replies[c] \o InHand(c)
             n == sent[c]
  <2>1. s \in Seq(0..MaxReq) /\ rx[c] \in Seq(0..MaxReq) /\ n \in Nat
    BY StreamTypes, HandsOK DEF AInv
  <2>2. s \o rx[c] = [i \in 1..n |-> i]
    BY <1>1 DEF AInv, NoRequestLost
  <2> HIDE DEF s, n
  <2>3. s \o Append(rx[c], n + 1) = Append(s \o rx[c], n + 1)
    BY <1>1, <2>1, EndGrows DEF n
  <2>4. Append([i \in 1..n |-> i], n + 1) = [i \in 1..(n + 1) |-> i]
    BY <2>1, Counting
  <2> QED BY <2>2, <2>3, <2>4 DEF s, n
<1>6. NoRequestLost'
  BY <1>1, <1>2, <1>3, <1>4, <1>5 DEF AInv, NoRequestLost
<1>7. Blank'
  BY <1>1, <1>3 DEF AInv, Blank
<1> QED BY <1>6, <1>7

\* A task begins with nothing in its hands, and nobody else has anything.
LEMMA LostStartTask ==
  ASSUME AInv, IInv', NEW w \in Workers, StartTask(w) PROVE Blank' /\ NoRequestLost'
<1>1. /\ UNCHANGED <<peer, sent, rx, replies>> /\ ~Busy(w) /\ Busy(w)' /\ msgs'[w] = <<>>
      /\ \A v \in Workers \ {w} : /\ Busy(v)' <=> Busy(v)
                                 /\ wsock'[v] = wsock[v] /\ msgs'[v] = msgs[v]
  BY DEF StartTask, clientVars, AInv, IInv, TypeOK, Busy
<1>2. Hands /\ Hands'
  BY HandsOK, HandsNext DEF AInv
<1>3. wsock'[w] \in Conns /\ \A v \in Workers \ {w} : Busy(v) => wsock[v] # wsock'[w]
  <2>1. wsock'[w] = sockets[Head(batch[w])] /\ wpc[w] = "idle" /\ batch[w] # <<>>
    BY DEF StartTask, AInv, IInv, TypeOK
  <2> DEFINE f == Head(batch[w])
  <2>2. f \in Range(batch[w])
    BY <2>1, TailElems DEF AInv, IInv, TypeOK, OneOwner
  <2>3. f \in TaskFds(w) /\ f \in UsedFds
    BY <2>2 DEF TaskFds, AInv, IInv, OneOwner
  <2> HIDE DEF f
  <2>4. f \in Fds /\ open[f] # NoConn /\ sockets[f] = open[f] /\ open[f] \in Conns
    BY <2>3 DEF UsedFds, AInv, IInv, SocketMap, TypeOK
  <2>5. ASSUME NEW v \in Workers \ {w}, Busy(v), wsock[v] = open[f] PROVE FALSE
    <3>1. wfd[v] = f
      BY <2>4, <2>5, Alone DEF AInv
    <3>2. wfd[v] \in TaskFds(v)
      BY <2>5 DEF TaskFds, WorkFds
    <3> QED BY <2>3, <3>1, <3>2 DEF AInv, IInv, OneOwner
  <2> QED BY <2>1, <2>4, <2>5 DEF f
<1>4. ASSUME NEW c \in Conns PROVE InHand(c)' = InHand(c)
  <2>1. CASE c = wsock'[w]
    <3>1. InHand(c)' = <<>>
      BY <1>1, <1>2, <2>1 DEF Hands
    <3>2. \A v \in Workers : ~(Busy(v) /\ wsock[v] = c)
      BY <1>1, <1>3, <2>1
    <3> QED BY <1>2, <3>1, <3>2 DEF Hands
  <2>2. CASE c # wsock'[w] /\ \E v \in Workers : Busy(v) /\ wsock[v] = c
    <3>1. PICK v \in Workers : Busy(v) /\ wsock[v] = c
      BY <2>2
    <3>2. v # w
      BY <1>1, <3>1
    <3>3. Busy(v)' /\ wsock'[v] = c /\ msgs'[v] = msgs[v]
      BY <1>1, <3>1, <3>2
    <3> QED BY <1>2, <3>1, <3>3 DEF Hands
  <2>3. CASE c # wsock'[w] /\ \A v \in Workers : ~(Busy(v) /\ wsock[v] = c)
    <3>1. \A v \in Workers : ~(Busy(v)' /\ wsock'[v] = c)
      BY <1>1, <2>3
    <3> QED BY <1>2, <2>3, <3>1 DEF Hands
  <2> QED BY <2>1, <2>2, <2>3
<1> QED BY <1>1, <1>4 DEF AInv, Blank, NoRequestLost

\* A task ends with nothing left in its hands.
LEMMA LostRearm ==
  ASSUME AInv, IInv', NEW w \in Workers, Rearm(w) PROVE Blank' /\ NoRequestLost'
<1>1. /\ UNCHANGED <<peer, sent, rx, replies, wsock, msgs>>
      /\ Busy(w) /\ ~Busy(w)' /\ msgs[w] = <<>>
      /\ \A v \in Workers \ {w} : Busy(v)' <=> Busy(v)
  BY DEF Rearm, clientVars, AInv, IInv, TypeOK, Busy
<1>2. Hands /\ Hands'
  BY HandsOK, HandsNext DEF AInv
<1>3. ASSUME NEW c \in Conns PROVE InHand(c)' = InHand(c)
  <2>1. CASE c = wsock[w]
    <3>1. \A v \in Workers : ~(Busy(v)' /\ wsock'[v] = c)
      BY <1>1, <2>1, Alone DEF AInv
    <3> QED BY <1>1, <1>2, <2>1, <3>1 DEF Hands
  <2>2. CASE c # wsock[w] /\ \E v \in Workers : Busy(v) /\ wsock[v] = c
    <3>1. PICK v \in Workers : Busy(v) /\ wsock[v] = c
      BY <2>2
    <3>2. Busy(v)' /\ wsock'[v] = c /\ msgs'[v] = msgs[v]
      BY <1>1, <2>2, <3>1
    <3> QED BY <1>2, <3>1, <3>2 DEF Hands
  <2>3. CASE c # wsock[w] /\ \A v \in Workers : ~(Busy(v) /\ wsock[v] = c)
    <3>1. \A v \in Workers : ~(Busy(v)' /\ wsock'[v] = c)
      BY <1>1, <2>3
    <3> QED BY <1>2, <2>3, <3>1 DEF Hands
  <2> QED BY <2>1, <2>2, <2>3
<1> QED BY <1>1, <1>3 DEF AInv, Blank, NoRequestLost

\* A step of a busy worker changes what it holds of its own connection.
LEMMA OwnHands ==
  ASSUME IInv, IInv', NEW w \in Workers, Busy(w),
         UNCHANGED <<wpc, wsock>>, \A v \in Workers \ {w} : msgs'[v] = msgs[v]
  PROVE  /\ InHand(wsock[w]) = msgs[w]
         /\ \A c \in Conns : InHand(c)' = IF c = wsock[w] THEN msgs'[w] ELSE InHand(c)
<1>1. Hands /\ Hands' /\ wsock[w] \in Conns
  BY HandsOK, HandsNext, Alone
<1>2. \A v \in Workers : Busy(v)' <=> Busy(v)
  BY DEF Busy
<1>3. InHand(wsock[w]) = msgs[w]
  BY <1>1 DEF Hands
<1>4. ASSUME NEW c \in Conns PROVE InHand(c)' = IF c = wsock[w] THEN msgs'[w] ELSE InHand(c)
  <2>1. CASE c = wsock[w]
    BY <1>1, <1>2, <2>1 DEF Hands
  <2>2. CASE c # wsock[w] /\ \E v \in Workers : Busy(v) /\ wsock[v] = c
    <3>1. PICK v \in Workers : Busy(v) /\ wsock[v] = c
      BY <2>2
    <3>2. Busy(v)' /\ wsock'[v] = c /\ msgs'[v] = msgs[v]
      BY <1>2, <2>2, <3>1
    <3> QED BY <1>1, <2>2, <3>1, <3>2 DEF Hands
  <2>3. CASE c # wsock[w] /\ \A v \in Workers : ~(Busy(v) /\ wsock[v] = c)
    <3>1. \A v \in Workers : ~(Busy(v)' /\ wsock'[v] = c)
      BY <1>2, <2>3
    <3> QED BY <1>1, <2>3, <3>1 DEF Hands
  <2> QED BY <2>1, <2>2, <2>3
<1> QED BY <1>3, <1>4

\* A request moves from the receive buffer to the worker.
LEMMA LostRecvRequest ==
  ASSUME AInv, IInv', NEW w \in Workers, RecvRequest(w) PROVE Blank' /\ NoRequestLost'
<1>1. PICK c \in Conns : c = wsock[w] /\ Busy(w) /\ Sock(w) = c /\ c \in heap
  BY Alone DEF AInv, RecvRequest, Busy
<1>2. /\ rx[c] # <<>> /\ rx' = [rx EXCEPT ![c] = Tail(rx[c])]
      /\ msgs' = [msgs EXCEPT ![w] = Append(msgs[w], Head(rx[c]))]
      /\ UNCHANGED <<peer, sent, replies, wpc, wsock>>
  BY <1>1 DEF RecvRequest, AInv, IInv, TypeOK
<1>3. /\ InHand(c) = msgs[w]
      /\ \A d \in Conns : InHand(d)' = IF d = c THEN msgs'[w] ELSE InHand(d)
  BY <1>1, <1>2, OwnHands DEF AInv, IInv, TypeOK
<1>4. InHand(c)' = Append(InHand(c), Head(rx[c])) /\ rx'[c] = Tail(rx[c])
  BY <1>1, <1>2, <1>3 DEF AInv, IInv, TypeOK
<1>5. \A d \in Conns : d # c => InHand(d)' = InHand(d) /\ rx'[d] = rx[d]
  BY <1>1, <1>2, <1>3 DEF AInv, IInv, TypeOK
<1>6. (replies[c] \o Append(InHand(c), Head(rx[c]))) \o Tail(rx[c])
         = replies[c] \o InHand(c) \o rx[c]
  <2> DEFINE a == replies[c]  b == InHand(c)  d == rx[c]
             u == Append(b, Head(d))  v == Tail(d)
  <2>1. a \in Seq(0..MaxReq) /\ b \in Seq(0..MaxReq) /\ d \in Seq(0..MaxReq) /\ d # <<>>
    BY <1>1, <1>2, StreamTypes, HandsOK DEF AInv
  <2> HIDE DEF a, b, d
  <2>2. u \in Seq(0..MaxReq) /\ v \in Seq(0..MaxReq)
    <3>1. Head(d) \in 0..MaxReq /\ Tail(d) \in Seq(0..MaxReq)
      BY <2>1, HeadTail
    <3> QED BY <2>1, <3>1
  <2>3. u \o v = b \o d
    BY <2>1, HeadMoves
  <2> HIDE DEF u, v
  <2>4. a \o (u \o v) = (a \o u) \o v
    BY <2>1, <2>2, Assoc
  <2>5. a \o (b \o d) = (a \o b) \o d
    BY <2>1, Assoc
  <2> QED BY <2>3, <2>4, <2>5 DEF a, b, d, u, v
<1>7. NoRequestLost'
  <2> SUFFICES ASSUME NEW d \in Conns, peer'[d] = "up"
               PROVE  replies'[d] \o InHand(d)' \o rx'[d] = [i \in 1..sent'[d] |-> i]
    BY DEF NoRequestLost
  <2>1. replies[d] \o InHand(d) \o rx[d] = [i \in 1..sent'[d] |-> i] /\ replies'[d] = replies[d]
    BY <1>2 DEF AInv, NoRequestLost
  <2>2. replies'[d] \o InHand(d)' \o rx'[d] = replies[d] \o InHand(d) \o rx[d]
    <3>1. CASE d = c
      BY <1>4, <1>6, <2>1, <3>1
    <3>2. CASE d # c
      BY <1>5, <2>1, <3>2
    <3> QED BY <3>1, <3>2
  <2> QED BY <2>1, <2>2
<1>8. Blank'
  BY <1>1, <1>2, <1>5 DEF AInv, IInv, PeersOK, Blank
<1> QED BY <1>7, <1>8

\* A read at end-of-file adds to a dialogue that is over.
LEMMA LostRecvEof ==
  ASSUME AInv, IInv', NEW w \in Workers, RecvEof(w) PROVE Blank' /\ NoRequestLost'
<1>1. /\ Busy(w) /\ wsock[w] \in Conns /\ Sock(w) = wsock[w]
  BY Alone DEF AInv, RecvEof, Busy
<1>2. /\ peer[wsock[w]] = "fin"
      /\ UNCHANGED <<peer, sent, rx, replies, wpc, wsock>>
      /\ \A v \in Workers \ {w} : msgs'[v] = msgs[v]
  BY <1>1 DEF RecvEof, clientVars, AInv, IInv, TypeOK
<1>3. \A d \in Conns : d # wsock[w] => InHand(d)' = InHand(d)
  BY <1>1, <1>2, OwnHands DEF AInv
<1> QED BY <1>2, <1>3 DEF AInv, Blank, NoRequestLost

\* The oldest request a worker holds becomes the next answer.
LEMMA LostHandle ==
  ASSUME AInv, IInv', NEW w \in Workers, Handle(w) PROVE Blank' /\ NoRequestLost'
<1>1. PICK c \in Conns : c = wsock[w] /\ Busy(w) /\ Sock(w) = c /\ c \in heap
  BY Alone DEF AInv, Handle, Busy
<1>2. /\ msgs[w] # <<>> /\ msgs' = [msgs EXCEPT ![w] = Tail(msgs[w])]
      /\ UNCHANGED <<sent, wpc, wsock>>
  BY DEF Handle, AInv, IInv, TypeOK
<1>3. peer[c] # "new"
  BY <1>1 DEF AInv, IInv, PeersOK
<1>4. \/ /\ peer[c] = "up" /\ replies' = [replies EXCEPT ![c] = Append(replies[c], Head(msgs[w]))]
         /\ UNCHANGED <<peer, rx>>
      \/ /\ peer'[c] = "rst" /\ UNCHANGED replies
         /\ \A d \in Conns : d # c => peer'[d] = peer[d] /\ rx'[d] = rx[d]
  BY <1>1 DEF Handle, Aborted, AInv, IInv, TypeOK
<1>5. /\ InHand(c) = msgs[w]
      /\ \A d \in Conns : InHand(d)' = IF d = c THEN msgs'[w] ELSE InHand(d)
  BY <1>1, <1>2, OwnHands DEF AInv, IInv, TypeOK
<1>6. InHand(c)' = Tail(InHand(c)) /\ \A d \in Conns : d # c => InHand(d)' = InHand(d)
  BY <1>1, <1>2, <1>5 DEF AInv, IInv, TypeOK
<1>7. CASE peer'[c] = "rst" /\ UNCHANGED replies
           /\ \A d \in Conns : d # c => peer'[d] = peer[d] /\ rx'[d] = rx[d]
  BY <1>1, <1>2, <1>6, <1>7 DEF AInv, Blank, NoRequestLost
<1>8. CASE /\ peer[c] = "up" /\ replies' = [replies EXCEPT ![c] = Append(replies[c], Head(msgs[w]))]
           /\ UNCHANGED <<peer, rx>>
  <2>1. /\ replies'[c] = Append(replies[c], Head(InHand(c)))
        /\ \A d \in Conns : d # c => replies'[d] = replies[d]
    BY <1>1, <1>5, <1>8 DEF AInv, IInv, TypeOK
  <2>2. Append(replies[c], Head(InHand(c))) \o Tail(InHand(c)) = replies[c] \o InHand(c)
    <3>1. replies[c] \in Seq(0..MaxReq) /\ InHand(c) \in Seq(0..MaxReq) /\ InHand(c) # <<>>
      BY <1>1, <1>2, <1>5, StreamTypes, HandsOK DEF AInv
    <3> QED BY <3>1, HeadMoves
  <2>3. NoRequestLost'
    <3> SUFFICES ASSUME NEW d \in Conns, peer'[d] = "up"
                 PROVE  replies'[d] \o InHand(d)' \o rx'[d] = [i \in 1..sent'[d] |-> i]
      BY DEF NoRequestLost
    <3>1. replies[d] \o InHand(d) \o rx[d] = [i \in 1..sent'[d] |-> i] /\ rx'[d] = rx[d]
      BY <1>2, <1>8 DEF AInv, NoRequestLost
    <3>2. replies'[d] \o InHand(d)' = replies[d] \o InHand(d)
      <4>1. CASE d = c
        BY <1>6, <2>1, <2>2, <4>1
      <4>2. CASE d # c
        BY <1>6, <2>1, <4>2
      <4> QED BY <4>1, <4>2
    <3> QED BY <3>1, <3>2
  <2>4. Blank'
    BY <1>2, <1>3, <1>8, <2>1 DEF AInv, Blank
  <2> QED BY <2>3, <2>4
<1> QED BY <1>4, <1>7, <1>8

LEMMA LostNext == AInv /\ [Next]_vars => AInv'
<1> SUFFICES ASSUME AInv, [Next]_vars PROVE AInv'
  OBVIOUS
<1>1. IInv /\ IInv'
  BY NextOK DEF AInv
<1>2. Blank' /\ NoRequestLost'
  <2>1. CASE \E c \in Conns : Connect(c) \/ SendRequest(c)
    BY <2>1, LostConnect, LostSend
  <2>2. CASE \E w \in Workers : RecvAgain(w) \/ StartTask(w) \/ Rearm(w)
    BY <1>1, <2>2, LostRecvAgain, LostStartTask, LostRearm
  <2>3. CASE \E w \in Workers : RecvRequest(w) \/ RecvEof(w) \/ Handle(w)
    BY <1>1, <2>3, LostRecvRequest, LostRecvEof, LostHandle
  <2>4. CASE \/ \E c \in Conns : Leave(c) \/ Reset(c)
             \/ \E w \in Workers : \/ TakeBatch(w) \/ LookupRace(w)
                                   \/ OutOfMemory(w) \/ RecvError(w)
             \/ EpollWait \/ EndAccept \/ AcceptFails \/ UNCHANGED vars
             \/ \E e \in events : CloseConn(e) \/ AddTask(e) \/ BeginAccept(e)
             \/ \E c \in Conns : AcceptConn(c)
    <3>1. Silent
      BY <1>1, <2>4, SilentSteps
    <3> QED BY <3>1, LostSilent
  <2> QED BY <2>1, <2>2, <2>3, <2>4 DEF Next, Client, Main, Worker
<1> QED BY <1>1, <1>2 DEF AInv

LEMMA Answering == Spec => []AInv
<1> QED BY LostInit, LostNext, PTL DEF Spec

\* A client that stays gets every answer once and in the order of its
\* requests, whatever threads, descriptors and other clients do.
THEOREM NothingLost == Spec => []NoRequestLost
<1>1. AInv => NoRequestLost
  BY DEF AInv
<1> QED BY Answering, <1>1, PTL

----------------------------------------------------------------------------
(* The reactor implements RequestService.  What the main thread acts on is  *)
(* older than its act: Parting says that it still holds.                    *)

\* A connection whose event says its peer left has lost it for good.
Parting == \A e \in events : e.ev = "rdhup" => Gone(open[e.fd])

SInv == AInv /\ Parting

\* A departing peer's event is about a connection of the table.
LEMMA EventConn ==
  ASSUME IInv, NEW e \in events, e.ev = "rdhup"
  PROVE  /\ e.fd \in Fds /\ e.fd \in EventFds
         /\ open[e.fd] \in Conns /\ open[e.fd] \in heap /\ sockets[e.fd] = open[e.fd]
<1>1. e.fd \in Fds /\ e.fd \in EventFds
  BY FdAssumption DEF IInv, EventsOK, EventFds, TypeOK
<1>2. open[e.fd] # NoConn
  BY <1>1 DEF IInv, OneOwner, UsedFds
<1> QED BY <1>1, <1>2 DEF IInv, TypeOK, SocketMap

\* Nobody comes back.
LEMMA GoneForGood ==
  ASSUME IInv, [Next]_vars, NEW c \in Conns, Gone(c)
  PROVE  Gone(c)'
<1> USE DEF Gone
<1>1. ASSUME NEW d \in Conns, Client(d) PROVE Gone(c)'
  BY <1>1 DEF IInv, TypeOK, Client, Connect, SendRequest, Leave, Reset, Aborted
<1>2. CASE Main
  BY <1>2 DEF Main, EpollWait, EndAccept, AcceptFails, CloseConn, AddTask, BeginAccept,
              AcceptConn, clientVars
<1>3. ASSUME NEW w \in Workers, Worker(w) PROVE Gone(c)'
  BY <1>3 DEF IInv, TypeOK, Worker, TakeBatch, StartTask, LookupRace, RecvRequest, RecvAgain,
              RecvEof, OutOfMemory, RecvError, Handle, Aborted, Rearm, clientVars
<1>4. CASE UNCHANGED vars
  BY <1>4 DEF vars, clientVars
<1> QED BY <1>1, <1>2, <1>3, <1>4 DEF Next

LEMMA PartingNext == ASSUME IInv, Parting, [Next]_vars PROVE Parting'
<1>1. CASE EpollWait
  <2> SUFFICES ASSUME NEW e \in events', e.ev = "rdhup" PROVE Gone(open[e.fd])'
    BY DEF Parting
  <2>1. UNCHANGED <<peer, open>> /\ \E f \in armed : e = EventOf(f)
    BY <1>1 DEF EpollWait, clientVars
  <2> QED BY <2>1 DEF EventOf, Gone
<1>2. ASSUME NEW d \in events, CloseConn(d) PROVE Parting'
  <2> SUFFICES ASSUME NEW e \in events', e.ev = "rdhup" PROVE Gone(open[e.fd])'
    BY DEF Parting
  <2>1. e \in events /\ e # d /\ open' = [open EXCEPT ![d.fd] = NoConn] /\ peer' = peer
    BY <1>2 DEF CloseConn, clientVars
  <2>2. e.fd # d.fd
    BY <2>1 DEF IInv, OneOwner
  <2>3. open'[e.fd] = open[e.fd]
    BY <2>1, <2>2, EventConn DEF IInv, TypeOK
  <2> QED BY <2>1, <2>3 DEF Parting, Gone
<1>3. ASSUME NEW c \in Conns, AcceptConn(c) PROVE Parting'
  <2> SUFFICES ASSUME NEW e \in events', e.ev = "rdhup" PROVE Gone(open[e.fd])'
    BY DEF Parting
  <2>1. PICK f \in Fds : /\ open[f] = NoConn /\ open' = [open EXCEPT ![f] = c]
                         /\ UNCHANGED <<peer, events>>
    BY <1>3 DEF AcceptConn
  <2>2. e.fd \in Fds /\ open[e.fd] # NoConn
    BY <2>1, EventConn, ConnAssumption
  <2>3. open'[e.fd] = open[e.fd]
    BY <2>1, <2>2 DEF IInv, TypeOK
  <2> QED BY <2>1, <2>3 DEF Parting, Gone
<1>4. ASSUME UNCHANGED open, events' \subseteq events PROVE Parting'
  <2> SUFFICES ASSUME NEW e \in events', e.ev = "rdhup" PROVE Gone(open[e.fd])'
    BY DEF Parting
  <2>1. e \in events /\ open[e.fd] \in Conns /\ Gone(open[e.fd])
    BY <1>4, EventConn DEF Parting
  <2>2. \A c \in Conns : Gone(c) => Gone(c)'
    BY GoneForGood
  <2> QED BY <1>4, <2>1, <2>2 DEF Gone
<1>5. CASE \/ \E c \in Conns : Client(c)
           \/ EndAccept \/ AcceptFails
           \/ \E e \in events : AddTask(e) \/ BeginAccept(e)
           \/ \E w \in Workers : Worker(w)
           \/ UNCHANGED vars
  <2>1. UNCHANGED open /\ events' \subseteq events
    BY <1>5 DEF Client, Connect, SendRequest, Leave, Reset, EndAccept, AcceptFails, AddTask,
                BeginAccept, Worker, TakeBatch, StartTask, LookupRace, RecvRequest, RecvAgain,
                RecvEof, OutOfMemory, RecvError, Handle, Rearm, vars, mainVars
  <2> QED BY <1>4, <2>1
<1> QED BY <1>1, <1>2, <1>3, <1>5 DEF Next, Main

LEMMA Serving == Spec => []SInv
<1>1. Init => SInv
  BY LostInit DEF SInv, Parting, Init
<1>2. SInv /\ [Next]_vars => SInv'
  BY LostNext, PartingNext DEF SInv, AInv
<1> QED BY <1>1, <1>2, PTL DEF Spec

\* A step that accepts, answers and drops nobody is none of the service's.
LEMMA Unseen ==
  ASSUME UNCHANGED <<sent, replies, heap, backlog>>,
         \A c \in Conns : /\ peer'[c] = "up" <=> peer[c] = "up"
                          /\ peer'[c] = "new" <=> peer[c] = "new"
  PROVE  UNCHANGED Service!vars
<1>1. \A c \in Conns : Place(c)' = Place(c)
  BY DEF Place
<1> QED BY <1>1 DEF Service!vars

LEMMA UnseenSteps ==
  ASSUME IInv,
         \/ EpollWait \/ EndAccept \/ AcceptFails \/ UNCHANGED vars
         \/ \E e \in events : AddTask(e) \/ BeginAccept(e)
         \/ \E w \in Workers : \/ TakeBatch(w) \/ StartTask(w) \/ LookupRace(w)
                               \/ RecvRequest(w) \/ RecvAgain(w) \/ RecvEof(w)
                               \/ OutOfMemory(w) \/ RecvError(w) \/ Rearm(w)
  PROVE  UNCHANGED <<peer, sent, replies, heap, backlog>>
BY DEF EpollWait, EndAccept, AcceptFails, AddTask, BeginAccept, TakeBatch, StartTask,
       LookupRace, RecvRequest, RecvAgain, RecvEof, OutOfMemory, RecvError, Rearm, vars,
       clientVars, mainVars

\* Steps of the clients.
LEMMA ClientServed ==
  ASSUME SInv, NEW c \in Conns, Client(c)
  PROVE  [Service!Next]_Service!vars
<1> USE DEF Service!Next, SInv, AInv, IInv, TypeOK
<1>1. CASE Connect(c)
  <2>1. /\ peer[c] = "new" /\ peer' = [peer EXCEPT ![c] = "up"]
        /\ backlog' = backlog \cup {c} /\ UNCHANGED <<heap, sent, replies>>
    BY <1>1 DEF Connect, mainVars
  <2>2. Place(c) = "none" /\ Place(c)' = "waiting"
    BY <2>1 DEF Place, PeersOK
  <2>3. \A d \in Conns : d # c => Place(d)' = Place(d)
    BY <2>1 DEF Place
  <2>4. Service!Connect(c)
    BY <2>1, <2>2, <2>3 DEF Service!Connect
  <2> QED BY <2>4
<1>2. CASE SendRequest(c)
  <2>1. /\ peer[c] = "up" /\ sent' = [sent EXCEPT ![c] = sent[c] + 1]
        /\ UNCHANGED <<peer, heap, backlog, replies>>
    BY <1>2 DEF SendRequest, mainVars
  <2>2. \A d \in Conns : Place(d)' = Place(d)
    BY <2>1 DEF Place
  <2>3. Service!Ask(c)
    BY <2>1, <2>2 DEF Service!Ask
  <2> QED BY <2>3
<1>3. CASE Leave(c) \/ Reset(c)
  <2>1. /\ peer[c] = "up" /\ peer'[c] \in {"fin", "rst"}
        /\ \A d \in Conns : d # c => peer'[d] = peer[d]
        /\ UNCHANGED <<sent, heap, backlog, replies>>
    BY <1>3 DEF Leave, Reset, Aborted, mainVars
  <2>2. \A d \in Conns : Place(d)' = Place(d)
    BY <2>1 DEF Place
  <2>3. Service!Quit(c)
    BY <2>1, <2>2 DEF Service!Quit
  <2> QED BY <2>3
<1> QED BY <1>1, <1>2, <1>3 DEF Client

LEMMA AcceptServed ==
  ASSUME SInv, NEW c \in Conns, AcceptConn(c)
  PROVE  Service!Serve(c)
<1>1. /\ c \in backlog /\ heap' = heap \cup {c} /\ backlog' = backlog \ {c}
      /\ UNCHANGED <<peer, sent, replies>>
  BY DEF AcceptConn
<1>2. Place(c) = "waiting" /\ Place(c)' = "served"
  BY <1>1 DEF Place
<1>3. \A d \in Conns : d # c => Place(d)' = Place(d)
  BY <1>1 DEF Place
<1> QED BY <1>1, <1>2, <1>3 DEF Service!Serve

\* Only a connection whose client left is closed, and its own TcpSocket with it.
LEMMA CloseServed ==
  ASSUME SInv, NEW e \in events, CloseConn(e)
  PROVE  \E c \in Conns : Service!Drop(c)
<1>1. PICK c \in Conns : c = open[e.fd] /\ c \in heap /\ sockets[e.fd] = c /\ Gone(c)
  BY EventConn DEF CloseConn, SInv, AInv, Parting
<1>2. heap' = heap \ {c} /\ UNCHANGED <<peer, sent, replies, backlog>>
  BY <1>1 DEF CloseConn, clientVars
<1>3. c \notin backlog
  BY <1>1 DEF SInv, AInv, IInv, SocketMap
<1>4. Place(c) = "served" /\ Place(c)' = "dropped"
  BY <1>1, <1>2, <1>3 DEF Place, Gone
<1>5. \A d \in Conns : d # c => Place(d)' = Place(d)
  BY <1>2 DEF Place
<1>6. Service!Drop(c)
  BY <1>1, <1>2, <1>4, <1>5 DEF Service!Drop, Gone
<1> QED BY <1>6

\* An answer is the next one its client waits for.
LEMMA HandleServed ==
  ASSUME SInv, NEW w \in Workers, Handle(w)
  PROVE  [Service!Next]_Service!vars
<1>1. PICK c \in Conns : c = wsock[w] /\ Busy(w) /\ Sock(w) = c /\ c \in heap
  BY Alone DEF SInv, AInv, Handle, Busy
<1>2. msgs[w] # <<>> /\ UNCHANGED <<sent, heap, backlog>> /\ c \notin backlog
  BY <1>1 DEF Handle, mainVars, SInv, AInv, IInv, SocketMap
<1>3. CASE peer[c] = "up" /\ replies' = [replies EXCEPT ![c] = Append(replies[c], Head(msgs[w]))]
           /\ UNCHANGED peer
  <2>1. InHand(c) = msgs[w]
    BY <1>1, HandsOK DEF SInv, AInv, Hands
  <2>2. replies[c] \o msgs[w] \o rx[c] = [i \in 1..sent[c] |-> i]
    BY <1>3, <2>1 DEF SInv, AInv, NoRequestLost
  <2>3. /\ replies[c] \in Seq(0..MaxReq) /\ msgs[w] \in Seq(0..MaxReq)
        /\ rx[c] \in Seq(0..MaxReq) /\ sent[c] \in Nat
    BY <2>1, StreamTypes, HandsOK DEF SInv, AInv
  <2>4. Head(msgs[w]) = Len(replies[c]) + 1 /\ Len(replies[c]) < sent[c]
    BY <1>2, <2>2, <2>3, NextDue
  <2>5. \A d \in Conns : Place(d)' = Place(d)
    BY <1>2, <1>3 DEF Place
  <2>6. Place(c) = "served"
    BY <1>1, <1>2 DEF Place
  <2>7. replies' = [replies EXCEPT ![c] = Append(replies[c], Len(replies[c]) + 1)]
    BY <1>3, <2>4
  <2>8. Service!Answer(c)
    BY <1>2, <1>3, <2>4, <2>5, <2>6, <2>7 DEF Service!Answer
  <2> QED BY <2>8 DEF Service!Next
<1>4. CASE /\ peer[c] \in {"fin", "rst"} /\ peer'[c] \in {"fin", "rst"}
           /\ \A d \in Conns : d # c => peer'[d] = peer[d]
           /\ UNCHANGED replies
  BY <1>2, <1>4, Unseen
<1>5. \/ /\ peer[c] = "up" /\ UNCHANGED peer
         /\ replies' = [replies EXCEPT ![c] = Append(replies[c], Head(msgs[w]))]
      \/ /\ peer[c] \in {"fin", "rst"} /\ peer'[c] \in {"fin", "rst"}
         /\ \A d \in Conns : d # c => peer'[d] = peer[d]
         /\ UNCHANGED replies
  BY <1>1 DEF Handle, Aborted, SInv, AInv, IInv, TypeOK
<1> QED BY <1>3, <1>4, <1>5

\* Whatever threads and descriptors serve it, a client's connection is taken
\* up once, answered in order and not dropped while the client is there.
THEOREM ServiceKept == Spec => KeepsService
<1>1. Init => Service!Init
  BY DEF Init, Service!Init, Place
<1>2. SInv /\ [Next]_vars => [Service!Next]_Service!vars
  <2> SUFFICES ASSUME SInv, [Next]_vars PROVE [Service!Next]_Service!vars
    OBVIOUS
  <2>1. CASE \E c \in Conns : Client(c)
    BY <2>1, ClientServed
  <2>2. CASE \/ \E c \in Conns : AcceptConn(c)
             \/ \E e \in events : CloseConn(e)
    <3>1. \E c \in Conns : Service!Serve(c) \/ Service!Drop(c)
      BY <2>2, AcceptServed, CloseServed
    <3> QED BY <3>1 DEF Service!Next
  <2>3. CASE \E w \in Workers : Handle(w)
    BY <2>3, HandleServed
  <2>4. CASE \/ EpollWait \/ EndAccept \/ AcceptFails \/ UNCHANGED vars
             \/ \E e \in events : AddTask(e) \/ BeginAccept(e)
             \/ \E w \in Workers : \/ TakeBatch(w) \/ StartTask(w) \/ LookupRace(w)
                                   \/ RecvRequest(w) \/ RecvAgain(w) \/ RecvEof(w)
                                   \/ OutOfMemory(w) \/ RecvError(w) \/ Rearm(w)
    <3>1. UNCHANGED <<peer, sent, replies, heap, backlog>>
      BY <2>4, UnseenSteps DEF SInv, AInv
    <3>2. UNCHANGED Service!vars
      BY <3>1, Unseen
    <3> QED BY <3>2
  <2> QED BY <2>1, <2>2, <2>3, <2>4 DEF Next, Main, Worker
<1> QED BY <1>1, <1>2, Serving, PTL DEF Spec, KeepsService, Service!Spec

----------------------------------------------------------------------------
(* Patient clients.  Whatever summons a worker to a descriptor (an event, a *)
(* queued task, a task in a batch, a read under way) is about a client that *)
(* waits for an answer, so it is there and has sent one request.            *)

Asking   == {e.fd : e \in {d \in events : d.ev = "in"}} \ {Lfd}
Batched  == UNION {Range(batch[w]) : w \in Workers}
Reading  == {wfd[w] : w \in {v \in Workers : wpc[v] = "recv"}}
Summoned == Asking \cup QueueFds \cup Batched \cup Reading

Owed(c) == peer[c] = "up" /\ Len(replies[c]) < sent[c]

Modest == \A c \in Conns : peer[c] = "up" => sent[c] <= Len(replies[c]) + 1
Called == \A f \in Summoned : Owed(open[f])
Heard  == \A w \in Workers : wpc[w] = "handle" /\ msgs[w] # <<>> => peer[wsock[w]] = "up"

IdleEmpty == \A w \in Workers : wpc[w] = "idle" => msgs[w] = <<>>

CInv == SInv /\ IdleEmpty /\ Modest /\ Called /\ Heard

\* Every summoned descriptor is in use.
LEMMA SummonedUsed == ASSUME IInv PROVE Summoned \subseteq UsedFds
<1>1. Asking \subseteq EventFds
  BY DEF Asking, EventFds
<1>2. Batched \subseteq UNION {TaskFds(w) : w \in Workers}
  BY DEF Batched, TaskFds
<1>3. Reading \subseteq UNION {TaskFds(w) : w \in Workers}
  BY DEF Reading, TaskFds, WorkFds, Busy
<1> QED BY <1>1, <1>2, <1>3 DEF Summoned, IInv, OneOwner

\* What is answered, in hand and unread add up to what was sent.
LEMMA Lengths ==
  ASSUME AInv, NEW c \in Conns, peer[c] = "up"
  PROVE  /\ Len(replies[c]) \in Nat /\ Len(InHand(c)) \in Nat /\ Len(rx[c]) \in Nat
         /\ Len(replies[c]) + Len(InHand(c)) + Len(rx[c]) = sent[c]
<1> DEFINE a == replies[c]  b == InHand(c)  d == rx[c]  n == sent[c]
<1>1. /\ a \in Seq(0..MaxReq) /\ b \in Seq(0..MaxReq) /\ d \in Seq(0..MaxReq) /\ n \in Nat
      /\ a \o b \in Seq(0..MaxReq)
  BY StreamTypes, HandsOK DEF AInv
<1>2. a \o b \o d = [i \in 1..n |-> i]
  BY DEF AInv, NoRequestLost
<1> HIDE DEF a, b, d, n
<1>3. /\ Len(a \o b) = Len(a) + Len(b) /\ Len(a \o b \o d) = Len(a \o b) + Len(d)
      /\ Len(a) \in Nat /\ Len(b) \in Nat /\ Len(d) \in Nat
  BY <1>1
<1>4. Len([i \in 1..n |-> i]) = n
  BY <1>1
<1> QED BY <1>2, <1>3, <1>4 DEF a, b, d, n

\* A step that summons nobody new keeps Called if those owed an answer still
\* are.
LEMMA StillCalled ==
  ASSUME IInv, Called, Summoned' \subseteq Summoned,
         \A f \in Summoned' : open'[f] = open[f],
         \A c \in Conns : Owed(c) => Owed(c)'
  PROVE  Called'
<1>1. \A f \in Summoned' : open[f] \in Conns /\ Owed(open[f])
  BY SummonedUsed DEF Called, UsedFds, IInv, TypeOK
<1> QED BY <1>1 DEF Called, Owed

\* Clients that wait for each answer before they send or leave.
LEMMA PatientClient ==
  ASSUME CInv, ~Impatient, NEW c \in Conns, Client(c)
  PROVE  IdleEmpty' /\ Modest' /\ Called' /\ Heard'
<1>0. IInv /\ AInv /\ IdleEmpty /\ Modest /\ Called /\ Heard
  BY DEF CInv, SInv, AInv
<1>1. /\ UNCHANGED <<replies, open, events, taskq, batch, wpc, wfd, wsock, msgs>>
      /\ \A d \in Conns : d # c => peer'[d] = peer[d] /\ sent'[d] = sent[d]
  BY <1>0 DEF Client, Connect, SendRequest, Leave, Reset, Aborted, mainVars, workerVars,
              IInv, TypeOK
<1>2. Summoned' = Summoned /\ IdleEmpty'
  BY <1>0, <1>1 DEF Summoned, Asking, QueueFds, Batched, Reading, IdleEmpty
<1>a. Hands /\ \A w \in Workers : wpc[w] = "handle" => Busy(w) /\ wsock[w] \in Conns
  BY <1>0, HandsOK, Alone DEF Busy
<1>3. CASE Connect(c)
  <2>1. /\ peer[c] = "new" /\ sent'[c] = 0 /\ replies[c] = <<>>
    BY <1>0, <1>3 DEF Connect, AInv, Blank
  <2>2. Modest'
    BY <1>0, <1>1, <2>1 DEF Modest
  <2>3. \A d \in Conns : Owed(d) => Owed(d)'
    BY <1>1, <2>1 DEF Owed
  <2>4. Called'
    BY <1>0, <1>1, <1>2, <2>3, StillCalled
  <2>5. Heard'
    BY <1>0, <1>1, <1>a, <2>1 DEF Heard
  <2> QED BY <1>2, <2>2, <2>4, <2>5
<1>4. CASE SendRequest(c)
  <2>1. /\ peer' = peer /\ sent'[c] = sent[c] + 1 /\ Len(replies[c]) = sent[c]
        /\ sent[c] \in Nat
    BY <1>0, <1>4 DEF SendRequest, Answered, IInv, TypeOK
  <2>2. Modest'
    BY <1>0, <1>1, <2>1 DEF Modest
  <2>3. \A d \in Conns : Owed(d) => Owed(d)'
    BY <1>1, <2>1 DEF Owed
  <2>4. Called'
    BY <1>0, <1>1, <1>2, <2>3, StillCalled
  <2>5. Heard'
    BY <1>0, <1>1, <1>a, <2>1 DEF Heard
  <2> QED BY <1>2, <2>2, <2>4, <2>5
<1>5. CASE Leave(c)
  <2>1. /\ peer[c] = "up" /\ peer'[c] = "fin" /\ sent' = sent /\ Len(replies[c]) = sent[c]
        /\ sent[c] \in Nat
    BY <1>0, <1>5 DEF Leave, Answered, IInv, TypeOK
  <2>2. Modest'
    BY <1>0, <1>1, <2>1 DEF Modest
  <2>3. \A d \in Conns : Owed(d) => Owed(d)'
    BY <1>1, <2>1 DEF Owed
  <2>4. Called'
    BY <1>0, <1>1, <1>2, <2>3, StillCalled
  <2>5. Heard'
    <3> SUFFICES ASSUME NEW w \in Workers, wpc[w] = "handle", msgs[w] # <<>>
                 PROVE  peer'[wsock[w]] = "up"
      BY <1>1 DEF Heard
    <3>1. Busy(w) /\ wsock[w] \in Conns
      BY <1>a
    <3>2. CASE wsock[w] = c
      <4>1. InHand(c) = msgs[w]
        BY <1>a, <3>1, <3>2 DEF Hands
      <4>2. /\ Len(replies[c]) \in Nat /\ Len(InHand(c)) \in Nat /\ Len(rx[c]) \in Nat
            /\ Len(replies[c]) + Len(InHand(c)) + Len(rx[c]) = sent[c]
        BY <1>0, <2>1, Lengths
      <4>3. msgs[w] \in Seq(0..MaxReq)
        BY <1>0 DEF IInv, TypeOK
      <4>4. Len(InHand(c)) = 0
        BY <2>1, <4>2
      <4> QED BY <4>1, <4>3, <4>4
    <3> QED BY <1>0, <1>1, <3>1, <3>2 DEF Heard
  <2> QED BY <1>2, <2>2, <2>4, <2>5
<1> QED BY <1>3, <1>4, <1>5 DEF Client, Reset

\* Steps that answer nobody: who is owed an answer stays the same.
LEMMA PatientMove ==
  ASSUME CInv, ~Impatient, UNCHANGED <<peer, sent, replies>>, Called',
         \A w \in Workers : /\ wpc'[w] = "idle" => msgs'[w] = <<>>
                            /\ wpc'[w] = "handle" /\ msgs'[w] # <<>> =>
                                 peer[wsock'[w]] = "up"
  PROVE  IdleEmpty' /\ Modest' /\ Called' /\ Heard'
BY DEF CInv, Modest, IdleEmpty, Heard

\* The main thread: epoll_wait finds a client waiting behind every "in" event.
LEMMA EpollCalled == ASSUME CInv, ~Impatient, EpollWait PROVE Called'
<1>0. IInv /\ AInv /\ Called
  BY DEF CInv, SInv, AInv
<1>1. /\ UNCHANGED <<peer, sent, rx, replies, open, taskq, batch, wpc, wfd>>
      /\ \A e \in events' : e.fd = Lfd \/ \E f \in armed : Readable(f) /\ e = EventOf(f)
  BY DEF EpollWait, clientVars, workerVars
<1>2. QueueFds' = QueueFds /\ Batched' = Batched /\ Reading' = Reading
  BY <1>1 DEF QueueFds, Batched, Reading
<1>3. ASSUME NEW f \in Asking' PROVE Owed(open[f])
  <2>1. f \in armed /\ Readable(f) /\ ~Gone(open[f])
    BY <1>1, <1>3 DEF Asking, EventOf
  <2>2. f \in UsedFds
    BY <1>0, <2>1 DEF IInv, OneOwner
  <2> DEFINE c == open[f]
  <2>3. c \in Conns /\ c \in heap
    BY <1>0, <2>2 DEF UsedFds, IInv, TypeOK, SocketMap
  <2>4. peer[c] = "up" /\ rx[c] # <<>> /\ rx[c] \in Seq(1..MaxReq)
    BY <1>0, <2>1, <2>3 DEF Readable, Gone, IInv, PeersOK, TypeOK
  <2> HIDE DEF c
  <2>5. /\ Len(replies[c]) \in Nat /\ Len(InHand(c)) \in Nat /\ Len(rx[c]) \in Nat
        /\ Len(replies[c]) + Len(InHand(c)) + Len(rx[c]) = sent[c]
    BY <1>0, <2>3, <2>4, Lengths
  <2>6. Len(rx[c]) # 0
    BY <2>4
  <2>7. Len(replies[c]) < sent[c]
    <3> DEFINE a == Len(replies[c])  b == Len(InHand(c))  d == Len(rx[c])  n == sent[c]
    <3>1. a \in Nat /\ b \in Nat /\ d \in Nat /\ d # 0 /\ a + b + d = n
      BY <2>5, <2>6
    <3> HIDE DEF a, b, d, n
    <3>2. a < n
      BY <3>1
    <3> QED BY <3>2 DEF a, n
  <2>8. Owed(c)
    BY <2>4, <2>7 DEF Owed
  <2> QED BY <2>8 DEF c
<1>4. \A f \in Summoned' : Owed(open[f])
  BY <1>0, <1>2, <1>3 DEF Summoned, Called
<1> QED BY <1>1, <1>4 DEF Called, Owed

LEMMA CloseCalled ==
  ASSUME CInv, ~Impatient, NEW e \in events, CloseConn(e) PROVE Called'
<1>0. IInv /\ Called
  BY DEF CInv, SInv, AInv
<1>1. /\ open' = [open EXCEPT ![e.fd] = NoConn] /\ events' = events \ {e}
      /\ UNCHANGED <<peer, sent, replies, taskq, batch, wpc, wfd>>
  BY DEF CloseConn, clientVars, workerVars
<1>2. e.fd \in EventFds /\ e.fd \notin QueueFds /\ \A w \in Workers : e.fd \notin TaskFds(w)
  BY <1>0, EventConn DEF CloseConn, IInv, OneOwner
<1>3. e.fd \notin Asking'
  BY <1>0, <1>1 DEF Asking, IInv, OneOwner
<1>4. e.fd \notin Summoned' /\ Summoned' \subseteq Summoned
  BY <1>1, <1>2, <1>3 DEF Summoned, Asking, QueueFds, Batched, Reading, TaskFds, WorkFds, Busy
<1>5. \A f \in Summoned' : open'[f] = open[f]
  BY <1>0, <1>1, <1>4, SummonedUsed DEF IInv, TypeOK, UsedFds
<1> QED BY <1>0, <1>1, <1>4, <1>5, StillCalled DEF Owed

\* A queued task takes over its event's summons, a batch its tasks', and a
\* worker the task's.
LEMMA MovedCalled ==
  ASSUME CInv, ~Impatient,
         \/ \E e \in events : AddTask(e) \/ BeginAccept(e)
         \/ \E w \in Workers : \/ TakeBatch(w) \/ StartTask(w) \/ RecvRequest(w)
                               \/ RecvAgain(w) \/ RecvEof(w) \/ Rearm(w)
                               \/ LookupRace(w) \/ OutOfMemory(w) \/ RecvError(w)
         \/ EndAccept \/ AcceptFails \/ UNCHANGED vars
  PROVE  Called'
<1>0. IInv /\ Called
  BY DEF CInv, SInv, AInv
<1>1. UNCHANGED <<peer, sent, replies, open>>
  BY DEF AddTask, BeginAccept, TakeBatch, StartTask, RecvRequest, RecvAgain, RecvEof, Rearm,
         LookupRace, OutOfMemory, RecvError, EndAccept, AcceptFails, vars, clientVars, mainVars
<1>2. Summoned' \subseteq Summoned
  <2>1. ASSUME NEW e \in events, AddTask(e) PROVE Summoned' \subseteq Summoned
    <3>1. /\ events' = events \ {e} /\ taskq' = Append(taskq, e.fd) /\ e.fd \in Asking
          /\ UNCHANGED <<batch, wpc, wfd>>
      BY <2>1 DEF AddTask, Asking, workerVars
    <3>2. e.fd \in Fds /\ e.fd \notin Range(taskq)
      BY <1>0, <2>1 DEF AddTask, EventFds, QueueFds, IInv, OneOwner, TypeOK
    <3>3. taskq \in Seq(Fds) /\ IsInjective(taskq)
      BY <1>0 DEF IInv, OneOwner, TypeOK
    <3>4. QueueFds' \subseteq QueueFds \cup {e.fd}
      BY <3>1, <3>2, <3>3, AppendElems DEF QueueFds
    <3>5. Asking' \subseteq Asking /\ Batched' = Batched /\ Reading' = Reading
      BY <3>1 DEF Asking, Batched, Reading
    <3> QED BY <3>1, <3>4, <3>5 DEF Summoned
  <2>2. ASSUME NEW w \in Workers, TakeBatch(w) PROVE Summoned' \subseteq Summoned
    <3>1. /\ batch' = [batch EXCEPT ![w] = taskq] /\ taskq' = <<>>
          /\ UNCHANGED <<events, wpc, wfd>>
      BY <2>2 DEF TakeBatch, mainVars
    <3>2. QueueFds' = {}
      BY <3>1, EmptyElems DEF QueueFds
    <3>3. Batched' \subseteq Batched \cup QueueFds
      BY <1>0, <3>1 DEF Batched, QueueFds, IInv, TypeOK
    <3>4. Asking' = Asking /\ Reading' = Reading
      BY <3>1 DEF Asking, Reading
    <3> QED BY <3>2, <3>3, <3>4 DEF Summoned
  <2>3. ASSUME NEW w \in Workers, StartTask(w) PROVE Summoned' \subseteq Summoned
    <3>1. /\ batch[w] # <<>> /\ batch' = [batch EXCEPT ![w] = Tail(batch[w])]
          /\ wfd' = [wfd EXCEPT ![w] = Head(batch[w])]
          /\ wpc' = [wpc EXCEPT ![w] = "recv"]
          /\ UNCHANGED <<events, taskq>>
      BY <2>3 DEF StartTask, mainVars
    <3>2. /\ Head(batch[w]) \in Range(batch[w]) /\ Range(Tail(batch[w])) \subseteq Range(batch[w])
      BY <1>0, <3>1, TailElems DEF IInv, TypeOK, OneOwner
    <3>3. Batched' \subseteq Batched
      BY <1>0, <3>1, <3>2 DEF Batched, IInv, TypeOK
    <3>4. Reading' \subseteq Reading \cup Batched
      BY <1>0, <3>1, <3>2 DEF Reading, Batched, IInv, TypeOK
    <3>5. Asking' = Asking /\ QueueFds' = QueueFds
      BY <3>1 DEF Asking, QueueFds
    <3> QED BY <3>3, <3>4, <3>5 DEF Summoned
  <2>4. ASSUME UNCHANGED <<taskq, batch, wfd>>, events' \subseteq events,
               \A v \in Workers : wpc'[v] = "recv" => wpc[v] = "recv"
        PROVE  Summoned' \subseteq Summoned
    BY <2>4 DEF Summoned, Asking, QueueFds, Batched, Reading
  <2>5. CASE \/ \E e \in events : BeginAccept(e)
             \/ \E w \in Workers : \/ RecvRequest(w) \/ RecvAgain(w) \/ RecvEof(w) \/ Rearm(w)
                                   \/ LookupRace(w) \/ OutOfMemory(w) \/ RecvError(w)
             \/ EndAccept \/ AcceptFails \/ UNCHANGED vars
    <3>1. /\ UNCHANGED <<taskq, batch, wfd>> /\ events' \subseteq events
          /\ \A v \in Workers : wpc'[v] = "recv" => wpc[v] = "recv"
      BY <1>0, <2>5 DEF IInv, TypeOK, BeginAccept, RecvRequest, RecvAgain, RecvEof, Rearm,
                        LookupRace, OutOfMemory, RecvError, EndAccept, AcceptFails, vars,
                        mainVars, workerVars
    <3> QED BY <2>4, <3>1
  <2> QED BY <2>1, <2>2, <2>3, <2>5
<1>3. \A f \in Summoned' : open'[f] = open[f]
  BY <1>1
<1>4. \A c \in Conns : Owed(c) => Owed(c)'
  BY <1>1 DEF Owed
<1> QED BY <1>0, <1>2, <1>3, <1>4, StillCalled

\* Steps that only pass a summons on.
LEMMA PatientSteps ==
  ASSUME CInv, ~Impatient,
         \/ EpollWait
         \/ \E e \in events : CloseConn(e) \/ AddTask(e) \/ BeginAccept(e)
         \/ \E w \in Workers : \/ TakeBatch(w) \/ StartTask(w) \/ RecvRequest(w)
                               \/ RecvAgain(w) \/ RecvEof(w) \/ Rearm(w)
                               \/ LookupRace(w) \/ OutOfMemory(w) \/ RecvError(w)
         \/ EndAccept \/ AcceptFails \/ UNCHANGED vars
  PROVE  IdleEmpty' /\ Modest' /\ Called' /\ Heard'
<1>0. IInv /\ IdleEmpty /\ Heard
  BY DEF CInv, SInv, AInv
<1>1. Called'
  BY EpollCalled, CloseCalled, MovedCalled
<1>2. UNCHANGED <<peer, sent, replies>>
  BY DEF EpollWait, CloseConn, AddTask, BeginAccept, TakeBatch, StartTask, RecvRequest,
         RecvAgain, RecvEof, Rearm, LookupRace, OutOfMemory, RecvError, EndAccept,
         AcceptFails, vars, clientVars
<1>3. ASSUME NEW w \in Workers
      PROVE  /\ wpc'[w] = "idle" => msgs'[w] = <<>>
             /\ wpc'[w] = "handle" /\ msgs'[w] # <<>> => peer[wsock'[w]] = "up"
  <2>1. CASE UNCHANGED <<wpc, msgs, wsock>>
    BY <1>0, <2>1 DEF IdleEmpty, Heard
  <2>2. CASE RecvAgain(w)
    <3>1. peer[wsock[w]] = "up"
      BY <1>0, <2>2, Alone DEF RecvAgain, Busy
    <3> QED BY <1>0, <2>2, <3>1 DEF RecvAgain, IInv, TypeOK
  <2>3. CASE Rearm(w) \/ StartTask(w) \/ RecvRequest(w) \/ RecvEof(w)
    BY <1>0, <2>3 DEF Rearm, StartTask, RecvRequest, RecvEof, IInv, TypeOK
  <2>4. ASSUME NEW v \in Workers, v # w,
               Rearm(v) \/ StartTask(v) \/ RecvRequest(v) \/ RecvEof(v) \/ RecvAgain(v)
        PROVE  wpc'[w] = wpc[w] /\ msgs'[w] = msgs[w] /\ wsock'[w] = wsock[w]
    BY <1>0, <2>4 DEF Rearm, StartTask, RecvRequest, RecvEof, RecvAgain, IInv, TypeOK
  <2>5. CASE \/ EpollWait
             \/ \E e \in events : CloseConn(e) \/ AddTask(e) \/ BeginAccept(e)
             \/ \E v \in Workers : \/ TakeBatch(v) \/ LookupRace(v) \/ OutOfMemory(v)
                                   \/ RecvError(v)
             \/ EndAccept \/ AcceptFails \/ UNCHANGED vars
    BY <2>1, <2>5 DEF EpollWait, CloseConn, AddTask, BeginAccept, TakeBatch, LookupRace,
                      OutOfMemory, RecvError, EndAccept, AcceptFails, vars, workerVars
  <2>6. CASE \E v \in Workers : \/ Rearm(v) \/ StartTask(v) \/ RecvRequest(v) \/ RecvEof(v)
                                \/ RecvAgain(v)
    <3>1. CASE \E v \in Workers \ {w} : \/ Rearm(v) \/ StartTask(v) \/ RecvRequest(v)
                                        \/ RecvEof(v) \/ RecvAgain(v)
      <4>1. wpc'[w] = wpc[w] /\ msgs'[w] = msgs[w] /\ wsock'[w] = wsock[w]
        BY <2>4, <3>1
      <4> QED BY <1>0, <4>1 DEF IdleEmpty, Heard
    <3> QED BY <2>2, <2>3, <2>6, <3>1
  <2> QED BY <2>5, <2>6
<1> QED BY <1>1, <1>2, <1>3, PatientMove

\* An accepted connection's descriptor was free, so nobody was summoned to it.
LEMMA PatientAccept ==
  ASSUME CInv, ~Impatient, NEW c \in Conns, AcceptConn(c)
  PROVE  IdleEmpty' /\ Modest' /\ Called' /\ Heard'
<1>0. IInv /\ IdleEmpty /\ Heard /\ Called
  BY DEF CInv, SInv, AInv
<1>1. PICK f \in Fds : open[f] = NoConn /\ open' = [open EXCEPT ![f] = c]
  BY DEF AcceptConn
<1>2. UNCHANGED <<peer, sent, replies, events, taskq, batch, wpc, wfd, wsock, msgs>>
  BY DEF AcceptConn, workerVars
<1>3. Summoned' = Summoned
  BY <1>2 DEF Summoned, Asking, QueueFds, Batched, Reading
<1>4. \A g \in Summoned' : open'[g] = open[g]
  BY <1>0, <1>1, <1>3, SummonedUsed DEF UsedFds, IInv, TypeOK
<1>5. Called'
  BY <1>0, <1>2, <1>3, <1>4, StillCalled DEF Owed
<1> QED BY <1>0, <1>2, <1>5, PatientMove DEF IdleEmpty, Heard

\* An answered client is summoned to by nobody: the worker alone holds its
\* descriptor and has read everything there was.
LEMMA PatientHandle ==
  ASSUME CInv, ~Impatient, NEW w \in Workers, Handle(w)
  PROVE  IdleEmpty' /\ Modest' /\ Called' /\ Heard'
<1>0. IInv /\ AInv /\ IdleEmpty /\ Modest /\ Called /\ Heard /\ Hands
  BY HandsOK DEF CInv, SInv, AInv
<1>1. PICK c \in Conns : /\ c = wsock[w] /\ Busy(w) /\ Sock(w) = c
                         /\ wfd[w] \in Fds /\ \A f \in Fds : open[f] = c => f = wfd[w]
  BY <1>0, Alone DEF Handle, Busy
<1>2. /\ wpc[w] = "handle" /\ msgs[w] # <<>> /\ peer[c] = "up"
  BY <1>0, <1>1 DEF Handle, Heard
<1>3. /\ replies' = [replies EXCEPT ![c] = Append(replies[c], Head(msgs[w]))]
      /\ msgs' = [msgs EXCEPT ![w] = Tail(msgs[w])]
      /\ UNCHANGED <<peer, sent, open, events, taskq, batch, wpc, wfd, wsock>>
  BY <1>1, <1>2 DEF Handle, mainVars
<1>4. Len(replies'[c]) = Len(replies[c]) + 1 /\ Len(replies[c]) \in Nat
  BY <1>0, <1>1, <1>3 DEF IInv, TypeOK
<1>5. \A d \in Conns : d # c => replies'[d] = replies[d]
  BY <1>0, <1>3 DEF IInv, TypeOK
<1>6. Modest'
  BY <1>0, <1>3, <1>4, <1>5 DEF Modest, IInv, TypeOK
<1>7. IdleEmpty' /\ Heard'
  BY <1>0, <1>2, <1>3 DEF IdleEmpty, Heard, IInv, TypeOK
<1>8. wfd[w] \notin Summoned
  <2>1. wfd[w] \in WorkFds(w) /\ wfd[w] \in TaskFds(w)
    BY <1>1 DEF WorkFds, TaskFds
  <2>2. wfd[w] \notin Asking
    BY <1>0, <2>1 DEF Asking, EventFds, IInv, OneOwner
  <2>3. wfd[w] \notin QueueFds
    BY <1>0, <2>1 DEF IInv, OneOwner
  <2>4. wfd[w] \notin Batched
    BY <1>0, <2>1 DEF Batched, TaskFds, IInv, OneOwner
  <2>5. wfd[w] \notin Reading
    <3> SUFFICES ASSUME NEW v \in Workers, wpc[v] = "recv", wfd[v] = wfd[w] PROVE FALSE
      BY DEF Reading
    <3>1. v # w /\ wfd[w] \in TaskFds(v)
      BY <1>2 DEF TaskFds, WorkFds, Busy
    <3> QED BY <1>0, <2>1, <3>1 DEF IInv, OneOwner
  <2> QED BY <2>2, <2>3, <2>4, <2>5 DEF Summoned
<1>9. Summoned' = Summoned
  BY <1>3 DEF Summoned, Asking, QueueFds, Batched, Reading
<1>10. Called'
  <2> SUFFICES ASSUME NEW f \in Summoned PROVE Owed(open[f])'
    BY <1>9 DEF Called
  <2>1. f \in Fds /\ open[f] \in Conns /\ open[f] # c
    BY <1>0, <1>1, <1>8, SummonedUsed DEF UsedFds, IInv, TypeOK
  <2>2. Owed(open[f])
    BY <1>0 DEF Called
  <2> QED BY <1>3, <1>5, <2>1, <2>2 DEF Owed
<1> QED BY <1>6, <1>7, <1>10

LEMMA PatientNext == ASSUME CInv, ~Impatient, [Next]_vars PROVE CInv'
<1>1. SInv'
  BY LostNext, PartingNext DEF CInv, SInv, AInv
<1>2. IdleEmpty' /\ Modest' /\ Called' /\ Heard'
  <2>1. CASE \E c \in Conns : Client(c) \/ AcceptConn(c)
    BY <2>1, PatientClient, PatientAccept
  <2>2. CASE \E w \in Workers : Handle(w)
    BY <2>2, PatientHandle
  <2>3. CASE \/ EpollWait
             \/ \E e \in events : CloseConn(e) \/ AddTask(e) \/ BeginAccept(e)
             \/ \E w \in Workers : \/ TakeBatch(w) \/ StartTask(w) \/ RecvRequest(w)
                                   \/ RecvAgain(w) \/ RecvEof(w) \/ Rearm(w)
                                   \/ LookupRace(w) \/ OutOfMemory(w) \/ RecvError(w)
             \/ EndAccept \/ AcceptFails \/ UNCHANGED vars
    BY <2>3, PatientSteps
  <2> QED BY <2>1, <2>2, <2>3 DEF Next, Main, Worker
<1> QED BY <1>1, <1>2 DEF CInv

LEMMA PatientInit == Init => CInv
<1> SUFFICES ASSUME Init PROVE CInv
  OBVIOUS
<1>1. SInv
  BY LostInit DEF SInv, Parting, Init
<1>2. Summoned = {}
  BY EmptyElems DEF Init, Summoned, Asking, QueueFds, Batched, Reading
<1> QED BY <1>1, <1>2 DEF CInv, IdleEmpty, Modest, Called, Heard, Init

\* One request and no more is under way for a summoned worker.
LEMMA OneAtATime ==
  ASSUME CInv PROVE OneRequest
<1> SUFFICES ASSUME NEW w \in Workers, wpc[w] = "recv" \/ msgs[w] # <<>>
             PROVE  peer[wsock[w]] = "up" /\ Len(msgs[w]) + Len(rx[wsock[w]]) = 1
  BY DEF OneRequest
<1>0. IInv /\ AInv /\ IdleEmpty /\ Modest /\ Called /\ Heard /\ Hands
  BY HandsOK DEF CInv, SInv, AInv
<1>1. Busy(w) /\ wpc[w] \in {"recv", "handle"}
  BY <1>0 DEF IdleEmpty, Busy, IInv, TypeOK
<1>2. PICK c \in Conns : c = wsock[w] /\ open[wfd[w]] = c /\ InHand(c) = msgs[w]
  BY <1>0, <1>1, Alone DEF Hands, Sock
<1>3. wpc[w] = "recv" => Owed(c)
  BY <1>0, <1>2 DEF Called, Summoned, Reading
<1>4. peer[c] = "up"
  BY <1>0, <1>1, <1>2, <1>3 DEF Owed, Heard
<1>5. /\ Len(replies[c]) \in Nat /\ Len(InHand(c)) \in Nat /\ Len(rx[c]) \in Nat
      /\ Len(replies[c]) + Len(InHand(c)) + Len(rx[c]) = sent[c]
  BY <1>0, <1>4, Lengths
<1>6. sent[c] <= Len(replies[c]) + 1
  BY <1>0, <1>4 DEF Modest
<1>7. wpc[w] = "recv" => Len(replies[c]) < sent[c]
  BY <1>3 DEF Owed
<1>8. msgs[w] # <<>> => Len(InHand(c)) > 0
  <2>1. msgs[w] \in Seq(0..MaxReq)
    BY <1>0 DEF IInv, TypeOK
  <2> QED BY <1>2, <2>1
<1>9. Len(InHand(c)) + Len(rx[c]) = 1
  <2> DEFINE a == Len(replies[c])  b == Len(InHand(c))  d == Len(rx[c])  n == sent[c]
  <2>1. /\ a \in Nat /\ b \in Nat /\ d \in Nat /\ a + b + d = n /\ n <= a + 1
        /\ a < n \/ b > 0
    BY <1>5, <1>6, <1>7, <1>8
  <2> HIDE DEF a, b, d, n
  <2>2. b + d = 1
    BY <2>1
  <2> QED BY <2>2 DEF b, d
<1> QED BY <1>2, <1>4, <1>9

\* With clients that wait for their answers every task finds one request of a
\* client that is there: no task meets the end of a connection or a reset,
\* where workThread's read loop cannot go on.
THEOREM PatientTasks == Spec => []OneRequest
<1>1. CASE Impatient
  <2>1. OneRequest
    BY <1>1 DEF OneRequest
  <2> QED BY <2>1, PTL
<1>2. CASE ~Impatient
  <2>1. Init => CInv
    BY PatientInit
  <2>2. CInv /\ [Next]_vars => CInv'
    BY <1>2, PatientNext
  <2>3. CInv => OneRequest
    BY OneAtATime
  <2> QED BY <2>1, <2>2, <2>3, PTL DEF Spec
<1> QED BY <1>1, <1>2
=============================================================================
