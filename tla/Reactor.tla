------------------------------ MODULE Reactor ------------------------------
(***************************************************************************)
(* The server's event loop and its workers: ServerOperation::startwork,    *)
(* initConnection, workThread and fdMode, with TcpServer::acceptConn and   *)
(* the epoll side of TcpSocket.                                            *)
(*                                                                         *)
(* One main thread runs startwork: it waits on epoll, accepts connections, *)
(* closes those whose peer left, and queues one task for every readable    *)
(* descriptor.  Worker threads run workThread: read every request off the  *)
(* descriptor, answer them, and re-register the descriptor.  Nothing but   *)
(* EPOLLONESHOT keeps the two sides off the same connection; that it does  *)
(* is what this module is about.                                           *)
(*                                                                         *)
(* A connection is an element of Conns: it stands for the peer, for the    *)
(* kernel's socket and for the TcpSocket object built on it, so a          *)
(* descriptor number that is reused is told from its earlier use.  A       *)
(* request is its number on its connection; a message is read whole        *)
(* (splitting a message over several reads belongs to the framing).        *)
(***************************************************************************)
EXTENDS Integers, Sequences, Functions

CONSTANTS
  Conns,       \* the connections clients open over the server's life
  NoConn,      \* no connection: a free descriptor, an absent map entry
  Fds,         \* the descriptors the process may hold for connections
  Lfd,         \* the listening descriptor
  Workers,     \* the threads of the pool
  MaxReq,      \* bound: requests sent on one connection
  MaxPhantom,  \* bound: messages a task may collect at end-of-file
  Impatient    \* whether clients may give up on an answer (time out, die)

Phantom == 0   \* the empty message a read at end-of-file yields

ASSUME FdAssumption == Lfd \notin Fds
ASSUME ConnAssumption == NoConn \notin Conns
ASSUME BoundAssumption ==
  /\ MaxReq \in Nat
  /\ MaxPhantom \in Nat
  /\ Impatient \in BOOLEAN

VARIABLES
  peer,     \* the client's end of each connection, as the kernel knows it
  sent,     \* how many requests each client has sent
  rx,       \* the unread requests in each connection's receive buffer
  replies,  \* the answers each client has been sent
  backlog,  \* connections the kernel completed and nobody accepted yet
  open,     \* the kernel's descriptor table
  heap,     \* the TcpSocket objects allocated and not deleted
  sockets,  \* m_sockets
  armed,    \* descriptors whose one-shot epoll registration is live
  events,   \* the part of epoll_wait's result still to be handled
  mpc,      \* where the main thread is: "loop" or inside "accept"
  taskq,    \* the pool's queue of tasks, by their descriptor
  batch,    \* the tasks each worker took off the queue and has not begun
  wpc, wfd, wsock, msgs,  \* each worker: control, fd, socket, messages
  up        \* the server process has not been terminated

clientVars == <<peer, sent, rx, replies, backlog>>
mainVars   == <<open, heap, sockets, events, mpc>>
workerVars == <<batch, wpc, wfd, wsock, msgs>>
vars == <<clientVars, mainVars, armed, taskq, workerVars, up>>

----------------------------------------------------------------------------
Gone(c) == peer[c] \in {"fin", "rst"}

\* A registered descriptor with an unread request or a departed peer.
Readable(f) == /\ open[f] # NoConn
               /\ rx[open[f]] # <<>> \/ Gone(open[f])

EventOf(f) == [fd |-> f, ev |-> IF Gone(open[f]) THEN "rdhup" ELSE "in"]

Busy(w) == wpc[w] # "idle"

TypeOK ==
  /\ peer \in [Conns -> {"new", "up", "fin", "rst"}]
  /\ sent \in [Conns -> 0..MaxReq]
  /\ rx \in [Conns -> Seq(1..MaxReq)]
  /\ replies \in [Conns -> Seq(0..MaxReq)]
  /\ backlog \in SUBSET Conns
  /\ open \in [Fds -> Conns \cup {NoConn}]
  /\ heap \in SUBSET Conns
  /\ sockets \in [Fds -> Conns \cup {NoConn}]
  /\ armed \in SUBSET Fds
  /\ events \in SUBSET [fd : Fds \cup {Lfd}, ev : {"in", "rdhup"}]
  /\ mpc \in {"loop", "accept"}
  /\ taskq \in Seq(Fds)
  /\ batch \in [Workers -> Seq(Fds)]
  /\ wpc \in [Workers -> {"idle", "recv", "handle"}]
  /\ wfd \in [Workers -> Fds \cup {Lfd}]
  /\ wsock \in [Workers -> Conns \cup {NoConn}]
  /\ msgs \in [Workers -> Seq(0..MaxReq)]
  /\ up \in BOOLEAN

Init ==
  /\ peer = [c \in Conns |-> "new"]
  /\ sent = [c \in Conns |-> 0]
  /\ rx = [c \in Conns |-> <<>>]
  /\ replies = [c \in Conns |-> <<>>]
  /\ backlog = {}
  /\ open = [f \in Fds |-> NoConn]
  /\ heap = {}
  /\ sockets = [f \in Fds |-> NoConn]
  /\ armed = {}
  /\ events = {}
  /\ mpc = "loop"
  /\ taskq = <<>>
  /\ batch = [w \in Workers |-> <<>>]
  /\ wpc = [w \in Workers |-> "idle"]
  /\ wfd = [w \in Workers |-> Lfd]
  /\ wsock = [w \in Workers |-> NoConn]
  /\ msgs = [w \in Workers |-> <<>>]
  /\ up = TRUE

----------------------------------------------------------------------------
(* Clients.  A client sends a request and waits for the answer; an         *)
(* impatient one may send the next or leave before the answer came.        *)

Answered(c) == Len(replies[c]) = sent[c]

Connect(c) ==
  /\ peer[c] = "new"
  /\ peer' = [peer EXCEPT ![c] = "up"]
  /\ backlog' = backlog \cup {c}
  /\ UNCHANGED <<sent, rx, replies, mainVars, armed, taskq, workerVars, up>>

SendRequest(c) ==
  /\ peer[c] = "up" /\ sent[c] < MaxReq
  /\ Impatient \/ Answered(c)
  /\ sent' = [sent EXCEPT ![c] = @ + 1]
  /\ rx' = [rx EXCEPT ![c] = Append(@, sent[c] + 1)]
  /\ UNCHANGED <<peer, replies, backlog, mainVars, armed, taskq, workerVars, up>>

\* Closing with everything read sends FIN.
Leave(c) ==
  /\ peer[c] = "up"
  /\ Impatient \/ Answered(c)
  /\ peer' = [peer EXCEPT ![c] = "fin"]
  /\ UNCHANGED <<sent, rx, replies, backlog, mainVars, armed, taskq, workerVars, up>>

\* Closing with an answer unread resets the connection: what the server has
\* not read yet may stay readable or be discarded.
Aborted(c) == /\ peer' = [peer EXCEPT ![c] = "rst"]
              /\ \E left \in {rx[c], <<>>} : rx' = [rx EXCEPT ![c] = left]

Reset(c) ==
  /\ peer[c] = "up" /\ Impatient
  /\ Aborted(c)
  /\ UNCHANGED <<sent, replies, backlog, mainVars, armed, taskq, workerVars, up>>

----------------------------------------------------------------------------
(* The main thread: startwork.                                             *)

\* Mutant: registered without EPOLLONESHOT.
EpollWaitNoOneshot ==
  LET ready == {f \in armed : Readable(f)}
      listen == IF backlog # {} THEN {[fd |-> Lfd, ev |-> "in"]} ELSE {}
  IN /\ mpc = "loop" /\ events = {}
     /\ ready # {} \/ listen # {}
     /\ events' = {EventOf(f) : f \in ready} \cup listen
     /\ armed' = armed
     /\ UNCHANGED <<clientVars, open, heap, sockets, mpc, taskq, workerVars, up>>

\* epoll_wait: every ready registration is reported, with the flags of this
\* moment, and EPOLLONESHOT disarms it.  The listening descriptor is level
\* triggered and stays armed.
EpollWait ==
  LET ready == {f \in armed : Readable(f)}
      listen == IF backlog # {} THEN {[fd |-> Lfd, ev |-> "in"]} ELSE {}
  IN /\ mpc = "loop" /\ events = {}
     /\ ready # {} \/ listen # {}
     /\ events' = {EventOf(f) : f \in ready} \cup listen
     /\ armed' = armed \ ready
     /\ UNCHANGED <<clientVars, open, heap, sockets, mpc, taskq, workerVars, up>>

\* Mutant: the map entry is not erased.
CloseConnNoErase(e) ==
  /\ mpc = "loop" /\ e \in events /\ e.ev = "rdhup"
  /\ events' = events \ {e}
  /\ open' = [open EXCEPT ![e.fd] = NoConn]
  /\ armed' = armed \ {e.fd}
  /\ heap' = heap \ {sockets[e.fd]}
  /\ UNCHANGED <<sockets, clientVars, mpc, taskq, workerVars, up>>

\* Mutant: the TcpSocket is not deleted.
CloseConnNoDelete(e) ==
  /\ mpc = "loop" /\ e \in events /\ e.ev = "rdhup"
  /\ events' = events \ {e}
  /\ open' = [open EXCEPT ![e.fd] = NoConn]
  /\ armed' = armed \ {e.fd}
  /\ sockets' = [sockets EXCEPT ![e.fd] = NoConn]
  /\ UNCHANGED <<heap, clientVars, mpc, taskq, workerVars, up>>

\* Mutant: a connection is closed for whatever event it has.
CloseConnAnyEvent(e) ==
  /\ mpc = "loop" /\ e \in events /\ e.fd # Lfd
  /\ events' = events \ {e}
  /\ open' = [open EXCEPT ![e.fd] = NoConn]
  /\ armed' = armed \ {e.fd}
  /\ heap' = heap \ {sockets[e.fd]}
  /\ sockets' = [sockets EXCEPT ![e.fd] = NoConn]
  /\ UNCHANGED <<clientVars, mpc, taskq, workerVars, up>>

\* EPOLLRDHUP is looked at first: close(fd), delete the TcpSocket, erase
\* the map entry.  Requests still unread are lost with the descriptor.
CloseConn(e) ==
  /\ mpc = "loop" /\ e \in events /\ e.ev = "rdhup"
  /\ events' = events \ {e}
  /\ open' = [open EXCEPT ![e.fd] = NoConn]
  /\ armed' = armed \ {e.fd}
  /\ heap' = heap \ {sockets[e.fd]}
  /\ sockets' = [sockets EXCEPT ![e.fd] = NoConn]
  /\ UNCHANGED <<clientVars, mpc, taskq, workerVars, up>>

\* Mutant: the listening descriptor is not told apart.
AddTaskAnyFd(e) ==
  /\ mpc = "loop" /\ e \in events /\ e.ev = "in"
  /\ events' = events \ {e}
  /\ taskq' = Append(taskq, e.fd)
  /\ UNCHANGED <<clientVars, open, heap, sockets, mpc, armed, workerVars, up>>

\* EPOLLIN: queue a task for the descriptor.
AddTask(e) ==
  /\ mpc = "loop" /\ e \in events /\ e.fd # Lfd /\ e.ev = "in"
  /\ events' = events \ {e}
  /\ taskq' = Append(taskq, e.fd)
  /\ UNCHANGED <<clientVars, open, heap, sockets, mpc, armed, workerVars, up>>

BeginAccept(e) ==
  /\ mpc = "loop" /\ e \in events /\ e.fd = Lfd
  /\ events' = events \ {e}
  /\ mpc' = "accept"
  /\ UNCHANGED <<clientVars, open, heap, sockets, armed, taskq, workerVars, up>>

\* One turn of the accept loop: the kernel hands out a free descriptor; a
\* TcpSocket is built on it, registered one-shot, and inserted
\* into m_sockets (unordered_map::insert keeps an entry already there).
AcceptConn(c) ==
  /\ mpc = "accept" /\ c \in backlog
  /\ \E f \in Fds :
       /\ open[f] = NoConn
       /\ open' = [open EXCEPT ![f] = c]
       /\ armed' = armed \cup {f}
       /\ sockets' = IF sockets[f] = NoConn THEN [sockets EXCEPT ![f] = c]
                                            ELSE sockets
  /\ heap' = heap \cup {c}
  /\ backlog' = backlog \ {c}
  /\ UNCHANGED <<peer, sent, rx, replies, events, mpc, taskq, workerVars, up>>

\* Without a free descriptor accept() fails; acceptConn logs it and tries
\* again without returning.  The logger's thread, started by the first line
\* logged, opens its file for every line: it has no descriptor for it either,
\* or has just lost its own to accept(), and exits the process.
AcceptFails ==
  /\ mpc = "accept" /\ backlog # {} /\ NoConn \notin {open[f] : f \in Fds}
  /\ up' = FALSE
  /\ UNCHANGED <<clientVars, mainVars, armed, taskq, workerVars>>

\* accept() returns EAGAIN: back to the remaining events.
EndAccept ==
  /\ mpc = "accept" /\ backlog = {}
  /\ mpc' = "loop"
  /\ UNCHANGED <<clientVars, open, heap, sockets, events, armed, taskq, workerVars, up>>

Main ==
  /\ up
  /\ \/ EpollWait \/ EndAccept \/ AcceptFails
     \/ \E e \in events : CloseConn(e) \/ AddTask(e) \/ BeginAccept(e)
     \/ \E c \in Conns : AcceptConn(c)

----------------------------------------------------------------------------
(* The workers: workThread.                                                *)

\* thread_func: an idle worker takes the queue over (its limit, the queue's
\* capacity shared among the threads, is far above the descriptors in use)
\* and runs the tasks one after the other.
TakeBatch(w) ==
  /\ wpc[w] = "idle" /\ batch[w] = <<>> /\ taskq # <<>>
  /\ batch' = [batch EXCEPT ![w] = taskq]
  /\ taskq' = <<>>
  /\ UNCHANGED <<clientVars, mainVars, armed, wpc, wfd, wsock, msgs, up>>

\* A task starts by looking its socket up in m_sockets.
StartTask(w) ==
  /\ wpc[w] = "idle" /\ batch[w] # <<>>
  /\ batch' = [batch EXCEPT ![w] = Tail(@)]
  /\ wpc' = [wpc EXCEPT ![w] = "recv"]
  /\ wfd' = [wfd EXCEPT ![w] = Head(batch[w])]
  /\ wsock' = [wsock EXCEPT ![w] = sockets[Head(batch[w])]]
  /\ msgs' = [msgs EXCEPT ![w] = <<>>]
  /\ UNCHANGED <<clientVars, mainVars, armed, taskq, up>>

\* The lookup is not synchronised with the main thread's insert and erase.
\* While one of those is under way the lookup may miss the entry, and the
\* null pointer operator[] then inserts is dereferenced.
LookupRace(w) ==
  /\ wpc[w] = "idle" /\ batch[w] # <<>>
  /\ \/ mpc = "accept" /\ backlog # {}
     \/ \E e \in events : e.ev = "rdhup"
  /\ up' = FALSE
  /\ UNCHANGED <<clientVars, mainVars, armed, taskq, workerVars>>

Sock(w) == open[wfd[w]]   \* the kernel socket a worker's calls reach

\* recvMsg returns 0 with a request.
RecvRequest(w) ==
  /\ wpc[w] = "recv" /\ Sock(w) # NoConn /\ rx[Sock(w)] # <<>>
  /\ msgs' = [msgs EXCEPT ![w] = Append(@, Head(rx[Sock(w)]))]
  /\ rx' = [rx EXCEPT ![Sock(w)] = Tail(@)]
  /\ UNCHANGED <<peer, sent, replies, backlog, mainVars, armed, taskq, batch, wpc, wfd, wsock, up>>

\* Mutant: fdMode is called before the requests are answered.
RecvAgainRearms(w) ==
  /\ wpc[w] = "recv" /\ Sock(w) # NoConn
  /\ rx[Sock(w)] = <<>> /\ peer[Sock(w)] = "up"
  /\ wpc' = [wpc EXCEPT ![w] = "handle"]
  /\ armed' = armed \cup {wfd[w]}
  /\ UNCHANGED <<clientVars, mainVars, taskq, batch, wfd, wsock, msgs, up>>

\* Mutant: EAGAIN does not end the loop.
RecvAgainRetries(w) ==
  /\ wpc[w] = "recv" /\ Sock(w) # NoConn
  /\ rx[Sock(w)] = <<>> /\ peer[Sock(w)] = "up"
  /\ wpc' = [wpc EXCEPT ![w] = "recv"]
  /\ UNCHANGED <<clientVars, mainVars, armed, taskq, batch, wfd, wsock, msgs, up>>

\* recvMsg returns -2, EAGAIN: all requests are read.
RecvAgain(w) ==
  /\ wpc[w] = "recv" /\ Sock(w) # NoConn
  /\ rx[Sock(w)] = <<>> /\ peer[Sock(w)] = "up"
  /\ wpc' = [wpc EXCEPT ![w] = "handle"]
  /\ UNCHANGED <<clientVars, mainVars, armed, taskq, batch, wfd, wsock, msgs, up>>

\* At end-of-file recvMsg returns 0 with an empty message: the loop, which
\* only ends at -2, stores it and reads again.
RecvEof(w) ==
  /\ wpc[w] = "recv" /\ Sock(w) # NoConn
  /\ rx[Sock(w)] = <<>> /\ peer[Sock(w)] = "fin"
  /\ Len(msgs[w]) < MaxReq + MaxPhantom
  /\ msgs' = [msgs EXCEPT ![w] = Append(@, Phantom)]
  /\ UNCHANGED <<clientVars, mainVars, armed, taskq, batch, wpc, wfd, wsock, up>>

\* It goes on until the vector of messages cannot grow: bad_alloc.
OutOfMemory(w) ==
  /\ wpc[w] = "recv" /\ Sock(w) # NoConn
  /\ rx[Sock(w)] = <<>> /\ peer[Sock(w)] = "fin"
  /\ Len(msgs[w]) >= MaxReq + MaxPhantom
  /\ up' = FALSE
  /\ UNCHANGED <<clientVars, mainVars, armed, taskq, workerVars>>

\* A reset makes recvMsg return -1 with a null buffer, and the loop builds a
\* std::string from it: the exception is not caught.
RecvError(w) ==
  /\ wpc[w] = "recv" /\ Sock(w) # NoConn
  /\ rx[Sock(w)] = <<>> /\ peer[Sock(w)] = "rst"
  /\ up' = FALSE
  /\ UNCHANGED <<clientVars, mainVars, armed, taskq, workerVars>>

\* Mutant: only the first message read is answered.
HandleFirstOnly(w) ==
  /\ wpc[w] = "handle" /\ msgs[w] # <<>> /\ Sock(w) # NoConn
  /\ msgs' = [msgs EXCEPT ![w] = <<>>]
  /\ \/ /\ peer[Sock(w)] = "up"
        /\ replies' = [replies EXCEPT ![Sock(w)] = Append(@, Head(msgs[w]))]
        /\ UNCHANGED <<peer, rx, up>>
     \/ /\ peer[Sock(w)] = "fin"
        /\ Aborted(Sock(w))
        /\ UNCHANGED <<replies, up>>
     \/ /\ peer[Sock(w)] = "rst"
        /\ up' \in BOOLEAN
        /\ UNCHANGED <<peer, rx, replies>>
  /\ UNCHANGED <<sent, backlog, mainVars, armed, taskq, batch, wpc, wfd, wsock>>

\* The oldest message read is dispatched and answered on the socket.  A peer
\* that closed answers with a reset; writing after a reset fails unnoticed
\* or raises SIGPIPE.
Handle(w) ==
  /\ wpc[w] = "handle" /\ msgs[w] # <<>> /\ Sock(w) # NoConn
  /\ msgs' = [msgs EXCEPT ![w] = Tail(@)]
  /\ \/ /\ peer[Sock(w)] = "up"
        /\ replies' = [replies EXCEPT ![Sock(w)] = Append(@, Head(msgs[w]))]
        /\ UNCHANGED <<peer, rx, up>>
     \/ /\ peer[Sock(w)] = "fin"
        /\ Aborted(Sock(w))
        /\ UNCHANGED <<replies, up>>
     \/ /\ peer[Sock(w)] = "rst"
        /\ up' \in BOOLEAN
        /\ UNCHANGED <<peer, rx, replies>>
  /\ UNCHANGED <<sent, backlog, mainVars, armed, taskq, batch, wpc, wfd, wsock>>

\* Mutant: fdMode is not called.
RearmNever(w) ==
  /\ wpc[w] = "handle" /\ msgs[w] = <<>>
  /\ wpc' = [wpc EXCEPT ![w] = "idle"]
  /\ UNCHANGED <<clientVars, mainVars, armed, taskq, batch, wfd, wsock, msgs, up>>

\* fdMode: EPOLL_CTL_MOD arms the descriptor again; it fails on a closed one.
Rearm(w) ==
  /\ wpc[w] = "handle" /\ msgs[w] = <<>>
  /\ armed' = IF open[wfd[w]] # NoConn THEN armed \cup {wfd[w]} ELSE armed
  /\ wpc' = [wpc EXCEPT ![w] = "idle"]
  /\ UNCHANGED <<clientVars, mainVars, taskq, batch, wfd, wsock, msgs, up>>

Worker(w) ==
  /\ up
  /\ \/ TakeBatch(w) \/ StartTask(w) \/ LookupRace(w)
     \/ RecvRequest(w) \/ RecvAgain(w) \/ RecvEof(w)
     \/ OutOfMemory(w) \/ RecvError(w) \/ Handle(w) \/ Rearm(w)

Client(c) == Connect(c) \/ SendRequest(c) \/ Leave(c) \/ Reset(c)

Next ==
  \/ up /\ \E c \in Conns : Client(c)
  \/ Main
  \/ \E w \in Workers : Worker(w)

Spec == Init /\ [][Next]_vars

\* The main thread and every pool thread keep running; clients need not, and
\* the logger need not lose its descriptor.
FairSpec == Spec /\ WF_vars(Main /\ up') /\ \A w \in Workers : WF_vars(Worker(w))

----------------------------------------------------------------------------
(* Safety.                                                                 *)

UsedFds    == {f \in Fds : open[f] # NoConn}
EventFds   == {e.fd : e \in events} \ {Lfd}
QueueFds   == Range(taskq)
WorkFds(w) == IF Busy(w) THEN {wfd[w]} ELSE {}
TaskFds(w) == Range(batch[w]) \cup WorkFds(w)

\* A descriptor in use has exactly one holder: its epoll registration, an
\* event the main thread has yet to handle, the task queue, or one worker.
\* One-shot registration and the re-arming at the end of workThread are all
\* that keeps the main thread from closing a descriptor a worker is using,
\* and two workers from reading the same one.
OneOwner ==
  /\ UsedFds = armed \cup EventFds \cup QueueFds \cup UNION {TaskFds(w) : w \in Workers}
  /\ armed \cap EventFds = {}
  /\ QueueFds \cap (armed \cup EventFds) = {}
  /\ \A w \in Workers : TaskFds(w) \cap (armed \cup EventFds \cup QueueFds) = {}
  /\ \A v, w \in Workers : v # w => TaskFds(v) \cap TaskFds(w) = {}
  /\ \A w \in Workers : Range(batch[w]) \cap WorkFds(w) = {}
  /\ IsInjective(taskq) /\ \A w \in Workers : IsInjective(batch[w])
  /\ \A d, e \in events : d.fd = e.fd => d = e

\* The TcpSocket a worker took from m_sockets is alive until its task ends,
\* and the descriptor inside it still belongs to the same connection.
NoUseAfterFree ==
  \A w \in Workers : Busy(w) => wsock[w] \in heap /\ open[wfd[w]] = wsock[w]

\* m_sockets describes the descriptor table: an entry for every accepted
\* connection and no other, no TcpSocket leaked or shared, and no accepted
\* connection waiting to be accepted again.
SocketMap ==
  /\ sockets = open
  /\ heap = {open[f] : f \in Fds} \ {NoConn}
  /\ \A f, g \in Fds : open[f] = open[g] /\ open[f] # NoConn => f = g
  /\ heap \cap backlog = {}

\* What a worker has read from connection c and not answered.
InHand(c) ==
  IF \E w \in Workers : Busy(w) /\ wsock[w] = c
  THEN msgs[CHOOSE w \in Workers : Busy(w) /\ wsock[w] = c]
  ELSE <<>>

\* No request of a client that stays is lost, duplicated or overtaken: its
\* answers, what a worker holds and what is unread make up what it sent.
NoRequestLost ==
  \A c \in Conns : peer[c] = "up" =>
    replies[c] \o InHand(c) \o rx[c] = [i \in 1..sent[c] |-> i]

\* With clients that wait for each answer a task finds exactly one request,
\* and its client is there until it is answered.  So no read of workThread's
\* loop meets the end of a connection, which it would store for ever, or a
\* reset, at which it throws; only an impatient client can bring that about.
OneRequest ==
  ~Impatient =>
    \A w \in Workers : wpc[w] = "recv" \/ msgs[w] # <<>> =>
      /\ peer[wsock[w]] = "up"
      /\ Len(msgs[w]) + Len(rx[wsock[w]]) = 1

\* What RequestService promises a client, read off the backlog, the TcpSocket
\* objects and the peers.
Place(c) ==
  IF c \in backlog THEN "waiting"
  ELSE IF c \in heap THEN "served"
  ELSE IF peer[c] = "new" THEN "none" ELSE "dropped"

Service == INSTANCE RequestService WITH
  place   <- [c \in Conns |-> Place(c)],
  staying <- {c \in Conns : peer[c] = "up"},
  asked   <- sent,
  answers <- replies

\* Every step of clients, main thread and workers is a step of the service as
\* a client sees it: no connection is taken up twice or dropped while its
\* client stays, although startwork acts on flags epoll_wait took earlier and
\* on descriptor numbers, and every answer is the next one due.
KeepsService == Service!Spec

\* Contradicted.  workThread's loop collects requests ("1. read out all
\* requests", ServerOperation.cpp:525), and recvMsg takes its zero return to
\* mean just that ("all requests have been read", TcpSocket.cpp:159): every
\* message a task holds is one its client sent.
OnlyRequests == \A w \in Workers : Phantom \notin Range(msgs[w])

----------------------------------------------------------------------------
(* Liveness, under FairSpec.                                               *)

\* Every request a patient client sends is answered.
Served ==
  \A c \in Conns : \A n \in 1..MaxReq :
    (sent[c] >= n) ~> (Len(replies[c]) >= n \/ ~up)

\* The server drops its side of every connection its client closed.
Dropped ==
  \A c \in Conns : (c \in heap /\ Gone(c)) ~> (c \notin heap \/ ~up)

\* A task ends: workThread reads until EAGAIN, answers and returns.
TaskReturns ==
  \A w \in Workers : Busy(w) ~> (~Busy(w) \/ ~up)
=============================================================================
