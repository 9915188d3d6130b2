# A specification of the secure data transmission system

The repository holds two programs. The **server** (`src/server`) agrees on
symmetric keys with its clients, records them in a MySQL table and in a System V
shared-memory segment that other processes of its host read, and checks and
revokes them on request. The **client** (`src/client`) is a menu over the three
operations and keeps its one key in a segment of its own. They exchange
length-prefixed protobuf messages over TCP; the connection of a client stays open
as long as its process lives.

This directory specifies the system in TLA+, checks the specifications with TLC
and proves the invariants that carry the most weight with TLAPS.

## Inventory

| Component | State | Operations | Talks to |
|---|---|---|---|
| Event loop (`ServerOperation::startwork`, `TcpServer::acceptConn`) | epoll set, `m_sockets`, `events` | accept, close on `EPOLLRDHUP`, queue a task on `EPOLLIN` | kernel, thread pool |
| Worker task (`ServerOperation::workThread`, `fdMode`) | messages read | read until `EAGAIN`, dispatch, re-arm | `m_sockets`, handlers, epoll |
| Handlers (`clientRandomNum`, `clientPremaster`, `keyCheck`, `keyRevoke`) | `randomNum` by descriptor | one per request type, one answer each | database, shared memory, pools |
| Database (`MySQLOP`) | table `AASECKEYINFO`, session | query, insert + `LAST_INSERT_ID`, update | handlers |
| Shared memory (`SecKeyShm`, `ShareMemory`) | slots, mapping address | `shmWrite`, `shmRead`, `updateStatue` | handlers, other processes |
| Pools (`connection_pool`, `HmacPool`) | free lists, counters | get, release, RAII wrappers | handlers |
| Thread pool (`thread_pool`) | queue, counters, shutdown | `add_task`, worker loop, manager, `close` | event loop |
| Framing (`TcpSocket`) | socket | `sendMsg`, `recvMsg`, `readn`, `writen` | everybody |
| Client (`ClientOperation`, `main.cpp`) | key slot, connection | `secKeyAgree`, `secKeyCheck`, `secKeyRevoke` | server |
| Logger (`logger.cpp`, `lockqueue.h`) | queue, file | push, pop and write | everybody |
| RSA, hash, AES, generated code, `ItcastLog` | none the protocol depends on | conversions | – |

What makes the behaviour hard:

* The main thread closes descriptors and deletes `TcpSocket` objects while workers
  use others; `EPOLLONESHOT` and the re-arming at the end of a task are the only
  synchronisation. A closed descriptor number comes back with the next `accept`.
* Events are edge-triggered; a request that arrives while a task ends must not be
  missed.
* A key's state exists three times (row, server slot, client slot), the copies are
  written one after the other, and each write may fail.
* Clients die between the two halves of an agreement, time out, and then find the
  late answers of one operation while they wait for those of the next.
* The server forgets everything but its rows when it is started again, and the clients
  do not connect again by themselves.
* A message crosses TCP in pieces nobody chose, through a blocking socket at one end and
  a non-blocking one at the other, whose `readn` and `writen` give up in the middle.

What makes each component correct: a descriptor has one holder and its map entry
is the right one; requests are answered once and in order, and every task ends;
both ends of an agreement hold the same key under the same identifier; what the
shared memory shows was issued and not revoked; a client is told of success only
when there was one; a task given to the thread pool is run once and no thread or
caller is left asleep; a message is received whole, once and in order; an object of a
pool is with one thread at a time and nobody sleeps over one in the list; no logged line
is lost or overtaken.

## Modules

| Module | Models |
|---|---|
| `Reactor` | `startwork`, `initConnection`, `acceptConn`, `workThread`, `fdMode`, the pool's worker loop; the kernel's descriptors, backlog, receive buffers and one-shot registrations; clients that connect, send, close and reset |
| `MCReactor` | small sets for `Reactor` |
| `RequestService` | abstract specification: what a client may rely on when it talks to the server |
| `ReactorProofs` | inductive invariants, theorems and the refinement of `Reactor` |
| `ThreadPool` | `thread_pool`: callers of `add_task`, `thread_func`, `admin_thread_func`, `close`; the two condition variables |
| `TaskPool` | abstract specification: what a caller of the pool may rely on |
| `MCThreadPool` | a few tasks for `ThreadPool` |
| `QueueLemmas` | what queue operations do to a queue's elements, and to queues laid end to end |
| `ThreadPoolProofs` | inductive invariants, theorems and the refinement of `ThreadPool` |
| `Framing` | `sendMsg`, `recvMsg`, `readn`, `writen`, `readTimeout`, `writeTimeout` over one direction of a connection, byte by byte |
| `MessageStream` | abstract specification: messages arrive whole, once, in order |
| `MCFraming` | a few short messages for `Framing` |
| `FramingProofs` | inductive invariant, theorems and the refinement of `Framing` |
| `ResourcePool` | `connection_pool` and `HmacPool`, one class twice |
| `LogQueue` | `Logger` and `LockQueue` |
| `Facilities` | handler threads that use a pool and the log of one process |
| `MCFacilities` | a few threads for `Facilities` |
| `FacilitiesProofs` | inductive invariants and theorems about `Facilities` |
| `KeyWire` | connections, requests, answers, keys |
| `KeyServer` | the four handlers with `MySQLOP`, `SecKeyShm` and the two pools |
| `KeyClient` | the three operations with the client's `recvMsg` and `main` menu |
| `KeyProtocol` | clients and server composed; the properties |
| `MCKeyProtocol` | small sets for `KeyProtocol` |
| `KeyProtocolProofs` | types, what the server's shared memory shows, what it shows after a restart |
| `KeyAgreementProofs` | what clients and server agree on, and that they implement `KeyLifecycle` |
| `KeyLifecycle` | abstract specification: what the service promises about a key |
| `KeyLifecycleProofs` | what follows from it |

**Reactor and code.** `open` is the kernel's descriptor table, `armed` the live
one-shot registrations, `events` what is left of the array `epoll_wait` filled,
`sockets` is `m_sockets`, `heap` the `TcpSocket` objects not yet deleted, `taskq`
the pool's queue, and `batch`, `wpc`, `wfd`, `wsock`, `msgs` are the locals of each
pool thread. A connection is an element of `Conns` and stands for the peer, the
kernel socket and the `TcpSocket` built on it, so that a reused descriptor number
is told from its earlier use. `EpollWait` snapshots the flags, as `epoll_wait` does,
so `CloseConn` and `AddTask` act on flags that may be old. `EpollWait`, `CloseConn`,
`AddTask`, `BeginAccept`, `AcceptConn`, `AcceptFails` and `EndAccept` are the main
thread; `TakeBatch` to `Rearm` are a worker. Where the code throws in a pool thread
(`RecvError`, `OutOfMemory`), dereferences null (`LookupRace`), is hit by `SIGPIPE`
(`Handle` after a reset) or is exited by its own logger (`AcceptFails`), the action
clears `up`, and the server takes no step after that.

**ThreadPool and code.** Each section under `queue_lock`, up to its release or to
`pthread_cond_wait`, is one action, and so is each section under
`thread_counter_lock`; `pc` says for each place of the vector `threads` where its thread
is, `mine` is its `taskList`, `adm` holds the manager's control and locals, `call` where
each call of `add_task` is. A signal moves one waiting thread, any, to `woken`, where it
still has to get the lock; `Spurious` wakes without a signal. `Top` and `Resume` are the
two ways to the queue's test, with `Wait`, `Leave` and `Take` as its outcomes; only
`Resume` passes the test of `destroy_thr_num`. `Expand` takes the first free places and
leaves open whether `pthread_kill` still finds a thread that exited, which differs
between versions of the C library. `pthread_create` is assumed to succeed, there and in the
constructor: the code ignores its result and counts the thread all the same
(`thread_pool.cpp:224`), so that without the assumption `live_thr_num` would be too large, and
`LiveCount`, `Manned` and `CloseReturns` would not hold. The `live_thr_num` broadcasts of `close` are one
action: after the first nobody starts to wait. Destroying the condition variables has no
effect in the model; nobody calls `add_task` after `close` returned. The constructor
raises `max_tasks_num` to at least 1000; the model lets it be any positive number, and
the runs use 2, since a queue of 1000 places is a queue with more places. `Reactor` uses
the pool as deployed (fixed, one caller, a queue that is never full) and takes from this
module that a queued task is run.

**KeyServer and code.** A handler is a walk of a worker's `task` through program
counters: `RANDOMNUM` is one step; `PREKEY` goes `Premaster`, `Mac`, `Insert`,
`LastInsertId`, `ShmWrite`; `KEYCHECK` goes `Query`, `Mac`, `ShmWrite`; `KEYREVOKE`
goes `Query`, `Mac`, `FindSlot`, `SetStatus`, `UpdateState`. The cuts are where the
database, another thread or the client can come between. The temporaries
`HmacRAII(&hmac, hmacPool)` and `connectionRAII(&mysql, conPool)` give their object
back in the statement that takes it; `Rotate` is that, and the handler goes on with
an object that is again in the list. That requests of one descriptor are handled
one after the other (`TakeRequest`) is what `Reactor!OneOwner` establishes. `NoMap` is a
failed `shmat`, which `shmWrite` reports and `updateStatue` takes for "no such slot".
`NoCommit` is a connection lost between the `UPDATE` and its `COMMIT`: the row is rolled back,
`updataKeyState` does not look at what `mysql_commit` returns, and the client is told
`SUCCESS`. `writeSecKey` ignores its `COMMIT` too, but there the `SELECT` that follows fails
on the lost connection, which is `Insert`'s failing branch when the row is gone and
`LastInsertId`'s when the `COMMIT` got through. A `COMMIT` that the database refuses while the
session lives on is not modelled: `LAST_INSERT_ID` would then name a row that is not there.
Nor is it that a session once lost stays lost: a later statement may fail or not.
`Restart` is the end of the process between any two steps and its next start: `task`,
`randomNum`, both pools and the shared memory, which `ShareMemory` zeroes, are new, `db`
is what it was. Connections alive at that moment join `cut`: requests sent on them go
nowhere, unread answers may still be there, and the client's next read is the end of the
connection.

**KeyClient and code.** `Begins` sends the first request of an operation, `Receives`
are the answers, `GivesUp` the timeouts; `verdict` is what the operation printed.
`recvMsg` takes the next message on the connection, whichever operation it answers.

**Framing and code.** One direction of one connection is modelled, and `writer` says which
program writes in it, hence which end blocks. `wpc` and `left` are `sendMsg` with
`writen`'s pointer and count; `rpc`, `buf` and `need` are `recvMsg` with `readn`'s buffer and
count, `got` and `last` what it returned. `line` holds the bytes between the two, of which
`arrived` are in the reader's kernel, so `Arrive` cuts the stream anywhere. A byte is the
number of its message and its place in the frame; only bytes read from the right place are
a length, any others say some number (`ReadStrayHead`, where `malloc` may also refuse).
The two `TcpSocket` classes are copies that differ in the calls named `Client...` and
`Server...`. `inStep` is history: it becomes false when `readn` or `writen` gives up inside a
message. The rule by which a server calls `recvMsg` is `workThread`'s.

**Facilities and code.** `Get`, `GetWaits` and `Release` are the sections of
`GetConnection`/`GetHmac` and `ReleaseConnection`/`ReleaseHmac` under the mutex, up to the
wait. A thread is `taken` between the constructor and the destructor of the temporary
`connectionRAII` or `HmacRAII`, that is within one statement, and `using` the object after
it was put back; that the handler then uses an object it does not hold is what `KeyServer`
works with. `Log` is `LOG_ERR` with the start of the logger thread at the first line;
`OpenFile` to `WriteLine` are that thread, which takes the date before it waits for a line;
`OpenFails` is its `exit`.

Random strings, and hence keys, are named by the client and the number of its
operation; an authentication code is the key it was made with. Encryption is left
out: both sides see the plain premaster or key, as they do after a correct
decryption. `confirmed`, `verdict`, `ops`, `fails`, `lives` and `sent` are history
or bounds and have no counterpart in the code.

## Runs

| Run | Question | Result |
|---|---|---|
| `MCReactor` | 3 connections, 2 descriptors, 2 workers, 2 requests each, clients that leave and reset at any time: types, `OneOwner`, `NoUseAfterFree`, `SocketMap`, `NoRequestLost`, `KeepsService` (implements `RequestService`) | holds, 1.7 million states |
| `MCReactorLive` | 2 connections, 2 workers, clients that wait for answers: `OneRequest`, `Served`, `Dropped`, `TaskReturns` | holds |
| `MCReactorEof` | does a task hold only requests (`OnlyRequests`)? | violated |
| `MCKeyProtocol` | agree and revoke, 2 clients, one slot for two, a restart of each client and of the server, one failing statement (no failing `COMMIT`): types, `AgreedKey`, `RevokedEverywhere`, `RevokeKept`, `AnewAfterRestart`, `KeepsLifecycle` (implements `KeyLifecycle`) | holds, 115 000 states |
| `MCKeyCheck` | the same with checks, a slot each, a server restart, a failing statement, `COMMIT` or `shmat`: `ShmIsIssued` (with two slots, so that a client could have both), `CheckGenuine`, `Recognised`, `Answered` | holds, 700 000 states |
| `MCKeyRevived` | is a revoked key inactive everywhere once checks are allowed? | violated |
| `MCKeyStale` | do late answers leave the agreed key right? | violated |
| `MCPool` | a fixed pool of 2 threads, 2 callers, 4 tasks, a queue of 2, closed at any time: types, `SignalPerTask`, `KeepsRunning` (implements `TaskPool` with its fairness), `CloseReturns`, `AddReturns` | holds |
| `MCPoolDynamic` | a dynamic pool of 1 to 3 threads, one caller, 4 tasks, closed at any time: `LiveCount`, `Manned`, `CallerRemembered`, `NoneSleeps`, `KeepsPool` (implements `TaskPool`) | holds |
| `MCFraming` | 3 messages over a line of 4 bytes, in either direction, a writer that may die anywhere: types, `Aligned`, `KeepsStream` (implements `MessageStream`), `RecvReturns`, `Delivered` | holds |
| `MCFramingCut` | does `recvMsg` return only messages that were sent (`OnlySent`)? | violated |
| `MCFacilities` | 4 threads on a pool of 2 objects and the log: `Accounted`, `NoLostSignal`, `InOrder`, `GetReturns`, `Written` | holds |

The bounds are the smallest at which the interesting cases occur. Three connections
over two descriptors make a number come back while events and tasks of its earlier
use may be around, and leave one connection without a descriptor; two workers make
every pair of threads. Two requests give a request something to overtake.
`MaxPhantom` bounds the messages a task collects at end-of-file before `OutOfMemory`.
For the protocol, two clients on three descriptors let a restarted client take over
a descriptor whose half-finished agreement is still in `randomNum`; one slot for two
clients makes `shmWrite` fail; one worker is the one thread the server constructs its pool with;
one failure placed anywhere shows each partial
failure (`MaxFail`, of statements, `COMMIT`s and attachments together), and a second one adds no new
cut since a handler stops at its first.
`HmacSize` and `ConnSize` of 1 stand for 100: the handlers never hold more than one object,
and in the key protocol no list is ever empty. One crash of the server
(`MaxCrash`) at every point, with clients that were connected and clients that connect
later, shows what a second one would show again. `AttachFails` is on where the slots suffice,
so that a refusal there has one cause. A length of 2 bytes is the shortest that can be cut
inside; messages of 1 and 2 bytes are read in one piece or in two; a line of 4 holds a whole
frame and a part of the next, so writer and reader both stop inside frames; in
`MCFramingCut` it holds less than a frame. Four threads on two objects leave two to wait
while both objects come back; two days put lines on both sides of midnight. For the pool, two callers and a queue of two
places let both block while a batch frees both places with one signal; with two
threads one can overtake the other that was woken; four tasks in a dynamic pool crowd
it twice, so that the place of an exited thread is used again. `Increment` is 2 where
the code has 10: more than there are threads to end, which is what leaves requests
over. Symmetry is used in the safety runs only.
Deadlock is not checked, because clients may stop for good.

The four violations are disagreements of the code with its own comments; PROJECT.json
quotes them under `findings`.

* `MCReactorEof`: the peer closes between the event and the read; `recvMsg` returns 0
  for ever, and the loop that stops at -2 fills memory with empty messages.
* `MCKeyRevived`: the state column is read into a `bool` from a `char*`; a check of a
  revoked key succeeds and puts it back into the shared memory as active.
* `MCKeyStale`: two checks time out, one of them after a failed statement; their
  answers shift the ones after by one until a check's answer is taken for a key
  identifier, and the client stores its key under 0.
* `MCFramingCut`: a request reaches the server's kernel in two pieces; `readn` meets `EAGAIN`
  between them, drops the first and returns -2, at which `workThread` stops reading; the second
  piece is then read as a length, and the server hands on a message nobody sent.

What the models also show, without a run of its own:

* When every descriptor is in use, `acceptConn` retries a failed `accept` instead of
  returning, and the logger thread started by its first line finds no descriptor for its
  file and exits the process (`AcceptFails`, `OpenFails`).
* Of several callers blocked in `add_task` when a pool is closed, the last batch's signal
  wakes one (`AddReturns` therefore excludes a closed pool, and `CallerRemembered` speaks of
  one only for a sole caller, which that signal always reaches).
* When the connection to the database is lost between the `UPDATE` of a revocation and its
  `COMMIT`, nobody looks at the result of `mysql_commit` (`MySQLOP.cpp:69`), and the client is
  told that its key, still active in the database, is revoked. `CommitFails` lets it happen, and
  `CommitFails = TRUE` in `MCKeyProtocol.cfg` makes TLC find `RevokeKept` violated; so the property
  is checked, and proved, for a database that fails no `COMMIT`. The other properties of that
  run do not need it, and `MCKeyCheck` has it on.
* A timed-out `secKeyCheck` decodes an empty message as RANDOMNUM with result SUCCESS and reports
  success; so does one whose connection ended (`CheckTimeout`). `CheckGenuine` therefore
  excludes ended connections and is checked without late answers; `Timeouts = TRUE` in
  `MCKeyCheck.cfg` makes TLC find it violated.
* In a dynamic pool the manager can ask two idle threads to exit while both are about to test the
  queue: nobody takes the requests, they stay in `destroy_thr_num`, and the thread woken for the
  next task exits on one of them. The task lies in the queue while another thread waits, until
  another task comes. `MCPool.cfg` with `Dynamic = TRUE`, `MinThr = 1`, `Increment = 2`, `MaxCallers = 1`
  and `KeepsRunning` as its only property shows it. The server's pool is fixed and does not do
  this; `SignalPerTask` and `KeepsRunning` are checked for a fixed pool.
* A revocation whose `shmat` fails is carried on as if there were no slot (`FindSlot`): the row
  becomes inactive and the slot stays active. `RevokedEverywhere` is checked without it.
* A server that is to send while the client does not read stops inside a frame, and no
  caller of `sendMsg` looks at its result (`ServerWriteAgain`).

### Fairness

`Reactor!FairSpec` has weak fairness of the main thread and of each worker: all are
threads in endless loops that the operating system schedules. There is none on the
clients, and none on `AcceptFails` or on any choice within a thread, so nothing is
assumed about who wins a race. `KeyProtocol!FairSpec` has weak fairness of each
worker and of a client's reading of an answer that has arrived, or of the end of its
connection (the client is blocked in `select` until then); starting operations, timing out, dying and restarting are
not fair. `ThreadPool!FairSpec` has weak fairness of each pool thread, of the manager, of
`close` once it was called and of a caller that was woken, and none of calling `add_task`
or `close` or of spurious wake-ups. That a task's function returns is part of it;
`Reactor!TaskReturns` is that fact for `workThread`, checked under the escape that the
process was not ended. `Framing!FairSpec` has weak fairness of the steps of `sendMsg` and of
`recvMsg` once they run, and of the network's delivery; calling them, dying and a client's
timeout are not fair. `Facilities!FairSpec` has weak fairness of each thread's steps inside
the pool and after it and of the logger thread, and none of who gets the mutex: a woken
thread may find the object gone and wait again, and `GetReturns` holds because the
statements are finitely many.

## Proofs

`ReactorProofs` proves all that the safety runs check of `Reactor`, for every
set of connections, descriptors and workers and all bounds, from the assumptions in
`Reactor` (`FdAssumption`: the listening descriptor is none of the others;
`ConnAssumption`: `NoConn` is no connection; `BoundAssumption`: bounds are naturals).

Four theorems (`Typing`, `SingleOwner`, `SafeSockets`, `MapAgrees`) rest on the invariant
`IInv == TypeOK /\ PeersOK /\ EventsOK /\ OneOwner /\ NoUseAfterFree
/\ SocketMap`. None of the last three is inductive alone. That `CloseConn` frees no
socket in use needs `OneOwner` (the descriptor is held by an event, hence by no
worker); that `OneOwner` survives `AcceptConn` needs `SocketMap` and the fact that only
open descriptors have holders; that `heap` loses the right object in `CloseConn` needs
`SocketMap`. `PeersOK` says that a connection in the backlog or with a descriptor has
been made, so that `Connect` cannot put one there twice; `EventsOK` says which
descriptors events name. `OneOwner` in turn is what types `wfd` in `Rearm`, so the type
invariant is part of the induction. Steps that move no descriptor (client steps,
reads, answers, crashes) go through one lemma, `Unmoved`; each of the others has a
lemma of its own.

Three more theorems are built on it, each on the invariant of the one before:

* `NothingLost`: `NoRequestLost`, by `AInv`. `InHand` chooses the worker that has a connection's
  requests; `Hands` says that the choice is not one, since two busy workers have different
  sockets (`Alone`, from `OneOwner` and `SocketMap`). A read then moves a request from the head
  of `rx` to the end of what is in hand, an answer moves it on (`HeadMoves`, `EndGrows`), and no
  other step changes the three laid end to end. `Blank` is needed because `NoRequestLost` says
  nothing of a connection before it is made.
* `ServiceKept`: `Reactor` implements `RequestService`, by `SInv` (here `AInv /\ Parting`).
  `startwork` acts on flags `epoll_wait` took earlier: `Parting` says that the connection an
  `EPOLLRDHUP` event means has lost its peer and is still the one under that number, so that
  `CloseConn` is `Drop`. That `Handle` is `Answer` with the next number is `NoRequestLost`
  (`NextDue`); that nothing is served twice is `SocketMap`.
* `PatientTasks`: `OneRequest`, for clients that wait for their answers (`~Impatient` is part of
  the property), by `CInv`. A client is owed at most one answer (`Modest`); every descriptor that
  an event, the queue, a batch or a reading task has (`Summoned`) is owed one (`Called`), so its
  client has not left; and what is answered, in hand and unread adds up to what was sent
  (`NoRequestLost` again). With such clients `RecvEof` and `RecvError` never happen;
  `MCReactorEof` shows what happens with others.

`ThreadPoolProofs` proves for every number of threads, places, tasks and callers, from
`SizeAssumption` (positive sizes, `MinThr <= MaxThr`), `CallerAssumption` and
`ModeAssumption`:

* `Typing` and `LiveCounted`, by the invariant `Counts`: the types of `busy_thr_num` and
  `live_thr_num` are inductive only together with what the two count, the size of the
  sets of threads at `run` and of threads that exist.
* `Implementation`: `ThreadPool` implements `TaskPool`. The invariant is `Placed`: queue
  and batches are disjoint and without repetition, together with `done` they are the
  accepted tasks, and only a thread that took a batch has one. `LiveCount` is needed for
  it: a batch's size is a quotient by `live_thr_num`.
* `Remembered`: `CallerRemembered` is inductive beside `Counts` and `Sole`: with one caller at
  most one call waits, so the signal of the batch that empties the queue reaches it, also when
  the pool was closed meanwhile.
* `EnoughThreads`: `Manned`. The manager's request to shrink is older than the threads that obey
  it; what keeps the minimum is that `Retire` tests `live_thr_num` again under the locks, and
  that it counts right (`LiveCount`).
* `SignalForEachTask`: `SignalPerTask` in a pool without a manager, where `destroy_thr_num`
  stays 0 (`NoManager`). In a dynamic pool it is false (see above).
* `EverybodyAwake`: `NoneSleeps`; that one reading of `live_thr_num` without the lock is
  enough for the broadcast rests on `LiveCount`.

`FramingProofs` proves for every sequence of messages, width of the length and capacity of
the line (`FrameAssumption`: all positive):

* `Typing`, with `Len(buf) <= need`;
* `Alignment`: `Aligned`. It relates each byte to the next one, and that does not say what
  the `need` bytes of a complete read hold unless one counts along them. The invariant
  therefore states the order of bytes at any distance within a frame (`Ordered`), and with it
  where the stream begins and ends (`Placing`); `Control` says what the buffers hold at each
  place of the two calls. `TakeFront` is the heart: the front of an ordered stream, within one
  frame, is that part of the frame, and what is left is ordered and begins where it ended.
* `Implementation`: `Framing` implements `MessageStream`. A complete read in step is
  `Receive`, with the next message because its bytes are (`BodyTaken`); `BeginWrite` is `Send`;
  what takes the ends out of step, and every message returned after that, is `Slip`.

`FacilitiesProofs` proves for any threads and objects `Typing`, `Accounting` (`Accounted`: the
two counters equal what they count, and an object is in one place), `Signals`
(`NoLostSignal`: as many woken threads as objects in the list while one waits; the mutex makes
the test and the wait one step, which is what it needs) and `Order` (`InOrder`).

`QueueLemmas` holds what the proof modules need to know of queues that grow, lose their
head, are cut in two or are laid end to end.

`KeyLifecycleProofs` proves from `KeyLifecycle` alone that a shown or held key belongs
to its client and that a revoked key is never shown.

`KeyProtocolProofs` and `KeyAgreementProofs` prove for any clients, descriptors, bounds,
failing statements and restarts, from `WireAssumption` (`NoClient` is no client),
`ServerAssumption` (positive sizes; 0, standard input, is no connection's descriptor) and
`ClientAssumption`:

| Theorem | Conditions | Invariant |
|---|---|---|
| `Typing` | none | `TInv`: types, and `Shape`: a task's request fits the step it is at |
| `ShownAnew` | none | `AInv`: no number of an older row but 0 is on a connection to this server, in a handler or in the slot of a client connected to it |
| `KeysShown` | `OneThread` | `SInv`: what is sent, held and handled for a client is that client's, and `HasRow`: the row a handler is about to show exists |
| `RevokedShownToNobody` | `OneThread`, `OnlyRevokes` | `RInv`: `SInv`, and `Current`: the row about to be shown is active, the one about to be revoked is shown nowhere |
| `KeysAgree`, `ChecksGenuine`; `RevocationsKept` | `OneThread`, no `Timeouts`; and no `CommitFails` | `PInv`: `SInv`, `AInv`, and `Waits` |
| `NoneRefused` | `OneThread`, no `Timeouts` | `PInv` and `Unspoiled`: the Hmac object has the key the handler set in it |
| `Implementation` (of `KeyLifecycle`) | `OneThread`, `OnlyRevokes`, no `Timeouts` | `PInv` and `RInv` |

`OneThread` is the server as it is deployed: `ServerOperation.cpp:27` makes the pool with one
thread, and without `is_d` the manager adds none. It is needed: `clientPremaster` uses the
session and the Hmac object after its temporary gave them back (with `Workers <- MCWorkers` TLC
soon finds `AgreedKey` violated in `MCKeyProtocol.cfg`, `ShmIsIssued` and `Recognised` in
`MCKeyCheck.cfg`). It is a condition of the theorems
and not of the model, so that `ShownAnew` covers pools of any size. The other conditions
are needed as the runs show: `MCKeyRevived` revives a revoked key with a check (`OnlyRevokes`, which
also excludes a failing attachment: `updateStatue` reports it as no slot and the row is revoked
while its slot stays active), `MCKeyStale` takes a late answer for another's (`Timeouts`), and without
`~CommitFails` a client is told of a revocation the database has undone (only what a client is told depends on it:
`KeyLifecycle` says nothing of answers, and is kept whatever `COMMIT` fails).

The heart of `PInv` is `Waits`: of a client's request there is one piece under way, the
request, the handler's work or the answer, and what is true of it is said for each of the three
places. `Handles` says that the key in a handler's hands is the one the client spliced
(`Agreed`), because the strings kept for the descriptor are those of the client's
operation (`Drawn`), and `Asks` that the request has the client's key, which is why a check or
a revocation finds it equal to the row's (`NoneRefused`, by `AgreedKey`); `Tells`, what a successful answer means. `Linked` is what keeps one
connection's request off another's strings: the descriptor of a live connection is nobody
else's, and a handler that works on it works for its client. That `Start` keeps it rests on the
kernel's handing out no descriptor a handler still has open.

`Implementation` maps owners and states off the database, `shown` off the server's slots
and `held` off the clients' slots. `LInsert`, `LShmWrite`, `LSetStatus`, `LUpdateState`, `LRestart`
and `LClients` name the step of a key's life each action is; all other actions stutter. A
revocation is `Hide` and then `Revoke`, and `Revoke`'s guard, that the key is shown no
more, is `Current`.

Every safety property of the passing runs is proved, `TypeOK` of `Facilities` only so. A property
proved for every value of the constants is checked in the one run whose instance says most about
it: `NoneSleeps` and `CallerRemembered` where threads come and go, `ShmIsIssued` where there are two
slots, `AgreedKey` where client processes are started again. Only model-checked is liveness: `Served`,
`Dropped`, `TaskReturns`, `Answered`, `CloseReturns`, `AddReturns`, `RecvReturns`, `Delivered`,
`GetReturns`, `Written`, and `KeepsRunning`, which is `TaskPool` with its fairness. TLAPS has no
rules for fairness and ENABLED here.

## Not modelled, and why

* The inside of RSA, hashing, HMAC and protobuf: pure functions.
* AES and `ItcastLog`: not used by the programs.
* Start-up failures (configuration, `bind`, `listen`, database connection): the server
  is taken up once it serves.
* Rows are never deleted, and the database does not restart.
* The one mapping of the server's segment that all its threads share (`m_shmAddr`): with
  two handler threads one could detach what the other has just attached. The server
  constructs its pool with one thread; `KeyServer` treats an attach, its use and the detach as one
  step, except `updateStatue`, whose search and write are two.
* `shmRead`, `delShm`, `getKeyID` and `updataKeyID` have no callers in the server.
* Generated code, configuration and build files, which appear as CONSTANTS.
