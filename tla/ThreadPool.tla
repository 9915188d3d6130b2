---------------------------- MODULE ThreadPool ----------------------------
(***************************************************************************)
(* thread_pool: callers of add_task, the worker threads (thread_func), the *)
(* manager of a dynamic pool (admin_thread_func), and close.               *)
(*                                                                         *)
(* What one thread does between locking queue_lock and releasing it, or    *)
(* waiting on a condition variable, is one action; so is what it does      *)
(* under thread_counter_lock.  The threads blocked on a condition variable *)
(* are those whose control says "wait"; a signal moves one of them, any    *)
(* one, to "woken", and there it competes for the lock like everybody.     *)
(* A condition variable may also wake a thread for no reason.              *)
(*                                                                         *)
(* A call of add_task is named by its task.  The constants are what the    *)
(* constructor makes of its parameters.                                    *)
(***************************************************************************)
EXTENDS Integers, Sequences, FiniteSets, Functions

CONSTANTS
  Tasks,       \* the tasks handed to add_task over the pool's life
  MaxCallers,  \* how many threads call add_task
  MinThr,      \* min_thr_num
  MaxThr,      \* max_thr_num, the size of the vector threads
  MaxTasks,    \* max_tasks_num
  Increment,   \* THREAD_INCREMENT
  Dynamic      \* is_dynamic

ASSUME SizeAssumption ==
  /\ MinThr \in Nat \ {0} /\ MaxThr \in Nat /\ MinThr <= MaxThr
  /\ MaxTasks \in Nat \ {0}
  /\ Increment \in Nat \ {0}
ASSUME CallerAssumption == MaxCallers \in Nat \ {0}
ASSUME ModeAssumption == Dynamic \in BOOLEAN

VARIABLES
  call,      \* where the call add_task(t) is
  taskq,     \* task_q
  shutdown,
  live,      \* live_thr_num
  destroy,   \* destroy_thr_num
  busy,      \* busy_thr_num
  pc,        \* where the thread of each place in the vector threads is
  mine,      \* taskList of each thread
  adm,       \* the manager: its control and locals
  closer,    \* where close() is
  done       \* the tasks that were run to their end

queueVars == <<call, taskq, shutdown>>
countVars == <<live, destroy, busy>>
vars == <<queueVars, countVars, pc, mine, adm, closer, done>>

----------------------------------------------------------------------------
Slots == 1..MaxThr

At(where) == {s \in Slots : pc[s] \in where}

\* The threads that exist; those at none were not created, and an exited one
\* has given up the lock for good.
Living   == Slots \ At({"none", "exited"})
Waiting  == At({"wait"})
Woken    == At({"woken"})
Blocked  == {t \in Tasks : call[t] = "wait"}
Notified == {t \in Tasks : call[t] = "woken"}

TypeOK ==
  /\ call \in [Tasks -> {"new", "wait", "woken", "accepted", "refused"}]
  /\ taskq \in Seq(Tasks) /\ Len(taskq) <= MaxTasks
  /\ shutdown \in BOOLEAN
  /\ live \in 0..MaxThr
  /\ destroy \in 0..Increment
  /\ busy \in 0..MaxThr
  /\ pc \in [Slots -> {"none", "top", "wait", "woken", "taken", "run", "exited"}]
  /\ mine \in [Slots -> Seq(Tasks)]
  /\ adm \in [pc : {"sleep", "looked", "decide", "shrink", "signal", "gone"},
              live : 0..MaxThr, tasks : 0..MaxTasks, busy : 0..MaxThr,
              left : 0..Increment]
  /\ closer \in {"open", "wake", "join", "closed"}
  /\ done \in SUBSET Tasks

Init ==
  /\ call = [t \in Tasks |-> "new"]
  /\ taskq = <<>> /\ shutdown = FALSE
  /\ live = MinThr /\ destroy = 0 /\ busy = 0
  /\ pc = [s \in Slots |-> IF s <= MinThr THEN "top" ELSE "none"]
  /\ mine = [s \in Slots |-> <<>>]
  /\ adm = [pc |-> IF Dynamic THEN "sleep" ELSE "gone",
            live |-> 0, tasks |-> 0, busy |-> 0, left |-> 0]
  /\ closer = "open"
  /\ done = {}

----------------------------------------------------------------------------
(* The condition variables.                                                *)

\* is_take: the control of the threads after a signal and after a broadcast.
Signalled ==
  IF Waiting = {} THEN {pc} ELSE {[pc EXCEPT ![s] = "woken"] : s \in Waiting}
Broadcast == [s \in Slots |-> IF pc[s] = "wait" THEN "woken" ELSE pc[s]]

\* is_push: the calls of add_task after a signal.
PushSignalled ==
  IF Blocked = {} THEN {call} ELSE {[call EXCEPT ![t] = "woken"] : t \in Blocked}

\* A wake-up without a signal.
Spurious ==
  /\ \/ \E s \in Waiting : pc' = [pc EXCEPT ![s] = "woken"] /\ UNCHANGED call
     \/ \E t \in Blocked : call' = [call EXCEPT ![t] = "woken"] /\ UNCHANGED pc
  /\ UNCHANGED <<taskq, shutdown, countVars, mine, adm, closer, done>>

----------------------------------------------------------------------------
(* add_task.  The caller holds queue_lock in each step.                    *)

\* Nobody uses the pool after close has returned.
Begin(t) ==
  /\ call[t] = "new" /\ closer # "closed"
  /\ Cardinality(Blocked \cup Notified) < MaxCallers

Calling(t) == Begin(t) \/ call[t] = "woken"

CallerWaits(t) ==
  /\ Calling(t) /\ Len(taskq) = MaxTasks /\ ~shutdown
  /\ call' = [call EXCEPT ![t] = "wait"]
  /\ UNCHANGED <<taskq, shutdown, countVars, pc, mine, adm, closer, done>>

Refuse(t) ==
  /\ Calling(t) /\ shutdown
  /\ call' = [call EXCEPT ![t] = "refused"]
  /\ UNCHANGED <<taskq, shutdown, countVars, pc, mine, adm, closer, done>>

\* Mutant: the signal only for the task that makes the queue non-empty.
PushSignalsFirst(t) ==
  /\ Calling(t) /\ Len(taskq) # MaxTasks /\ ~shutdown
  /\ taskq' = Append(taskq, t)
  /\ call' = [call EXCEPT ![t] = "accepted"]
  /\ IF taskq = <<>> THEN pc' \in Signalled ELSE UNCHANGED pc
  /\ UNCHANGED <<shutdown, countVars, mine, adm, closer, done>>

\* Mutant: no signal.
PushSilent(t) ==
  /\ Calling(t) /\ Len(taskq) # MaxTasks /\ ~shutdown
  /\ taskq' = Append(taskq, t)
  /\ call' = [call EXCEPT ![t] = "accepted"]
  /\ UNCHANGED <<shutdown, countVars, pc, mine, adm, closer, done>>

Push(t) ==
  /\ Calling(t) /\ Len(taskq) # MaxTasks /\ ~shutdown
  /\ taskq' = Append(taskq, t)
  /\ call' = [call EXCEPT ![t] = "accepted"]
  /\ pc' \in Signalled
  /\ UNCHANGED <<shutdown, countVars, mine, adm, closer, done>>

AddTask(t) == CallerWaits(t) \/ Refuse(t) \/ Push(t)

----------------------------------------------------------------------------
(* thread_func.  In the first three the thread s holds queue_lock and      *)
(* tests the queue.                                                        *)

\* Mutant: the loop tests the queue only.
WaitUnchecked(s) ==
  /\ taskq = <<>>
  /\ pc' = [pc EXCEPT ![s] = "wait"]
  /\ UNCHANGED <<queueVars, live, mine>>

Wait(s) ==
  /\ taskq = <<>> /\ ~shutdown
  /\ pc' = [pc EXCEPT ![s] = "wait"]
  /\ UNCHANGED <<queueVars, live, mine>>

\* Mutant: a thread that finds the pool closed goes back to the queue's test.
LeaveSleeps(s) ==
  /\ taskq = <<>> /\ shutdown
  /\ pc' = [pc EXCEPT ![s] = "top"]
  /\ UNCHANGED <<queueVars, live, mine>>

Leave(s) ==
  /\ taskq = <<>> /\ shutdown
  /\ pc' = [pc EXCEPT ![s] = "exited"]
  /\ live' = live - 1
  /\ UNCHANGED <<queueVars, mine>>

\* The loop takes tasks while cnt <= maxTask: one more than a thread's share.
Share == LET maxTask == IF MaxTasks \div live > 1 THEN MaxTasks \div live ELSE 1
         IN  IF Len(taskq) <= maxTask THEN Len(taskq) ELSE maxTask + 1

\* Mutant: is_push is not signalled.
TakeSilent(s) ==
  /\ taskq # <<>>
  /\ mine' = [mine EXCEPT ![s] = SubSeq(taskq, 1, Share)]
  /\ taskq' = SubSeq(taskq, Share + 1, Len(taskq))
  /\ pc' = [pc EXCEPT ![s] = "taken"]
  /\ UNCHANGED <<call, shutdown, live>>

Take(s) ==
  /\ taskq # <<>>
  /\ mine' = [mine EXCEPT ![s] = SubSeq(taskq, 1, Share)]
  /\ taskq' = SubSeq(taskq, Share + 1, Len(taskq))
  /\ call' \in PushSignalled
  /\ pc' = [pc EXCEPT ![s] = "taken"]
  /\ UNCHANGED <<shutdown, live>>

Proceed(s) == Wait(s) \/ Leave(s) \/ Take(s)

Top(s) ==
  /\ pc[s] = "top"
  /\ Proceed(s)
  /\ UNCHANGED <<destroy, busy, adm, closer, done>>

\* Mutant: the request is obeyed whatever the number of threads left.
RetireUnchecked(s) ==
  /\ pc[s] = "woken" /\ destroy > 0
  /\ destroy' = destroy - 1 /\ live' = live - 1
  /\ pc' = [pc EXCEPT ![s] = "exited"]
  /\ UNCHANGED <<queueVars, busy, mine, adm, closer, done>>

\* A woken thread looks for a request to exit before it looks for a task.
Retire(s) ==
  /\ pc[s] = "woken" /\ destroy > 0 /\ live > MinThr
  /\ destroy' = destroy - 1 /\ live' = live - 1
  /\ pc' = [pc EXCEPT ![s] = "exited"]
  /\ UNCHANGED <<queueVars, busy, mine, adm, closer, done>>

\* Mutant: destroy_thr_num is decremented without the test.
ResumeUnchecked(s) ==
  /\ pc[s] = "woken" /\ (destroy = 0 \/ live <= MinThr)
  /\ destroy' = destroy - 1
  /\ Proceed(s)
  /\ UNCHANGED <<busy, adm, closer, done>>

Resume(s) ==
  /\ pc[s] = "woken" /\ (destroy = 0 \/ live <= MinThr)
  /\ destroy' = IF destroy > 0 THEN destroy - 1 ELSE 0
  /\ Proceed(s)
  /\ UNCHANGED <<busy, adm, closer, done>>

BusyUp(s) ==
  /\ pc[s] = "taken"
  /\ busy' = busy + 1
  /\ pc' = [pc EXCEPT ![s] = "run"]
  /\ UNCHANGED <<queueVars, live, destroy, mine, adm, closer, done>>

\* The task at the head of taskList returns.
Run(s) ==
  /\ pc[s] = "run" /\ mine[s] # <<>>
  /\ mine' = [mine EXCEPT ![s] = Tail(@)]
  /\ done' = done \cup {Head(mine[s])}
  /\ UNCHANGED <<queueVars, countVars, pc, adm, closer>>

BusyDown(s) ==
  /\ pc[s] = "run" /\ mine[s] = <<>>
  /\ busy' = busy - 1
  /\ pc' = [pc EXCEPT ![s] = "top"]
  /\ UNCHANGED <<queueVars, live, destroy, mine, adm, closer, done>>

Worker(s) ==
  Top(s) \/ Retire(s) \/ Resume(s) \/ BusyUp(s) \/ Run(s) \/ BusyDown(s)

----------------------------------------------------------------------------
(* admin_thread_func, every ADMIN_INTERVAL seconds.                        *)

\* Mutant: the manager does not look at shutdown.
LookForever ==
  /\ adm.pc = "sleep"
  /\ adm' = [adm EXCEPT !.pc = "looked", !.live = live, !.tasks = Len(taskq)]
  /\ UNCHANGED <<queueVars, countVars, pc, mine, closer, done>>

Look ==
  /\ adm.pc = "sleep"
  /\ adm' = [adm EXCEPT !.pc = IF shutdown THEN "gone" ELSE "looked",
                        !.live = live, !.tasks = Len(taskq)]
  /\ UNCHANGED <<queueVars, countVars, pc, mine, closer, done>>

CountBusy ==
  /\ adm.pc = "looked"
  /\ adm' = [adm EXCEPT !.pc = "decide", !.busy = busy]
  /\ UNCHANGED <<queueVars, countVars, pc, mine, closer, done>>

Crowded == adm.tasks > adm.live /\ adm.live < MaxTasks

\* Mutant: Increment threads are counted, however many there is room for.
ExpandOvercounts ==
  /\ adm.pc = "decide" /\ Crowded
  /\ pc' = [s \in Slots |-> IF pc[s] = "none" THEN "top" ELSE pc[s]]
  /\ live' = live + Increment
  /\ adm' = [adm EXCEPT !.pc = "shrink"]
  /\ UNCHANGED <<queueVars, destroy, busy, mine, closer, done>>

\* Mutant: the test of pthread_kill is turned round, and a living thread's
\* place is given to a new one.
ExpandOverLiving ==
  /\ adm.pc = "decide" /\ Crowded
  /\ \E s \in Living : /\ pc' = [pc EXCEPT ![s] = "top"]
                      /\ mine' = [mine EXCEPT ![s] = <<>>]
  /\ adm' = [adm EXCEPT !.pc = "shrink"]
  /\ UNCHANGED <<queueVars, countVars, closer, done>>

\* The first places without a thread, at most Increment of them, get one.
\* Whether pthread_kill still finds a thread that has exited and was not
\* joined depends on the C library: dead are those it does not find.
Expand ==
  /\ adm.pc = "decide" /\ Crowded
  /\ \E dead \in SUBSET At({"exited"}) : \E new \in SUBSET (At({"none"}) \cup dead) :
       LET kept == (At({"none"}) \cup dead) \ new IN
       /\ Cardinality(new) <= Increment
       /\ kept # {} => Cardinality(new) = Increment
       /\ \A i \in new, j \in kept : i < j
       /\ pc' = [s \in Slots |-> IF s \in new THEN "top" ELSE pc[s]]
       /\ live' = live + Cardinality(new)
  /\ adm' = [adm EXCEPT !.pc = "shrink"]
  /\ UNCHANGED <<queueVars, destroy, busy, mine, closer, done>>

NoExpand ==
  /\ adm.pc = "decide" /\ ~Crowded
  /\ adm' = [adm EXCEPT !.pc = "shrink"]
  /\ UNCHANGED <<queueVars, countVars, pc, mine, closer, done>>

Quiet == adm.busy * 2 < adm.live /\ adm.live > MinThr

Shrink ==
  /\ adm.pc = "shrink" /\ Quiet
  /\ destroy' = Increment
  /\ adm' = [adm EXCEPT !.pc = "signal", !.left = Increment]
  /\ UNCHANGED <<queueVars, live, busy, pc, mine, closer, done>>

NoShrink ==
  /\ adm.pc = "shrink" /\ ~Quiet
  /\ adm' = [adm EXCEPT !.pc = "sleep"]
  /\ UNCHANGED <<queueVars, countVars, pc, mine, closer, done>>

SignalIdle ==
  /\ adm.pc = "signal"
  /\ pc' \in Signalled
  /\ adm' = [adm EXCEPT !.left = @ - 1, !.pc = IF adm.left = 1 THEN "sleep" ELSE @]
  /\ UNCHANGED <<queueVars, countVars, mine, closer, done>>

Admin == \/ Look \/ CountBusy \/ Expand \/ NoExpand
         \/ Shrink \/ NoShrink \/ SignalIdle

----------------------------------------------------------------------------
(* close.                                                                  *)

Close ==
  /\ closer = "open"
  /\ shutdown' = TRUE
  /\ closer' = "wake"
  /\ UNCHANGED <<call, taskq, countVars, pc, mine, adm, done>>

\* live_thr_num broadcasts, outside the lock.  After the first one nobody can
\* start to wait, so the others find nobody.
WakeAll ==
  /\ closer = "wake"
  /\ pc' = IF live > 0 THEN Broadcast ELSE pc
  /\ closer' = "join"
  /\ UNCHANGED <<queueVars, countVars, mine, adm, done>>

\* The manager is joined first, then every thread that is still alive.
Join ==
  /\ closer = "join"
  /\ adm.pc = "gone" /\ Living = {}
  /\ closer' = "closed"
  /\ UNCHANGED <<queueVars, countVars, pc, mine, adm, done>>

Closing == WakeAll \/ Join

Next ==
  \/ \E t \in Tasks : AddTask(t)
  \/ \E s \in Slots : Worker(s)
  \/ Admin \/ Close \/ Closing \/ Spurious

Spec == Init /\ [][Next]_vars

\* Every thread inside the pool goes on, a task's function returns (Reactor's
\* TaskReturns is that fact for workThread), and a caller that was woken in
\* add_task goes on.  Nobody has to call add_task or close, and no wake-up
\* comes without a signal.
FairSpec ==
  /\ Spec
  /\ \A s \in Slots : WF_vars(Worker(s))
  /\ \A t \in Tasks : WF_vars(call[t] = "woken" /\ AddTask(t))
  /\ WF_vars(Admin) /\ WF_vars(Closing)

----------------------------------------------------------------------------
(* Properties.                                                             *)

\* live_thr_num counts the threads there are.  thread_func divides by it,
\* close broadcasts that many times, and the manager compares it with
\* min_thr_num; it is changed by exiting threads, by the manager and on two
\* different paths of one thread.
LiveCount == live = Cardinality(Living)

\* A signal for every task: while a thread waits for work, as many threads
\* have been woken and not yet run as there are tasks in the queue, so a
\* batch, a thread that overtakes the woken one or a spurious wake-up leaves
\* no task with nobody coming for it.
SignalPerTask ==
  Waiting # {} => Len(taskq) <= Cardinality(Woken)

\* The pool keeps min_thr_num threads while it is open, and while it is being
\* closed as long as a task is queued: the manager's request to shrink is
\* older than the threads that obey it, and none of them obeys it, or leaves
\* at shutdown, when its going would leave tasks to too few.
Manned == ~shutdown \/ taskq # <<>> => Cardinality(Living) >= MinThr

\* A caller blocked on a full queue is never forgotten, although a batch that
\* frees many places signals is_push only once: there is a task whose taking
\* will signal, or a woken caller who will add one.  close signals nobody on
\* is_push; a sole caller, as the server's main thread is, is remembered all
\* the same, the last of several may not be.
CallerRemembered ==
  Blocked # {} /\ (MaxCallers = 1 \/ ~shutdown) => taskq # <<>> \/ Notified # {}

\* Once close has woken everybody and starts to join, no thread sleeps on
\* is_take, nor will one again; so each of them sees shutdown and ends.
NoneSleeps == closer \in {"join", "closed"} => Waiting = {}

\* The pool keeps what TaskPool promises: whatever thread takes it, whichever
\* way the batch is cut, and close or not, an accepted task is run once.
Held == Range(taskq) \cup UNION {Range(mine[s]) : s \in Slots}
Pool == INSTANCE TaskPool WITH pending <- Held, closed <- shutdown
KeepsPool == Pool!Spec

----------------------------------------------------------------------------
(* Liveness, under FairSpec.                                               *)

\* Every accepted task is run in the end.
KeepsRunning == Pool!FairSpec

\* close returns: the queue is emptied and all threads can be joined.
CloseReturns == (closer # "open") ~> (closer = "closed")

\* A call of add_task that found the queue full returns, unless the pool is
\* closed: close wakes nobody on is_push, and of several callers blocked at
\* that moment the last batch's signal reaches one.
AddReturns ==
  \A t \in Tasks :
    (call[t] = "wait") ~> (call[t] \in {"accepted", "refused"} \/ shutdown)
=============================================================================
