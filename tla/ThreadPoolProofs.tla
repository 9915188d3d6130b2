------------------------- MODULE ThreadPoolProofs -------------------------
(***************************************************************************)
(* What holds of ThreadPool for any number of threads, callers, tasks and  *)
(* places.  The invariants come in layers, each proved with those before:  *)
(* the counters are right (Counts), every accepted task is in one place    *)
(* (Placed), blocked callers are remembered, and, in a fixed pool, there   *)
(* is a signal for every task.                                             *)
(***************************************************************************)
EXTENDS ThreadPool, QueueLemmas, FiniteSetTheorems, TLAPS

\* busy_thr_num counts the threads between its two updates.
BusyCount == busy = Cardinality(At({"run"}))

\* The manager has signals left to send while it sends them.
SignalsLeft == adm.pc = "signal" => adm.left > 0

Counts == TypeOK /\ LiveCount /\ BusyCount /\ SignalsLeft

\* The manager's record.
AdmType == [pc : {"sleep", "looked", "decide", "shrink", "signal", "gone"},
            live : 0..MaxThr, tasks : 0..MaxTasks, busy : 0..MaxThr,
            left : 0..Increment]

----------------------------------------------------------------------------
(* Sets of threads.                                                        *)

LEMMA SlotsFinite ==
  /\ IsFiniteSet(Slots) /\ Cardinality(Slots) = MaxThr
  /\ \A S \in SUBSET Slots : /\ IsFiniteSet(S)
                             /\ Cardinality(S) \in 0..MaxThr
<1>1. IsFiniteSet(Slots) /\ Cardinality(Slots) = MaxThr
  BY FS_Interval, SizeAssumption DEF Slots
<1>2. ASSUME NEW S \in SUBSET Slots
      PROVE  IsFiniteSet(S) /\ Cardinality(S) \in 0..MaxThr
  BY <1>1, FS_Subset, FS_CardinalityType, SizeAssumption
<1> QED BY <1>1, <1>2

\* A thread that exits, or stops or starts to be counted as busy.
LEMMA OneLess ==
  ASSUME NEW S \in SUBSET Slots, NEW s \in S
  PROVE  /\ Cardinality(S \ {s}) = Cardinality(S) - 1
         /\ Cardinality(S) > 0
BY SlotsFinite, FS_RemoveElement, FS_EmptySet

LEMMA OneMore ==
  ASSUME NEW S \in SUBSET Slots, NEW s \in Slots \ S
  PROVE  Cardinality(S \cup {s}) = Cardinality(S) + 1
BY SlotsFinite, FS_AddElement

LEMMA Together ==
  ASSUME NEW S \in SUBSET Slots, NEW T \in SUBSET Slots, S \cap T = {}
  PROVE  Cardinality(S \cup T) = Cardinality(S) + Cardinality(T)
<1>1. IsFiniteSet(S) /\ IsFiniteSet(T)
  BY SlotsFinite
<1>2. Cardinality(S) \in Nat /\ Cardinality(T) \in Nat /\ Cardinality(S \cap T) = 0
  BY <1>1, FS_CardinalityType, FS_EmptySet
<1>3. Cardinality(S \cup T) = Cardinality(S) + Cardinality(T) - Cardinality(S \cap T)
  BY <1>1, FS_Union
<1> QED BY <1>2, <1>3

\* What a signal on is_take does to the threads.
LEMMA Signal ==
  ASSUME TypeOK, NEW p \in Signalled
  PROVE  /\ p \in [Slots -> {"none", "top", "wait", "woken", "taken", "run", "exited"}]
         /\ \A s \in Slots : p[s] = pc[s] \/ (pc[s] = "wait" /\ p[s] = "woken")
         /\ Waiting = {} => p = pc
         /\ Waiting # {} => \E s \in Waiting : p = [pc EXCEPT ![s] = "woken"]
BY DEF TypeOK, Signalled, Waiting, At

\* What a signal on is_push does to the callers.
LEMMA PushSignal ==
  ASSUME TypeOK, NEW c \in PushSignalled
  PROVE  /\ c \in [Tasks -> {"new", "wait", "woken", "accepted", "refused"}]
         /\ \A t \in Tasks : c[t] = call[t] \/ (call[t] = "wait" /\ c[t] = "woken")
         /\ Blocked # {} => \E t \in Tasks : call[t] = "wait" /\ c[t] = "woken"
BY DEF TypeOK, PushSignalled, Blocked

\* A batch is not empty and not longer than the queue.
LEMMA ShareBounds ==
  ASSUME TypeOK, live > 0, taskq # <<>>
  PROVE  Share \in 1..Len(taskq)
<1>1. live \in Nat /\ MaxTasks \in Nat /\ Len(taskq) \in Nat /\ Len(taskq) > 0
  BY SizeAssumption DEF TypeOK
<1>2. MaxTasks \div live \in Int
  BY <1>1
<1> QED BY <1>1, <1>2 DEF Share

----------------------------------------------------------------------------
(* The counters.                                                           *)

\* A step that starts and ends no thread and no batch keeps the counters.
LEMMA CountsKept ==
  ASSUME Counts,
         \A s \in Slots : /\ pc'[s] \in {"none", "exited"} <=> pc[s] \in {"none", "exited"}
                          /\ pc'[s] = "run" <=> pc[s] = "run",
         live' = live, busy' = busy
  PROVE  LiveCount' /\ BusyCount'
<1>1. Living' = Living /\ At({"run"})' = At({"run"})
  BY DEF Living, At
<1> QED BY <1>1 DEF Counts, LiveCount, BusyCount

\* A thread that exits is counted down.
LEMMA CountsExit ==
  ASSUME Counts, NEW s \in Slots, pc[s] \in {"top", "woken"},
         pc' = [pc EXCEPT ![s] = "exited"], live' = live - 1, busy' = busy
  PROVE  LiveCount' /\ BusyCount' /\ live' \in 0..MaxThr
<1>1. s \in Living /\ Living' = Living \ {s} /\ At({"run"})' = At({"run"})
  BY DEF Counts, TypeOK, Living, At
<1>2. Cardinality(Living \ {s}) = Cardinality(Living) - 1 /\ Living \in SUBSET Slots
  BY <1>1, OneLess DEF Living
<1>3. Cardinality(Living) \in 0..MaxThr /\ Cardinality(Living \ {s}) \in 0..MaxThr
  BY <1>2, SlotsFinite
<1> QED BY <1>1, <1>2, <1>3 DEF Counts, LiveCount, BusyCount

\* A living thread makes live_thr_num positive.
LEMMA LivePositive ==
  ASSUME Counts, NEW s \in Slots, pc[s] \notin {"none", "exited"}
  PROVE  live > 0
<1>1. s \in Living /\ Living \in SUBSET Slots
  BY DEF Living, At
<1> QED BY <1>1, OneLess DEF Counts, LiveCount

LEMMA InitCounts == Init => Counts
<1> SUFFICES ASSUME Init PROVE Counts
  OBVIOUS
<1> USE SizeAssumption
<1>1. TypeOK
  <2>1. adm \in [pc : {"sleep", "looked", "decide", "shrink", "signal", "gone"},
                 live : 0..MaxThr, tasks : 0..MaxTasks, busy : 0..MaxThr,
                 left : 0..Increment]
    BY DEF Init
  <2>2. MinThr \in 0..MaxThr /\ 0 \in 0..Increment /\ 0 \in 0..MaxThr /\ 0 <= MaxTasks
    OBVIOUS
  <2>3. taskq \in Seq(Tasks) /\ Len(taskq) = 0
    BY DEF Init
  <2>4. call \in [Tasks -> {"new", "wait", "woken", "accepted", "refused"}]
    BY DEF Init
  <2> QED BY <2>1, <2>2, <2>3, <2>4 DEF Init, TypeOK
<1>2. Living = 1..MinThr
  BY DEF Init, Living, At, Slots
<1>3. Cardinality(1..MinThr) = MinThr
  BY FS_Interval
<1>4. At({"run"}) = {}
  BY DEF Init, At
<1> QED BY <1>1, <1>2, <1>3, <1>4, FS_EmptySet
        DEF Init, Counts, LiveCount, BusyCount, SignalsLeft

LEMMA CallerCounts ==
  ASSUME Counts, NEW t \in Tasks, AddTask(t)
  PROVE  Counts'
<1>1. CASE CallerWaits(t)
  <2>1. TypeOK'
    BY <1>1 DEF CallerWaits, Counts, TypeOK, countVars
  <2>2. LiveCount' /\ BusyCount'
    BY <1>1, CountsKept DEF CallerWaits, countVars
  <2> QED BY <1>1, <2>1, <2>2 DEF Counts, SignalsLeft, CallerWaits
<1>2. CASE Refuse(t)
  <2>1. TypeOK'
    BY <1>2 DEF Refuse, Counts, TypeOK, countVars
  <2>2. LiveCount' /\ BusyCount'
    BY <1>2, CountsKept DEF Refuse, countVars
  <2> QED BY <1>2, <2>1, <2>2 DEF Counts, SignalsLeft, Refuse
<1>3. CASE Push(t)
  <2>1. pc' \in [Slots -> {"none", "top", "wait", "woken", "taken", "run", "exited"}]
    BY <1>3, Signal DEF Push, Counts
  <2>2. taskq' \in Seq(Tasks) /\ Len(taskq') <= MaxTasks
    BY <1>3, SizeAssumption DEF Push, Counts, TypeOK
  <2>3. TypeOK'
    BY <1>3, <2>1, <2>2 DEF Push, Counts, TypeOK, countVars
  <2>4. \A s \in Slots : pc'[s] = pc[s] \/ (pc[s] = "wait" /\ pc'[s] = "woken")
    BY <1>3, Signal DEF Push, Counts
  <2>5. LiveCount' /\ BusyCount'
    BY <1>3, <2>4, CountsKept DEF Push, countVars
  <2> QED BY <1>3, <2>3, <2>5 DEF Counts, SignalsLeft, Push
<1> QED BY <1>1, <1>2, <1>3 DEF AddTask

\* What thread_func does with the lock, on either way to the queue's test.
LEMMA ProceedCounts ==
  ASSUME Counts, NEW s \in Slots, pc[s] \in {"top", "woken"}, Proceed(s),
         destroy' \in 0..Increment, UNCHANGED <<busy, adm, closer, done>>
  PROVE  Counts'
<1>1. CASE Wait(s)
  <2>1. TypeOK'
    BY <1>1 DEF Wait, Counts, TypeOK, queueVars
  <2>2. LiveCount' /\ BusyCount'
    BY <1>1, CountsKept DEF Wait, Counts, TypeOK
  <2> QED BY <2>1, <2>2 DEF Counts, SignalsLeft
<1>2. CASE Leave(s)
  <2>1. LiveCount' /\ BusyCount' /\ live' \in 0..MaxThr
    BY <1>2, CountsExit DEF Leave
  <2>2. TypeOK'
    BY <1>2, <2>1 DEF Leave, Counts, TypeOK, queueVars
  <2> QED BY <2>1, <2>2 DEF Counts, SignalsLeft
<1>3. CASE Take(s)
  <2>1. Share \in 1..Len(taskq)
    BY <1>3, LivePositive, ShareBounds DEF Take, Counts
  <2>2. /\ SubSeq(taskq, 1, Share) \in Seq(Tasks) /\ taskq' \in Seq(Tasks)
        /\ Len(taskq') <= MaxTasks
    BY <1>3, <2>1, Cut, SizeAssumption DEF Take, Counts, TypeOK
  <2>3. call' \in [Tasks -> {"new", "wait", "woken", "accepted", "refused"}]
    BY <1>3, PushSignal DEF Take, Counts
  <2>4. TypeOK'
    BY <1>3, <2>2, <2>3 DEF Take, Counts, TypeOK
  <2>5. LiveCount' /\ BusyCount'
    BY <1>3, CountsKept DEF Take, Counts, TypeOK
  <2> QED BY <2>4, <2>5 DEF Counts, SignalsLeft
<1> QED BY <1>1, <1>2, <1>3 DEF Proceed

LEMMA WorkerCounts ==
  ASSUME Counts, NEW s \in Slots, Worker(s)
  PROVE  Counts'
<1> USE SizeAssumption
<1>1. CASE Top(s)
  BY <1>1, ProceedCounts DEF Top, Counts, TypeOK
<1>2. CASE Retire(s)
  <2>1. LiveCount' /\ BusyCount' /\ live' \in 0..MaxThr
    BY <1>2, CountsExit DEF Retire
  <2>2. TypeOK'
    BY <1>2, <2>1 DEF Retire, Counts, TypeOK, queueVars
  <2> QED BY <1>2, <2>1, <2>2 DEF Counts, SignalsLeft, Retire
<1>3. CASE Resume(s)
  <2>1. destroy' \in 0..Increment
    BY <1>3 DEF Resume, Counts, TypeOK
  <2> QED BY <1>3, <2>1, ProceedCounts DEF Resume
<1>4. CASE BusyUp(s)
  <2>1. /\ Living' = Living /\ At({"run"})' = At({"run"}) \cup {s}
        /\ s \in Slots \ At({"run"}) /\ At({"run"}) \in SUBSET Slots
    BY <1>4 DEF BusyUp, Counts, TypeOK, Living, At
  <2>2. LiveCount' /\ BusyCount'
    BY <1>4, <2>1, OneMore DEF BusyUp, Counts, LiveCount, BusyCount
  <2>3. busy' \in 0..MaxThr
    BY <2>1, <2>2, SlotsFinite DEF BusyCount
  <2>4. TypeOK'
    BY <1>4, <2>3 DEF BusyUp, Counts, TypeOK, queueVars
  <2> QED BY <1>4, <2>2, <2>4 DEF Counts, SignalsLeft, BusyUp
<1>5. CASE Run(s)
  <2>1. mine[s] \in Seq(Tasks) /\ mine[s] # <<>>
    BY <1>5 DEF Run, Counts, TypeOK
  <2>2. Tail(mine[s]) \in Seq(Tasks) /\ Head(mine[s]) \in Tasks
    BY <2>1
  <2>3. TypeOK'
    BY <1>5, <2>2 DEF Run, Counts, TypeOK, queueVars, countVars
  <2>4. LiveCount' /\ BusyCount'
    BY <1>5, CountsKept DEF Run, countVars
  <2> QED BY <1>5, <2>3, <2>4 DEF Counts, SignalsLeft, Run
<1>6. CASE BusyDown(s)
  <2>1. /\ Living' = Living /\ At({"run"})' = At({"run"}) \ {s}
        /\ s \in At({"run"}) /\ At({"run"}) \in SUBSET Slots
    BY <1>6 DEF BusyDown, Counts, TypeOK, Living, At
  <2>2. LiveCount' /\ BusyCount'
    BY <1>6, <2>1, OneLess DEF BusyDown, Counts, LiveCount, BusyCount
  <2>3. busy' \in 0..MaxThr
    BY <2>1, <2>2, SlotsFinite DEF BusyCount
  <2>4. TypeOK'
    BY <1>6, <2>3 DEF BusyDown, Counts, TypeOK, queueVars
  <2> QED BY <1>6, <2>2, <2>4 DEF Counts, SignalsLeft, BusyDown
<1> QED BY <1>1, <1>2, <1>3, <1>4, <1>5, <1>6 DEF Worker

\* What the manager does to its own record.
LEMMA AdminRecord ==
  ASSUME Counts, Admin
  PROVE  adm' \in AdmType /\ SignalsLeft'
<1> USE SizeAssumption
<1>1. adm \in AdmType /\ live \in 0..MaxThr /\ busy \in 0..MaxThr /\ SignalsLeft
  BY DEF Counts, TypeOK, AdmType
<1>2. Len(taskq) \in 0..MaxTasks
  BY DEF Counts, TypeOK
<1>3. CASE Look
  BY <1>1, <1>2, <1>3 DEF Look, AdmType, SignalsLeft
<1>4. CASE CountBusy
  BY <1>1, <1>4 DEF CountBusy, AdmType, SignalsLeft
<1>5. CASE Expand \/ NoExpand
  BY <1>1, <1>5 DEF Expand, NoExpand, AdmType, SignalsLeft
<1>6. CASE Shrink
  <2>1. adm' = [adm EXCEPT !.pc = "signal", !.left = Increment]
    BY <1>6 DEF Shrink
  <2>2. Increment \in 0..Increment /\ Increment > 0
    OBVIOUS
  <2> QED BY <1>1, <2>1, <2>2 DEF AdmType, SignalsLeft
<1>7. CASE NoShrink
  BY <1>1, <1>7 DEF NoShrink, AdmType, SignalsLeft
<1>8. CASE SignalIdle
  <2>1. adm.left - 1 \in 0..Increment /\ (adm.left # 1 => adm.left - 1 > 0)
    BY <1>1, <1>8 DEF SignalIdle, AdmType, SignalsLeft
  <2>2. adm' = [adm EXCEPT !.left = adm.left - 1,
                           !.pc = IF adm.left = 1 THEN "sleep" ELSE adm.pc]
    BY <1>8 DEF SignalIdle
  <2> QED BY <1>1, <2>1, <2>2 DEF AdmType, SignalsLeft
<1> QED BY <1>3, <1>4, <1>5, <1>6, <1>7, <1>8 DEF Admin

LEMMA AdminCounts ==
  ASSUME Counts, Admin
  PROVE  Counts'
<1> USE SizeAssumption
<1>0. adm' \in AdmType /\ SignalsLeft'
  BY AdminRecord
<1>1. CASE Look \/ CountBusy \/ NoExpand \/ NoShrink
  <2>1. TypeOK'
    BY <1>0, <1>1 DEF Look, CountBusy, NoExpand, NoShrink, Counts, TypeOK, AdmType,
                      queueVars, countVars
  <2>2. LiveCount' /\ BusyCount'
    BY <1>1, CountsKept DEF Look, CountBusy, NoExpand, NoShrink, countVars
  <2> QED BY <1>0, <2>1, <2>2 DEF Counts
<1>2. CASE Expand
  <2>1. PICK new \in SUBSET At({"none", "exited"}) :
          /\ pc' = [s \in Slots |-> IF s \in new THEN "top" ELSE pc[s]]
          /\ live' = live + Cardinality(new)
    BY <1>2 DEF Expand, At
  <2>2. /\ Living' = Living \cup new /\ Living \cap new = {}
        /\ Living \in SUBSET Slots /\ new \in SUBSET Slots
        /\ At({"run"})' = At({"run"})
    BY <2>1 DEF Living, At
  <2>3. LiveCount' /\ BusyCount'
    BY <1>2, <2>1, <2>2, Together DEF Expand, Counts, LiveCount, BusyCount
  <2>4. live' \in 0..MaxThr
    BY <2>2, <2>3, SlotsFinite DEF LiveCount, Living
  <2>5. TypeOK'
    BY <1>0, <1>2, <2>1, <2>4 DEF Expand, Counts, TypeOK, AdmType, queueVars
  <2> QED BY <1>0, <2>3, <2>5 DEF Counts
<1>3. CASE Shrink
  <2>1. TypeOK'
    BY <1>0, <1>3 DEF Shrink, Counts, TypeOK, AdmType, queueVars
  <2>2. LiveCount' /\ BusyCount'
    BY <1>3, CountsKept DEF Shrink
  <2> QED BY <1>0, <2>1, <2>2 DEF Counts
<1>4. CASE SignalIdle
  <2>1. /\ pc' \in [Slots -> {"none", "top", "wait", "woken", "taken", "run", "exited"}]
        /\ \A s \in Slots : pc'[s] = pc[s] \/ (pc[s] = "wait" /\ pc'[s] = "woken")
    BY <1>4, Signal DEF SignalIdle, Counts
  <2>2. TypeOK'
    BY <1>0, <1>4, <2>1 DEF SignalIdle, Counts, TypeOK, AdmType, queueVars, countVars
  <2>3. LiveCount' /\ BusyCount'
    BY <1>4, <2>1, CountsKept DEF SignalIdle, countVars
  <2> QED BY <1>0, <2>2, <2>3 DEF Counts
<1> QED BY <1>1, <1>2, <1>3, <1>4 DEF Admin

LEMMA OtherCounts ==
  ASSUME Counts, Close \/ Closing \/ Spurious \/ UNCHANGED vars
  PROVE  Counts'
<1>1. CASE Close
  <2>1. TypeOK'
    BY <1>1 DEF Close, Counts, TypeOK, countVars
  <2>2. LiveCount' /\ BusyCount'
    BY <1>1, CountsKept DEF Close, countVars
  <2> QED BY <1>1, <2>1, <2>2 DEF Counts, SignalsLeft, Close
<1>2. CASE Closing
  <2>1. /\ pc' \in [Slots -> {"none", "top", "wait", "woken", "taken", "run", "exited"}]
        /\ \A s \in Slots : pc'[s] = pc[s] \/ (pc[s] = "wait" /\ pc'[s] = "woken")
    BY <1>2 DEF Closing, WakeAll, Join, Broadcast, Counts, TypeOK
  <2>2. TypeOK'
    BY <1>2, <2>1 DEF Closing, WakeAll, Join, Counts, TypeOK, queueVars, countVars
  <2>3. LiveCount' /\ BusyCount'
    BY <1>2, <2>1, CountsKept DEF Closing, WakeAll, Join, countVars
  <2> QED BY <1>2, <2>2, <2>3 DEF Counts, SignalsLeft, Closing, WakeAll, Join
<1>3. CASE Spurious
  <2>1. \A s \in Slots : pc'[s] = pc[s] \/ (pc[s] = "wait" /\ pc'[s] = "woken")
    BY <1>3 DEF Spurious, Waiting, At, Counts, TypeOK
  <2>2. TypeOK'
    BY <1>3 DEF Spurious, Waiting, Blocked, At, Counts, TypeOK, countVars
  <2>3. LiveCount' /\ BusyCount'
    BY <1>3, <2>1, CountsKept DEF Spurious, countVars
  <2> QED BY <1>3, <2>2, <2>3 DEF Counts, SignalsLeft, Spurious
<1>4. CASE UNCHANGED vars
  BY <1>4 DEF vars, queueVars, countVars, Counts, TypeOK, LiveCount, BusyCount,
              SignalsLeft, Living, At
<1> QED BY <1>1, <1>2, <1>3, <1>4

LEMMA StepCounts == Counts /\ [Next]_vars => Counts'
BY CallerCounts, WorkerCounts, AdminCounts, OtherCounts DEF Next

LEMMA Counted == Spec => []Counts
BY InitCounts, StepCounts, PTL DEF Spec

\* The variables of the pool keep their types: no counter runs below zero or
\* past the number of threads, and the queue never exceeds its places.
THEOREM Typing == Spec => []TypeOK
<1>1. Counts => TypeOK
  BY DEF Counts
<1> QED BY <1>1, Counted, PTL

\* live_thr_num is the number of threads there are, whatever exits, however
\* the manager expands and whenever the pool is closed; so thread_func never
\* divides by zero.
THEOREM LiveCounted == Spec => []LiveCount
<1>1. Counts => LiveCount
  BY DEF Counts
<1> QED BY <1>1, Counted, PTL

----------------------------------------------------------------------------
(* Every accepted task is in one place.                                    *)

Accepted == {t \in Tasks : call[t] = "accepted"}

\* Only a thread between taking a batch and going back has tasks.
Idle == \A s \in Slots : pc[s] \notin {"taken", "run"} => mine[s] = <<>>

Placed ==
  /\ Idle
  /\ Held \cup done = Accepted /\ Held \cap done = {}
  /\ IsInjective(taskq) /\ \A s \in Slots : IsInjective(mine[s])
  /\ \A s \in Slots : Range(mine[s]) \cap Range(taskq) = {}
  /\ \A r, s \in Slots : r # s => Range(mine[r]) \cap Range(mine[s]) = {}

LEMMA InHeld ==
  \A x : x \in Held <=> x \in Range(taskq) \/ \E s \in Slots : x \in Range(mine[s])
BY DEF Held

LEMMA InHeldNext ==
  \A x : x \in Held' <=> x \in Range(taskq') \/ \E s \in Slots : x \in Range(mine'[s])
BY DEF Held

\* A step that moves no task.
LEMMA PlacedKept ==
  ASSUME Placed, UNCHANGED <<taskq, mine, done>>, Accepted' = Accepted, Idle'
  PROVE  Placed' /\ Held' = Held
BY DEF Placed, Held

\* add_task appends a task that is nowhere yet.
LEMMA PushPlaced ==
  ASSUME Counts, Placed, NEW t \in Tasks, Push(t)
  PROVE  Placed' /\ Held' = Held \cup {t} /\ t \notin Held \cup done
<1>1. /\ taskq \in Seq(Tasks) /\ call[t] # "accepted"
      /\ Accepted' = Accepted \cup {t}
  BY DEF Push, Calling, Begin, Counts, TypeOK, Accepted
<1>2. t \notin Held \cup done
  BY <1>1 DEF Placed, Accepted
<1>3. /\ Range(taskq') = Range(taskq) \cup {t} /\ IsInjective(taskq')
  BY <1>1, <1>2, AppendElems DEF Push, Held, Placed
<1>4. \A s \in Slots : t \notin Range(mine[s])
  BY <1>2 DEF Held
<1>5. Held' = Held \cup {t}
  BY <1>3 DEF Held, Push
<1>6. Idle'
  <2>1. \A s \in Slots : pc'[s] = pc[s] \/ (pc[s] = "wait" /\ pc'[s] = "woken")
    BY Signal DEF Push, Counts
  <2> QED BY <2>1 DEF Idle, Placed, Push
<1> QED BY <1>1, <1>2, <1>3, <1>4, <1>5, <1>6 DEF Placed, Push

\* A batch moves from the queue to a thread that has none.
LEMMA TakePlaced ==
  ASSUME Counts, Placed, NEW s \in Slots, pc[s] \in {"top", "woken"}, Take(s),
         done' = done
  PROVE  Placed' /\ Held' = Held
<1>1. Share \in 1..Len(taskq) /\ taskq \in Seq(Tasks) /\ mine \in [Slots -> Seq(Tasks)]
  BY LivePositive, ShareBounds DEF Take, Counts, TypeOK
<1> DEFINE front == SubSeq(taskq, 1, Share)
<1>2. /\ Range(front) \cup Range(taskq') = Range(taskq)
      /\ Range(front) \cap Range(taskq') = {}
      /\ IsInjective(front) /\ IsInjective(taskq')
  BY <1>1, CutRange DEF Take, Placed
<1>3. mine[s] = <<>> /\ Range(mine[s]) = {}
  BY EmptyElems DEF Placed, Idle
<1>4. /\ mine'[s] = front
      /\ \A r \in Slots : r # s => mine'[r] = mine[r]
  BY <1>1 DEF Take
<1> HIDE DEF front
<1>5. Held' = Held
  <2>1. ASSUME NEW x
        PROVE  (\E r \in Slots : x \in Range(mine'[r]))
                 <=> x \in Range(front) \/ \E r \in Slots : x \in Range(mine[r])
    BY <1>3, <1>4
  <2> QED BY <1>2, <2>1, InHeld, InHeldNext
<1>6. Idle'
  <2>1. pc' = [pc EXCEPT ![s] = "taken"] /\ pc \in [Slots -> {"none", "top", "wait",
                                            "woken", "taken", "run", "exited"}]
    BY DEF Take, Counts, TypeOK
  <2> QED BY <1>4, <2>1 DEF Idle, Placed
<1>7. Accepted' = Accepted
  <2>1. \A t \in Tasks : call'[t] = call[t] \/ (call[t] = "wait" /\ call'[t] = "woken")
    BY PushSignal DEF Take, Counts
  <2> QED BY <2>1 DEF Accepted
<1>8. \A r \in Slots : IsInjective(mine'[r]) /\ Range(mine'[r]) \cap Range(taskq') = {}
  BY <1>2, <1>4 DEF Placed
<1>9. \A q, r \in Slots : q # r => Range(mine'[q]) \cap Range(mine'[r]) = {}
  BY <1>2, <1>4 DEF Placed
<1> QED BY <1>2, <1>5, <1>6, <1>7, <1>8, <1>9 DEF Placed

\* A task that was run leaves its thread's batch for good.
LEMMA RunPlaced ==
  ASSUME Counts, Placed, NEW s \in Slots, Run(s)
  PROVE  /\ Placed'
         /\ \E t \in Tasks : t \in Held /\ Held' = Held \ {t} /\ done' = done \cup {t}
<1> DEFINE t == Head(mine[s])
<1>1. mine[s] \in Seq(Tasks) /\ mine[s] # <<>> /\ mine \in [Slots -> Seq(Tasks)]
  BY DEF Run, Counts, TypeOK
<1>2. /\ Range(Tail(mine[s])) = Range(mine[s]) \ {t}
      /\ t \in Range(mine[s]) /\ IsInjective(Tail(mine[s])) /\ t \in Tasks
  BY <1>1, TailElems, HeadTail DEF Placed
<1>3. /\ mine'[s] = Tail(mine[s]) /\ done' = done \cup {t} /\ taskq' = taskq
      /\ \A r \in Slots : r # s => mine'[r] = mine[r]
  BY <1>1 DEF Run, queueVars
<1> HIDE DEF t
<1>4. /\ t \in Held /\ t \notin Range(taskq)
      /\ \A r \in Slots : r # s => t \notin Range(mine[r])
  BY <1>2 DEF Held, Placed
<1>5. Held' = Held \ {t}
  <2>1. ASSUME NEW x
        PROVE  (\E r \in Slots : x \in Range(mine'[r]))
                 <=> x # t /\ \E r \in Slots : x \in Range(mine[r])
    BY <1>2, <1>3, <1>4
  <2> QED BY <1>3, <1>4, <2>1, InHeld, InHeldNext
<1>6. Idle'
  BY <1>1, <1>3 DEF Idle, Placed, Run
<1>7. Accepted' = Accepted
  BY DEF Run, queueVars, Accepted
<1>8. /\ \A r \in Slots : IsInjective(mine'[r]) /\ Range(mine'[r]) \cap Range(taskq') = {}
      /\ \A q, r \in Slots : q # r => Range(mine'[q]) \cap Range(mine'[r]) = {}
  BY <1>2, <1>3 DEF Placed
<1> QED BY <1>2, <1>3, <1>4, <1>5, <1>6, <1>7, <1>8 DEF Placed

\* Every other step of the pool leaves the tasks where they are.
LEMMA OthersPlaced ==
  ASSUME Counts, Placed,
         \/ \E t \in Tasks : CallerWaits(t) \/ Refuse(t)
         \/ \E s \in Slots : \/ Retire(s) \/ BusyUp(s) \/ BusyDown(s)
                             \/ (Top(s) \/ Resume(s)) /\ (Wait(s) \/ Leave(s))
         \/ Admin \/ Close \/ Closing \/ Spurious \/ UNCHANGED vars
  PROVE  Placed' /\ Held' = Held /\ done' = done
<1>1. ASSUME NEW t \in Tasks, CallerWaits(t) \/ Refuse(t)
      PROVE  UNCHANGED <<taskq, mine, done>> /\ Accepted' = Accepted /\ Idle'
  BY <1>1 DEF CallerWaits, Refuse, Calling, Begin, countVars, Accepted, Idle, Placed,
              Counts, TypeOK
<1>2. ASSUME NEW s \in Slots,
             \/ Retire(s) \/ BusyUp(s) \/ BusyDown(s)
             \/ (Top(s) \/ Resume(s)) /\ (Wait(s) \/ Leave(s))
      PROVE  UNCHANGED <<taskq, mine, done>> /\ Accepted' = Accepted /\ Idle'
  <2>1. UNCHANGED <<taskq, mine, done, call>>
    BY <1>2 DEF Retire, BusyUp, BusyDown, Top, Resume, Wait, Leave, queueVars
  <2>2. /\ \A r \in Slots : r # s => pc'[r] = pc[r]
        /\ pc'[s] \in {"taken", "run"} => pc[s] \in {"taken", "run"}
        /\ pc[s] \in {"taken", "run"} /\ mine[s] # <<>> => pc'[s] \in {"taken", "run"}
    BY <1>2 DEF Retire, BusyUp, BusyDown, Top, Resume, Wait, Leave, Counts, TypeOK
  <2> QED BY <2>1, <2>2 DEF Accepted, Idle, Placed
<1>3. CASE Admin \/ Close \/ Closing \/ Spurious \/ UNCHANGED vars
  <2>1. UNCHANGED <<taskq, mine, done>>
    BY <1>3 DEF Admin, Look, CountBusy, Expand, NoExpand, Shrink, NoShrink, SignalIdle,
                Close, Closing, WakeAll, Join, Spurious, vars, queueVars, countVars
  <2>2. \A t \in Tasks : call'[t] = call[t] \/ (call[t] = "wait" /\ call'[t] = "woken")
    BY <1>3 DEF Admin, Look, CountBusy, Expand, NoExpand, Shrink, NoShrink, SignalIdle,
                Close, Closing, WakeAll, Join, Spurious, vars, queueVars, countVars,
                Blocked, Counts, TypeOK
  <2>3. \A s \in Slots : pc'[s] \notin {"taken", "run"} => pc[s] \notin {"taken", "run"}
    <3>1. CASE Spurious \/ Closing
      BY <3>1 DEF Spurious, Closing, WakeAll, Join, Broadcast, Waiting, At, Counts, TypeOK
    <3>2. CASE SignalIdle
      BY <3>2, Signal DEF SignalIdle, Counts
    <3>3. CASE Expand
      BY <3>3 DEF Expand, At
    <3>4. CASE UNCHANGED pc
      BY <3>4
    <3> QED BY <1>3, <3>1, <3>2, <3>3, <3>4
            DEF Admin, Look, CountBusy, NoExpand, Shrink, NoShrink, Close, vars
  <2>4. Accepted' = Accepted /\ Idle'
    BY <2>1, <2>2, <2>3 DEF Accepted, Idle, Placed
  <2> QED BY <2>1, <2>4, PlacedKept
<1>4. CASE \E t \in Tasks : CallerWaits(t) \/ Refuse(t)
  BY <1>1, <1>4, PlacedKept
<1>5. CASE \E s \in Slots : \/ Retire(s) \/ BusyUp(s) \/ BusyDown(s)
                            \/ (Top(s) \/ Resume(s)) /\ (Wait(s) \/ Leave(s))
  BY <1>2, <1>5, PlacedKept
<1> QED BY <1>3, <1>4, <1>5

----------------------------------------------------------------------------
(* The pool implements TaskPool.                                           *)

LEMMA InitPlaced == Init => Placed /\ Pool!Init
<1> SUFFICES ASSUME Init PROVE Placed /\ Pool!Init
  OBVIOUS
<1>1. Range(taskq) = {} /\ IsInjective(taskq)
  BY EmptyElems DEF Init
<1>2. \A s \in Slots : Range(mine[s]) = {} /\ IsInjective(mine[s]) /\ mine[s] = <<>>
  BY EmptyElems DEF Init
<1>3. Held = {}
  BY <1>1, <1>2, InHeld
<1> QED BY <1>1, <1>2, <1>3 DEF Init, Placed, Idle, Accepted, Pool!Init

\* A step keeps Placed and is a step of TaskPool or leaves its variables.
LEMMA StepPlaced ==
  ASSUME Counts, Placed, [Next]_vars
  PROVE  Placed' /\ [Pool!Next]_Pool!vars
<1> USE DEF Pool!Next, Pool!vars
<1>1. ASSUME NEW t \in Tasks, Push(t) PROVE Placed' /\ Pool!Accept(t)
  BY <1>1, PushPlaced DEF Push, Pool!Accept
<1>2. ASSUME NEW s \in Slots, Top(s) \/ Resume(s), Take(s)
      PROVE  Placed' /\ UNCHANGED <<Held, done, shutdown>>
  BY <1>2, TakePlaced DEF Top, Resume, Take
<1>3. ASSUME NEW s \in Slots, Run(s)
      PROVE  Placed' /\ \E t \in Tasks : Pool!Run(t)
  BY <1>3, RunPlaced DEF Run, queueVars, Pool!Run
<1>4. CASE Close
  <2>1. Placed' /\ Held' = Held /\ done' = done
    BY <1>4, OthersPlaced
  <2> QED BY <1>4, <2>1 DEF Close, Pool!Close, Counts, TypeOK
<1>5. CASE \/ \E t \in Tasks : CallerWaits(t) \/ Refuse(t)
           \/ \E s \in Slots : \/ Retire(s) \/ BusyUp(s) \/ BusyDown(s)
                               \/ (Top(s) \/ Resume(s)) /\ (Wait(s) \/ Leave(s))
           \/ Admin \/ Closing \/ Spurious \/ UNCHANGED vars
  <2>1. Placed' /\ Held' = Held /\ done' = done
    BY <1>5, OthersPlaced
  <2>2. shutdown' = shutdown
    BY <1>5 DEF CallerWaits, Refuse, Retire, BusyUp, BusyDown, Wait, Leave,
                Admin, Look, CountBusy, Expand, NoExpand, Shrink, NoShrink, SignalIdle,
                Closing, WakeAll, Join, Spurious, vars, queueVars
  <2> QED BY <2>1, <2>2
<1>6. CASE \E t \in Tasks : AddTask(t)
  BY <1>1, <1>5, <1>6 DEF AddTask
<1>7. CASE \E s \in Slots : Worker(s)
  BY <1>2, <1>3, <1>5, <1>7 DEF Worker, Top, Resume, Proceed
<1> QED BY <1>4, <1>5, <1>6, <1>7 DEF Next

\* thread_pool implements TaskPool: whatever threads, batches, wake-ups, the
\* manager and close do, a task add_task accepted is run at most once and is
\* until then in the queue or in one thread's batch, and none is accepted
\* after close.
THEOREM Implementation == Spec => KeepsPool
<1>1. Init => Placed /\ Pool!Init
  BY InitPlaced
<1>2. Counts /\ Placed /\ [Next]_vars => Placed' /\ [Pool!Next]_Pool!vars
  BY StepPlaced
<1> QED BY <1>1, <1>2, Counted, PTL DEF Spec, KeepsPool, Pool!Spec

----------------------------------------------------------------------------
(* Blocked callers.                                                        *)

Blockable == Blocked \cup Notified

\* With one caller one call of add_task waits at a time.
Sole == MaxCallers = 1 => \A t, u \in Blockable : t = u

\* A call that starts finds nobody waiting then.
LEMMA SoleBegins ==
  ASSUME Sole, MaxCallers = 1, NEW t \in Tasks, Begin(t)
  PROVE  Blockable = {}
<1>1. Cardinality(Blockable) < 1
  BY DEF Begin, Blockable
<1>2. ASSUME NEW u \in Blockable PROVE FALSE
  <2>1. Blockable = {u}
    BY DEF Sole
  <2>2. Cardinality({u}) = 1
    BY FS_Singleton
  <2> QED BY <1>1, <2>1, <2>2
<1> QED BY <1>2

LEMMA StepSole ==
  ASSUME Counts, Sole, [Next]_vars
  PROVE  Sole'
<1> SUFFICES ASSUME MaxCallers = 1 PROVE \A t, u \in Blockable' : t = u
  BY DEF Sole
<1>1. ASSUME NEW t \in Tasks, AddTask(t) PROVE Blockable' \subseteq Blockable \cup {t}
  BY <1>1 DEF AddTask, CallerWaits, Refuse, Push, Blockable, Blocked, Notified, Counts, TypeOK
<1>2. ASSUME NEW t \in Tasks, AddTask(t) PROVE \A u, v \in Blockable' : u = v
  <2>1. CASE Begin(t)
    BY <1>1, <1>2, <2>1, SoleBegins
  <2>2. CASE call[t] = "woken"
    <3>1. t \in Blockable
      BY <2>2 DEF Blockable, Notified
    <3> QED BY <1>1, <1>2, <3>1 DEF Sole
  <2> QED BY <1>2, <2>1, <2>2 DEF AddTask, CallerWaits, Refuse, Push, Calling
<1>3. ASSUME NEW s \in Slots, Worker(s) PROVE Blockable' \subseteq Blockable
  <2>1. CASE Take(s)
    BY <2>1, PushSignal DEF Take, Counts, Blockable, Blocked, Notified
  <2>2. CASE UNCHANGED call
    BY <2>2 DEF Blockable, Blocked, Notified
  <2> QED BY <1>3, <2>1, <2>2
          DEF Worker, Top, Retire, Resume, BusyUp, Run, BusyDown, Proceed, Wait, Leave,
              queueVars
<1>4. CASE Spurious
  BY <1>4 DEF Spurious, Blockable, Blocked, Notified, Counts, TypeOK, Sole
<1>5. CASE Admin \/ Close \/ Closing \/ UNCHANGED vars
  <2>1. UNCHANGED call
    BY <1>5 DEF Admin, Look, CountBusy, Expand, NoExpand, Shrink, NoShrink, SignalIdle,
                Close, Closing, WakeAll, Join, vars, queueVars
  <2> QED BY <2>1 DEF Blockable, Blocked, Notified, Sole
<1> QED BY <1>2, <1>3, <1>4, <1>5 DEF Next, Sole

LEMMA StepRemembered ==
  ASSUME Counts, Sole, CallerRemembered, [Next]_vars
  PROVE  CallerRemembered'
<1> USE SizeAssumption
<1>1. ASSUME NEW t \in Tasks, AddTask(t) PROVE CallerRemembered'
  <2>1. taskq \in Seq(Tasks)
    BY DEF Counts, TypeOK
  <2>2. CASE CallerWaits(t)
    BY <2>1, <2>2 DEF CallerWaits, CallerRemembered
  <2>3. CASE Refuse(t)
    <3>1. MaxCallers = 1 => Blocked' = {}
      <4>1. CASE Begin(t)
        BY <2>3, <4>1, SoleBegins DEF Refuse, Blockable, Blocked
      <4>2. CASE call[t] = "woken"
        BY <2>3, <4>2 DEF Refuse, Sole, Blockable, Blocked, Notified, Counts, TypeOK
      <4> QED BY <2>3, <4>1, <4>2 DEF Refuse, Calling
    <3> QED BY <2>3, <3>1 DEF Refuse, CallerRemembered
  <2>4. CASE Push(t)
    BY <2>1, <2>4 DEF Push, CallerRemembered
  <2> QED BY <1>1, <2>2, <2>3, <2>4 DEF AddTask
<1>2. ASSUME NEW s \in Slots, Worker(s) PROVE CallerRemembered'
  <2>1. CASE Take(s)
    <3>1. /\ \A t \in Tasks : call'[t] = call[t] \/ (call[t] = "wait" /\ call'[t] = "woken")
          /\ Blocked # {} => \E t \in Tasks : call[t] = "wait" /\ call'[t] = "woken"
      BY <2>1, PushSignal DEF Take, Counts
    <3>2. Blocked' # {} => Notified' # {}
      BY <3>1 DEF Blocked, Notified
    <3> QED BY <3>2 DEF CallerRemembered
  <2>2. CASE UNCHANGED <<call, taskq, shutdown>>
    BY <2>2 DEF CallerRemembered, Blocked, Notified
  <2> QED BY <1>2, <2>1, <2>2
          DEF Worker, Top, Retire, Resume, BusyUp, Run, BusyDown, Proceed, Wait, Leave,
              queueVars
<1>3. CASE Spurious
  BY <1>3 DEF Spurious, Blocked, Notified, CallerRemembered, Counts, TypeOK
<1>4. CASE Close
  BY <1>4 DEF Close, CallerRemembered, Blocked, Notified
<1>5. CASE Admin \/ Closing \/ UNCHANGED vars
  BY <1>5 DEF Admin, Look, CountBusy, Expand, NoExpand, Shrink, NoShrink, SignalIdle,
              Closing, WakeAll, Join, vars, queueVars, CallerRemembered, Blocked, Notified
<1> QED BY <1>1, <1>2, <1>3, <1>4, <1>5 DEF Next

\* A caller blocked in add_task is not forgotten as long as the pool is open,
\* however many callers there are, and a sole caller not even by close,
\* although a thread signals is_push once for a whole batch: a task is queued
\* whose taking signals, or a woken caller is about to queue one.
THEOREM Remembered == Spec => []CallerRemembered
<1>1. Init => Sole /\ CallerRemembered
  BY DEF Init, Sole, Blockable, CallerRemembered, Blocked, Notified
<1>2. Counts /\ Sole /\ CallerRemembered /\ [Next]_vars => Sole' /\ CallerRemembered'
  BY StepSole, StepRemembered
<1> QED BY <1>1, <1>2, Counted, PTL DEF Spec

----------------------------------------------------------------------------
(* Enough threads.                                                         *)

LEMMA StepManned ==
  ASSUME Counts, Manned, [Next]_vars
  PROVE  Counts' => Manned'
<1> SUFFICES ASSUME Counts', ~shutdown' \/ taskq' # <<>> PROVE live' >= MinThr
  BY DEF Manned, Counts, LiveCount
<1> USE SizeAssumption
<1>0. /\ ~shutdown \/ taskq # <<>> => live >= MinThr
      /\ live \in Nat /\ live' \in Nat /\ taskq \in Seq(Tasks)
  BY DEF Manned, Counts, LiveCount, TypeOK
<1>1. ASSUME NEW t \in Tasks, AddTask(t) PROVE live' >= MinThr
  BY <1>0, <1>1 DEF AddTask, CallerWaits, Refuse, Push, countVars
<1>2. ASSUME NEW s \in Slots, Worker(s) PROVE live' >= MinThr
  <2>1. CASE Retire(s)
    BY <1>0, <2>1 DEF Retire
  <2>2. CASE Leave(s)
    BY <2>2 DEF Leave, queueVars
  <2>3. CASE Take(s)
    BY <1>0, <2>3 DEF Take
  <2>4. CASE UNCHANGED <<taskq, shutdown, live>>
    BY <1>0, <2>4
  <2> QED BY <1>2, <2>1, <2>2, <2>3, <2>4
          DEF Worker, Top, Resume, BusyUp, Run, BusyDown, Proceed, Wait, queueVars, countVars
<1>3. CASE Admin
  <2>1. CASE Expand
    <3>1. PICK new \in SUBSET Slots : live' = live + Cardinality(new)
      BY <2>1 DEF Expand, At
    <3>2. Cardinality(new) \in Nat
      BY <3>1, SlotsFinite
    <3> QED BY <1>0, <2>1, <3>1, <3>2 DEF Expand, queueVars
  <2>2. CASE UNCHANGED <<taskq, shutdown, live>>
    BY <1>0, <2>2
  <2> QED BY <1>3, <2>1, <2>2
          DEF Admin, Look, CountBusy, NoExpand, Shrink, NoShrink, SignalIdle, queueVars,
              countVars
<1>4. CASE Close \/ Closing \/ Spurious \/ UNCHANGED vars
  BY <1>0, <1>4 DEF Close, Closing, WakeAll, Join, Spurious, vars, queueVars, countVars
<1> QED BY <1>1, <1>2, <1>3, <1>4 DEF Next

\* However stale the reading behind the manager's request to shrink, and close
\* or not, a queued task never has fewer than min_thr_num threads.
THEOREM EnoughThreads == Spec => []Manned
<1>1. Init => Manned
  <2> SUFFICES ASSUME Init PROVE Cardinality(Living) >= MinThr
    BY DEF Manned
  <2>1. LiveCount /\ live = MinThr
    BY InitCounts DEF Counts, Init
  <2> QED BY <2>1, SizeAssumption DEF LiveCount
<1>2. Counts /\ Manned /\ [Next]_vars /\ Counts' => Manned'
  BY StepManned
<1> QED BY <1>1, <1>2, Counted, PTL DEF Spec

----------------------------------------------------------------------------
(* A fixed pool has a signal for every task.                               *)

NoManager == adm.pc = "gone" /\ destroy = 0

LEMMA StepNoManager ==
  ASSUME Counts, NoManager, [Next]_vars
  PROVE  NoManager' /\ ~Admin /\ \A s \in Slots : ~Retire(s)
<1>1. ~Admin
  BY DEF NoManager, Admin, Look, CountBusy, Expand, NoExpand, Shrink, NoShrink, SignalIdle
<1>2. \A s \in Slots : ~Retire(s)
  BY DEF NoManager, Retire
<1>3. ASSUME NEW t \in Tasks, AddTask(t) PROVE NoManager'
  BY <1>3 DEF NoManager, AddTask, CallerWaits, Refuse, Push, countVars
<1>4. ASSUME NEW s \in Slots, Worker(s) PROVE NoManager'
  BY <1>2, <1>4 DEF NoManager, Worker, Top, Resume, BusyUp, Run, BusyDown, countVars
<1>5. ASSUME Close \/ Closing \/ Spurious \/ UNCHANGED vars PROVE NoManager'
  BY <1>5 DEF NoManager, Close, Closing, WakeAll, Join, Spurious, vars, countVars
<1> QED BY <1>1, <1>2, <1>3, <1>4, <1>5 DEF Next

\* The sets of waiting and of woken threads, and their sizes.
LEMMA WokenFinite ==
  /\ Woken \in SUBSET Slots /\ Waiting \in SUBSET Slots
  /\ Cardinality(Woken) \in Nat
<1>1. Woken \in SUBSET Slots /\ Waiting \in SUBSET Slots
  BY DEF Woken, Waiting, At
<1> QED BY <1>1, SlotsFinite, SizeAssumption

LEMMA StepSignals ==
  ASSUME Counts, NoManager, SignalPerTask, [Next]_vars
  PROVE  SignalPerTask'
<1> USE WokenFinite, SizeAssumption DEF NoManager
<1>0. Woken' \in SUBSET Slots /\ IsFiniteSet(Woken') /\ Cardinality(Woken') \in Nat
  <2>1. Woken' \in SUBSET Slots
    BY DEF Woken, At
  <2> QED BY <2>1, SlotsFinite
<1>1. ~Admin /\ \A s \in Slots : ~Retire(s)
  BY StepNoManager
<1>2. taskq \in Seq(Tasks) /\ Len(taskq) \in Nat
  BY DEF Counts, TypeOK
<1>3. ASSUME UNCHANGED taskq, Waiting' \subseteq Waiting, Woken' = Woken
      PROVE  SignalPerTask'
  BY <1>3 DEF SignalPerTask
<1>4. ASSUME NEW t \in Tasks, AddTask(t) PROVE SignalPerTask'
  <2>1. CASE CallerWaits(t) \/ Refuse(t)
    <3>1. UNCHANGED <<taskq, pc>>
      BY <2>1 DEF CallerWaits, Refuse
    <3> QED BY <1>3, <3>1 DEF Waiting, Woken, At
  <2>2. CASE Push(t)
    <3>1. CASE Waiting = {}
      <4>1. Waiting' = {}
        BY <2>2, <3>1, Signal DEF Push, Counts, Waiting, At
      <4> QED BY <4>1 DEF SignalPerTask
    <3>2. CASE Waiting # {}
      <4>1. PICK s \in Waiting : pc' = [pc EXCEPT ![s] = "woken"]
        BY <2>2, <3>2, Signal DEF Push, Counts
      <4>2. s \in Slots \ Woken /\ Woken' = Woken \cup {s}
        BY <4>1 DEF Waiting, Woken, At, Counts, TypeOK
      <4>3. Cardinality(Woken') = Cardinality(Woken) + 1
        BY <4>2, OneMore
      <4>4. Len(taskq') = Len(taskq) + 1
        BY <1>2, <2>2 DEF Push
      <4> QED BY <1>2, <3>2, <4>3, <4>4 DEF SignalPerTask
    <3> QED BY <3>1, <3>2
  <2> QED BY <1>4, <2>1, <2>2 DEF AddTask
<1>5. ASSUME NEW s \in Slots, Worker(s) PROVE SignalPerTask'
  <2>1. CASE Wait(s) \/ Leave(s)
    <3>1. Len(taskq') = 0
      BY <2>1 DEF Wait, Leave, queueVars
    <3> QED BY <1>0, <3>1 DEF SignalPerTask
  <2>2. CASE (Top(s) \/ Resume(s)) /\ Take(s)
    <3>1. Share \in 1..Len(taskq)
      BY <2>2, LivePositive, ShareBounds DEF Take, Top, Resume, Counts
    <3>2. Len(taskq') = Len(taskq) - Share
      BY <1>2, <2>2, <3>1, Cut DEF Take
    <3>3. Waiting' = Waiting /\ Woken' = Woken \ {s}
      BY <2>2 DEF Top, Resume, Take, Waiting, Woken, At, Counts, TypeOK
    <3>4. Cardinality(Woken') >= Cardinality(Woken) - 1
      <4>1. CASE s \in Woken
        BY <3>3, <4>1, OneLess
      <4>2. CASE s \notin Woken
        <5>1. Woken' = Woken
          BY <3>3, <4>2
        <5> QED BY <5>1
      <4> QED BY <4>1, <4>2
    <3>5. Len(taskq) <= Cardinality(Woken) \/ Waiting' = {}
      BY <3>3 DEF SignalPerTask
    <3> QED BY <1>0, <1>2, <3>1, <3>2, <3>4, <3>5 DEF SignalPerTask
  <2>3. CASE BusyUp(s) \/ Run(s) \/ BusyDown(s)
    <3>1. UNCHANGED taskq /\ Waiting' = Waiting /\ Woken' = Woken
      BY <2>3 DEF BusyUp, Run, BusyDown, queueVars, Waiting, Woken, At, Counts, TypeOK
    <3> QED BY <1>3, <3>1
  <2> QED BY <1>1, <1>5, <2>1, <2>2, <2>3 DEF Worker, Top, Resume, Proceed
<1>6. CASE Spurious
  <2>1. taskq' = taskq /\ Waiting' \subseteq Waiting /\ Woken \subseteq Woken'
    BY <1>6 DEF Spurious, Waiting, Woken, At, Counts, TypeOK
  <2>2. Cardinality(Woken) <= Cardinality(Woken')
    BY <1>0, <2>1, FS_Subset
  <2> QED BY <1>0, <1>2, <2>1, <2>2 DEF SignalPerTask
<1>7. CASE WakeAll
  <2>1. CASE live > 0
    <3>1. Waiting' = {}
      BY <1>7, <2>1 DEF WakeAll, Broadcast, Waiting, At
    <3> QED BY <3>1 DEF SignalPerTask
  <2>2. CASE ~(live > 0)
    BY <1>3, <1>7, <2>2 DEF WakeAll, queueVars, Waiting, Woken, At
  <2> QED BY <2>1, <2>2
<1>8. CASE Close \/ Join \/ UNCHANGED vars
  <2>1. UNCHANGED <<taskq, pc>>
    BY <1>8 DEF Close, Join, vars, queueVars
  <2> QED BY <1>3, <2>1 DEF Waiting, Woken, At
<1> QED BY <1>1, <1>4, <1>5, <1>6, <1>7, <1>8 DEF Next, Closing

\* In a pool without a manager, as the server's is, no signal is lost: while a
\* thread waits there are as many woken threads as tasks in the queue.
THEOREM SignalForEachTask == Spec => [](~Dynamic => SignalPerTask)
<1> DEFINE I == ~Dynamic => NoManager /\ SignalPerTask
<1>1. Init => I
  <2>1. Init => Waiting = {}
    BY DEF Init, Waiting, At
  <2> QED BY <2>1 DEF Init, NoManager, SignalPerTask
<1>2. Counts /\ I /\ [Next]_vars => I'
  BY StepNoManager, StepSignals
<1>3. I => (~Dynamic => SignalPerTask)
  OBVIOUS
<1> HIDE DEF I
<1> QED BY <1>1, <1>2, <1>3, Counted, PTL DEF Spec

----------------------------------------------------------------------------
(* Closing.                                                                *)

LEMMA StepNoneSleeps ==
  ASSUME Counts, NoneSleeps, closer # "open" => shutdown, [Next]_vars
  PROVE  NoneSleeps' /\ (closer' # "open" => shutdown')
<1>1. CASE WakeAll
  <2>1. CASE live > 0
    BY <1>1, <2>1 DEF WakeAll, Broadcast, Waiting, At, NoneSleeps, queueVars
  <2>2. CASE ~(live > 0)
    <3>1. \A s \in Slots : pc[s] \in {"none", "exited"}
      BY <2>2, LivePositive
    <3> QED BY <1>1, <2>2, <3>1 DEF WakeAll, Waiting, At, NoneSleeps, queueVars
  <2> QED BY <2>1, <2>2
<1>2. CASE Close
  BY <1>2 DEF Close, NoneSleeps
<1>3. CASE Join
  BY <1>3 DEF Join, NoneSleeps, Waiting, At, queueVars
<1>4. ASSUME UNCHANGED <<closer, shutdown>>,
             shutdown => \A s \in Slots : pc'[s] = "wait" => pc[s] = "wait"
      PROVE  NoneSleeps' /\ (closer' # "open" => shutdown')
  BY <1>4 DEF NoneSleeps, Waiting, At
<1>5. CASE \E t \in Tasks : AddTask(t)
  BY <1>4, <1>5 DEF AddTask, CallerWaits, Refuse, Push
<1>6. ASSUME NEW s \in Slots, Worker(s) PROVE NoneSleeps' /\ (closer' # "open" => shutdown')
  <2>1. UNCHANGED <<closer, shutdown>>
    BY <1>6 DEF Worker, Top, Retire, Resume, BusyUp, Run, BusyDown, Proceed, Wait, Leave,
                Take, queueVars
  <2>2. shutdown => \A r \in Slots : pc'[r] = "wait" => pc[r] = "wait"
    BY <1>6 DEF Worker, Top, Retire, Resume, BusyUp, Run, BusyDown, Proceed, Wait, Leave,
                Take, Counts, TypeOK
  <2> QED BY <1>4, <2>1, <2>2
<1>7. CASE Admin
  <2>1. UNCHANGED <<closer, shutdown>>
    BY <1>7 DEF Admin, Look, CountBusy, Expand, NoExpand, Shrink, NoShrink, SignalIdle,
                queueVars
  <2>2. CASE SignalIdle
    BY <1>4, <2>1, <2>2, Signal DEF SignalIdle, Counts
  <2>3. CASE Expand
    BY <1>4, <2>1, <2>3 DEF Expand
  <2>4. CASE UNCHANGED pc
    BY <1>4, <2>1, <2>4
  <2> QED BY <1>7, <2>2, <2>3, <2>4 DEF Admin, Look, CountBusy, NoExpand, Shrink, NoShrink
<1>8. CASE Spurious \/ UNCHANGED vars
  <2>1. /\ UNCHANGED <<closer, shutdown>>
        /\ \A s \in Slots : pc'[s] = "wait" => pc[s] = "wait"
    BY <1>8 DEF Spurious, vars, queueVars, Counts, TypeOK, Waiting, At
  <2> QED BY <1>4, <2>1
<1> QED BY <1>1, <1>2, <1>3, <1>5, <1>6, <1>7, <1>8 DEF Next, Closing

\* When close starts to join, no thread waits for a task or will wait again,
\* although close reads live_thr_num without the lock and the manager may add
\* threads after the broadcast.
THEOREM EverybodyAwake == Spec => []NoneSleeps
<1> DEFINE I == NoneSleeps /\ (closer # "open" => shutdown)
<1>1. Init => I
  BY DEF Init, NoneSleeps
<1>2. Counts /\ I /\ [Next]_vars => I'
  BY StepNoneSleeps
<1>3. I => NoneSleeps
  OBVIOUS
<1> HIDE DEF I
<1> QED BY <1>1, <1>2, <1>3, Counted, PTL DEF Spec
=============================================================================
