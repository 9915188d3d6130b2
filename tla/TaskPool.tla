----------------------------- MODULE TaskPool -----------------------------
(***************************************************************************)
(* What a caller of thread_pool may rely on, whatever its threads do: a    *)
(* task that add_task accepted is run, once; none is accepted after the    *)
(* pool was closed, and those accepted before are still run.               *)
(***************************************************************************)
CONSTANT Tasks

VARIABLES
  pending,   \* accepted and not run to its end
  done,      \* run to its end
  closed     \* close was called

vars == <<pending, done, closed>>

Init == pending = {} /\ done = {} /\ closed = FALSE

\* add_task puts a task into the queue of an open pool.
Accept(t) ==
  /\ ~closed /\ t \notin pending \cup done
  /\ pending' = pending \cup {t}
  /\ UNCHANGED <<done, closed>>

\* A thread comes back from the task's function.
Run(t) ==
  /\ t \in pending
  /\ pending' = pending \ {t}
  /\ done' = done \cup {t}
  /\ UNCHANGED closed

Close ==
  /\ ~closed /\ closed' = TRUE
  /\ UNCHANGED <<pending, done>>

Next == Close \/ \E t \in Tasks : Accept(t) \/ Run(t)

Spec == Init /\ [][Next]_vars

FairSpec == Spec /\ \A t \in Tasks : WF_vars(Run(t))
=============================================================================
