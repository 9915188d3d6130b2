----------------------------- MODULE Facilities -----------------------------
(***************************************************************************)
(* What the handlers of the server share: a pool of objects and the log.   *)
(* A thread takes an object for each statement that needs one, and a call  *)
(* that fails logs a line.  The log's thread may end the process, whatever *)
(* the others are doing.                                                   *)
(***************************************************************************)
EXTENDS ResourcePool, LogQueue

CONSTANT MaxUse  \* bound: statements of each thread

ASSUME UseAssumption == MaxUse \in Nat

VARIABLE uses  \* statements each thread began

vars == <<poolVars, logVars, uses>>

Init == PoolInit /\ LogInit /\ uses = [t \in Threads |-> 0]

\* A handler's statement with connectionRAII or HmacRAII.
Begin(t) ==
  /\ uses[t] < MaxUse /\ Want(t)
  /\ uses' = [uses EXCEPT ![t] = @ + 1]
  /\ UNCHANGED logVars

\* The handler goes on without the object; sendMsg or recvMsg may have logged.
Finish(t) ==
  /\ Drop(t)
  /\ Log \/ UNCHANGED logVars
  /\ UNCHANGED uses

Taking(t) == (GetWaits(t) \/ Get(t) \/ Release(t)) /\ UNCHANGED <<logVars, uses>>

Thread(t) == Taking(t) \/ Finish(t)

Writer == WriterStep /\ UNCHANGED <<poolVars, uses>>

Clock == Midnight /\ UNCHANGED <<poolVars, uses>>

Spurious ==
  \/ \E t \in Threads : SpuriousGet(t) /\ UNCHANGED <<logVars, uses>>
  \/ SpuriousPop /\ UNCHANGED <<poolVars, uses>>

Next == up /\ ((\E t \in Threads : Begin(t) \/ Thread(t)) \/ Writer \/ Clock \/ Spurious)

Spec == Init /\ [][Next]_vars

\* Every thread runs; the file can be opened, or not.
FairSpec ==
  /\ Spec
  /\ \A t \in Threads : WF_vars(up /\ Thread(t))
  /\ WF_vars(up /\ Writer)

TypeOK == PoolOK /\ LogOK /\ uses \in [Threads -> 0..MaxUse]

----------------------------------------------------------------------------
\* A thread that asks for an object gets one, though others may take the
\* object it was woken for; unless the process ends.
GetReturns ==
  \A t \in Threads : (at[t] = "get") ~> (at[t] \in {"taken", "using"} \/ ~up)

\* A logged line comes to be written, unless the process ends.
Written == \A n \in 1..(MaxUse * Cardinality(Threads)) :
  (logged >= n) ~> (Len(written) >= n \/ ~up)

\* Nobody sleeps while there is something for it to do: each object that is
\* put back and each line that is logged leads to a signal that stands until
\* somebody who was woken has taken it.
NoLostSignal == NoneForgotten /\ WriterAwake
=============================================================================
