---------------------------- MODULE ResourcePool ----------------------------
(***************************************************************************)
(* connection_pool and HmacPool, which are one class twice: a list of      *)
(* objects, two counters, a mutex and a condition variable.                *)
(*                                                                         *)
(* The handlers use a pool through a temporary, connectionRAII or          *)
(* HmacRAII: its constructor takes an object, its destructor, at the end   *)
(* of the same statement, puts it back, and the handler goes on with an    *)
(* object that is in the list again.                                       *)
(***************************************************************************)
EXTENDS Integers, Sequences, FiniteSetsExt, Functions

CONSTANTS
  Threads,  \* the threads that run handlers
  Size      \* the objects of the pool, numbered

ASSUME PoolAssumption == IsFiniteSet(Threads) /\ Size \in Nat \ {0}

VARIABLES
  list,    \* connList, HmacList
  free,    \* m_FreeConn, m_FreeHmac
  cur,     \* m_CurConn, m_CurHmac
  at,      \* where each thread is: outside, in GetConnection (also waiting
           \* on hasConn, or woken), between the temporary's constructor
           \* and destructor, or using the object after it
  object   \* the object each thread got last

poolVars == <<list, free, cur, at, object>>

Objects == 1..Size
At(place) == {t \in Threads : at[t] = place}

PoolOK ==
  /\ list \in Seq(Objects)
  /\ free \in Int /\ cur \in Int
  /\ at \in [Threads -> {"out", "get", "waiting", "woken", "taken", "using"}]
  /\ object \in [Threads -> Objects]

PoolInit ==
  /\ list = [i \in Objects |-> i]
  /\ free = Size /\ cur = 0
  /\ at = [t \in Threads |-> "out"]
  /\ object = [t \in Threads |-> 1]

----------------------------------------------------------------------------
\* A statement with a temporary begins.
Want(t) ==
  /\ at[t] = "out"
  /\ at' = [at EXCEPT ![t] = "get"]
  /\ UNCHANGED <<list, free, cur, object>>

\* GetConnection finds the list empty: the lock is given up with the wait.
GetWaits(t) ==
  /\ at[t] \in {"get", "woken"} /\ list = <<>>
  /\ at' = [at EXCEPT ![t] = "waiting"]
  /\ UNCHANGED <<list, free, cur, object>>

\* Mutant: a woken thread does not test the list again.
GetUnchecked(t) ==
  /\ \/ at[t] = "woken"
     \/ at[t] = "get" /\ list # <<>>
  /\ object' = [object EXCEPT ![t] = IF list = <<>> THEN @ ELSE Head(list)]
  /\ list' = IF list = <<>> THEN list ELSE Tail(list)
  /\ free' = free - 1 /\ cur' = cur + 1
  /\ at' = [at EXCEPT ![t] = "taken"]

\* GetConnection takes the first object, whoever it was freed for.
Get(t) ==
  /\ at[t] \in {"get", "woken"} /\ list # <<>>
  /\ object' = [object EXCEPT ![t] = Head(list)]
  /\ list' = Tail(list)
  /\ free' = free - 1 /\ cur' = cur + 1
  /\ at' = [at EXCEPT ![t] = "taken"]

\* Mutant: the object is put back without a signal.
ReleaseSilent(t) ==
  /\ at[t] = "taken"
  /\ list' = Append(list, object[t])
  /\ free' = free + 1 /\ cur' = cur - 1
  /\ at' = [at EXCEPT ![t] = "using"]
  /\ UNCHANGED object

\* pthread_cond_signal(&hasConn): one waiting thread, whichever, is woken.
Signal(places) ==
  LET waiting == {u \in Threads : places[u] = "waiting"}
  IN IF waiting = {} THEN at' = places
     ELSE \E u \in waiting : at' = [places EXCEPT ![u] = "woken"]

\* ReleaseConnection, from the temporary's destructor.
Release(t) ==
  /\ at[t] = "taken"
  /\ list' = Append(list, object[t])
  /\ free' = free + 1 /\ cur' = cur - 1
  /\ Signal([at EXCEPT ![t] = "using"])
  /\ UNCHANGED object

\* The handler is done with the object.
Drop(t) ==
  /\ at[t] = "using"
  /\ at' = [at EXCEPT ![t] = "out"]
  /\ UNCHANGED <<list, free, cur, object>>

\* pthread_cond_wait returns without a signal.
SpuriousGet(t) ==
  /\ at[t] = "waiting"
  /\ at' = [at EXCEPT ![t] = "woken"]
  /\ UNCHANGED <<list, free, cur, object>>

----------------------------------------------------------------------------
\* Every object is in the list once or with the one thread between its
\* temporary's constructor and destructor, and the two counters say how many.
\* GetFreeConn reads its counter without the lock, so it is right to callers
\* only if it is right between any two sections.
Accounted ==
  /\ free = Len(list) /\ cur = Cardinality(At("taken"))
  /\ IsInjective(list)
  /\ \A t \in At("taken") : object[t] \notin Range(list)
  /\ \A t, u \in At("taken") : object[t] = object[u] => t = u
  /\ free + cur = Size

\* No thread waits for an object that lies in the list: for each one there
\* is a thread that was woken and has not taken one yet.
NoneForgotten ==
  At("waiting") # {} => Cardinality(At("woken")) >= Len(list)
=============================================================================
