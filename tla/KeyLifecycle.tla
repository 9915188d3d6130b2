---------------------------- MODULE KeyLifecycle ----------------------------
(***************************************************************************)
(* What the key service promises of a key from the outside: it is issued   *)
(* to one client, may be shown to the server's other processes and held by *)
(* its client, and once revoked it is gone for good.  KeyProtocol is the   *)
(* detailed specification that implements this one, as long as no client   *)
(* asks for a check.                                                       *)
(***************************************************************************)
EXTENDS Integers, Sequences

CONSTANT Clients

VARIABLES
  owner,   \* the client each key was issued to; a key is its number here
  active,  \* the keys that have not been revoked
  shown,   \* the key the shared memory shows as usable for each client, or 0
  held     \* the key each client holds, or 0

vars == <<owner, active, shown, held>>

TypeOK ==
  /\ owner \in Seq(Clients)
  /\ active \subseteq DOMAIN owner
  /\ shown \in [Clients -> {0} \cup DOMAIN owner]
  /\ held \in [Clients -> {0} \cup DOMAIN owner]

Init ==
  /\ owner = <<>>
  /\ active = {}
  /\ shown = [c \in Clients |-> 0]
  /\ held = [c \in Clients |-> 0]

Issue(c) ==
  /\ owner' = Append(owner, c)
  /\ active' = active \cup {Len(owner) + 1}
  /\ UNCHANGED <<shown, held>>

\* Only a client's own, unrevoked key is shown for it.
Show(c, n) ==
  /\ n \in active /\ owner[n] = c
  /\ shown' = [shown EXCEPT ![c] = n]
  /\ UNCHANGED <<owner, active, held>>

Hide(c) ==
  /\ shown' = [shown EXCEPT ![c] = 0]
  /\ UNCHANGED <<owner, active, held>>

\* The server is started again.
HideAll ==
  /\ shown' = [c \in Clients |-> 0]
  /\ UNCHANGED <<owner, active, held>>

\* A key is hidden before it is revoked.
Revoke(n) ==
  /\ n \in active /\ shown[owner[n]] # n
  /\ active' = active \ {n}
  /\ UNCHANGED <<owner, shown, held>>

\* A client learns the number of a key of its own.
Learn(c, n) ==
  /\ n \in DOMAIN owner /\ owner[n] = c
  /\ held' = [held EXCEPT ![c] = n]
  /\ UNCHANGED <<owner, active, shown>>

Forget(c) ==
  /\ held' = [held EXCEPT ![c] = 0]
  /\ UNCHANGED <<owner, active, shown>>

Next ==
  \/ \E c \in Clients : Issue(c) \/ Hide(c) \/ Forget(c)
  \/ \E n \in DOMAIN owner :
       Revoke(n) \/ \E c \in Clients : Show(c, n) \/ Learn(c, n)
  \/ HideAll

Spec == Init /\ [][Next]_vars

\* A key shown or held belongs to the client it is shown for or held by, and
\* a revoked key is never shown.
Rightful ==
  \A c \in Clients :
    /\ shown[c] # 0 => shown[c] \in active /\ owner[shown[c]] = c
    /\ held[c] # 0 => owner[held[c]] = c
=============================================================================
