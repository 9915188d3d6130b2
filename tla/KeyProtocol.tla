---------------------------- MODULE KeyProtocol ----------------------------
(***************************************************************************)
(* Clients and server together: the life of a shared key, from the         *)
(* agreement to its revocation.                                            *)
(***************************************************************************)
EXTENDS KeyServer, KeyClient

vars == <<wireVars, serverVars, clientVars>>

Init == ClientInit /\ ServerInit

\* Descriptors a handler still works on; the main thread cannot close them.
HandledFds == {task[w].fd : w \in Workers} \ {0}

ClientStep(c) ==
  Begins(c) \/ Receives(c) \/ GivesUp(c) \/ Killed(c) \/ Quit(c)
    \/ Start(c, HandledFds)

Next ==
  \/ \E c \in Clients : ClientStep(c) /\ UNCHANGED serverVars
  \/ \E w \in Workers : Server(w) /\ UNCHANGED clientVars
  \/ Restart /\ UNCHANGED clientVars

Spec == Init /\ [][Next]_vars

\* The pool's threads keep running, and a client that waits for an answer
\* reads it when it comes, or the end of the connection.
Returns(c) == Receives(c) \/ (c \in cut /\ GivesUp(c))
FairSpec ==
  /\ Spec
  /\ \A w \in Workers : WF_vars(Server(w) /\ UNCHANGED clientVars)
  /\ \A c \in Clients : WF_vars(Returns(c) /\ UNCHANGED serverVars)

TypeOK == WireOK /\ ServerOK /\ ClientOK

----------------------------------------------------------------------------
Rows == DOMAIN db
Held(c) == cshm[c].status = 1

\* A key a client holds is the one the server has under that identifier:
\* both ends spliced the same strings, and LAST_INSERT_ID gave the client
\* the number of its own row and not of another client's.
AgreedKey ==
  \A c \in Clients : Held(c) =>
    /\ cshm[c].id \in Rows
    /\ db[cshm[c].id].client = c /\ db[cshm[c].id].key = cshm[c].key

\* The shared memory the server's other processes read shows only keys the
\* database issued to that client, and one per client.
ShmIsIssued ==
  /\ \A i \in 1..MaxNode : shm[i] # NoSlot =>
       /\ shm[i].id \in Rows
       /\ db[shm[i].id].client = shm[i].client /\ db[shm[i].id].key = shm[i].key
  /\ \A i, j \in 1..MaxNode :
       shm[i] # NoSlot /\ shm[i].client = shm[j].client => i = j

\* A key revoked in the database is inactive in the shared memory too.
RevokedEverywhere ==
  \A i \in 1..MaxNode : shm[i] # NoSlot /\ shm[i].status = 1 => db[shm[i].id].state = 1

\* A client that was told its key is revoked holds a revoked key: the row is
\* written before the answer, and stays so when the server starts again.  It
\* needs a database that fails no COMMIT, whose result keyRevoke never sees.
RevokeKept ==
  \A c \in Clients : verdict[c].op = "revoke" /\ verdict[c].ok =>
    db[verdict[c].id].state = 0

\* A restarted server shows no key of its predecessor's, although their rows
\* are still active: the clients' connections are gone, and a client that
\* connects again was started again and has forgotten its key.
AnewAfterRestart == \A i \in 1..MaxNode : shm[i] # NoSlot => shm[i].id > before

\* A client that was told its key is good has had it confirmed, unless it was
\* the end of its connection that it took for the answer.
CheckGenuine ==
  \A c \in alive \ cut : verdict[c].op = "check" /\ verdict[c].ok =>
    verdict[c].id \in confirmed

\* No client is refused for its authentication code or its key as long as it
\* waits for the answer: the Hmac object, which the handler uses after giving
\* it back to the pool, still has the key the handler set in it, and that key
\* and the row's are the ones the client has.
Recognised ==
  \A w \in Workers :
    LET t == task[w]
    IN t.pc = "mac" /\ t.client \in alive /\ t.fd = fd[t.client] =>
         hkey[t.hmac] = t.req.key /\ t.key = t.req.key

\* What KeyLifecycle promises, read off the database, the server's shared
\* memory and the clients' slots.
ShownTo(c) == {i \in 1..MaxNode : shm[i].client = c /\ shm[i].status = 1}

Lifecycle == INSTANCE KeyLifecycle WITH
  owner  <- [n \in Rows |-> db[n].client],
  active <- {n \in Rows : db[n].state = 1},
  shown  <- [c \in Clients |-> IF ShownTo(c) = {} THEN 0 ELSE shm[FirstOf(ShownTo(c))].id],
  held   <- [c \in Clients |-> cshm[c].id]

\* Every step of clients and server is a step of a key's life as KeyLifecycle
\* has it: no key is shown before it is issued, to another client than its
\* own, or after it was revoked, and none is revoked that is still shown.
KeepsLifecycle == Lifecycle!Spec

\* Every answer a client waits for comes, or the client is gone.
Answered ==
  \A c \in Clients : (c \in alive /\ pc[c] # "menu") ~> (pc[c] = "menu")
=============================================================================
