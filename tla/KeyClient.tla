----------------------------- MODULE KeyClient -----------------------------
(***************************************************************************)
(* The client: secKeyAgree, secKeyCheck and secKeyRevoke of                *)
(* ClientOperation, with the client's TcpSocket::recvMsg.                  *)
(*                                                                         *)
(* recvMsg waits for the next answer on the connection, whichever request  *)
(* it belongs to, and gives up after TIMEOUT seconds; an empty message,    *)
(* which protobuf reads as a RANDOMNUM answer with result SUCCESS and no   *)
(* data, then takes the answer's place.  An answer that comes after all    *)
(* stays on the connection for the next operation.  Once the server is     *)
(* gone recvMsg returns at once, with as little; the client never connects *)
(* again but by being started again.                                       *)
(***************************************************************************)
EXTENDS KeyWire

CONSTANTS
  Ops,       \* the menu entries clients choose: "agree", "check", "revoke"
  Timeouts,  \* whether an answer may take longer than the client waits
  MaxLives   \* bound: times a client process is started again

ASSUME ClientAssumption == /\ Ops \subseteq {"agree", "check", "revoke"}
                           /\ Timeouts \in BOOLEAN /\ MaxLives \in Nat

VARIABLES
  pc,       \* the menu, or the answer the client waits for
  ops,      \* operations started
  mine,     \* the key being agreed
  cshm,     \* the one slot of the client's own shared memory
  verdict,  \* what the last operation told its user
  lives     \* starts after the first

clientVars == <<pc, ops, mine, cshm, verdict, lives>>

NoKeyHeld == [key |-> NoKey, id |-> 0, status |-> 0]
NoVerdict == [op |-> "none", ok |-> FALSE, id |-> 0]

ClientOK ==
  /\ pc \in [Clients -> {"menu", "random", "keyid", "check", "revoke"}]
  /\ ops \in [Clients -> 0..MaxOps]
  /\ mine \in [Clients -> Keys]
  /\ cshm \in [Clients -> [key : Keys, id : Nat, status : {0, 1}]]
  /\ verdict \in [Clients -> [op : {"none"} \cup {"agree", "check", "revoke"},
                              ok : BOOLEAN, id : Nat]]
  /\ lives \in [Clients -> 0..MaxLives]

ClientInit ==
  /\ fd \in [Clients -> Fds] /\ \A c, d \in Clients : fd[c] = fd[d] => c = d
  /\ alive = Clients /\ cut = {}
  /\ toServer = [c \in Clients |-> <<>>]
  /\ toClient = [c \in Clients |-> <<>>]
  /\ pc = [c \in Clients |-> "menu"]
  /\ ops = [c \in Clients |-> 0]
  /\ mine = [c \in Clients |-> NoKey]
  /\ cshm = [c \in Clients |-> NoKeyHeld]
  /\ verdict = [c \in Clients |-> NoVerdict]
  /\ lives = [c \in Clients |-> 0]

----------------------------------------------------------------------------
\* Nobody is there to read what is sent on a connection that was cut.
Send(c, req) ==
  toServer' = IF c \in cut THEN toServer ELSE [toServer EXCEPT ![c] = Append(@, req)]

\* An operation begins at the menu by sending its first request.
Begin(c, op, next, req) ==
  /\ c \in alive /\ pc[c] = "menu" /\ ops[c] < MaxOps /\ op \in Ops
  /\ ops' = [ops EXCEPT ![c] = @ + 1]
  /\ pc' = [pc EXCEPT ![c] = next]
  /\ Send(c, req)
  /\ UNCHANGED <<fd, alive, cut, toClient, mine, cshm, verdict, lives>>

BeginAgree(c) ==
  Begin(c, "agree", "random", [type |-> "RANDOMNUM", random |-> <<c, ops[c] + 1>>])

\* A check or a revocation needs an active key in the client's slot.
BeginCheck(c) ==
  /\ cshm[c].status = 1
  /\ Begin(c, "check", "check",
           [type |-> "KEYCHECK", id |-> cshm[c].id, key |-> cshm[c].key])

BeginRevoke(c) ==
  /\ cshm[c].status = 1
  /\ Begin(c, "revoke", "revoke",
           [type |-> "KEYREVOKE", id |-> cshm[c].id, key |-> cshm[c].key])

\* The next answer on the connection.
Incoming(c) == Head(toClient[c])
Receive(c) ==
  /\ c \in alive /\ toClient[c] # <<>>
  /\ toClient' = [toClient EXCEPT ![c] = Tail(@)]
  /\ UNCHANGED <<fd, alive, cut, ops, lives>>

\* The operation ends and tells its user how.
End(c, op, ok) ==
  /\ pc' = [pc EXCEPT ![c] = "menu"]
  /\ verdict' = [verdict EXCEPT ![c] = [op |-> op, ok |-> ok, id |-> cshm[c].id]]

\* The process dies: what it has not read is lost with it.
Die(c) ==
  /\ c \in alive
  /\ alive' = alive \ {c} /\ cut' = cut \ {c}
  /\ pc' = [pc EXCEPT ![c] = "menu"]
  /\ toClient' = [toClient EXCEPT ![c] = <<>>]
  /\ UNCHANGED <<fd, toServer, ops, mine, cshm, verdict, lives>>

\* secKeyAgree, first answer, with the server's string: splice the key and
\* send the premaster with its authentication code.
RecvRandom(c) ==
  LET a == Incoming(c)
      own == <<c, ops[c]>>
      k == Key(own, a.random, own)
  IN /\ pc[c] = "random" /\ Receive(c)
     /\ a.rv = "SUCCESS" /\ a.type = "RANDOMNUM"
     /\ Send(c, [type |-> "PREKEY", pm |-> own, key |-> k])
     /\ mine' = [mine EXCEPT ![c] = k]
     /\ pc' = [pc EXCEPT ![c] = "keyid"]
     /\ UNCHANGED <<cshm, verdict>>

\* secKeyAgree, second answer: whatever its type, its data is the key's
\* identifier (atoi of no data is 0), and the key goes to the client's slot.
RecvKeyId(c) ==
  LET a == Incoming(c)
  IN /\ pc[c] = "keyid" /\ Receive(c)
     /\ a.rv = "SUCCESS" /\ a.type # "RANDOMNUM"
     /\ cshm' = [cshm EXCEPT ![c] = [key |-> mine[c], id |-> a.id, status |-> 1]]
     /\ verdict' = [verdict EXCEPT ![c] = [op |-> "agree", ok |-> TRUE, id |-> a.id]]
     /\ pc' = [pc EXCEPT ![c] = "menu"]
     /\ UNCHANGED <<toServer, mine>>

\* secKeyAgree, either answer: the server refused.
AgreeRefused(c) ==
  /\ pc[c] \in {"random", "keyid"} /\ Receive(c)
  /\ Incoming(c).rv # "SUCCESS"
  /\ End(c, "agree", FALSE)
  /\ UNCHANGED <<toServer, mine, cshm>>

\* secKeyAgree, an answer it cannot digest: without the server's public key
\* the client encrypts with a null key; the second answer is read up to its
\* first zero byte, which leaves a RANDOMNUM answer undecodable and the
\* result pointer null.
AgreeCrash(c) ==
  /\ toClient[c] # <<>> /\ Incoming(c).rv = "SUCCESS"
  /\ \/ pc[c] = "random" /\ Incoming(c).type # "RANDOMNUM"
     \/ pc[c] = "keyid" /\ Incoming(c).type = "RANDOMNUM"
  /\ Die(c)

\* RecvCheck, mutated: any answer will do.
RecvCheckAny(c) ==
  /\ pc[c] = "check" /\ Receive(c)
  /\ End(c, "check", TRUE)
  /\ UNCHANGED <<toServer, mine, cshm>>

\* secKeyCheck believes the result of any answer; its type is only printed.
RecvCheck(c) ==
  /\ pc[c] = "check" /\ Receive(c)
  /\ End(c, "check", Incoming(c).rv = "SUCCESS")
  /\ UNCHANGED <<toServer, mine, cshm>>

\* secKeyRevoke wants the type to match.  The client's slot stays as it is.
RecvRevoke(c) ==
  /\ pc[c] = "revoke" /\ Receive(c)
  /\ End(c, "revoke", Incoming(c).type = "KEYREVOKE" /\ Incoming(c).rv = "SUCCESS")
  /\ UNCHANGED <<toServer, mine, cshm>>

\* recvMsg gives up, or meets the end of a connection.  The empty message in
\* the answer's place is a success to secKeyCheck, the wrong type to
\* secKeyRevoke, and has no public key for secKeyAgree, which decodes its
\* first answer once more while it waits for the second (at the end of a
\* connection it builds a string from null).
TimedOut(c) == (Timeouts \/ c \in cut) /\ c \in alive /\ toClient[c] = <<>>

CheckTimeout(c) ==
  /\ pc[c] = "check" /\ TimedOut(c)
  /\ End(c, "check", TRUE)
  /\ UNCHANGED <<wireVars, ops, mine, cshm, lives>>

RevokeTimeout(c) ==
  /\ pc[c] = "revoke" /\ TimedOut(c)
  /\ End(c, "revoke", FALSE)
  /\ UNCHANGED <<wireVars, ops, mine, cshm, lives>>

AgreeTimeout(c) ==
  /\ pc[c] \in {"random", "keyid"} /\ TimedOut(c)
  /\ Die(c)

\* A second write to a connection that was cut raises SIGPIPE.
Killed(c) == c \in cut /\ pc[c] = "menu" /\ ops[c] > 0 /\ Die(c)

\* A client process may be ended at any time, by its menu or from outside.
Quit(c) == lives[c] < MaxLives /\ Die(c)

\* It starts again with its slot zeroed, on a new connection.  The descriptor
\* is one no other connection has and no handler is still working on; the
\* requests unread on its earlier connection, and on the client's, are lost.
Start(c, busyFds) ==
  /\ c \notin alive /\ lives[c] < MaxLives
  /\ \E f \in Fds \ (busyFds \cup {fd[d] : d \in alive \ cut}) :
       /\ fd' = [fd EXCEPT ![c] = f]
       /\ toServer' = [d \in Clients |-> IF d = c \/ fd[d] = f THEN <<>> ELSE toServer[d]]
  /\ alive' = alive \cup {c}
  /\ cshm' = [cshm EXCEPT ![c] = NoKeyHeld]
  /\ verdict' = [verdict EXCEPT ![c] = NoVerdict]
  /\ lives' = [lives EXCEPT ![c] = @ + 1]
  /\ UNCHANGED <<cut, toClient, pc, ops, mine>>

Receives(c) ==
  RecvRandom(c) \/ RecvKeyId(c) \/ AgreeRefused(c) \/ AgreeCrash(c)
    \/ RecvCheck(c) \/ RecvRevoke(c)

GivesUp(c) == CheckTimeout(c) \/ RevokeTimeout(c) \/ AgreeTimeout(c)

Begins(c) == BeginAgree(c) \/ BeginCheck(c) \/ BeginRevoke(c)
=============================================================================
