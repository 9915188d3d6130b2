------------------------------ MODULE KeyWire ------------------------------
(***************************************************************************)
(* What the key client and the key server share: the connection of each    *)
(* client, the messages on it and the keys they talk about.                *)
(*                                                                         *)
(* A random string is named by the client that asked for it and the number *)
(* of that client's operation: <<c, n>> names the client's string, the     *)
(* server's string and the premaster of operation n.  The strings are      *)
(* drawn anew every time; two that happen to be equal would only make a    *)
(* comparison succeed that the model lets fail.  A key is made of the      *)
(* three strings it is spliced from (authKey and endeKey are two splices   *)
(* of the same three), and an authentication code is the key it was        *)
(* computed with: codes over the same payload agree when the keys do.      *)
(***************************************************************************)
EXTENDS Integers, Sequences, FiniteSets

CONSTANTS
  Clients,   \* the clients, each with an identifier of its own
  NoClient,  \* no client: the owner of a string that was never drawn
  Fds,       \* the server's descriptors for connections
  MaxOps     \* bound: operations a client starts

ASSUME WireAssumption == NoClient \notin Clients /\ MaxOps \in Nat

VARIABLES
  fd,        \* the server's descriptor of each client's last connection
  alive,     \* the clients whose process runs
  cut,       \* those of them whose connection ended with an earlier server
  toServer,  \* the requests on each connection the server has not read
  toClient   \* the answers on each connection the client has not read

wireVars == <<fd, alive, cut, toServer, toClient>>

Randoms == (Clients \X (1..MaxOps)) \cup {<<NoClient, 0>>}
Blank   == <<NoClient, 0>>     \* the empty string
Key(cr, sr, pm) == [cr |-> cr, sr |-> sr, pm |-> pm]
Keys    == [cr : Randoms, sr : Randoms, pm : Randoms]
NoKey   == Key(Blank, Blank, Blank)

\* Requests: a client's random string, its premaster with the key it was
\* authenticated with, or a key and its identifier to check or to revoke.
Requests ==
       [type : {"RANDOMNUM"}, random : Randoms]
  \cup [type : {"PREKEY"}, pm : Randoms, key : Keys]
  \cup [type : {"KEYCHECK", "KEYREVOKE"}, id : Nat, key : Keys]

\* Answers: a result, and the server's random string or the key's identifier.
Answer(type, rv, random, id) ==
  [type |-> type, rv |-> rv, random |-> random, id |-> id]
Answers == [type : {"RANDOMNUM", "PREKEY", "KEYCHECK", "KEYREVOKE"},
            rv : {"SUCCESS", "AUTHERR", "SERVERERR"}, random : Randoms, id : Nat]

WireOK ==
  /\ fd \in [Clients -> Fds]
  /\ alive \in SUBSET Clients /\ cut \in SUBSET alive
  /\ toServer \in [Clients -> Seq(Requests)]
  /\ toClient \in [Clients -> Seq(Answers)]
=============================================================================
