-------------------------- MODULE RequestService --------------------------
(***************************************************************************)
(* What a client may rely on when it talks to the server, whatever threads *)
(* and descriptors serve it: its connection is taken up once, its requests *)
(* are answered in the order in which they were sent, each once, and the   *)
(* server does not drop a connection whose client is still there.          *)
(***************************************************************************)
EXTENDS Naturals, Sequences

CONSTANT Conns

VARIABLES
  place,    \* "none", "waiting" to be accepted, "served" or "dropped"
  staying,  \* the connections whose client has not left
  asked,    \* the number of requests sent on each connection
  answers   \* the requests answered on each, by their number

vars == <<place, staying, asked, answers>>

Init ==
  /\ place = [c \in Conns |-> "none"]
  /\ staying = {}
  /\ asked = [c \in Conns |-> 0]
  /\ answers = [c \in Conns |-> <<>>]

Connect(c) ==
  /\ place[c] = "none"
  /\ place' = [place EXCEPT ![c] = "waiting"]
  /\ staying' = staying \cup {c}
  /\ UNCHANGED <<asked, answers>>

Ask(c) ==
  /\ c \in staying
  /\ asked' = [asked EXCEPT ![c] = @ + 1]
  /\ UNCHANGED <<place, staying, answers>>

Quit(c) ==
  /\ c \in staying
  /\ staying' = staying \ {c}
  /\ UNCHANGED <<place, asked, answers>>

\* A client that connected may be gone when its turn comes.
Serve(c) ==
  /\ place[c] = "waiting"
  /\ place' = [place EXCEPT ![c] = "served"]
  /\ UNCHANGED <<staying, asked, answers>>

\* The next request in the order of sending, and only once it was sent.
Answer(c) ==
  /\ place[c] = "served" /\ c \in staying
  /\ Len(answers[c]) < asked[c]
  /\ answers' = [answers EXCEPT ![c] = Append(@, Len(@) + 1)]
  /\ UNCHANGED <<place, staying, asked>>

Drop(c) ==
  /\ place[c] = "served" /\ c \notin staying
  /\ place' = [place EXCEPT ![c] = "dropped"]
  /\ UNCHANGED <<staying, asked, answers>>

Next == \E c \in Conns :
  Connect(c) \/ Ask(c) \/ Quit(c) \/ Serve(c) \/ Answer(c) \/ Drop(c)

Spec == Init /\ [][Next]_vars
=============================================================================
