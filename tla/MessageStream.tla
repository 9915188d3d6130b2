--------------------------- MODULE MessageStream ---------------------------
(***************************************************************************)
(* What the two ends of a connection want of TcpSocket: messages arrive    *)
(* whole, once and in the order they were sent.  A connection on which a   *)
(* call stopped inside a message is out of step; what its reader is handed *)
(* from then on may be anything.                                           *)
(***************************************************************************)
EXTENDS Naturals, Sequences, SequencesExt

VARIABLES
  sent,    \* the number of messages sendMsg began to write
  got,     \* what recvMsg returned, message numbers in step, anything after
  inStep   \* no call has stopped inside a message so far

vars == <<sent, got, inStep>>

Init == sent = 0 /\ got = <<>> /\ inStep = TRUE

Send == sent' = sent + 1 /\ UNCHANGED <<got, inStep>>

\* The next message, and only once it was sent.
Receive ==
  /\ inStep /\ Len(got) < sent
  /\ got' = Append(got, Len(got) + 1)
  /\ UNCHANGED <<sent, inStep>>

\* A call stops inside a message, or hands over bytes that are none.
Slip ==
  /\ inStep' = FALSE
  /\ IsPrefix(got, got') /\ Len(got') <= Len(got) + 1
  /\ UNCHANGED sent

Next == Send \/ Receive \/ Slip

Spec == Init /\ [][Next]_vars

\* In step, the reader has a prefix of what was sent.
InOrder ==
  inStep => /\ Len(got) <= sent
            /\ \A i \in DOMAIN got : got[i] = i
=============================================================================
