--------------------------- MODULE MCKeyProtocol ---------------------------
(* KeyProtocol on small sets of clients, descriptors and workers.          *)
EXTENDS KeyProtocol, TLC

CONSTANTS c1, c2, f1, f2, f3, w1, w2

MCOne    == {c1}
MCBoth   == {c1, c2}
MCFds2   == {f1, f2}
MCFds3   == {f1, f2, f3}
MCWorker == {w1}
MCWorkers == {w1, w2}
MCAll    == {"agree", "check", "revoke"}
MCNoCheck == {"agree", "revoke"}

\* Clients, descriptors and workers are interchangeable.
Symmetric == Permutations(Clients) \cup Permutations(Fds) \cup Permutations(Workers)
=============================================================================
