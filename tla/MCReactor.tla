----------------------------- MODULE MCReactor -----------------------------
(* Reactor on small sets of connections, descriptors and workers.          *)
EXTENDS Reactor, TLC

CONSTANTS c1, c2, c3, f1, f2, w1, w2

MCConns2   == {c1, c2}
MCConns3   == {c1, c2, c3}
MCFds2     == {f1, f2}
MCWorkers1 == {w1}
MCWorkers2 == {w1, w2}

\* Connections, descriptors and workers are interchangeable in every action
\* and in every invariant (the descriptor table is no longer ordered).
Symmetric == Permutations(Conns) \cup Permutations(Fds) \cup Permutations(Workers)
=============================================================================
