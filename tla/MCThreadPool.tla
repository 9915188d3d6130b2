--------------------------- MODULE MCThreadPool ---------------------------
(* ThreadPool with a few tasks.                                            *)
EXTENDS ThreadPool, TLC

CONSTANTS t1, t2, t3, t4

MCTasks4 == {t1, t2, t3, t4}

\* Tasks are interchangeable; places in the vector of threads are not.
Symmetric == Permutations(Tasks)
=============================================================================
