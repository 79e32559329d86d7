------------------------- MODULE MCWorkerThreadPool -------------------------
(***************************************************************************)
(* The main thread and two or three others, and two rounds of starting and *)
(* removing them.                                                          *)
(***************************************************************************)
EXTENDS WorkerThreadPool, TLC

CONSTANTS m, w1, w2, w3

MCThread == {m, w1, w2, w3}
MCThreeThreads == {m, w1, w2}
MCSymmetry == Permutations({w1, w2, w3})
MCSymmetryThree == Permutations({w1, w2})
=============================================================================
