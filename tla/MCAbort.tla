------------------------------ MODULE MCAbort ------------------------------
(***************************************************************************)
(* The main thread and one or two other workers, ordinary tasks of which   *)
(* any body may spawn any, and one or two AbortTasks.                      *)
(***************************************************************************)
EXTENDS Abort

CONSTANTS m, w1, w2, a1, a2, t1, t2, t3, t4, t5

MCTwoWorkers == {m, w1}
MCThreeWorkers == {m, w1, w2}
MCOneAbort == {a1}
MCTwoAborts == {a1, a2}
MCTwoWork == {t1, t2}
MCFourWork == {t1, t2, t3, t4}
MCFiveWork == {t1, t2, t3, t4, t5}
MCTask == Work \union Aborts
MCSymmetry == Permutations({w1, w2}) \union Permutations(Work)
                \union Permutations({a1, a2})
=============================================================================
