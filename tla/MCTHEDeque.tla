----------------------------- MODULE MCTHEDeque -----------------------------
(***************************************************************************)
(* Small instances of THEDeque for TLC.                                    *)
(***************************************************************************)
EXTENDS THEDeque, TLC

\* Tasks are opaque pointers and thieves run the same code.
ThiefTaskSymmetry == Permutations(Task) \union Permutations(Thief)
=============================================================================
