---------------------------- MODULE MC_Sandboxes ----------------------------
(***************************************************************************)
(* Small instances of Sandboxes for TLC.                                   *)
(***************************************************************************)
EXTENDS Sandboxes, TLC

CONSTANTS w1, w2, p1, p2, t1, t2

TwoWorkers == {w1, w2}
OneApi == {p1}
TwoApis == {p1, p2}
TwoTasks == {t1, t2}
Symmetry == Permutations(Workers) \cup Permutations(Apis) \cup Permutations(Tasks)
=============================================================================
