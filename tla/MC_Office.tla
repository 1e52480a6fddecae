----------------------------- MODULE MC_Office -----------------------------
(***************************************************************************)
(* A small instance of Office for TLC.                                     *)
(***************************************************************************)
EXTENDS Office, TLC

CONSTANTS a1, a2, t1, t2, x1, x2

OneAgent == {a1}
TwoTasks == {t1, t2}
TwoApis == {x1, x2}
Symmetry == Permutations(Agents) \cup Permutations(Tasks) \cup Permutations(Apis)
=============================================================================
