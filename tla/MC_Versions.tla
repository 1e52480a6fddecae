----------------------------- MODULE MC_Versions -----------------------------
(***************************************************************************)
(* Small instances of Versions for TLC.                                    *)
(***************************************************************************)
EXTENDS Versions, TLC

CONSTANTS t1, t2, f1, f2, a1, q1

OneTask == {t1}
OnePath == {f1}
TwoTasks == {t1, t2}
TwoPaths == {f1, f2}
OneApi == {a1}
OnePusher == {q1}
Symmetry == Permutations(Tasks) \cup Permutations(Paths) \cup Permutations(Pushers)
=============================================================================
