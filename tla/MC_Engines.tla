---------------------------- MODULE MC_Engines ----------------------------
(***************************************************************************)
(* A small instance of Engines for TLC.  Our own loop gets answers with    *)
(* two and nine calls, so that the newest eight messages may start inside  *)
(* the answers to one message; the managed agents are two of one project,  *)
(* one of which has two tasks.                                             *)
(***************************************************************************)
EXTENDS Engines, TLC

CONSTANTS w1, w2, a1, a2, t1, t2, t3

Fans == {2, 9}
TwoWorkers == {w1, w2}
TwoAgents == {a1, a2}
ThreeTasks == {t1, t2, t3}
TwoAndOne == (t1 :> a1) @@ (t2 :> a1) @@ (t3 :> a2)
Symmetry == {p @@ q : p \in Permutations(Workers), q \in Permutations({t1, t2})}
=============================================================================
