--------------------------- MODULE MC_TaskRunner ---------------------------
(***************************************************************************)
(* Small instances of TaskRunner for TLC: a writing agent `a' and a coding *)
(* agent `b' joined by one edge.                                           *)
(***************************************************************************)
EXTENDS TaskRunner, TLC

CONSTANTS a, b, w1, w2, c1, c2

MCAgents == {a, b}
HandoffAB == {[id |-> "e", from |-> a, to |-> b, type |-> "handoff", max |-> 0]}
ReviewAB == {[id |-> "e", from |-> a, to |-> b, type |-> "review_loop", max |-> 2]}
NoEdges == {}
ACrewBDev == (a :> "crew") @@ (b :> "agent_sdk")
OneWorker == {w1}
TwoWorkers == {w1, w2}
OneClient == {c1}
Symmetry == Permutations(Workers) \cup Permutations(Clients)
=============================================================================
