-------------------------- MODULE MC_WorkflowGraph --------------------------
(***************************************************************************)
(* Small instances of WorkflowGraph for TLC.                               *)
(***************************************************************************)
EXTENDS WorkflowGraph, TLC

CONSTANTS a1, a2, a3, s1, s2

ThreeAgents == {a1, a2, a3}
TwoSessions == {s1, s2}
Symmetry == Permutations(Agents) \cup Permutations(Sessions)
=============================================================================
