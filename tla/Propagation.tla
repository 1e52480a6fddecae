---------------------------- MODULE Propagation ----------------------------
(***************************************************************************)
(* The routing rules of services/graph_engine.py: which task, if any, the  *)
(* completion of a task creates.  Only operators, no state: an edge is a   *)
(* record [id, from, to, type, max], the provenance of a task a record     *)
(* [agent, parent, edge, loop, override].  Because an agent has at most    *)
(* one outgoing edge (uq_edges_one_outgoing) every set of firings below    *)
(* has at most one element.                                                *)
(***************************************************************************)
EXTENDS Integers, FiniteSets

CONSTANTS Agents,  \* the agents of the project
          None     \* the null of an optional column

\* loop_state of a task that takes part in no review loop.
NoLoop == [kind |-> "none", round |-> 0, edge |-> None]

\* The next task: the agent it goes to, the edge it came over, its loop_state.
Firing(to, edge, loop) == [to |-> to, edge |-> edge, loop |-> loop]

Outgoing(edges, agent) == {e \in edges : e.from = agent}

\* Mutant of OnReviewerDone: the revision counts the round that the review after
\* it counts again.
OnReviewerDoneCounts(edges, prov, approved) ==
  LET via == {e \in edges : e.id = prov.loop.edge}
      own == {e \in Outgoing(edges, prov.agent) : e.type = "handoff"}
  IN  IF approved THEN {Firing(e.to, e.id, NoLoop) : e \in own}
      ELSE {Firing(e.from, e.id,
                   [kind |-> "revision", round |-> prov.loop.round + 1, edge |-> e.id]) :
              e \in {x \in via : prov.loop.round < x.max}}

\* A reviewer finished.  Approval ends the loop and feeds the reviewer's own
\* handoff; otherwise the producer revises while rounds are left.  If the loop's
\* edge was deleted in the meantime the chain ends here.
OnReviewerDone(edges, prov, approved) ==
  LET via == {e \in edges : e.id = prov.loop.edge}
      own == {e \in Outgoing(edges, prov.agent) : e.type = "handoff"}
  IN  IF via = {} THEN {}
      ELSE IF approved THEN {Firing(e.to, e.id, NoLoop) : e \in own}
      ELSE {Firing(e.from, e.id,
                   [kind |-> "revision", round |-> prov.loop.round, edge |-> e.id]) :
              e \in {x \in via : prov.loop.round < x.max}}

\* The review a finished producer asks for: the first one, or after a revision
\* the one of the following round.
ReviewOver(e, loop) ==
  [kind  |-> "review",
   round |-> IF loop.kind = "revision" THEN loop.round + 1 ELSE 1,
   edge  |-> e.id]

\* Mutant of OnProducerDone: the filter of the reviewer's own edge, copied.
OnProducerDoneHandoffs(edges, prov) ==
  IF prov.override # None THEN {Firing(prov.override, None, NoLoop)}
  ELSE {Firing(e.to, e.id, NoLoop) :
          e \in {x \in Outgoing(edges, prov.agent) : x.type = "handoff"}}

\* A producer finished: a one-off override wins over the drawn edge.
OnProducerDone(edges, prov) ==
  IF prov.override # None THEN {Firing(prov.override, None, NoLoop)}
  ELSE {Firing(e.to, e.id,
               IF e.type = "handoff" THEN NoLoop ELSE ReviewOver(e, prov.loop)) :
          e \in Outgoing(edges, prov.agent)}

Route(edges, prov, approved) ==
  IF prov.loop.kind = "review" THEN OnReviewerDone(edges, prov, approved)
                               ELSE OnProducerDone(edges, prov)
=============================================================================
