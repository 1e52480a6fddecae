----------------------------- MODULE WorkflowGraph -----------------------------
(***************************************************************************)
(* The drawing of a project's workflow: edges between agents, and agents   *)
(* that come and go.                                                       *)
(*                                                                         *)
(* A request checks its edge with two queries, one after the other, that   *)
(* lock nothing, and then inserts it.  That an agent has one outgoing edge *)
(* is also a unique constraint of the table; that handoffs close no cycle  *)
(* is not, it rests on the check alone.                                    *)
(***************************************************************************)
EXTENDS Integers, FiniteSets

CONSTANTS
  Agents,    \* identifiers of agents, each used once
  Sessions,  \* concurrent requests of the user
  None

ASSUME GraphAssumption == IsFiniteSet(Agents) /\ None \notin Agents

\* What a request may ask for; how many rounds a review loop has is data.
Lines == [from : Agents, to : Agents, type : {"handoff", "review_loop"}]

Edges == {e \in Lines : e.from # e.to}

VARIABLES
  agent,   \* of each identifier: unborn, live or gone
  edges,   \* the committed edges
  req,     \* what each request is doing
  missed   \* history: <<e, f>> when e was inserted without having seen f

vars == <<agent, edges, req, missed>>

Live == {a \in Agents : agent[a] = "live"}

Handoffs(E) == {e \in E : e.type = "handoff"}

\* A request: the edge it draws, and the edges its cycle check has read.
Drawing(pc, e, seen) == [pc |-> pc, edge |-> e, seen |-> seen]

Idle == Drawing("idle", None, {})

Reqs == [pc : {"idle", "drawn", "free", "checked"}, edge : Edges \cup {None},
         seen : SUBSET Edges]

\* A request that is under way knows its edge, and nothing leads from an agent to
\* itself.
TypeOK ==
  /\ agent \in [Agents -> {"unborn", "live", "gone"}]
  /\ edges \subseteq Edges
  /\ req \in [Sessions -> Reqs]
  /\ \A s \in Sessions : req[s].pc # "idle" => req[s].edge \in Edges
  /\ missed \subseteq Edges \X Edges

Init ==
  /\ agent = [a \in Agents |-> "unborn"]
  /\ edges = {}
  /\ req = [s \in Sessions |-> Idle]
  /\ missed = {}

-----------------------------------------------------------------------------
(* The cycle check.                                                        *)

\* The agents S are left by no handoff of E.
Closed(S, E) == \A e \in Handoffs(E) : e.from \in S => e.to \in S

\* Mutant of CreatesHandoffCycle: only an edge straight back is found.
CreatesShortCycle(E, from, to) ==
  \E e \in Handoffs(E) : e.from = to /\ e.to = from

\* _creates_handoff_cycle: handoffs lead from `to' back to `from'.
CreatesHandoffCycle(E, from, to) ==
  \A S \in SUBSET Agents : to \in S /\ Closed(S, E) => from \in S

\* Where the edges E lead from the agents S.
After(S, E) == {e.to : e \in {x \in E : x.from \in S}}

\* Mutant of Walk: review loops do not end the walk.
WalkPastReviews(E, from, to) ==
  LET cur[n \in Nat] == IF n = 0 THEN {to} ELSE After(cur[n - 1], E)
  IN  \E n \in 1..Cardinality(Agents) : from \in cur[n]

\* The loop of _creates_handoff_cycle, `cur' in each of its rounds: an agent has one
\* outgoing edge, a review loop ends the walk, and so does `seen', after as many
\* rounds as there are agents.
Walk(E, from, to) ==
  LET cur[n \in Nat] == IF n = 0 THEN {to} ELSE After(cur[n - 1], Handoffs(E))
  IN  \E n \in 1..Cardinality(Agents) : from \in cur[n]

-----------------------------------------------------------------------------
(* Drawing an edge.                                                        *)

Close(s) == req' = [req EXCEPT ![s] = Idle]

\* Both agents are in the project, and differ.
Valid(e) == e.from # e.to /\ e.from \in Live /\ e.to \in Live

\* create_edge
Draw(s, e) ==
  /\ req[s] = Idle
  /\ Valid(e)
  /\ req' = [req EXCEPT ![s] = Drawing("drawn", e, {})]
  /\ UNCHANGED <<agent, edges, missed>>

\* One output per agent, or 409.
CheckOutput(s) ==
  /\ req[s].pc = "drawn"
  /\ IF \E f \in edges : f.from = req[s].edge.from
     THEN Close(s)
     ELSE req' = [req EXCEPT ![s] = Drawing("free", req[s].edge, {})]
  /\ UNCHANGED <<agent, edges, missed>>

\* No handoff closes a cycle, or 400; a review loop is not checked.
CheckCycle(s) ==
  LET e == req[s].edge IN
  /\ req[s].pc = "free"
  /\ IF e.type = "handoff" /\ CreatesHandoffCycle(edges, e.from, e.to)
     THEN Close(s)
     ELSE req' = [req EXCEPT ![s] = Drawing("checked", e, edges)]
  /\ UNCHANGED <<agent, edges, missed>>

\* The INSERT: the unique constraint and the foreign keys.
Accepted(e) ==
  /\ \A f \in edges : f.from # e.from
  /\ e.from \in Live /\ e.to \in Live

Insert(s) ==
  LET e == req[s].edge IN
  /\ req[s].pc = "checked"
  /\ Accepted(e)
  /\ edges' = edges \cup {e}
  /\ missed' = missed \cup {<<e, f>> : f \in edges \ req[s].seen}
  /\ Close(s)
  /\ UNCHANGED agent

\* The constraint is violated, the request answers 500 and rolls back.
InsertFails(s) ==
  /\ req[s].pc = "checked"
  /\ ~Accepted(req[s].edge)
  /\ Close(s)
  /\ UNCHANGED <<agent, edges, missed>>

-----------------------------------------------------------------------------
(* Agents and edges that come and go.                                      *)

\* add_team: a new team begins with its starter, who hands over to nobody.
AddTeam(a) ==
  /\ agent[a] = "unborn"
  /\ agent' = [agent EXCEPT ![a] = "live"]
  /\ UNCHANGED <<edges, req, missed>>

\* add_agent: nobody else knows the agent before the commit, so its output cannot
\* close a cycle whatever happens meanwhile.
AddAgent(a) ==
  /\ agent[a] = "unborn"
  /\ agent' = [agent EXCEPT ![a] = "live"]
  /\ \/ UNCHANGED edges
     \/ \E e \in Edges : e.from = a /\ e.to \in Live /\ edges' = edges \cup {e}
  /\ UNCHANGED <<req, missed>>

Drop(E) ==
  /\ edges' = edges \ E
  /\ missed' = {m \in missed : m[1] \notin E /\ m[2] \notin E}

DeleteEdge(e) ==
  /\ e \in edges
  /\ Drop({e})
  /\ UNCHANGED <<agent, req>>

\* delete_agent and delete_team: the foreign keys take the edges along.  Whether an
\* agent is at work, which stops the first but not the second, is left open.
RemoveAgents(S) ==
  /\ S # {} /\ S \subseteq Live
  /\ agent' = [a \in Agents |-> IF a \in S THEN "gone" ELSE agent[a]]
  /\ Drop({e \in edges : e.from \in S \/ e.to \in S})
  /\ UNCHANGED req

Request(s) ==
  \/ \E e \in Lines : Draw(s, e)
  \/ CheckOutput(s) \/ CheckCycle(s) \/ Insert(s) \/ InsertFails(s)

Next ==
  \/ \E s \in Sessions : Request(s)
  \/ \E a \in Agents : AddTeam(a) \/ AddAgent(a)
  \/ \E e \in edges : DeleteEdge(e)
  \/ \E S \in SUBSET Agents : RemoveAgents(S)

Spec == Init /\ [][Next]_vars

-----------------------------------------------------------------------------
(* Properties.                                                             *)

\* Every edge of C goes on in C: there is a cycle in it.
GoesRound(C) == C # {} /\ \A e \in C : \E f \in C : f.from = e.to

\* The only way handoffs close a cycle is a race: one edge of it was inserted after
\* another had come in behind the back of its check.  One user who waits for each
\* answer never closes one, whatever was drawn and deleted before.
CyclesAreRaces ==
  \A C \in SUBSET Handoffs(edges) :
    GoesRound(C) => \E e, f \in C : <<e, f>> \in missed

\* The walk along the outgoing edges finds exactly the handoffs that would close a
\* cycle, also in a graph with review loops and with a cycle elsewhere.
WalkIsReach ==
  \A from, to \in Agents :
    from # to => (Walk(edges, from, to) <=> CreatesHandoffCycle(edges, from, to))
=============================================================================
