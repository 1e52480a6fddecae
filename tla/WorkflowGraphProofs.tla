-------------------------- MODULE WorkflowGraphProofs --------------------------
(***************************************************************************)
(* Proofs about WorkflowGraph, for any number of agents and requests.      *)
(***************************************************************************)
EXTENDS WorkflowGraph, FiniteSetTheorems, WellFoundedInduction, TLAPS

LEMMA RequestTypeOK ==
  ASSUME TypeOK, NEW s \in Sessions, Request(s)
  PROVE  TypeOK'
<1>1. /\ \A e \in Edges, E \in SUBSET Edges, pc \in {"drawn", "free", "checked"} :
           /\ Drawing(pc, e, E) \in Reqs
           /\ Drawing(pc, e, E).pc = pc /\ Drawing(pc, e, E).edge = e
      /\ Idle \in Reqs /\ Idle.pc = "idle"
  BY DEF Drawing, Reqs, Idle
<1>2. /\ req[s] \in Reqs /\ edges \subseteq Edges /\ missed \subseteq Edges \X Edges
      /\ req[s].pc # "idle" => req[s].edge \in Edges
  BY DEF TypeOK
<1>3. Close(s) =>
        /\ req' \in [Sessions -> Reqs]
        /\ \A u \in Sessions : req'[u].pc # "idle" => req'[u].edge \in Edges
  BY <1>1 DEF Close, TypeOK
<1>4. ASSUME NEW e \in Edges, NEW E \in SUBSET Edges, NEW pc \in {"drawn", "free", "checked"},
             req' = [req EXCEPT ![s] = Drawing(pc, e, E)]
      PROVE  /\ req' \in [Sessions -> Reqs]
             /\ \A u \in Sessions : req'[u].pc # "idle" => req'[u].edge \in Edges
  <2>1. Drawing(pc, e, E) \in Reqs /\ Drawing(pc, e, E).edge = e
    BY <1>1
  <2>. QED  BY <1>4, <2>1 DEF TypeOK
<1>5. ASSUME NEW e \in Lines, Draw(s, e) PROVE TypeOK'
  <2>1. e \in Edges
    BY <1>5 DEF Draw, Valid, Edges
  <2>. QED  BY <1>4, <1>5, <2>1 DEF Draw, TypeOK
<1>6. CASE CheckOutput(s)
  <2>1. req[s].edge \in Edges
    BY <1>2, <1>6 DEF CheckOutput
  <2>. QED  BY <1>3, <1>4, <1>6, <2>1 DEF CheckOutput, TypeOK
<1>7. CASE CheckCycle(s)
  <2>1. req[s].edge \in Edges
    BY <1>2, <1>7 DEF CheckCycle
  <2>2. Close(s) \/ req' = [req EXCEPT ![s] = Drawing("checked", req[s].edge, edges)]
    BY <1>7 DEF CheckCycle
  <2>. QED  BY <1>2, <1>3, <1>4, <1>7, <2>1, <2>2 DEF CheckCycle, TypeOK
<1>8. CASE Insert(s)
  <2>1. req[s].edge \in Edges
    BY <1>2, <1>8 DEF Insert
  <2>. QED  BY <1>2, <1>3, <1>8, <2>1 DEF Insert, TypeOK
<1>9. CASE InsertFails(s)
  BY <1>3, <1>9 DEF InsertFails, TypeOK
<1>. QED  BY <1>5, <1>6, <1>7, <1>8, <1>9 DEF Request

LEMMA TypeStep == TypeOK /\ [Next]_vars => TypeOK'
<1>. SUFFICES ASSUME TypeOK, [Next]_vars PROVE TypeOK'
  OBVIOUS
<1>1. ASSUME NEW s \in Sessions, Request(s) PROVE TypeOK'
  BY <1>1, RequestTypeOK
<1>2. ASSUME NEW a \in Agents, AddTeam(a) \/ AddAgent(a) PROVE TypeOK'
  BY <1>2 DEF AddTeam, AddAgent, TypeOK
<1>3. ASSUME NEW e \in edges, DeleteEdge(e) PROVE TypeOK'
  BY <1>3 DEF DeleteEdge, Drop, TypeOK
<1>4. ASSUME NEW S \in SUBSET Agents, RemoveAgents(S) PROVE TypeOK'
  BY <1>4 DEF RemoveAgents, Drop, TypeOK
<1>5. CASE UNCHANGED vars
  BY <1>5 DEF vars, TypeOK
<1>. QED  BY <1>1, <1>2, <1>3, <1>4, <1>5 DEF Next

LEMMA InitTypeOK == Init => TypeOK
<1>. SUFFICES ASSUME Init PROVE TypeOK
  OBVIOUS
<1>1. Idle \in Reqs /\ Idle.pc = "idle"
  BY DEF Idle, Drawing, Reqs
<1>. QED  BY <1>1 DEF Init, TypeOK

\* Every variable keeps its type, and no edge leads from an agent to itself.
THEOREM TypeCorrect == Spec => []TypeOK
<1>. QED  BY InitTypeOK, TypeStep, PTL DEF Spec

-----------------------------------------------------------------------------
(* Cycles.                                                                 *)

\* What a checked request has seen leads no way back along its edge.
SeenOK ==
  \A s \in Sessions :
    req[s].pc = "checked" /\ req[s].edge.type = "handoff" =>
      ~CreatesHandoffCycle(req[s].seen, req[s].edge.from, req[s].edge.to)

\* An edge leads to an agent that has been born: nothing leads to a new one.
BornOK == \A e \in edges : agent[e.from] # "unborn" /\ agent[e.to] # "unborn"

CycleInv == TypeOK /\ SeenOK /\ BornOK /\ CyclesAreRaces

\* The heart of the matter.  A cycle C through a new edge e, all of which but e
\* was in E when the check found no way back, leaves a cycle without e.
LEMMA NoWayBack ==
  ASSUME NEW E, NEW e, NEW C, GoesRound(C), e \in C,
         C \ {e} \subseteq Handoffs(E),
         ~CreatesHandoffCycle(E, e.from, e.to)
  PROVE  \E D \in SUBSET (C \ {e}) : GoesRound(D)
<1>1. PICK S \in SUBSET Agents : e.to \in S /\ Closed(S, E) /\ e.from \notin S
  BY DEF CreatesHandoffCycle
<1>. DEFINE D == {g \in C : g.from \in S}
<1>2. D \in SUBSET (C \ {e})
  BY <1>1
<1>3. D # {}
  <2>1. PICK f \in C : f.from = e.to
    BY DEF GoesRound
  <2>. QED  BY <1>1, <2>1
<1>4. ASSUME NEW g \in D PROVE \E h \in D : h.from = g.to
  <2>1. g \in Handoffs(E) /\ g.from \in S
    BY <1>2
  <2>2. g.to \in S
    BY <1>1, <2>1 DEF Closed
  <2>3. PICK h \in C : h.from = g.to
    BY DEF GoesRound
  <2>. QED  BY <2>2, <2>3
<1>5. GoesRound(D)
  BY <1>3, <1>4 DEF GoesRound
<1>. QED  BY <1>2, <1>5

LEMMA InsertKeeps ==
  ASSUME CycleInv, NEW s \in Sessions, Insert(s)
  PROVE  CyclesAreRaces'
<1>. DEFINE e == req[s].edge
<1>1. /\ TypeOK /\ SeenOK /\ CyclesAreRaces
      /\ req[s].pc = "checked" /\ edges' = edges \cup {e}
      /\ missed' = missed \cup {<<e, f>> : f \in edges \ req[s].seen}
  BY DEF CycleInv, Insert
<1>2. SUFFICES ASSUME NEW C \in SUBSET Handoffs(edges'), GoesRound(C),
                      \A x, y \in C : <<x, y>> \notin missed'
               PROVE  FALSE
  BY DEF CyclesAreRaces
<1>3. ASSUME NEW D \in SUBSET C, D \subseteq Handoffs(edges), GoesRound(D) PROVE FALSE
  BY <1>1, <1>2, <1>3 DEF CyclesAreRaces
<1>4. CASE e \notin C
  BY <1>1, <1>2, <1>3, <1>4 DEF Handoffs
<1>5. CASE e \in C
  <2>1. e.type = "handoff" /\ C \ {e} \subseteq Handoffs(edges)
    BY <1>1, <1>2, <1>5 DEF Handoffs
  <2>2. C \ {e} \subseteq Handoffs(req[s].seen)
    <3>1. \A f \in C \ {e} : f \in edges /\ f \in req[s].seen
      BY <1>1, <1>2, <1>5, <2>1 DEF Handoffs
    <3>. QED  BY <2>1, <3>1 DEF Handoffs
  <2>3. ~CreatesHandoffCycle(req[s].seen, e.from, e.to)
    BY <1>1, <2>1 DEF SeenOK
  <2>4. PICK D \in SUBSET (C \ {e}) : GoesRound(D)
    BY <1>2, <1>5, <2>2, <2>3, NoWayBack
  <2>. QED  BY <1>3, <2>1, <2>4
<1>. QED  BY <1>4, <1>5

\* A new agent has an output at most, so no cycle goes through it.
LEMMA AddAgentKeeps ==
  ASSUME CycleInv, NEW a \in Agents, AddAgent(a)
  PROVE  CyclesAreRaces' /\ BornOK'
<1>1. TypeOK /\ BornOK /\ CyclesAreRaces
  BY DEF CycleInv
<1>2. CASE edges' = edges
  BY <1>1, <1>2 DEF AddAgent, CyclesAreRaces, BornOK, TypeOK, Edges, Lines
<1>3. ASSUME NEW e \in Edges, e.from = a, e.to \in Live, edges' = edges \cup {e}
      PROVE  CyclesAreRaces' /\ BornOK'
  <2>1. agent[a] = "unborn" /\ agent' = [agent EXCEPT ![a] = "live"] /\ missed' = missed
    BY DEF AddAgent
  <2>2. BornOK'
    BY <1>1, <1>3, <2>1 DEF BornOK, TypeOK, Edges, Lines, Live
  <2>3. \A g \in edges' : g.to # a
    BY <1>1, <1>3, <2>1 DEF BornOK, Edges, Live
  <2>4. ASSUME NEW C \in SUBSET Handoffs(edges'), GoesRound(C)
        PROVE  \E x, y \in C : <<x, y>> \in missed'
    <3>. DEFINE D == C \ {e}
    <3>1. \A g \in C : \E h \in D : h.from = g.to
      BY <1>3, <2>3, <2>4 DEF GoesRound, Handoffs
    <3>2. GoesRound(D)
      BY <2>4, <3>1 DEF GoesRound
    <3>3. D \in SUBSET Handoffs(edges)
      BY <1>3, <2>4 DEF Handoffs
    <3>. QED  BY <1>1, <2>1, <3>2, <3>3 DEF CyclesAreRaces
  <2>. QED  BY <2>2, <2>4 DEF CyclesAreRaces
<1>. QED  BY <1>2, <1>3 DEF AddAgent

LEMMA DropKeeps ==
  ASSUME CyclesAreRaces, NEW E, Drop(E)
  PROVE  CyclesAreRaces'
<1>. SUFFICES ASSUME NEW C \in SUBSET Handoffs(edges'), GoesRound(C)
              PROVE  \E x, y \in C : <<x, y>> \in missed'
  BY DEF CyclesAreRaces
<1>1. C \in SUBSET Handoffs(edges) /\ \A x \in C : x \notin E
  BY DEF Drop, Handoffs
<1>2. PICK x, y \in C : <<x, y>> \in missed
  BY <1>1 DEF CyclesAreRaces
<1>. QED  BY <1>1, <1>2 DEF Drop

LEMMA SeenStep == CycleInv /\ [Next]_vars => SeenOK'
<1>. SUFFICES ASSUME CycleInv, [Next]_vars, NEW s \in Sessions, req'[s].pc = "checked",
                     req'[s].edge.type = "handoff"
              PROVE  ~CreatesHandoffCycle(req'[s].seen, req'[s].edge.from, req'[s].edge.to)
  BY DEF SeenOK
<1>1. TypeOK /\ SeenOK /\ req \in [Sessions -> Reqs]
  BY DEF CycleInv, TypeOK
<1>2. \A pc, e, E : /\ Drawing(pc, e, E).pc = pc /\ Drawing(pc, e, E).edge = e
                    /\ Drawing(pc, e, E).seen = E
  BY DEF Drawing
<1>3. CASE req'[s] = req[s]
  BY <1>1, <1>3 DEF SeenOK
<1>4. ASSUME NEW u \in Sessions, Request(u), req'[s] # req[s]
      PROVE  ~CreatesHandoffCycle(req'[s].seen, req'[s].edge.from, req'[s].edge.to)
  <2>1. CASE CheckCycle(u)
    <3>1. /\ req' = [req EXCEPT ![u] = Drawing("checked", req[u].edge, edges)]
          /\ ~(req[u].edge.type = "handoff"
               /\ CreatesHandoffCycle(edges, req[u].edge.from, req[u].edge.to))
      <4>1. ~Close(u)
        BY <1>1, <1>2, <1>4 DEF Close, Idle
      <4>. QED  BY <2>1, <4>1 DEF CheckCycle
    <3>2. u = s
      BY <1>1, <1>4, <3>1
    <3>3. req'[s] = Drawing("checked", req[s].edge, edges)
      BY <1>1, <3>1, <3>2
    <3>4. req'[s].edge = req[s].edge /\ req'[s].seen = edges
      BY <1>2, <3>3
    <3>. QED  BY <3>1, <3>2, <3>4
  <2>2. CASE \/ \E e \in Lines : Draw(u, e)
             \/ CheckOutput(u) \/ Insert(u) \/ InsertFails(u)
    <3>1. \/ Close(u)
          \/ \E e : req' = [req EXCEPT ![u] = Drawing("drawn", e, {})]
          \/ \E e : req' = [req EXCEPT ![u] = Drawing("free", e, {})]
      BY <2>2 DEF Draw, CheckOutput, Insert, InsertFails
    <3>. QED  BY <1>1, <1>2, <1>4, <3>1 DEF Close, Idle
  <2>. QED  BY <1>4, <2>1, <2>2 DEF Request
<1>5. ASSUME UNCHANGED req PROVE req'[s] = req[s]
  BY <1>5
<1>. QED  BY <1>3, <1>4, <1>5 DEF Next, AddTeam, AddAgent, DeleteEdge, RemoveAgents, vars

LEMMA BornStep == CycleInv /\ [Next]_vars => BornOK'
<1>. SUFFICES ASSUME CycleInv, [Next]_vars PROVE BornOK'
  OBVIOUS
<1>1. TypeOK /\ BornOK
  BY DEF CycleInv
<1>2. ASSUME NEW s \in Sessions, Request(s) PROVE BornOK'
  BY <1>1, <1>2 DEF Request, Draw, CheckOutput, CheckCycle, Insert, InsertFails, Accepted,
                    BornOK, Live
<1>3. ASSUME NEW a \in Agents, AddAgent(a) PROVE BornOK'
  BY <1>3, AddAgentKeeps
<1>3a. ASSUME NEW a \in Agents, AddTeam(a) PROVE BornOK'
  BY <1>1, <1>3a DEF AddTeam, BornOK, TypeOK, Edges, Lines
<1>4. ASSUME NEW e \in edges, DeleteEdge(e) PROVE BornOK'
  BY <1>1, <1>4 DEF DeleteEdge, Drop, BornOK
<1>5. ASSUME NEW S \in SUBSET Agents, RemoveAgents(S) PROVE BornOK'
  BY <1>1, <1>5 DEF RemoveAgents, Drop, BornOK, TypeOK, Edges, Lines
<1>6. CASE UNCHANGED vars
  BY <1>1, <1>6 DEF vars, BornOK
<1>. QED  BY <1>2, <1>3, <1>3a, <1>4, <1>5, <1>6 DEF Next

LEMMA CycleStep == CycleInv /\ [Next]_vars => CyclesAreRaces'
<1>. SUFFICES ASSUME CycleInv, [Next]_vars PROVE CyclesAreRaces'
  OBVIOUS
<1>1. CyclesAreRaces
  BY DEF CycleInv
<1>2. ASSUME UNCHANGED <<edges, missed>> PROVE CyclesAreRaces'
  BY <1>1, <1>2 DEF CyclesAreRaces
<1>3. ASSUME NEW s \in Sessions, Request(s) PROVE CyclesAreRaces'
  BY <1>2, <1>3, InsertKeeps DEF Request, Draw, CheckOutput, CheckCycle, InsertFails
<1>4. ASSUME NEW a \in Agents, AddAgent(a) PROVE CyclesAreRaces'
  BY <1>4, AddAgentKeeps
<1>4a. ASSUME NEW a \in Agents, AddTeam(a) PROVE CyclesAreRaces'
  BY <1>2, <1>4a DEF AddTeam
<1>5. ASSUME NEW e \in edges, DeleteEdge(e) PROVE CyclesAreRaces'
  BY <1>1, <1>5, DropKeeps DEF DeleteEdge
<1>6. ASSUME NEW S \in SUBSET Agents, RemoveAgents(S) PROVE CyclesAreRaces'
  BY <1>1, <1>6, DropKeeps DEF RemoveAgents
<1>7. CASE UNCHANGED vars
  BY <1>2, <1>7 DEF vars
<1>. QED  BY <1>3, <1>4, <1>4a, <1>5, <1>6, <1>7 DEF Next

\* Handoffs close a cycle only by a race of two requests, for any number of agents.
THEOREM OnlyRacesCloseCycles == Spec => []CyclesAreRaces
<1>1. Init => CycleInv
  <2>. SUFFICES ASSUME Init PROVE CycleInv
    OBVIOUS
  <2>1. SeenOK
    BY DEF Init, SeenOK, Idle, Drawing
  <2>2. BornOK /\ CyclesAreRaces
    BY DEF Init, BornOK, CyclesAreRaces, GoesRound, Handoffs
  <2>. QED  BY <2>1, <2>2, InitTypeOK DEF CycleInv
<1>2. CycleInv /\ [Next]_vars => CycleInv'
  BY TypeStep, SeenStep, BornStep, CycleStep DEF CycleInv
<1>3. CycleInv => CyclesAreRaces
  BY DEF CycleInv
<1>. QED  BY <1>1, <1>2, <1>3, PTL DEF Spec

-----------------------------------------------------------------------------
(* The walk of the cycle check.                                            *)

\* A set of rounds that is not empty has a first one.
LEMMA LeastRound ==
  ASSUME NEW T, T \subseteq Nat, T # {}
  PROVE  \E n \in T : \A m \in T : n <= m
<1>1. PICK n \in T : \A m \in T : <<m, n>> \notin OpToRel(<, Nat)
  BY NatLessThanWellFounded, WFMin
<1>2. \A m \in T : ~(m < n)
  BY <1>1 DEF OpToRel
<1>. QED  BY <1>2

\* The rounds of the walk.
Rounds(cur, E, to) ==
  cur = [n \in Nat |-> IF n = 0 THEN {to} ELSE After(cur[n - 1], Handoffs(E))]

\* p goes along handoffs, in n rounds.
Along(p, n, E) ==
  \A k \in 1..n : \E e \in Handoffs(E) : e.from = p[k - 1] /\ e.to = p[k]

\* The recursion has a solution: the ends of the paths that begin at `to'.
LEMMA RoundsExist ==
  ASSUME NEW E \in SUBSET Edges, NEW to \in Agents
  PROVE  \E cur : Rounds(cur, E, to)
<1>. DEFINE Path(n) == {p \in [0..n -> Agents] : p[0] = to /\ Along(p, n, E)}
            Ends(n) == {p[n] : p \in Path(n)}
            cur == [n \in Nat |-> Ends(n)]
<1>1. Ends(0) = {to}
  <2>1. [k \in 0..0 |-> to] \in Path(0)
    BY DEF Along
  <2>2. \A p \in Path(0) : p[0] = to
    OBVIOUS
  <2>3. to \in Ends(0)
    BY <2>1
  <2>. HIDE DEF Path
  <2>. QED  BY <2>2, <2>3
<1>2. ASSUME NEW n \in Nat, n # 0 PROVE Ends(n) = After(Ends(n - 1), Handoffs(E))
  <2>1. n - 1 \in Nat /\ n \in 1..n /\ n - 1 \in 0..(n - 1) /\ n \in 0..n
    BY <1>2
  <2>2. ASSUME NEW a \in Ends(n) PROVE a \in After(Ends(n - 1), Handoffs(E))
    <3>1. PICK p \in Path(n) : a = p[n]
      OBVIOUS
    <3>2. PICK e \in Handoffs(E) : e.from = p[n - 1] /\ e.to = p[n]
      BY <2>1, <3>1 DEF Along
    <3>. DEFINE q == [k \in 0..(n - 1) |-> p[k]]
    <3>3. q \in [0..(n - 1) -> Agents] /\ q[0] = to /\ q[n - 1] = p[n - 1]
      BY <2>1, <3>1
    <3>4. Along(q, n - 1, E)
      <4>1. ASSUME NEW k \in 1..(n - 1)
            PROVE  k \in 1..n /\ q[k - 1] = p[k - 1] /\ q[k] = p[k]
        BY <2>1
      <4>2. Along(p, n, E)
        BY <3>1
      <4>. HIDE DEF q
      <4>. QED  BY <4>1, <4>2 DEF Along
    <3>5. p[n - 1] \in Ends(n - 1)
      <4>1. q \in Path(n - 1)
        BY <3>3, <3>4
      <4>. HIDE DEF Path, q
      <4>. QED  BY <3>3, <4>1
    <3>. HIDE DEF Ends
    <3>. QED  BY <3>1, <3>2, <3>5 DEF After
  <2>3. ASSUME NEW a \in After(Ends(n - 1), Handoffs(E)) PROVE a \in Ends(n)
    <3>1. PICK e \in Handoffs(E) : e.from \in Ends(n - 1) /\ e.to = a
      BY DEF After
    <3>2. PICK p \in Path(n - 1) : e.from = p[n - 1]
      BY <3>1
    <3>3. a \in Agents
      BY <3>1 DEF Handoffs, Edges, Lines
    <3>. DEFINE q == [k \in 0..n |-> IF k = n THEN a ELSE p[k]]
    <3>4. q \in [0..n -> Agents] /\ q[0] = to /\ q[n] = a
      BY <1>2, <2>1, <3>2, <3>3
    <3>5. ASSUME NEW k \in 1..n
          PROVE  \E f \in Handoffs(E) : f.from = q[k - 1] /\ f.to = q[k]
      <4>1. CASE k = n
        <5>1. q[n - 1] = p[n - 1] /\ q[n] = a
          BY <2>1
        <5>. HIDE DEF q
        <5>. QED  BY <3>1, <3>2, <4>1, <5>1
      <4>2. CASE k # n
        <5>1. k \in 1..(n - 1) /\ q[k - 1] = p[k - 1] /\ q[k] = p[k]
          BY <2>1, <4>2
        <5>2. Along(p, n - 1, E)
          BY <3>2
        <5>. HIDE DEF q
        <5>. QED  BY <5>1, <5>2 DEF Along
      <4>. QED  BY <4>1, <4>2
    <3>6. q \in Path(n)
      BY <3>4, <3>5 DEF Along
    <3>. HIDE DEF q, Path
    <3>. QED  BY <3>4, <3>6
  <2>. QED  BY <2>2, <2>3
<1>3. Rounds(cur, E, to)
  <2>. HIDE DEF Ends
  <2>1. \A n \in Nat : cur[n] = IF n = 0 THEN {to} ELSE After(cur[n - 1], Handoffs(E))
    BY <1>1, <1>2
  <2>. QED  BY <2>1 DEF Rounds
<1>. QED  BY <1>3

\* The walk has rounds, and answers yes just when one of them meets the start.
LEMMA WalkUnfolds ==
  ASSUME NEW E \in SUBSET Edges, NEW from, NEW to \in Agents
  PROVE  \E cur : /\ Rounds(cur, E, to)
                  /\ Walk(E, from, to) <=> \E n \in 1..Cardinality(Agents) : from \in cur[n]
<1>. DEFINE w == CHOOSE cur :
       cur = [n \in Nat |-> IF n = 0 THEN {to} ELSE After(cur[n - 1], Handoffs(E))]
<1>1. Rounds(w, E, to)
  BY RoundsExist DEF Rounds
<1>2. Walk(E, from, to) <=> \E n \in 1..Cardinality(Agents) : from \in w[n]
  BY DEF Walk
<1>. HIDE DEF w
<1>. QED  BY <1>1, <1>2

\* The walk stays where handoffs lead.
LEMMA RoundsInside ==
  ASSUME NEW E, NEW to, NEW cur, Rounds(cur, E, to), NEW S, to \in S, Closed(S, E)
  PROVE  \A n \in Nat : cur[n] \subseteq S
<1>. DEFINE T == {n \in Nat : ~(cur[n] \subseteq S)}
<1>. SUFFICES ASSUME T # {} PROVE FALSE
  OBVIOUS
<1>1. PICK n \in T : \A m \in T : n <= m
  <2>1. T \subseteq Nat
    OBVIOUS
  <2>. HIDE DEF T
  <2>. QED  BY <2>1, LeastRound
<1>2. n # 0
  BY DEF Rounds
<1>3. n - 1 \in Nat /\ n - 1 \notin T
  BY <1>1, <1>2
<1>4. cur[n] = After(cur[n - 1], Handoffs(E)) /\ cur[n - 1] \subseteq S
  BY <1>2, <1>3 DEF Rounds
<1>. QED  BY <1>1, <1>4 DEF After, Closed

\* What the walk reaches, it reaches in fewer rounds than there are agents: in a
\* shortest walk, each round stands where no earlier one did.
LEMMA RoundsSuffice ==
  ASSUME NEW E \in SUBSET Edges, NEW to \in Agents, NEW cur, Rounds(cur, E, to),
         NEW a, NEW l \in Nat, a \in cur[l]
  PROVE  \E n \in Nat : n < Cardinality(Agents) /\ a \in cur[n]
<1>. DEFINE First(b, n) == b \in cur[n] /\ \A m \in Nat : m < n => b \notin cur[m]
<1>1. PICK n \in Nat : First(a, n)
  <2>. DEFINE T == {k \in Nat : a \in cur[k]}
  <2>1. T \subseteq Nat /\ T # {}
    OBVIOUS
  <2>2. PICK n \in T : \A m \in T : n <= m
    <3>. HIDE DEF T
    <3>. QED  BY <2>1, LeastRound
  <2>. QED  BY <2>2
<1>2. ASSUME NEW k \in Nat, k # 0, NEW b, First(b, k)
      PROVE  \E c : First(c, k - 1)
  <2>1. k - 1 \in Nat /\ cur[k] = After(cur[k - 1], Handoffs(E))
    BY <1>2 DEF Rounds
  <2>2. PICK e \in Handoffs(E) : e.from \in cur[k - 1] /\ e.to = b
    BY <1>2, <2>1 DEF After
  <2>3. ASSUME NEW m \in Nat, m < k - 1, e.from \in cur[m] PROVE FALSE
    <3>1. m + 1 \in Nat /\ m + 1 < k /\ cur[m + 1] = After(cur[m], Handoffs(E))
      BY <2>1, <2>3 DEF Rounds
    <3>2. b \in cur[m + 1]
      BY <2>2, <2>3, <3>1 DEF After
    <3>. QED  BY <1>2, <3>1, <3>2
  <2>. QED  BY <2>2, <2>3
<1>3. \A k \in 0..n : \E c : First(c, n - k)
  <2>. DEFINE T == {k \in 0..n : ~\E c : First(c, n - k)}
  <2>. SUFFICES ASSUME T # {} PROVE FALSE
    OBVIOUS
  <2>. HIDE DEF First
  <2>1. PICK k \in T : \A m \in T : k <= m
    <3>1. T \subseteq Nat
      OBVIOUS
    <3>. HIDE DEF T
    <3>. QED  BY <3>1, LeastRound
  <2>2. k # 0 /\ n - 0 = n
    BY <1>1
  <2>3. k - 1 \in 0..n /\ k - 1 \notin T /\ n - (k - 1) \in Nat /\ n - (k - 1) # 0
        /\ (n - (k - 1)) - 1 = n - k
    BY <2>1, <2>2
  <2>4. \E c : First(c, n - k)
    BY <1>2, <2>3
  <2>. QED  BY <2>1, <2>4
<1>4. \A k \in 0..n : \E c : First(c, k)
  <2>. HIDE DEF First
  <2>1. ASSUME NEW k \in 0..n PROVE \E c : First(c, k)
    <3>1. n - k \in 0..n /\ n - (n - k) = k
      OBVIOUS
    <3>. QED  BY <1>3, <3>1
  <2>. QED  BY <2>1
<1>5. \A k \in Nat : cur[k] \subseteq Agents
  <2>1. Closed(Agents, E)
    BY DEF Closed, Handoffs, Edges, Lines
  <2>. QED  BY <2>1, RoundsInside
<1>. DEFINE f == [k \in 0..n |-> CHOOSE c : First(c, k)]
<1>6. \A k \in 0..n : First(f[k], k)
  <2>. HIDE DEF First
  <2>. QED  BY <1>4
<1>7. f \in Injection(0..n, Agents)
  <2>1. f \in [0..n -> Agents]
    <3>1. \A k \in 0..n : f[k] \in Agents
      BY <1>5, <1>6
    <3>. QED  BY <3>1
  <2>2. ASSUME NEW j \in 0..n, NEW k \in 0..n, f[j] = f[k] PROVE j = k
    <3>. HIDE DEF f
    <3>. QED  BY <1>6, <2>2
  <2>. HIDE DEF f
  <2>. QED  BY <2>1, <2>2 DEF Injection, IsInjective
<1>8. n < Cardinality(Agents)
  <2>1. Cardinality(0..n) <= Cardinality(Agents)
    BY <1>7, FS_Injection, GraphAssumption
  <2>2. Cardinality(0..n) = n + 1
    BY FS_Interval
  <2>3. Cardinality(Agents) \in Nat
    BY FS_CardinalityType, GraphAssumption
  <2>. QED  BY <2>1, <2>2, <2>3
<1>. QED  BY <1>1, <1>8

\* The loop of the cycle check finds exactly what the check is for, in every set of
\* edges.
LEMMA WalkFinds ==
  ASSUME NEW E \in SUBSET Edges, NEW from \in Agents, NEW to \in Agents, from # to
  PROVE  Walk(E, from, to) <=> CreatesHandoffCycle(E, from, to)
<1>1. PICK cur : /\ Rounds(cur, E, to)
                 /\ Walk(E, from, to) <=> \E n \in 1..Cardinality(Agents) : from \in cur[n]
  BY WalkUnfolds
<1>2. Cardinality(Agents) \in Nat
  BY FS_CardinalityType, GraphAssumption
<1>3. ASSUME Walk(E, from, to) PROVE CreatesHandoffCycle(E, from, to)
  <2>1. PICK n \in 1..Cardinality(Agents) : from \in cur[n]
    BY <1>1, <1>3
  <2>2. ASSUME NEW S \in SUBSET Agents, to \in S, Closed(S, E) PROVE from \in S
    BY <1>1, <2>1, <2>2, RoundsInside
  <2>. QED  BY <2>2 DEF CreatesHandoffCycle
<1>4. ASSUME CreatesHandoffCycle(E, from, to) PROVE Walk(E, from, to)
  <2>. DEFINE S == {a \in Agents : \E n \in Nat : a \in cur[n]}
  <2>1. to \in S
    <3>1. to \in cur[0]
      BY <1>1 DEF Rounds
    <3>. QED  BY <3>1
  <2>2. Closed(S, E)
    <3>. SUFFICES ASSUME NEW e \in Handoffs(E), NEW n \in Nat, e.from \in cur[n]
                  PROVE  e.to \in S
      BY DEF Closed
    <3>1. n + 1 \in Nat /\ cur[n + 1] = After(cur[n], Handoffs(E))
      <4>1. n + 1 \in Nat /\ n + 1 # 0 /\ (n + 1) - 1 = n
        OBVIOUS
      <4>. QED  BY <1>1, <4>1 DEF Rounds
    <3>2. e.to \in cur[n + 1] /\ e.to \in Agents
      BY <3>1 DEF After, Handoffs, Edges, Lines
    <3>. QED  BY <3>1, <3>2
  <2>3. from \in S
    BY <1>4, <2>1, <2>2 DEF CreatesHandoffCycle
  <2>4. PICK n \in Nat : n < Cardinality(Agents) /\ from \in cur[n]
    BY <1>1, <2>3, RoundsSuffice
  <2>5. n # 0
    BY <1>1, <2>4 DEF Rounds
  <2>. QED  BY <1>1, <1>2, <2>4, <2>5
<1>. QED  BY <1>3, <1>4

\* The walk of the cycle check finds exactly the handoffs that would close a cycle,
\* in every drawing and for any number of agents.
THEOREM WalkFindsCycles == Spec => []WalkIsReach
<1>1. TypeOK => WalkIsReach
  BY WalkFinds DEF TypeOK, WalkIsReach
<1>. QED  BY <1>1, TypeCorrect, PTL
=============================================================================
