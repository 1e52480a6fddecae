-------------------------- MODULE TaskRunnerProofs --------------------------
(***************************************************************************)
(* Proofs about TaskRunner, for any number of worker slots, API sessions,  *)
(* tasks and edges: types, how far the unlocked gates of dispatch_blockers *)
(* can be exceeded, that a review loop ends, and that a handoff is created *)
(* once and never lost.                                                    *)
(***************************************************************************)
EXTENDS TaskRunner, FiniteSetTheorems, TLAPS

\* The firings propagate can ask for.
Firings == [to : Agents, edge : EdgeIds \cup {None}, loop : LoopStates]

LEMMA RouteType ==
  ASSUME NEW p \in Provs, NEW approved
  PROVE  Route(Edges, p, approved) \subseteq Firings
<1>. USE RunnerAssumption DEF RunnerAssumption
<1>1. OnReviewerDone(Edges, p, approved) \subseteq Firings
  BY DEF OnReviewerDone, Outgoing, Firing, Firings, NoLoop, LoopStates, EdgeIds, Provs
<1>2. OnProducerDone(Edges, p) \subseteq Firings
  BY DEF OnProducerDone, Outgoing, ReviewOver, Firing, Firings, NoLoop, LoopStates,
         EdgeIds, Provs
<1>. QED  BY <1>1, <1>2 DEF Route

LEMMA PropagateType ==
  ASSUME TypeOK, NEW t \in Tasks, NEW stopped, NEW approved
  PROVE  Propagate(t, stopped, approved) \subseteq Firings
BY RouteType DEF Propagate, TypeOK

LEMMA InitTypeOK == Init => TypeOK
<1>. USE RunnerAssumption DEF RunnerAssumption
<1>. SUFFICES ASSUME Init PROVE TypeOK
  OBVIOUS
<1>1. NoRow \in Rows /\ NoProv \in Provs /\ IdleJob \in Jobs /\ IdleCall \in Calls
  BY DEF NoRow, NoProv, IdleJob, IdleCall, Rows, Provs, Jobs, Calls, Expired, Snapshots,
         NoLoop, LoopStates, Statuses
<1>2. /\ task \in [Tasks -> Rows] /\ prov \in [Tasks -> Provs]
      /\ job \in [Workers -> Jobs] /\ call \in [Clients -> Calls]
  BY <1>1 DEF Init
<1>3. /\ \A w \in Workers : job[w].pc = "idle"
      /\ \A c \in Clients : call[c].pc = "idle"
  BY DEF Init, IdleJob, IdleCall
<1>4. bill \in [Tasks -> Bills]
  <2>1. [charges |-> 0, refunds |-> 0] \in Bills
    BY DEF Bills
  <2>. QED  BY <2>1 DEF Init
<1>5. /\ msgs \in [Tasks -> 0..MaxMsgs]
      /\ faults \in 0..MaxFaults
      /\ pauses \in 0..MaxPauses
  BY DEF Init
<1>6. paused \in BOOLEAN
  BY DEF Init
<1>. QED  BY <1>2, <1>3, <1>4, <1>5, <1>6 DEF TypeOK

\* The part of TypeOK about the slots.
JobOK ==
  /\ job \in [Workers -> Jobs]
  /\ \A w \in Workers :
       job[w].pc \notin {"idle", "reaping", "recovering"} => job[w].cur \in Tasks

\* Helpers of the actions keep the types.
LEMMA SnapshotTypes ==
  ASSUME TypeOK
  PROVE  /\ Expired \in Snapshots
         /\ \A t \in Tasks : Committed(t) \in Snapshots
         /\ \A w \in Workers : job[w].cur \in Tasks => Seen(w) \in Snapshots
<1>1. \A t \in Tasks : Committed(t) \in Snapshots
  BY DEF TypeOK, Rows, Committed, Snapshots
<1>2. Expired \in Snapshots
  BY DEF Expired, Snapshots
<1>. QED  BY <1>1, <1>2 DEF Seen, TypeOK, Jobs

LEMMA GotoType ==
  ASSUME TypeOK, NEW w \in Workers, NEW pc, NEW seen \in Snapshots, Goto(w, pc, seen),
         pc \in {"started", "metering", "routing", "starting", "boundary",
                 "running", "collected", "gated", "recovering"},
         pc = "recovering" \/ job[w].cur \in Tasks
  PROVE  JobOK'
BY DEF Goto, TypeOK, Jobs, JobOK

LEMMA FinishType == ASSUME TypeOK, NEW w \in Workers, Finish(w) PROVE JobOK'
BY SnapshotTypes DEF Finish, IdleJob, TypeOK, Jobs, JobOK

LEMMA PutRowType ==
  ASSUME TypeOK, NEW t \in Tasks, NEW row \in Rows, PutRow(t, row)
  PROVE  task' \in [Tasks -> Rows]
BY DEF TypeOK, PutRow, Touched, Rows

Notices == {"none", "done", "failed"} \cup Waiting

\* The row updates of the handlers.
LEMMA RowTypes ==
  ASSUME NEW r \in Rows
  PROVE  /\ \A s \in Statuses : [r EXCEPT !.status = s] \in Rows
         /\ \A s \in Statuses, n \in Notices : [r EXCEPT !.status = s, !.notice = n] \in Rows
         /\ \A n \in Notices : [r EXCEPT !.notice = n] \in Rows
         /\ \A s \in Statuses, b \in BOOLEAN : [r EXCEPT !.status = s, !.spent = b] \in Rows
         /\ \A s \in Statuses, n \in Notices, b \in BOOLEAN :
              [r EXCEPT !.status = s, !.notice = n, !.spent = b] \in Rows
         /\ \A b \in BOOLEAN : /\ [r EXCEPT !.spent = b] \in Rows
                               /\ [r EXCEPT !.stale = b] \in Rows
         /\ \A s \in Statuses, b \in BOOLEAN : [r EXCEPT !.status = s, !.stopped = b] \in Rows
         /\ \A s \in Statuses, n \in Nat : [r EXCEPT !.status = s, !.attempt = n] \in Rows
         /\ Touched(r) \in Rows
BY DEF Rows, Notices, Touched

LEMMA OutcomeType ==
  ASSUME TypeOK, NEW t \in Tasks, NEW s \in Statuses \cap Notices, NEW spent \in BOOLEAN
  PROVE  Outcome(t, s, spent) \in Rows
<1>1. task[t] \in Rows
  BY DEF TypeOK
<1>2. (task[t].spent \/ spent) \in BOOLEAN
  BY Zenon
<1>. QED  BY <1>1, <1>2, RowTypes DEF Outcome

LEMMA AnnouncedType ==
  ASSUME TypeOK, NEW t \in Tasks, NEW s
  PROVE  Announced(t, s) \in Rows
<1>1. task[t] \in Rows
  BY DEF TypeOK
<1>. QED  BY <1>1, RowTypes DEF Announced, Terminal, Waiting, Notices

LEMMA EnqueueType ==
  ASSUME TypeOK, NEW S, Enqueue(S)
  PROVE  msgs' \in [Tasks -> 0..MaxMsgs]
BY RunnerAssumption DEF TypeOK, Enqueue, RunnerAssumption

LEMMA DispatchingTypeOK ==
  ASSUME TypeOK, NEW w \in Workers, Dispatching(w)
  PROVE  TypeOK'
<1>. USE DEF TypeOK
<1>1. ASSUME NEW t \in Tasks, Deliver(w, t) PROVE TypeOK'
  <2>1. JobOK'
    BY <1>1, SnapshotTypes DEF Deliver, IdleJob, Jobs, JobOK
  <2>2. msgs' \in [Tasks -> 0..MaxMsgs]
    BY <1>1, RunnerAssumption DEF Deliver, RunnerAssumption
  <2>. QED  BY <1>1, <2>1, <2>2 DEF Deliver, JobOK
<1>2. CASE PassGates(w)
  <2>1. JobOK'
    BY <1>2, SnapshotTypes, GotoType DEF PassGates
  <2>. QED  BY <1>2, <2>1 DEF PassGates, JobOK
<1>3. CASE FailGates(w)
  <2>1. JobOK'
    BY <1>3, FinishType DEF FailGates
  <2>. QED  BY <1>3, <2>1 DEF FailGates, JobOK
<1>4. CASE BeginWork(w)
  <2>. DEFINE t == job[w].cur
  <2>1. JobOK' /\ t \in Tasks
    BY <1>4, SnapshotTypes, GotoType DEF BeginWork
  <2>2. task' \in [Tasks -> Rows]
    <3>1. [task[t] EXCEPT !.status = "working"] \in Rows
      BY <2>1, RowTypes DEF Statuses
    <3>. QED  BY <1>4, <2>1, <3>1, PutRowType DEF BeginWork
  <2>. QED  BY <1>4, <2>1, <2>2 DEF BeginWork, JobOK
<1>5. CASE EmitWorking(w)
  <2>1. JobOK'
    BY <1>5, SnapshotTypes, GotoType DEF EmitWorking
  <2>. QED  BY <1>5, <2>1 DEF EmitWorking, JobOK
<1>6. CASE Charge(w)
  <2>1. JobOK'
    BY <1>6, SnapshotTypes, GotoType DEF Charge
  <2>2. bill' \in [Tasks -> Bills]
    BY <1>6 DEF Charge, Charged, Bills
  <2>. QED  BY <1>6, <2>1, <2>2 DEF Charge, JobOK
<1>7. CASE OutOfCredits(w)
  <2>. DEFINE t == job[w].cur
  <2>1. JobOK' /\ t \in Tasks
    BY <1>7, FinishType DEF OutOfCredits
  <2>2. task' \in [Tasks -> Rows]
    <3>1. [task[t] EXCEPT !.status = "blocked", !.notice = "blocked"] \in Rows
      BY <2>1, RowTypes DEF Statuses, Waiting, Notices
    <3>. QED  BY <1>7, <2>1, <3>1, PutRowType DEF OutOfCredits
  <2>. QED  BY <1>7, <2>1, <2>2 DEF OutOfCredits, JobOK
<1>8. CASE RouteEngine(w)
  <2>1. JobOK'
    BY <1>8, SnapshotTypes, GotoType DEF RouteEngine
  <2>. QED  BY <1>8, <2>1 DEF RouteEngine, JobOK
<1>. QED  BY <1>1, <1>2, <1>3, <1>4, <1>5, <1>6, <1>7, <1>8 DEF Dispatching

LEMMA FailWithRefundTypeOK ==
  ASSUME TypeOK, NEW w \in Workers, job[w].cur \in Tasks, FailWithRefund(w)
  PROVE  TypeOK'
<1>. USE DEF TypeOK
<1>1. JobOK'
  BY FinishType DEF FailWithRefund
<1>2. task' \in [Tasks -> Rows]
  BY OutcomeType, PutRowType DEF FailWithRefund, Statuses, Notices
<1>3. bill' \in [Tasks -> Bills]
  BY DEF FailWithRefund, Refunded, Bills
<1>. QED  BY <1>1, <1>2, <1>3 DEF FailWithRefund, JobOK

LEMMA CommitDoneTypeOK ==
  ASSUME TypeOK, NEW w \in Workers, job[w].cur \in Tasks, NEW r \in Rows,
         NEW F \in SUBSET Firings, CommitDone(w, r, F),
         UNCHANGED <<bill, msgs, paused, call, faults, pauses>>
  PROVE  TypeOK'
<1>. DEFINE kids == IF F = {} THEN {} ELSE {NextId}
            child == ChildProv(job[w].cur, CHOOSE f \in F : TRUE)
<1>. USE DEF TypeOK
<1>1. kids \subseteq Tasks
  BY DEF CommitDone
<1>2. NewRow \in Rows
  BY DEF NewRow, NoRow, Rows, Statuses
<1>3. task' \in [Tasks -> Rows]
  BY <1>2 DEF CommitDone
<1>4. F # {} => child \in Provs
  <2>1. SUFFICES ASSUME F # {} PROVE child \in Provs
    OBVIOUS
  <2>2. (CHOOSE f \in F : TRUE) \in Firings
    BY <2>1
  <2>3. prov[job[w].cur].goal \in BOOLEAN
    BY DEF Provs
  <2>. QED  BY <2>2, <2>3 DEF ChildProv, Firings, Provs
<1>5. prov' \in [Tasks -> Provs]
  BY <1>4 DEF CommitDone
<1>6. JobOK'
  <2>1. CASE F = {}
    BY <2>1, SnapshotTypes DEF CommitDone, IdleJob, Jobs, JobOK
  <2>2. CASE F # {}
    <3>. DEFINE j == [job[w] EXCEPT !.pc = "enqueue", !.batch = kids]
    <3>1. j \in Jobs /\ j.cur = job[w].cur
      BY <1>1 DEF Jobs
    <3>2. job' = [job EXCEPT ![w] = j]
      BY <2>2 DEF CommitDone
    <3>. QED  BY <3>1, <3>2 DEF JobOK
  <2>. QED  BY <2>1, <2>2
<1>. QED  BY <1>3, <1>5, <1>6 DEF JobOK

LEMMA OutcomesTypeOK ==
  ASSUME TypeOK, NEW w \in Workers,
         CrewRun(w) \/ NeedsInput(w) \/ RaiseIllegal(w) \/ EnqueueChildren(w)
  PROVE  TypeOK'
<1>. USE DEF TypeOK
<1>1. ASSUME NEW approved \in BOOLEAN, CrewDone(w, approved) PROVE TypeOK'
  <2>. DEFINE t == job[w].cur
  <2>1. t \in Tasks
    BY <1>1 DEF CrewDone
  <2>2. Touched(Outcome(t, "done", TRUE)) \in Rows
    BY <2>1, OutcomeType, RowTypes DEF Statuses, Notices
  <2>3. Propagate(t, Seen(w).stopped, approved) \subseteq Firings
    BY <2>1, PropagateType
  <2>. QED  BY <1>1, <2>1, <2>2, <2>3, CommitDoneTypeOK DEF CrewDone
<1>2. ASSUME NEW approved \in BOOLEAN, CrewDoneMemoryFails(w, approved) PROVE TypeOK'
  <2>. DEFINE t == job[w].cur
              r == Announced(t, task[t].status)
  <2>1. t \in Tasks
    BY <1>2 DEF CrewDoneMemoryFails
  <2>2. r \in Rows
    BY <2>1, AnnouncedType
  <2>3. Propagate(t, task[t].stopped, approved) \subseteq Firings
    BY <2>1, PropagateType
  <2>4. CommitDone(w, r, Propagate(t, task[t].stopped, approved))
    BY <1>2 DEF CrewDoneMemoryFails
  <2>. QED  BY <1>2, <2>1, <2>2, <2>3, <2>4, CommitDoneTypeOK DEF CrewDoneMemoryFails
<1>3. CASE CrewFails(w)
  BY <1>3, FailWithRefundTypeOK DEF CrewFails
<1>4. CASE NeedsInput(w)
  <2>1. JobOK'
    BY <1>4, FinishType DEF NeedsInput
  <2>2. task' \in [Tasks -> Rows]
    BY <1>4, OutcomeType, PutRowType DEF NeedsInput, Statuses, Notices, Waiting
  <2>. QED  BY <1>4, <2>1, <2>2 DEF NeedsInput, JobOK
<1>5. CASE RaiseIllegal(w)
  <2>1. JobOK'
    BY <1>5, FinishType DEF RaiseIllegal
  <2>. QED  BY <1>5, <2>1 DEF RaiseIllegal, JobOK
<1>6. CASE EnqueueChildren(w)
  <2>1. JobOK'
    BY <1>6, FinishType DEF EnqueueChildren
  <2>2. msgs' \in [Tasks -> 0..MaxMsgs]
    BY <1>6, EnqueueType DEF EnqueueChildren
  <2>. QED  BY <1>6, <2>1, <2>2 DEF EnqueueChildren, JobOK
<1>. QED  BY <1>1, <1>2, <1>3, <1>4, <1>5, <1>6 DEF CrewRun

LEMMA DevRunTypeOK ==
  ASSUME TypeOK, NEW w \in Workers, DevRun(w)
  PROVE  TypeOK'
<1>. USE DEF TypeOK
<1>. DEFINE t == job[w].cur
<1>1. CASE SandboxUp(w)
  <2>1. JobOK'
    BY <1>1, SnapshotTypes, GotoType DEF SandboxUp
  <2>. QED  BY <1>1, <2>1 DEF SandboxUp, JobOK
<1>2. CASE SandboxFails(w)
  BY <1>2, FailWithRefundTypeOK DEF SandboxFails
<1>3. CASE NextTurn(w)
  <2>1. JobOK'
    BY <1>3, GotoType DEF NextTurn, Jobs
  <2>. QED  BY <1>3, <2>1 DEF NextTurn, JobOK
<1>4. CASE DevStopped(w)
  <2>1. JobOK' /\ t \in Tasks
    BY <1>4, FinishType DEF DevStopped
  <2>2. task' \in [Tasks -> Rows]
    BY <1>4, <2>1, RowTypes, PutRowType DEF DevStopped
  <2>. QED  BY <1>4, <2>1, <2>2 DEF DevStopped, JobOK
<1>5. ASSUME NEW beat \in BOOLEAN, ToolCalls(w, beat) PROVE TypeOK'
  <2>. DEFINE seen == IF beat THEN Expired ELSE Seen(w)
  <2>1. t \in Tasks /\ seen \in Snapshots /\ Goto(w, "boundary", seen)
    BY <1>5, SnapshotTypes DEF ToolCalls
  <2>2. JobOK'
    BY <2>1, GotoType
  <2>3. task' \in [Tasks -> Rows]
    BY <1>5, <2>1, RowTypes DEF ToolCalls
  <2>. QED  BY <1>5, <2>2, <2>3 DEF ToolCalls, JobOK
<1>6. CASE DevFails(w)
  <2>1. JobOK' /\ t \in Tasks
    BY <1>6, FinishType DEF DevFails
  <2>2. task' \in [Tasks -> Rows]
    BY <1>6, <2>1, OutcomeType, PutRowType DEF DevFails, Statuses, Notices
  <2>. QED  BY <1>6, <2>1, <2>2 DEF DevFails, JobOK
<1>7. CASE DevCollect(w)
  <2>. DEFINE seen == [status |-> "done", stopped |-> task[t].stopped]
  <2>1. t \in Tasks
    BY <1>7 DEF DevCollect
  <2>2. seen \in Snapshots
    BY <2>1 DEF Rows, Snapshots, Statuses
  <2>3. JobOK'
    BY <1>7, <2>1, <2>2, GotoType DEF DevCollect
  <2>4. task' \in [Tasks -> Rows]
    BY <1>7, <2>1, RowTypes, PutRowType DEF DevCollect, Statuses
  <2>. QED  BY <1>7, <2>3, <2>4 DEF DevCollect, JobOK
<1>8. ASSUME NEW approved \in BOOLEAN, DevFinalize(w, approved) PROVE TypeOK'
  <2>1. t \in Tasks
    BY <1>8 DEF DevFinalize
  <2>2. PICK seen \in {Seen(w), Committed(t)} :
          CommitDone(w, Announced(t, seen.status), Propagate(t, seen.stopped, approved))
    BY <1>8 DEF DevFinalize
  <2>3. Announced(t, seen.status) \in Rows
    BY <2>1, AnnouncedType
  <2>4. Propagate(t, seen.stopped, approved) \subseteq Firings
    BY <2>1, PropagateType
  <2>. QED  BY <1>8, <2>1, <2>2, <2>3, <2>4, CommitDoneTypeOK DEF DevFinalize
<1>. QED  BY <1>1, <1>2, <1>3, <1>4, <1>5, <1>6, <1>7, <1>8 DEF DevRun

LEMMA ReaperTypeOK ==
  ASSUME TypeOK, NEW w \in Workers, Reaper(w)
  PROVE  TypeOK'
<1>. USE DEF TypeOK
<1>1. CASE ReapSelect(w)
  <2>1. JobOK'
    BY <1>1, SnapshotTypes DEF ReapSelect, IdleJob, WithStatus, Jobs, JobOK
  <2>. QED  BY <1>1, <2>1 DEF ReapSelect, JobOK
<1>2. CASE ReapCommit(w)
  <2>1. JobOK'
    BY <1>2, SnapshotTypes DEF ReapCommit, IdleJob, Jobs, JobOK
  <2>2. task' \in [Tasks -> Rows]
    BY <1>2, RowTypes DEF ReapCommit, Statuses
  <2>3. bill' \in [Tasks -> Bills]
    BY <1>2 DEF ReapCommit, Refunded, Bills
  <2>. QED  BY <1>2, <2>1, <2>2, <2>3 DEF ReapCommit, JobOK
<1>3. CASE RecoverQueued(w)
  <2>1. JobOK'
    BY <1>3, FinishType DEF RecoverQueued
  <2>2. msgs' \in [Tasks -> 0..MaxMsgs]
    BY <1>3, EnqueueType DEF RecoverQueued
  <2>. QED  BY <1>3, <2>1, <2>2 DEF RecoverQueued, JobOK
<1>. QED  BY <1>1, <1>2, <1>3 DEF Reaper

\* The part of TypeOK about the API sessions.
CallOK ==
  /\ call \in [Clients -> Calls]
  /\ \A c \in Clients : call[c].pc # "idle" => call[c].cur \in Tasks

LEMMA CallGotoType ==
  ASSUME TypeOK, NEW c \in Clients, NEW pc \in {"loaded", "flushed", "committed"},
         NEW t \in Tasks, NEW n \in Nat, CallGoto(c, pc, t, n)
  PROVE  CallOK'
BY DEF CallGoto, TypeOK, Calls, CallOK

LEMMA CreateTypeOK ==
  ASSUME TypeOK, NEW c \in Clients, NEW p \in Provs, Create(c, p)
  PROVE  TypeOK'
<1>. USE DEF TypeOK
<1>1. NextId \in Tasks
  <2>1. Cardinality(Created) < MaxRoots
    BY DEF Create
  <2>2. MaxRoots \in 0..MaxTasks /\ MaxTasks \in Nat
    BY RunnerAssumption DEF RunnerAssumption
  <2>3. IsFiniteSet(Tasks)
    BY <2>2, FS_Interval DEF Tasks
  <2>4. Cardinality(Created) \in Nat
    BY <2>3, FS_Subset, FS_CardinalityType DEF Created
  <2>. QED  BY <2>1, <2>2, <2>4 DEF NextId, Tasks
<1>2. CallOK'
  BY <1>1, CallGotoType DEF Create
<1>3. NewRow \in Rows
  BY DEF NewRow, NoRow, Rows, Statuses
<1>4. task' \in [Tasks -> Rows] /\ prov' \in [Tasks -> Provs]
  BY <1>3 DEF Create
<1>. QED  BY <1>2, <1>4 DEF Create, CallOK

LEMMA RootProvType ==
  ASSUME NEW a \in Agents \cup {None}, NEW o \in Agents \cup {None}, NEW g \in BOOLEAN
  PROVE  RootProv(a, o, g) \in Provs
<1>1. NoLoop \in LoopStates
  BY DEF NoLoop, LoopStates
<1>. QED  BY <1>1, Zenon DEF RootProv, Provs

LEMMA ClientTypeOK ==
  ASSUME TypeOK, NEW c \in Clients, Client(c)
  PROVE  TypeOK'
<1>. USE DEF TypeOK
<1>1. ASSUME NEW t \in Tasks, ContinueLoad(c, t) PROVE TypeOK'
  <2>1. task[t].attempt \in Nat
    BY DEF Rows
  <2>2. CallOK'
    BY <1>1, <2>1, CallGotoType DEF ContinueLoad
  <2>. QED  BY <1>1, <2>2 DEF ContinueLoad, CallOK
<1>2. CASE ContinueFlush(c)
  <2>1. call[c].cur \in Tasks /\ call[c].attempt \in Nat
    BY <1>2 DEF ContinueFlush, Calls
  <2>2. CallOK'
    BY <1>2, <2>1, CallGotoType DEF ContinueFlush
  <2>. QED  BY <1>2, <2>2 DEF ContinueFlush, CallOK
<1>3. CASE ContinueCommit(c)
  <2>1. call[c].cur \in Tasks /\ call[c].attempt + 1 \in Nat
    BY <1>3 DEF ContinueCommit, Calls
  <2>2. CallOK'
    BY <1>3, <2>1, CallGotoType DEF ContinueCommit
  <2>3. task' \in [Tasks -> Rows]
    BY <1>3, <2>1, RowTypes, PutRowType DEF ContinueCommit, Statuses
  <2>. QED  BY <1>3, <2>2, <2>3 DEF ContinueCommit, CallOK
<1>4. CASE CallEnqueue(c)
  <2>1. CallOK'
    BY <1>4 DEF CallEnqueue, IdleCall, Calls, CallOK
  <2>2. msgs' \in [Tasks -> 0..MaxMsgs]
    BY <1>4, EnqueueType DEF CallEnqueue
  <2>. QED  BY <1>4, <2>1, <2>2 DEF CallEnqueue, CallOK
<1>5. ASSUME NEW t \in Tasks, Stop(c, t) PROVE TypeOK'
  <2>1. task' \in [Tasks -> Rows]
    BY <1>5, RowTypes, PutRowType DEF Stop, Statuses
  <2>. QED  BY <1>5, <2>1 DEF Stop
<1>6. ASSUME NEW t \in Tasks, Retry(c, t) PROVE TypeOK'
  <2>1. prov[t].agent \in Agents \cup {None} /\ prov[t].goal \in BOOLEAN
    BY DEF Provs
  <2>2. RootProv(prov[t].agent, None, prov[t].goal) \in Provs
    BY <2>1, RootProvType
  <2>. QED  BY <1>6, <2>2, CreateTypeOK DEF Retry
<1>7. ASSUME NEW a \in Agents, NEW o \in Overrides, NEW g \in Goals,
             DispatchTask(c, a, o, g)
      PROVE  TypeOK'
  <2>1. g \in BOOLEAN /\ o \in Agents \cup {None}
    BY RunnerAssumption DEF RunnerAssumption
  <2>2. RootProv(a, o, g) \in Provs
    BY <2>1, RootProvType
  <2>. QED  BY <1>7, <2>2, CreateTypeOK DEF DispatchTask
<1>. QED  BY <1>1, <1>2, <1>3, <1>4, <1>5, <1>6, <1>7 DEF Client, Continue

LEMMA OthersTypeOK ==
  ASSUME TypeOK,
         \/ \E b \in BOOLEAN : SetPaused(b)
         \/ \E t \in Tasks : Age(t)
         \/ Fault
  PROVE  TypeOK'
<1>. USE RunnerAssumption DEF TypeOK, RunnerAssumption
<1>1. ASSUME NEW b \in BOOLEAN, SetPaused(b) PROVE TypeOK'
  BY <1>1 DEF SetPaused
<1>2. ASSUME NEW t \in Tasks, Age(t) PROVE TypeOK'
  <2>1. task' \in [Tasks -> Rows]
    BY <1>2, RowTypes DEF Age
  <2>. QED  BY <1>2, <2>1 DEF Age
<1>3. ASSUME NEW w \in Workers, NEW back \in BOOLEAN, Crash(w, back) PROVE TypeOK'
  <2>1. JobOK'
    BY <1>3, FinishType DEF Crash
  <2>2. msgs' \in [Tasks -> 0..MaxMsgs]
    BY <1>3, EnqueueType DEF Crash
  <2>3. faults' \in 0..MaxFaults
    BY <1>3 DEF Crash
  <2>. QED  BY <1>3, <2>1, <2>2, <2>3 DEF Crash, JobOK
<1>4. ASSUME NEW c \in Clients, CallLost(c) PROVE TypeOK'
  <2>1. CallOK'
    BY <1>4 DEF CallLost, IdleCall, Calls, CallOK
  <2>2. faults' \in 0..MaxFaults
    BY <1>4 DEF CallLost
  <2>. QED  BY <1>4, <2>1, <2>2 DEF CallLost, CallOK
<1>5. CASE BrokerRestart
  BY <1>5 DEF BrokerRestart
<1>. QED  BY <1>1, <1>2, <1>3, <1>4, <1>5 DEF Fault

LEMMA NextTypeOK == TypeOK /\ [Next]_vars => TypeOK'
<1>. SUFFICES ASSUME TypeOK, [Next]_vars PROVE TypeOK'
  OBVIOUS
<1>1. CASE Next
  BY <1>1, DispatchingTypeOK, OutcomesTypeOK, DevRunTypeOK, ReaperTypeOK, ClientTypeOK,
     OthersTypeOK DEF Next, Worker
<1>2. CASE UNCHANGED vars
  BY <1>2 DEF vars, TypeOK
<1>. QED  BY <1>1, <1>2

\* Type correctness, for every number of slots, sessions, tasks and edges: in
\* particular a slot that runs a task always knows one, refund and charge counts
\* never go below zero, and the broker's bound holds.
THEOREM TypeCorrect == Spec => []TypeOK
BY InitTypeOK, NextTypeOK, PTL DEF Spec

-----------------------------------------------------------------------------
(* What holds in every state about the rows, the slots and the sessions.   *)

\* The slots in these places of process_task and the reaper hold no task.
Free == {"idle", "reaping", "recovering"}

\* Rows get consecutive ids, and slots and sessions refer to existing rows.
Known ==
  /\ Created = 1..Cardinality(Created)
  /\ \A w \in Workers : job[w].pc \notin Free => job[w].cur \in Created
  /\ \A w \in Workers : job[w].pc = "reaping" => job[w].batch \subseteq Created
  /\ \A c \in Clients : call[c].pc # "idle" => call[c].cur \in Created

-----------------------------------------------------------------------------
(* What a step can do to the rows, the slots and the sessions.             *)

\* No row is created, and none starts to work.
Same ==
  /\ prov' = prov
  /\ \A t \in Tasks : (task'[t].status = "none") <=> (task[t].status = "none")

\* The row k is created with provenance p.
Adds(k, p) ==
  /\ k = NextId /\ k \in Tasks
  /\ prov' = [prov EXCEPT ![k] = p]
  /\ task'[k].status = "queued"
  /\ \A t \in Tasks \ {k} :
       (task'[t].status = "none") <=> (task[t].status = "none")

\* A task the user asked for, on its own.
IsRoot(p) == p.parent = NoTask /\ p.loop = NoLoop

NoNewWork ==
  \A t \in Tasks : task'[t].status = "working" => task[t].status = "working"

NoNewGate ==
  \A w \in Workers :
    job'[w].pc = "gated" => job[w].pc = "gated" /\ job'[w].cur = job[w].cur

JobStep ==
  \A w \in Workers :
    /\ job'[w].pc \notin Free => job'[w].cur \in Created
    /\ job'[w].pc = "reaping" => job'[w].batch \subseteq Created

CallStep == \A c \in Clients : call'[c].pc # "idle" => call'[c].cur \in Created

-----------------------------------------------------------------------------
LEMMA NextIdFresh ==
  ASSUME TypeOK, Known
  PROVE  /\ IsFiniteSet(Created) /\ Cardinality(Created) \in Nat
         /\ NextId \notin Created
         /\ Cardinality(Created) < MaxRoots => NextId \in Tasks
<1>1. IsFiniteSet(Tasks)
  BY RunnerAssumption, FS_Interval DEF RunnerAssumption, Tasks
<1>2. IsFiniteSet(Created) /\ Cardinality(Created) \in Nat
  BY <1>1, FS_Subset, FS_CardinalityType DEF Created
<1>3. NextId \notin Created
  BY <1>2 DEF Known, NextId
<1>4. Cardinality(Created) < MaxRoots => NextId \in Tasks
  BY <1>2, RunnerAssumption DEF RunnerAssumption, NextId, Tasks
<1>. QED  BY <1>2, <1>3, <1>4

LEMMA GotoStep ==
  ASSUME TypeOK, Known, NEW w \in Workers, NEW pc, NEW seen, Goto(w, pc, seen),
         pc \notin {"idle", "gated", "reaping"}, job[w].pc \notin Free
  PROVE  JobStep /\ NoNewGate
BY DEF Goto, TypeOK, Jobs, Known, JobStep, NoNewGate

LEMMA FinishStep ==
  ASSUME TypeOK, Known, NEW w \in Workers, Finish(w)
  PROVE  JobStep /\ NoNewGate
BY DEF Finish, IdleJob, TypeOK, Jobs, Known, JobStep, NoNewGate, Free

LEMMA PutRowStep ==
  ASSUME TypeOK, NEW t \in Created, NEW row \in Rows, PutRow(t, row), prov' = prov,
         row.status # "none",
         row.status = "working" => task[t].status = "working"
  PROVE  Same /\ NoNewWork
BY DEF PutRow, Touched, TypeOK, Rows, Created, Same, NoNewWork

\* The rows, the slots or the sessions that an action leaves alone.
LEMMA UnchangedStep ==
  ASSUME TypeOK, Known
  PROVE  /\ UNCHANGED <<task, prov>> => Same /\ NoNewWork
         /\ UNCHANGED job => JobStep /\ NoNewGate
         /\ UNCHANGED call => CallStep
BY DEF Same, NoNewWork, JobStep, NoNewGate, CallStep, Known

\* The status that the row updates of the handlers leave.
LEMMA RowStatus ==
  ASSUME NEW r \in Rows
  PROVE  /\ Touched(r).status = r.status
         /\ \A s, n : [r EXCEPT !.status = s, !.notice = n].status = s
         /\ \A s, n : [r EXCEPT !.status = s, !.stopped = n].status = s
         /\ \A s, n : [r EXCEPT !.status = s, !.attempt = n].status = s
         /\ \A s, n : [r EXCEPT !.status = s, !.spent = n].status = s
         /\ \A s, n, b : [r EXCEPT !.status = s, !.notice = n, !.spent = b].status = s
         /\ \A n : [r EXCEPT !.notice = n].status = r.status
         /\ \A n : [r EXCEPT !.spent = n].status = r.status
         /\ \A n : [r EXCEPT !.stale = n].status = r.status
         /\ \A s : [r EXCEPT !.status = s].status = s
BY DEF Rows, Touched

LEMMA DispatchingStep ==
  ASSUME TypeOK, Known, NEW w \in Workers, Dispatching(w)
  PROVE  /\ Same /\ JobStep /\ CallStep
         /\ (NoNewWork /\ NoNewGate) \/ PassGates(w) \/ BeginWork(w)
<1>1. ASSUME NEW t \in Tasks, Deliver(w, t)
      PROVE  Same /\ JobStep /\ CallStep /\ NoNewWork /\ NoNewGate
  <2>1. CASE task[t].status = "queued"
    <3>1. t \in Created
      BY <2>1 DEF Created
    <3>2. job' = [job EXCEPT ![w] = [IdleJob EXCEPT !.pc = "loaded", !.cur = t,
                                                    !.seen = Committed(t)]]
      BY <1>1, <2>1 DEF Deliver
    <3>3. JobStep /\ NoNewGate
      BY <3>1, <3>2 DEF IdleJob, TypeOK, Jobs, Known, JobStep, NoNewGate, Free
    <3>. QED  BY <1>1, <3>3, UnchangedStep DEF Deliver
  <2>2. CASE task[t].status # "queued"
    BY <1>1, <2>2, UnchangedStep DEF Deliver
  <2>. QED  BY <2>1, <2>2
<1>2. CASE PassGates(w)
  <2>1. JobStep
    BY <1>2 DEF PassGates, Goto, TypeOK, Jobs, Known, JobStep, Free
  <2>. QED  BY <1>2, <2>1, UnchangedStep DEF PassGates
<1>3. CASE FailGates(w)
  BY <1>3, FinishStep, UnchangedStep DEF FailGates
<1>4. CASE BeginWork(w)
  <2>1. JobStep
    BY <1>4, GotoStep DEF BeginWork, Free
  <2>2. job[w].cur \in Created
    BY <1>4 DEF BeginWork, Known, Free
  <2>3. Same
    BY <1>4, <2>2 DEF BeginWork, PutRow, Touched, TypeOK, Rows, Created, Same
  <2>. QED  BY <1>4, <2>1, <2>3, UnchangedStep DEF BeginWork
<1>5. CASE EmitWorking(w)
  BY <1>5, GotoStep, UnchangedStep DEF EmitWorking, Free
<1>6. CASE Charge(w)
  <2>1. JobStep /\ NoNewGate
    BY <1>6, GotoStep DEF Charge, Free
  <2>. QED  BY <1>6, <2>1, UnchangedStep DEF Charge
<1>7. CASE OutOfCredits(w)
  <2>. DEFINE t == job[w].cur
              row == [task[t] EXCEPT !.status = "blocked", !.notice = "blocked"]
  <2>1. t \in Created
    BY <1>7 DEF OutOfCredits, Known, Free
  <2>2. row \in Rows /\ row.status = "blocked"
    <3>1. task[t] \in Rows
      BY <2>1 DEF Created, TypeOK
    <3>2. row \in Rows
      BY <3>1, RowTypes DEF Statuses, Waiting, Notices
    <3>3. row.status = "blocked"
      BY <3>1, RowStatus
    <3>. QED  BY <3>2, <3>3
  <2>3. Same /\ NoNewWork
    BY <1>7, <2>1, <2>2, PutRowStep DEF OutOfCredits
  <2>. QED  BY <1>7, <2>3, FinishStep, UnchangedStep DEF OutOfCredits
<1>8. CASE RouteEngine(w)
  <2>. DEFINE pc == IF Engine[prov[job[w].cur].agent] = "crew" THEN "running" ELSE "starting"
  <2>1. pc \notin {"idle", "gated", "reaping"}
    <3>1. pc = "running" \/ pc = "starting"
      OBVIOUS
    <3>. QED  BY <3>1
  <2>2. Goto(w, pc, Seen(w)) /\ job[w].pc \notin Free
    BY <1>8 DEF RouteEngine, Free
  <2>. HIDE DEF pc
  <2>3. JobStep /\ NoNewGate
    BY <2>1, <2>2, GotoStep
  <2>. QED  BY <1>8, <2>3, UnchangedStep DEF RouteEngine
<1>. QED  BY <1>1, <1>2, <1>3, <1>4, <1>5, <1>6, <1>7, <1>8 DEF Dispatching

\* _finalize_done creates at most one row.
LEMMA CommitDoneStep ==
  ASSUME TypeOK, Known, NEW w \in Workers, job[w].pc \notin Free,
         NEW r \in Rows, r.status # "none",
         r.status = "working" => task[job[w].cur].status = "working",
         NEW F, CommitDone(w, r, F)
  PROVE  /\ IF F = {} THEN Same
            ELSE Adds(NextId, ChildProv(job[w].cur, CHOOSE f \in F : TRUE))
         /\ JobStep /\ NoNewWork /\ NoNewGate
<1>. DEFINE t == job[w].cur
            p == ChildProv(t, CHOOSE f \in F : TRUE)
<1>1. t \in Created /\ t \in Tasks
  BY DEF Known, Created
<1>2. CASE F = {}
  <2>1. task' = [k \in Tasks |-> IF k = t THEN r ELSE task[k]]
    BY <1>2 DEF CommitDone
  <2>2. prov' = prov
    BY <1>2 DEF CommitDone, TypeOK
  <2>3. Finish(w)
    BY <1>2 DEF CommitDone, Finish
  <2>4. Same /\ NoNewWork
    BY <1>1, <2>1, <2>2 DEF Same, NoNewWork, Created
  <2>. QED  BY <1>2, <2>3, <2>4, FinishStep
<1>3. CASE F # {}
  <2>1. NextId \in Tasks
    BY <1>3 DEF CommitDone
  <2>2. NextId \notin Created
    BY NextIdFresh
  <2>3. task' = [k \in Tasks |-> IF k = t THEN r
                                 ELSE IF k = NextId THEN NewRow ELSE task[k]]
    BY <1>3 DEF CommitDone
  <2>4. prov' = [prov EXCEPT ![NextId] = p]
    BY <1>3, <2>1 DEF CommitDone, TypeOK
  <2>5. job' = [job EXCEPT ![w] = [@ EXCEPT !.pc = "enqueue", !.batch = {NextId}]]
    BY <1>3 DEF CommitDone
  <2>6. NewRow.status = "queued"
    BY DEF NewRow, NoRow
  <2>7. Adds(NextId, p) /\ NoNewWork
    BY <1>1, <2>1, <2>2, <2>3, <2>4, <2>6 DEF Adds, NoNewWork, Created
  <2>8. JobStep /\ NoNewGate
    BY <1>1, <2>5 DEF TypeOK, Jobs, Known, JobStep, NoNewGate, Free
  <2>. QED  BY <1>3, <2>7, <2>8
<1>. QED  BY <1>2, <1>3

\* What a slot does to the rows: nothing new, or the child that propagate asks for.
Creates(w) ==
  \E stopped, approved :
    LET F == Propagate(job[w].cur, stopped, approved)
    IN  F # {} /\ Adds(NextId, ChildProv(job[w].cur, CHOOSE f \in F : TRUE))

LEMMA AnnouncedStatus ==
  ASSUME TypeOK, NEW t \in Tasks, NEW s
  PROVE  Announced(t, s).status = task[t].status
BY RowStatus DEF TypeOK, Announced

LEMMA OutcomeStep ==
  ASSUME TypeOK, NEW t \in Created, NEW s \in (Statuses \cap Notices) \ {"working"},
         NEW spent \in BOOLEAN, PutRow(t, Outcome(t, s, spent)), prov' = prov
  PROVE  Same /\ NoNewWork
<1>1. t \in Tasks /\ task[t] \in Rows
  BY DEF Created, TypeOK
<1>2. Outcome(t, s, spent) \in Rows
  BY <1>1, OutcomeType
<1>3. Outcome(t, s, spent).status = s
  BY <1>1, RowStatus DEF Outcome
<1>. QED  BY <1>2, <1>3, PutRowStep DEF Statuses

LEMMA FailWithRefundStep ==
  ASSUME TypeOK, Known, NEW w \in Workers, job[w].cur \in Created, FailWithRefund(w)
  PROVE  Same /\ JobStep /\ CallStep /\ NoNewWork /\ NoNewGate
<1>1. Same /\ NoNewWork
  BY OutcomeStep DEF FailWithRefund, Statuses, Notices
<1>. QED  BY <1>1, FinishStep, UnchangedStep DEF FailWithRefund

LEMMA OutcomesStep ==
  ASSUME TypeOK, Known, NEW w \in Workers,
         CrewRun(w) \/ NeedsInput(w) \/ RaiseIllegal(w) \/ EnqueueChildren(w)
  PROVE  /\ Same \/ (job[w].cur \in Created /\ Creates(w))
         /\ JobStep /\ CallStep /\ NoNewWork /\ NoNewGate
<1>. DEFINE t == job[w].cur
<1>0. job[w].pc \notin Free => t \in Created /\ t \in Tasks
  BY DEF Known, Created
<1>1. ASSUME NEW approved \in BOOLEAN, CrewDone(w, approved)
      PROVE  /\ Same \/ (t \in Created /\ Creates(w))
             /\ JobStep /\ CallStep /\ NoNewWork /\ NoNewGate
  <2>. DEFINE r == Touched(Outcome(t, "done", TRUE))
              F == Propagate(t, Seen(w).stopped, approved)
  <2>1. job[w].pc \notin Free /\ t \in Created /\ t \in Tasks
    BY <1>0, <1>1 DEF CrewDone, Free
  <2>2. r \in Rows /\ r.status = "done"
    <3>1. Outcome(t, "done", TRUE) \in Rows
      BY <2>1, OutcomeType DEF Statuses, Notices
    <3>2. Outcome(t, "done", TRUE).status = "done"
      BY <2>1, RowStatus DEF Outcome, TypeOK
    <3>. QED  BY <3>1, <3>2, RowTypes, RowStatus
  <2>3. CommitDone(w, r, F)
    BY <1>1 DEF CrewDone
  <2>4. /\ IF F = {} THEN Same ELSE Adds(NextId, ChildProv(t, CHOOSE f \in F : TRUE))
        /\ JobStep /\ NoNewWork /\ NoNewGate
    BY <2>1, <2>2, <2>3, CommitDoneStep
  <2>5. CallStep
    BY <1>1, UnchangedStep DEF CrewDone
  <2>. QED  BY <2>1, <2>4, <2>5 DEF Creates
<1>2. ASSUME NEW approved \in BOOLEAN, CrewDoneMemoryFails(w, approved)
      PROVE  /\ Same \/ (t \in Created /\ Creates(w))
             /\ JobStep /\ CallStep /\ NoNewWork /\ NoNewGate
  <2>. DEFINE r == Announced(t, task[t].status)
              F == Propagate(t, task[t].stopped, approved)
  <2>1. job[w].pc \notin Free /\ t \in Created /\ t \in Tasks
    BY <1>0, <1>2 DEF CrewDoneMemoryFails, Free
  <2>2. r \in Rows /\ r.status = task[t].status
    BY <2>1, AnnouncedType, AnnouncedStatus
  <2>3. CommitDone(w, r, F)
    BY <1>2 DEF CrewDoneMemoryFails
  <2>4. /\ IF F = {} THEN Same ELSE Adds(NextId, ChildProv(t, CHOOSE f \in F : TRUE))
        /\ JobStep /\ NoNewWork /\ NoNewGate
    <3>1. task[t].status # "none"
      BY <2>1 DEF Created
    <3>. QED  BY <2>1, <2>2, <2>3, <3>1, CommitDoneStep
  <2>5. CallStep
    BY <1>2, UnchangedStep DEF CrewDoneMemoryFails
  <2>. QED  BY <2>1, <2>4, <2>5 DEF Creates
<1>3. CASE CrewFails(w)
  <2>1. t \in Created
    BY <1>0, <1>3 DEF CrewFails, Free
  <2>. QED  BY <1>3, <2>1, FailWithRefundStep DEF CrewFails
<1>4. CASE NeedsInput(w)
  <2>1. t \in Created
    BY <1>0, <1>4 DEF NeedsInput, Free
  <2>2. Same /\ NoNewWork
    BY <1>4, <2>1, OutcomeStep DEF NeedsInput, Statuses, Notices, Waiting
  <2>. QED  BY <1>4, <2>2, FinishStep, UnchangedStep DEF NeedsInput
<1>5. CASE RaiseIllegal(w)
  BY <1>5, FinishStep, UnchangedStep DEF RaiseIllegal
<1>6. CASE EnqueueChildren(w)
  BY <1>6, FinishStep, UnchangedStep DEF EnqueueChildren
<1>. QED  BY <1>1, <1>2, <1>3, <1>4, <1>5, <1>6 DEF CrewRun

LEMMA DevRunStep ==
  ASSUME TypeOK, Known, NEW w \in Workers, DevRun(w)
  PROVE  /\ Same \/ (job[w].cur \in Created /\ Creates(w))
         /\ JobStep /\ CallStep /\ NoNewWork /\ NoNewGate
<1>. DEFINE t == job[w].cur
<1>0. job[w].pc \notin Free => t \in Created /\ t \in Tasks /\ task[t] \in Rows
  BY DEF Known, Created, TypeOK
<1>1. CASE SandboxUp(w)
  <2>1. PICK seen \in {Seen(w), Committed(t)} : Goto(w, "boundary", seen)
    BY <1>1 DEF SandboxUp
  <2>2. JobStep /\ NoNewGate
    BY <1>1, <2>1, GotoStep DEF SandboxUp, Free
  <2>. QED  BY <1>1, <2>2, UnchangedStep DEF SandboxUp
<1>2. CASE SandboxFails(w)
  <2>1. t \in Created
    BY <1>0, <1>2 DEF SandboxFails, Free
  <2>. QED  BY <1>2, <2>1, FailWithRefundStep DEF SandboxFails
<1>3. CASE NextTurn(w)
  BY <1>3, GotoStep, UnchangedStep DEF NextTurn, Free
<1>4. CASE DevStopped(w)
  <2>. DEFINE row == [task[t] EXCEPT !.spent = TRUE]
  <2>1. t \in Created /\ task[t] \in Rows
    BY <1>0, <1>4 DEF DevStopped, Free
  <2>2. row \in Rows /\ row.status = task[t].status /\ row.status # "none"
    <3>1. row \in Rows
      BY <2>1, RowTypes
    <3>2. row.status = task[t].status
      BY <2>1, RowStatus
    <3>. QED  BY <2>1, <3>1, <3>2 DEF Created
  <2>3. Same /\ NoNewWork
    BY <1>4, <2>1, <2>2, PutRowStep DEF DevStopped
  <2>. QED  BY <1>4, <2>3, FinishStep, UnchangedStep DEF DevStopped
<1>5. ASSUME NEW beat \in BOOLEAN, ToolCalls(w, beat)
      PROVE  Same /\ JobStep /\ CallStep /\ NoNewWork /\ NoNewGate
  <2>. DEFINE seen == IF beat THEN Expired ELSE Seen(w)
  <2>1. t \in Created /\ Goto(w, "boundary", seen) /\ job[w].pc \notin Free
    BY <1>0, <1>5 DEF ToolCalls, Free
  <2>. HIDE DEF seen
  <2>2. JobStep /\ NoNewGate
    BY <2>1, GotoStep
  <2>3. Same /\ NoNewWork
    <3>1. CASE beat
      <4>1. PutRow(t, task[t]) /\ prov' = prov
        BY <1>5, <3>1 DEF ToolCalls, PutRow
      <4>2. task[t] \in Rows /\ task[t].status # "none"
        BY <2>1 DEF TypeOK, Created
      <4>. QED  BY <2>1, <4>1, <4>2, PutRowStep
    <3>2. CASE ~beat
      BY <1>5, <3>2, UnchangedStep DEF ToolCalls
    <3>. QED  BY <3>1, <3>2
  <2>. QED  BY <1>5, <2>2, <2>3, UnchangedStep DEF ToolCalls
<1>6. CASE DevFails(w)
  <2>1. t \in Created
    BY <1>0, <1>6 DEF DevFails, Free
  <2>2. Same /\ NoNewWork
    BY <1>6, <2>1, OutcomeStep DEF DevFails, Statuses, Notices
  <2>. QED  BY <1>6, <2>2, FinishStep, UnchangedStep DEF DevFails
<1>7. CASE DevCollect(w)
  <2>. DEFINE row == [task[t] EXCEPT !.status = "done", !.spent = TRUE]
  <2>1. t \in Created /\ task[t] \in Rows
    BY <1>0, <1>7 DEF DevCollect, Free
  <2>2. row \in Rows /\ row.status = "done"
    <3>1. row \in Rows
      BY <2>1, RowTypes DEF Statuses
    <3>2. row.status = "done"
      BY <2>1, RowStatus
    <3>. QED  BY <3>1, <3>2
  <2>3. Same /\ NoNewWork
    BY <1>7, <2>1, <2>2, PutRowStep DEF DevCollect
  <2>4. JobStep /\ NoNewGate
    BY <1>7, GotoStep DEF DevCollect, Free
  <2>. QED  BY <1>7, <2>3, <2>4, UnchangedStep DEF DevCollect
<1>8. ASSUME NEW approved \in BOOLEAN, DevFinalize(w, approved)
      PROVE  /\ Same \/ (t \in Created /\ Creates(w))
             /\ JobStep /\ CallStep /\ NoNewWork /\ NoNewGate
  <2>1. job[w].pc \notin Free /\ t \in Created /\ t \in Tasks /\ task[t].status # "none"
    BY <1>0, <1>8 DEF DevFinalize, Free, Created
  <2>2. PICK seen \in {Seen(w), Committed(t)} :
          CommitDone(w, Announced(t, seen.status), Propagate(t, seen.stopped, approved))
    BY <1>8 DEF DevFinalize
  <2>. DEFINE r == Announced(t, seen.status)
              F == Propagate(t, seen.stopped, approved)
  <2>3. r \in Rows /\ r.status = task[t].status
    BY <2>1, AnnouncedType, AnnouncedStatus
  <2>4. /\ IF F = {} THEN Same ELSE Adds(NextId, ChildProv(t, CHOOSE f \in F : TRUE))
        /\ JobStep /\ NoNewWork /\ NoNewGate
    BY <2>1, <2>2, <2>3, CommitDoneStep
  <2>5. CallStep
    BY <1>8, UnchangedStep DEF DevFinalize
  <2>. QED  BY <2>1, <2>4, <2>5 DEF Creates
<1>. QED  BY <1>1, <1>2, <1>3, <1>4, <1>5, <1>6, <1>7, <1>8 DEF DevRun

LEMMA ReaperStep ==
  ASSUME TypeOK, Known, NEW w \in Workers, Reaper(w)
  PROVE  Same /\ JobStep /\ CallStep /\ NoNewWork /\ NoNewGate
<1>1. CASE ReapSelect(w)
  <2>. DEFINE zombies == {t \in WithStatus("working") : task[t].stale}
  <2>1. zombies \subseteq Created
    BY DEF WithStatus, Created
  <2>2. JobStep /\ NoNewGate
    <3>1. PICK pc \in {"recovering", "reaping"} :
            job' = [job EXCEPT ![w] = [IdleJob EXCEPT !.batch = zombies, !.pc = pc]]
      BY <1>1 DEF ReapSelect
    <3>. QED  BY <2>1, <3>1 DEF IdleJob, TypeOK, Known, JobStep, NoNewGate, Free
  <2>. QED  BY <1>1, <2>2, UnchangedStep DEF ReapSelect
<1>2. CASE ReapCommit(w)
  <2>1. job[w].batch \subseteq Created
    BY <1>2 DEF ReapCommit, Known
  <2>2. Same /\ NoNewWork
    <3>1. \A t \in Tasks : \/ task'[t] = task[t]
                           \/ t \in Created /\ task'[t].status = "failed"
      <4>. SUFFICES ASSUME NEW t \in Tasks, t \in job[w].batch
           PROVE  task'[t].status = "failed"
        BY <1>2, <2>1 DEF ReapCommit
      <4>1. [task[t] EXCEPT !.status = "failed"] \in Rows
        BY RowTypes DEF TypeOK, Statuses
      <4>2. [task[t] EXCEPT !.status = "failed"].status = "failed"
        BY RowStatus DEF TypeOK
      <4>3. task'[t] = Touched([task[t] EXCEPT !.status = "failed"])
        BY <1>2 DEF ReapCommit
      <4>. QED  BY <4>1, <4>2, <4>3, RowStatus
    <3>2. prov' = prov
      BY <1>2 DEF ReapCommit
    <3>. QED  BY <3>1, <3>2 DEF Created, Same, NoNewWork
  <2>3. JobStep /\ NoNewGate
    BY <1>2 DEF ReapCommit, IdleJob, TypeOK, Jobs, Known, JobStep, NoNewGate, Free
  <2>. QED  BY <1>2, <2>2, <2>3, UnchangedStep DEF ReapCommit
<1>3. CASE RecoverQueued(w)
  BY <1>3, FinishStep, UnchangedStep DEF RecoverQueued
<1>. QED  BY <1>1, <1>2, <1>3 DEF Reaper

\* The API sessions create rows of their own.
LEMMA ClientStep ==
  ASSUME TypeOK, Known, NEW c \in Clients, Client(c)
  PROVE  /\ \/ Same /\ CallStep
            \/ \E p : /\ IsRoot(p)
                     /\ Adds(NextId, p)
                     /\ \A d \in Clients :
                          call'[d].pc # "idle" => call'[d].cur \in Created \cup {NextId}
         /\ JobStep /\ NoNewWork /\ NoNewGate
<1>. DEFINE Done ==
              /\ \/ Same /\ CallStep
                 \/ \E p : /\ IsRoot(p)
                          /\ Adds(NextId, p)
                          /\ \A d \in Clients :
                               call'[d].pc # "idle" => call'[d].cur \in Created \cup {NextId}
              /\ JobStep /\ NoNewWork /\ NoNewGate
<1>1. ASSUME NEW t \in Tasks, ContinueLoad(c, t) PROVE Done
  <2>1. t \in Created
    BY <1>1 DEF ContinueLoad, Created, Waiting
  <2>2. CallStep
    BY <1>1, <2>1 DEF ContinueLoad, CallGoto, TypeOK, Known, CallStep
  <2>. QED  BY <1>1, <2>2, UnchangedStep DEF ContinueLoad
<1>2. CASE ContinueFlush(c)
  <2>1. CallStep
    BY <1>2 DEF ContinueFlush, CallGoto, TypeOK, Known, CallStep
  <2>. QED  BY <1>2, <2>1, UnchangedStep DEF ContinueFlush
<1>3. CASE ContinueCommit(c)
  <2>. DEFINE t == call[c].cur
              row == [task[t] EXCEPT !.status = "queued", !.attempt = call[c].attempt + 1]
  <2>1. t \in Created /\ task[t] \in Rows /\ call[c].attempt + 1 \in Nat
    BY <1>3 DEF ContinueCommit, Known, TypeOK, Calls, Created
  <2>2. CallStep
    BY <1>3, <2>1 DEF ContinueCommit, CallGoto, TypeOK, Known, CallStep
  <2>3. row \in Rows
    BY <2>1, RowTypes DEF Statuses
  <2>4. row.status = "queued"
    BY <2>1, RowStatus
  <2>5. Same /\ NoNewWork
    BY <1>3, <2>1, <2>3, <2>4, PutRowStep DEF ContinueCommit
  <2>. QED  BY <1>3, <2>2, <2>5, UnchangedStep DEF ContinueCommit
<1>4. CASE CallEnqueue(c)
  <2>1. CallStep
    BY <1>4 DEF CallEnqueue, IdleCall, TypeOK, Known, CallStep
  <2>. QED  BY <1>4, <2>1, UnchangedStep DEF CallEnqueue
<1>5. ASSUME NEW t \in Tasks, Stop(c, t) PROVE Done
  <2>. DEFINE row == [task[t] EXCEPT !.status = "failed", !.stopped = TRUE]
  <2>1. t \in Created /\ task[t] \in Rows
    BY <1>5 DEF Stop, Active, Statuses, Created, TypeOK
  <2>2. row \in Rows
    BY <2>1, RowTypes DEF Statuses
  <2>3. row.status = "failed"
    BY <2>1, RowStatus
  <2>4. Same /\ NoNewWork
    BY <1>5, <2>1, <2>2, <2>3, PutRowStep DEF Stop
  <2>. QED  BY <1>5, <2>4, UnchangedStep DEF Stop
<1>6. ASSUME NEW p \in Provs, Create(c, p), IsRoot(p) PROVE Done
  <2>1. NextId \in Tasks
    BY <1>6, NextIdFresh DEF Create
  <2>2. Adds(NextId, p) /\ NoNewWork
    BY <1>6, <2>1 DEF Create, Adds, NoNewWork, NewRow, NoRow, TypeOK
  <2>3. \A d \in Clients :
          call'[d].pc # "idle" => call'[d].cur \in Created \cup {NextId}
    BY <1>6 DEF Create, CallGoto, TypeOK, Known
  <2>. QED  BY <1>6, <2>2, <2>3, UnchangedStep DEF Create
<1>7. ASSUME NEW t \in Tasks, Retry(c, t) PROVE Done
  <2>. DEFINE p == RootProv(prov[t].agent, None, prov[t].goal)
  <2>1. p \in Provs
    BY RootProvType DEF TypeOK, Provs
  <2>2. IsRoot(p)
    BY DEF RootProv, IsRoot
  <2>. QED  BY <1>6, <1>7, <2>1, <2>2 DEF Retry
<1>8. ASSUME NEW a \in Agents, NEW o \in Overrides, NEW g \in Goals,
             DispatchTask(c, a, o, g)
      PROVE  Done
  <2>. DEFINE p == RootProv(a, o, g)
  <2>1. g \in BOOLEAN /\ o \in Agents \cup {None}
    BY RunnerAssumption DEF RunnerAssumption
  <2>2. p \in Provs
    BY <2>1, RootProvType
  <2>3. IsRoot(p)
    BY DEF RootProv, IsRoot
  <2>. QED  BY <1>6, <1>8, <2>2, <2>3 DEF DispatchTask
<1>. QED
  <2>1. Done
    BY <1>1, <1>2, <1>3, <1>4, <1>5, <1>7, <1>8 DEF Client, Continue
  <2>. QED  BY <2>1

LEMMA OthersStep ==
  ASSUME TypeOK, Known,
         \/ \E b \in BOOLEAN : SetPaused(b)
         \/ \E t \in Tasks : Age(t)
         \/ Fault
         \/ UNCHANGED vars
  PROVE  Same /\ JobStep /\ CallStep /\ NoNewWork /\ NoNewGate
<1>1. ASSUME NEW b \in BOOLEAN, SetPaused(b)
      PROVE  Same /\ JobStep /\ CallStep /\ NoNewWork /\ NoNewGate
  BY <1>1, UnchangedStep DEF SetPaused
<1>2. ASSUME NEW t \in Tasks, Age(t)
      PROVE  Same /\ JobStep /\ CallStep /\ NoNewWork /\ NoNewGate
  <2>1. \A u \in Tasks : task'[u].status = task[u].status
    BY <1>2, RowStatus DEF Age, TypeOK
  <2>2. Same /\ NoNewWork
    BY <1>2, <2>1 DEF Age, Same, NoNewWork
  <2>. QED  BY <1>2, <2>2, UnchangedStep DEF Age
<1>3. ASSUME NEW w \in Workers, NEW back \in BOOLEAN, Crash(w, back)
      PROVE  Same /\ JobStep /\ CallStep /\ NoNewWork /\ NoNewGate
  BY <1>3, FinishStep, UnchangedStep DEF Crash
<1>4. ASSUME NEW c \in Clients, CallLost(c)
      PROVE  Same /\ JobStep /\ CallStep /\ NoNewWork /\ NoNewGate
  <2>1. CallStep
    BY <1>4 DEF CallLost, IdleCall, TypeOK, Known, CallStep
  <2>. QED  BY <1>4, <2>1, UnchangedStep DEF CallLost
<1>5. CASE BrokerRestart
  BY <1>5, UnchangedStep DEF BrokerRestart
<1>6. CASE UNCHANGED vars
  BY <1>6, UnchangedStep DEF vars
<1>. QED  BY <1>1, <1>2, <1>3, <1>4, <1>5, <1>6 DEF Fault

\* The provenance a step may give to a new row.
Origin(p) ==
  \/ IsRoot(p)
  \/ \E t \in Created : \E stopped, approved :
       LET F == Propagate(t, stopped, approved)
       IN  F # {} /\ p = ChildProv(t, CHOOSE f \in F : TRUE)

CallStepNew ==
  \A c \in Clients : call'[c].pc # "idle" => call'[c].cur \in Created \cup {NextId}

\* Every step in one of two shapes.
LEMMA NextStep ==
  ASSUME TypeOK, Known, [Next]_vars
  PROVE  /\ JobStep /\ CallStepNew
         /\ (Same /\ CallStep) \/ \E p : Adds(NextId, p) /\ Origin(p)
         /\ \/ NoNewWork /\ NoNewGate
            \/ \E w \in Workers : Same /\ (PassGates(w) \/ BeginWork(w))
<1>. DEFINE Shape ==
              /\ JobStep /\ CallStepNew
              /\ (Same /\ CallStep) \/ \E p : Adds(NextId, p) /\ Origin(p)
              /\ \/ NoNewWork /\ NoNewGate
                 \/ \E w \in Workers : Same /\ (PassGates(w) \/ BeginWork(w))
<1>0. CallStep => CallStepNew
  BY DEF CallStep, CallStepNew
<1>1. ASSUME NEW w \in Workers, Dispatching(w) PROVE Shape
  BY <1>0, <1>1, DispatchingStep
<1>2. ASSUME NEW w \in Workers,
             CrewRun(w) \/ NeedsInput(w) \/ RaiseIllegal(w) \/ EnqueueChildren(w) \/ DevRun(w)
      PROVE  Shape
  <2>1. /\ Same \/ (job[w].cur \in Created /\ Creates(w))
        /\ JobStep /\ CallStep /\ NoNewWork /\ NoNewGate
    BY <1>2, OutcomesStep, DevRunStep
  <2>2. CASE Same
    BY <1>0, <2>1, <2>2
  <2>3. CASE job[w].cur \in Created /\ Creates(w)
    <3>1. \E p : Adds(NextId, p) /\ Origin(p)
      BY <2>3 DEF Creates, Origin
    <3>. QED  BY <1>0, <2>1, <3>1
  <2>. QED  BY <2>1, <2>2, <2>3
<1>3. ASSUME NEW w \in Workers, Reaper(w) PROVE Shape
  BY <1>0, <1>3, ReaperStep
<1>4. ASSUME NEW c \in Clients, Client(c) PROVE Shape
  <2>1. CASE Same /\ CallStep
    BY <1>0, <1>4, <2>1, ClientStep
  <2>2. CASE \E p : IsRoot(p) /\ Adds(NextId, p) /\ CallStepNew
    BY <1>4, <2>2, ClientStep DEF Origin
  <2>. QED  BY <1>4, <2>1, <2>2, ClientStep DEF CallStepNew
<1>5. ASSUME \/ \E b \in BOOLEAN : SetPaused(b)
             \/ \E t \in Tasks : Age(t)
             \/ Fault
             \/ UNCHANGED vars
      PROVE  Shape
  BY <1>0, <1>5, OthersStep
<1>. QED
  <2>1. Shape
    BY <1>1, <1>2, <1>3, <1>4, <1>5 DEF Next, Worker
  <2>. QED  BY <2>1

\* What Same and Adds do to the set of rows.
LEMMA CreatedStep ==
  ASSUME TypeOK, Known
  PROVE  /\ Same => Created' = Created
         /\ \A p : Adds(NextId, p) =>
              /\ Created' = Created \cup {NextId}
              /\ \A t \in Created : prov'[t] = prov[t]
              /\ prov'[NextId] = p
BY NextIdFresh DEF Same, Adds, Created, TypeOK

LEMMA KnownStep ==
  ASSUME TypeOK, Known, [Next]_vars
  PROVE  Known'
<1>1. JobStep /\ CallStepNew
  BY NextStep
<1>2. CASE Same /\ CallStep
  <2>1. Created' = Created
    BY <1>2, CreatedStep
  <2>. QED  BY <1>1, <1>2, <2>1 DEF Known, JobStep, CallStep
<1>3. CASE \E p : Adds(NextId, p)
  <2>1. Created' = Created \cup {NextId}
    BY <1>3, CreatedStep
  <2>2. Cardinality(Created') = Cardinality(Created) + 1
    BY <2>1, NextIdFresh, FS_AddElement
  <2>3. (Created = 1..Cardinality(Created))'
    BY <2>1, <2>2, NextIdFresh DEF Known, NextId
  <2>. QED  BY <1>1, <2>1, <2>3 DEF Known, JobStep, CallStepNew
<1>. QED  BY <1>2, <1>3, NextStep

LEMMA InitKnown == Init => Known
<1>. SUFFICES ASSUME Init PROVE Known
  OBVIOUS
<1>1. Created = {}
  BY DEF Init, Created, NoRow
<1>2. Cardinality(Created) = 0
  BY <1>1, FS_EmptySet
<1>3. Created = 1..Cardinality(Created)
  BY <1>1, <1>2
<1>. QED  BY <1>3 DEF Known, Init, IdleJob, IdleCall, Free

-----------------------------------------------------------------------------
\* The drawn edge of a completion is fired at most once, whatever message is
\* delivered twice, run twice or reaped in between.
LEMMA FiredOnceStep ==
  ASSUME TypeOK, Known, FiredOnce, [Next]_vars
  PROVE  FiredOnce'
<1>1. CASE Same
  <2>1. Created' = Created /\ prov' = prov
    BY <1>1, CreatedStep DEF Same
  <2>. QED  BY <2>1 DEF FiredOnce
<1>2. ASSUME NEW p, Adds(NextId, p), Origin(p) PROVE FiredOnce'
  <2>1. /\ Created' = Created \cup {NextId} /\ NextId \notin Created
        /\ \A t \in Created : prov'[t] = prov[t]
        /\ prov'[NextId] = p
    BY <1>2, CreatedStep, NextIdFresh
  <2>2. p.parent # NoTask /\ p.edge # None =>
          \A u \in Created : <<prov[u].parent, prov[u].edge>> # <<p.parent, p.edge>>
    <3>. SUFFICES ASSUME p.parent # NoTask, p.edge # None
         PROVE  \A u \in Created : <<prov[u].parent, prov[u].edge>> # <<p.parent, p.edge>>
      OBVIOUS
    <3>0. PICK t \in Created :
            \E stopped, approved :
               LET F == Propagate(t, stopped, approved)
               IN  F # {} /\ p = ChildProv(t, CHOOSE f \in F : TRUE)
      BY <1>2 DEF Origin, IsRoot
    <3>1. PICK stopped, approved :
            LET F == Propagate(t, stopped, approved)
            IN  F # {} /\ p = ChildProv(t, CHOOSE f \in F : TRUE)
      BY <3>0
    <3>. DEFINE F == Propagate(t, stopped, approved)
                g == CHOOSE f \in F : TRUE
    <3>2. g \in F
      BY <3>1
    <3>3. p.parent = t /\ p.edge = g.edge
      BY <3>1 DEF ChildProv
    <3>4. ~AlreadyFired(t, g.edge)
      BY <3>2, <3>3 DEF Propagate
    <3>. QED  BY <3>3, <3>4 DEF AlreadyFired
  <2>. QED  BY <2>1, <2>2 DEF FiredOnce
<1>. QED  BY <1>1, <1>2, NextStep

\* The completion of a task creates at most one task per edge, whichever slots run it and
\* however often its message is delivered (propagate and its unique index).
THEOREM ChildrenFiredOnce == Spec => []FiredOnce
<1>1. Init => TypeOK /\ Known /\ FiredOnce
  <2>1. Init => Created = {}
    BY DEF Init, Created, NoRow
  <2>. QED  BY <2>1, InitTypeOK, InitKnown DEF FiredOnce
<1>2. TypeOK /\ Known /\ FiredOnce /\ [Next]_vars => (TypeOK /\ Known /\ FiredOnce)'
  BY NextTypeOK, KnownStep, FiredOnceStep
<1>. QED  BY <1>1, <1>2, PTL DEF Spec

-----------------------------------------------------------------------------
(* Review loops.                                                           *)

\* The loop_state of a task names an edge whose rounds it respects, and a revision
\* goes to the producer with a round to spare.
LoopOK(p) ==
  p.loop.kind # "none" =>
    \E e \in Edges :
      /\ e.id = p.loop.edge
      /\ p.loop.round <= e.max
      /\ p.loop.kind = "revision" => p.loop.round < e.max /\ p.agent = e.from

LoopsOK == \A t \in Created : LoopOK(prov[t])

LEMMA EdgeFacts ==
  /\ \A e \in Edges : e.type = "handoff" \/ e.type = "review_loop"
  /\ \A e \in Edges : e.max \in Nat /\ (e.type = "review_loop" => e.max >= 1)
  /\ \A e, f \in Edges : (e.from = f.from \/ e.id = f.id) => e = f
<1>1. \A e \in Edges : e.type \in {"handoff", "review_loop"}
  BY RunnerAssumption DEF RunnerAssumption
<1>2. \A e \in Edges : e.max \in Nat /\ (e.type = "review_loop" => e.max >= 1)
  BY RunnerAssumption, Zenon DEF RunnerAssumption
<1>3. \A e, f \in Edges : (e.from = f.from \/ e.id = f.id) => e = f
  BY RunnerAssumption, Zenon DEF RunnerAssumption
<1>. QED  BY <1>1, <1>2, <1>3

\* Whatever a task with a proper loop_state hands on has a proper one again.
LEMMA RouteLoop ==
  ASSUME NEW p \in Provs, LoopOK(p), NEW approved, NEW f \in Route(Edges, p, approved)
  PROVE  f.loop.kind # "none" =>
           \E e \in Edges :
             /\ e.id = f.loop.edge
             /\ f.loop.round <= e.max
             /\ f.loop.kind = "revision" => f.loop.round < e.max /\ f.to = e.from
<1>1. p.loop.round \in Nat
  BY DEF Provs, LoopStates
<1>2. CASE p.loop.kind = "review"
  <2>1. f \in OnReviewerDone(Edges, p, approved)
    BY <1>2 DEF Route
  <2>2. \/ f.loop = NoLoop
        \/ \E e \in Edges : /\ e.id = p.loop.edge /\ p.loop.round < e.max
                            /\ f = Firing(e.from, e.id, [kind |-> "revision",
                                         round |-> p.loop.round, edge |-> e.id])
    BY <2>1 DEF OnReviewerDone, Firing
  <2>3. ASSUME NEW e \in Edges, e.id = p.loop.edge, p.loop.round < e.max,
               f = Firing(e.from, e.id, [kind |-> "revision",
                                         round |-> p.loop.round, edge |-> e.id])
        PROVE  /\ e.id = f.loop.edge /\ f.loop.round <= e.max
               /\ f.loop.round < e.max /\ f.to = e.from
    <3>1. /\ f.to = e.from /\ f.loop.edge = e.id /\ f.loop.round = p.loop.round
      BY <2>3 DEF Firing
    <3>2. e.max \in Nat
      BY EdgeFacts
    <3>. QED  BY <1>1, <2>3, <3>1, <3>2
  <2>4. CASE f.loop = NoLoop
    BY <2>4 DEF NoLoop
  <2>5. CASE f.loop # NoLoop
    <3>1. PICK e \in Edges :
            /\ e.id = p.loop.edge /\ p.loop.round < e.max
            /\ f = Firing(e.from, e.id, [kind |-> "revision",
                                        round |-> p.loop.round, edge |-> e.id])
      BY <2>2, <2>5
    <3>. QED  BY <2>3, <3>1
  <2>. QED  BY <2>4, <2>5
<1>3. CASE p.loop.kind # "review"
  <2>1. f \in OnProducerDone(Edges, p)
    BY <1>3 DEF Route
  <2>2. \/ f.loop = NoLoop
        \/ \E e \in Edges : /\ e.from = p.agent /\ e.type = "review_loop"
                            /\ f = Firing(e.to, e.id, ReviewOver(e, p.loop))
    <3>1. CASE p.override # None
      BY <2>1, <3>1 DEF OnProducerDone, Firing
    <3>2. CASE p.override = None
      <4>1. PICK e \in Edges : /\ e.from = p.agent
                              /\ f = Firing(e.to, e.id, IF e.type = "handoff" THEN NoLoop
                                                        ELSE ReviewOver(e, p.loop))
        BY <2>1, <3>2 DEF OnProducerDone, Outgoing
      <4>2. CASE e.type = "handoff"
        BY <4>1, <4>2 DEF Firing
      <4>3. CASE e.type = "review_loop"
        BY <4>1, <4>3
      <4>. QED  BY <4>2, <4>3, EdgeFacts
    <3>. QED  BY <3>1, <3>2
  <2>3. ASSUME NEW e \in Edges, e.from = p.agent, e.type = "review_loop",
               f = Firing(e.to, e.id, ReviewOver(e, p.loop))
        PROVE  /\ e.id = f.loop.edge /\ f.loop.round <= e.max
               /\ f.loop.kind = "review"
    <3>1. f.loop.kind = "review" /\ f.loop.edge = e.id
      BY <2>3 DEF Firing, ReviewOver
    <3>2. CASE p.loop.kind = "revision"
      <4>1. f.loop.round = p.loop.round + 1
        BY <2>3, <3>2 DEF Firing, ReviewOver
      <4>2. p.loop.round < e.max
        <5>1. PICK x \in Edges : p.loop.round < x.max /\ p.agent = x.from
          BY <3>2 DEF LoopOK
        <5>2. x = e
          BY <2>3, <5>1, EdgeFacts
        <5>. QED  BY <5>1, <5>2
      <4>3. e.max \in Nat
        BY EdgeFacts
      <4>. QED  BY <1>1, <3>1, <4>1, <4>2, <4>3
    <3>3. CASE p.loop.kind # "revision"
      <4>1. f.loop.round = 1
        BY <2>3, <3>3 DEF Firing, ReviewOver
      <4>2. e.max \in Nat /\ e.max >= 1
        BY <2>3, EdgeFacts
      <4>. QED  BY <3>1, <4>1, <4>2
    <3>. QED  BY <3>2, <3>3
  <2>. QED  BY <2>2, <2>3 DEF NoLoop
<1>. QED  BY <1>2, <1>3

LEMMA LoopsStep ==
  ASSUME TypeOK, Known, LoopsOK, [Next]_vars
  PROVE  LoopsOK'
<1>1. CASE Same
  <2>1. Created' = Created /\ prov' = prov
    BY <1>1, CreatedStep DEF Same
  <2>. QED  BY <2>1 DEF LoopsOK
<1>2. ASSUME NEW p, Adds(NextId, p), Origin(p), LoopOK(p) PROVE LoopsOK'
  <2>1. /\ Created' = Created \cup {NextId}
        /\ \A t \in Created : prov'[t] = prov[t]
        /\ prov'[NextId] = p
    BY <1>2, CreatedStep
  <2>. QED  BY <1>2, <2>1 DEF LoopsOK
<1>3. ASSUME NEW p, Adds(NextId, p), NEW t \in Created, NEW stopped, NEW approved,
             LET F == Propagate(t, stopped, approved)
             IN  F # {} /\ p = ChildProv(t, CHOOSE f \in F : TRUE)
      PROVE  LoopOK(p)
  <2>. DEFINE F == Propagate(t, stopped, approved)
              f == CHOOSE x \in F : TRUE
  <2>1. f \in Route(Edges, prov[t], approved)
    BY <1>3 DEF Propagate
  <2>2. LoopOK(prov[t]) /\ prov[t] \in Provs
    BY DEF LoopsOK, TypeOK, Created
  <2>3. p.loop = f.loop /\ p.agent = f.to
    BY <1>3 DEF ChildProv
  <2>4. f.loop.kind # "none" =>
          \E e \in Edges :
            /\ e.id = f.loop.edge
            /\ f.loop.round <= e.max
            /\ f.loop.kind = "revision" => f.loop.round < e.max /\ f.to = e.from
    BY <2>1, <2>2, RouteLoop
  <2>. HIDE DEF f
  <2>. QED  BY <2>3, <2>4 DEF LoopOK
<1>4. \A p : IsRoot(p) => LoopOK(p)
  BY DEF IsRoot, LoopOK, NoLoop
<1>5. ASSUME NEW p, Adds(NextId, p), Origin(p) PROVE LoopsOK'
  <2>1. LoopOK(p)
    BY <1>3, <1>4, <1>5 DEF Origin
  <2>. QED  BY <1>2, <1>5, <2>1
<1>. QED  BY <1>1, <1>5, NextStep

\* No producer is reviewed or revised more often than its edge allows.
THEOREM BoundedReviews == Spec => []ReviewRounds
<1>1. Init => TypeOK /\ Known /\ LoopsOK
  <2>1. Init => Created = {}
    BY DEF Init, Created, NoRow
  <2>. QED  BY <2>1, InitTypeOK, InitKnown DEF LoopsOK
<1>2. TypeOK /\ Known /\ LoopsOK /\ [Next]_vars => (TypeOK /\ Known /\ LoopsOK)'
  BY NextTypeOK, KnownStep, LoopsStep
<1>3. LoopsOK => ReviewRounds
  BY RunnerAssumption DEF RunnerAssumption, LoopsOK, LoopOK, ReviewRounds
<1>. QED  BY <1>1, <1>2, <1>3, PTL DEF Spec

-----------------------------------------------------------------------------
(* The gates.                                                              *)

LEMMA Finite ==
  /\ \A S \in SUBSET Tasks : IsFiniteSet(S) /\ Cardinality(S) \in Nat
  /\ Cardinality(Workers) \in Nat
  /\ \A S \in SUBSET Workers : /\ IsFiniteSet(S) /\ Cardinality(S) \in Nat
                              /\ Cardinality(S) <= Cardinality(Workers)
<1>1. IsFiniteSet(Tasks) /\ IsFiniteSet(Workers)
  <2>1. MaxTasks \in Nat /\ IsFiniteSet(Workers)
    BY RunnerAssumption DEF RunnerAssumption
  <2>. QED  BY <2>1, FS_Interval DEF Tasks
<1>. QED  BY <1>1, FS_Subset, FS_CardinalityType

\* A gate is passed only below the cap, and by at most one task per slot at a
\* time: a task that begins to work gives up its slot's claim.
LEMMA CapStep ==
  ASSUME TypeOK, TypeOK', Known, CapOvershoot, [Next]_vars
  PROVE  CapOvershoot'
<1>. DEFINE W == WithStatus("working")
            G == Gated
<1>0. /\ IsFiniteSet(W) /\ IsFiniteSet(G) /\ IsFiniteSet(W') /\ IsFiniteSet(G')
      /\ Cardinality(W) \in Nat /\ Cardinality(G) \in Nat
      /\ Cardinality(W') \in Nat /\ Cardinality(G') \in Nat
      /\ Cardinality(Workers) \in Nat /\ ConcurrencyCap \in Nat
      /\ Cardinality(G') <= Cardinality(Workers)
  <2>1. /\ W \in SUBSET Tasks /\ W' \in SUBSET Tasks
        /\ G \in SUBSET Workers /\ G' \in SUBSET Workers
    BY DEF WithStatus, Gated
  <2>. QED  BY <2>1, Finite, RunnerAssumption DEF RunnerAssumption
<1>1. CASE NoNewWork /\ NoNewGate
  <2>1. W' \subseteq W /\ G' \subseteq G
    BY <1>1 DEF NoNewWork, NoNewGate, WithStatus, Gated
  <2>2. Cardinality(W') <= Cardinality(W) /\ Cardinality(G') <= Cardinality(G)
    BY <1>0, <2>1, FS_Subset
  <2>. QED  BY <1>0, <2>2 DEF CapOvershoot
<1>2. ASSUME NEW w \in Workers, PassGates(w) PROVE CapOvershoot'
  <2>1. W' = W
    BY <1>2 DEF PassGates, WithStatus
  <2>2. Cardinality(W) < ConcurrencyCap
    BY <1>0, <1>2 DEF PassGates, Blocked
  <2>. QED  BY <1>0, <2>1, <2>2 DEF CapOvershoot
<1>3. ASSUME NEW w \in Workers, BeginWork(w) PROVE CapOvershoot'
  <2>1. W' \subseteq W \cup {job[w].cur}
    BY <1>3 DEF BeginWork, PutRow, WithStatus, TypeOK
  <2>2. Cardinality(W \cup {job[w].cur}) <= Cardinality(W) + 1
    <3>1. \/ Cardinality(W \cup {job[w].cur}) = Cardinality(W)
          \/ Cardinality(W \cup {job[w].cur}) = Cardinality(W) + 1
      BY <1>0, FS_AddElement
    <3>. QED  BY <1>0, <3>1
  <2>3. Cardinality(W') <= Cardinality(W) + 1
    <3>1. IsFiniteSet(W \cup {job[w].cur})
      BY <1>0, FS_AddElement
    <3>2. Cardinality(W') <= Cardinality(W \cup {job[w].cur})
      BY <2>1, <3>1, FS_Subset
    <3>. QED  BY <1>0, <2>2, <3>1, <3>2, FS_CardinalityType
  <2>4. w \in G /\ G' = G \ {w}
    BY <1>3 DEF BeginWork, Goto, Gated, TypeOK, Jobs
  <2>5. Cardinality(G') = Cardinality(G) - 1
    BY <1>0, <2>4, FS_RemoveElement
  <2>. QED  BY <1>0, <2>3, <2>5 DEF CapOvershoot
<1>. QED  BY <1>1, <1>2, <1>3, NextStep

\* The concurrency cap is exceeded by at most one task per further slot, and
\* with a single slot it is exact.
THEOREM BoundedOvershoot == Spec => []CapOvershoot
<1>1. Init => TypeOK /\ Known /\ CapOvershoot
  <2>. SUFFICES ASSUME Init PROVE CapOvershoot
    BY InitTypeOK, InitKnown
  <2>1. WithStatus("working") = {} /\ Gated = {}
    BY DEF Init, WithStatus, Gated, NoRow, IdleJob
  <2>2. Cardinality(WithStatus("working")) = 0 /\ Cardinality(Gated) = 0
    BY <2>1, FS_EmptySet
  <2>3. Cardinality(Workers) \in Nat /\ Cardinality(Workers) # 0
    BY RunnerAssumption, FS_CardinalityType, FS_EmptySet DEF RunnerAssumption
  <2>. QED  BY <2>2, <2>3, RunnerAssumption DEF CapOvershoot, RunnerAssumption
<1>2. /\ TypeOK /\ Known /\ CapOvershoot /\ [Next]_vars
      => (TypeOK /\ Known /\ CapOvershoot)'
  BY NextTypeOK, KnownStep, CapStep
<1>. QED  BY <1>1, <1>2, PTL DEF Spec

\* A gate is passed only by an agent none of whose other tasks works, so whatever
\* occupies the agent then is held by slots that passed their gates as well.
LEMMA OverlapStep ==
  ASSUME TypeOK, TypeOK', Known, AgentOverlap, [Next]_vars
  PROVE  AgentOverlap'
<1>. DEFINE Curs == {job[w].cur : w \in Gated}
<1>. SUFFICES ASSUME NEW a \in Agents
     PROVE  Cardinality(Occupying(a)') <= Cardinality(Workers)
  BY DEF AgentOverlap
<1>0. /\ IsFiniteSet(Tasks) /\ IsFiniteSet(Gated') /\ Cardinality(Workers) \in Nat
      /\ Cardinality(Gated') \in Nat /\ Cardinality(Gated') <= Cardinality(Workers)
  <2>1. Gated' \in SUBSET Workers
    BY DEF Gated
  <2>. QED  BY <2>1, Finite
<1>1. WithStatus("working") \subseteq Created /\ Curs \subseteq Created /\ Created \subseteq Tasks
  BY DEF WithStatus, Created, Gated, Known, Free
<1>2. Occupying(a) \subseteq Tasks
  BY <1>1 DEF Occupying
<1>3. ASSUME Occupying(a)' \subseteq Occupying(a)
      PROVE  Cardinality(Occupying(a)') <= Cardinality(Workers)
  <2>1. IsFiniteSet(Occupying(a))
    BY <1>0, <1>2, FS_Subset
  <2>2. /\ Cardinality(Occupying(a)') <= Cardinality(Occupying(a))
        /\ Cardinality(Occupying(a)') \in Nat /\ Cardinality(Occupying(a)) \in Nat
    BY <1>3, <2>1, FS_Subset, FS_CardinalityType
  <2>3. Cardinality(Occupying(a)) <= Cardinality(Workers)
    BY DEF AgentOverlap
  <2>. QED  BY <1>0, <2>2, <2>3
<1>4. \A t \in Created : prov'[t] = prov[t]
  BY NextStep, CreatedStep DEF Same
<1>5. CASE NoNewWork /\ NoNewGate
  <2>1. WithStatus("working")' \subseteq WithStatus("working") /\ Curs' \subseteq Curs
    BY <1>5 DEF NoNewWork, NoNewGate, WithStatus, Gated
  <2>2. Occupying(a)' \subseteq Occupying(a)
    BY <1>1, <1>4, <2>1 DEF Occupying
  <2>. QED  BY <1>3, <2>2
<1>6. ASSUME NEW w \in Workers, PassGates(w)
      PROVE  Cardinality(Occupying(a)') <= Cardinality(Workers)
  <2>. DEFINE t == job[w].cur
  <2>1. /\ WithStatus("working")' = WithStatus("working")
        /\ Gated' = Gated \cup {w} /\ \A v \in Workers : job'[v].cur = job[v].cur
        /\ prov' = prov
    BY <1>6 DEF PassGates, WithStatus, Goto, Gated, TypeOK, Jobs
  <2>2. CASE prov[t].agent # a
    <3>1. Occupying(a)' \subseteq Occupying(a)
      BY <2>1, <2>2 DEF Occupying, Gated
    <3>. QED  BY <1>3, <3>1
  <2>3. CASE prov[t].agent = a
    <3>1. Occupying(a)' \subseteq Curs'
      BY <1>6, <2>1, <2>3 DEF PassGates, Blocked, Occupying, Gated
    <3>2. IsFiniteSet(Curs') /\ Cardinality(Curs') <= Cardinality(Gated')
      <4>. DEFINE f == [v \in Gated' |-> job'[v].cur]
      <4>1. f \in Surjection(Gated', Curs')
        BY DEF Surjection
      <4>. QED  BY <1>0, <4>1, FS_Surjection
    <3>3. /\ Cardinality(Occupying(a)') <= Cardinality(Curs')
          /\ Cardinality(Occupying(a)') \in Nat /\ Cardinality(Curs') \in Nat
      BY <3>1, <3>2, FS_Subset, FS_CardinalityType
    <3>. QED  BY <1>0, <3>2, <3>3
  <2>. QED  BY <2>2, <2>3
<1>7. ASSUME NEW w \in Workers, BeginWork(w)
      PROVE  Cardinality(Occupying(a)') <= Cardinality(Workers)
  <2>1. /\ WithStatus("working")' \subseteq WithStatus("working") \cup {job[w].cur}
        /\ prov' = prov
    BY <1>7 DEF BeginWork, PutRow, WithStatus, TypeOK
  <2>2. Gated' \subseteq Gated /\ w \in Gated /\ \A v \in Workers : job'[v].cur = job[v].cur
    BY <1>7 DEF BeginWork, Goto, Gated, TypeOK, Jobs
  <2>3. Occupying(a)' \subseteq Occupying(a)
    BY <2>1, <2>2 DEF Occupying, Gated
  <2>. QED  BY <1>3, <2>3
<1>. QED  BY <1>5, <1>6, <1>7, NextStep

\* No agent ever has more tasks in the working state than there are slots.
THEOREM BoundedOverlap == Spec => []AgentOverlap
<1>1. Init => TypeOK /\ Known /\ AgentOverlap
  <2>. SUFFICES ASSUME Init PROVE AgentOverlap
    BY InitTypeOK, InitKnown
  <2>1. WithStatus("working") = {} /\ Gated = {}
    BY DEF Init, WithStatus, Gated, NoRow, IdleJob
  <2>2. \A a \in Agents : Occupying(a) = {}
    BY <2>1 DEF Occupying
  <2>3. Cardinality(Workers) \in Nat
    BY RunnerAssumption, FS_CardinalityType DEF RunnerAssumption
  <2>. QED  BY <2>2, <2>3, FS_EmptySet DEF AgentOverlap
<1>2. /\ TypeOK /\ Known /\ AgentOverlap /\ [Next]_vars
      => (TypeOK /\ Known /\ AgentOverlap)'
  BY NextTypeOK, KnownStep, OverlapStep
<1>. QED  BY <1>1, <1>2, PTL DEF Spec

-----------------------------------------------------------------------------
(* Handoffs: no completion is lost on the way to the next agent.           *)

\* The task of t's drawn edge exists.
Handed(t) == \A e \in Outgoing(Edges, prov[t].agent) : AlreadyFired(t, e.id)

\* A completion of t is to be handed on over the drawn edge.
Wanted(t) ==
  /\ ~task[t].stopped
  /\ prov[t].override = None /\ prov[t].loop = NoLoop
  /\ GoalSize(t) <= GoalBudget
  /\ pauses = 0
  /\ Engine[prov[t].agent] = "crew" \/ faults = 0

\* A coding run is between its two commits.
Collecting(t) == \E w \in Workers : job[w].pc = "collected" /\ job[w].cur = t

\* Nobody paused the project behind the counter; a slot saw no Stop that was not
\* there; only coding runs have two commits; free rows have no provenance.
Watchful ==
  /\ pauses = 0 => ~paused
  /\ \A w \in Workers :
       job[w].pc \notin Free /\ job[w].seen.stopped => task[job[w].cur].stopped
  /\ \A w \in Workers :
       job[w].pc = "collected" => Engine[prov[job[w].cur].agent] # "crew"
  /\ \A t \in Tasks \ Created : prov[t] = NoProv

Handing ==
  \A t \in WithStatus("done") :
    Wanted(t) => Handed(t) \/ (Engine[prov[t].agent] # "crew" /\ Collecting(t))

\* What a step does to the rows: a Stop is not taken back, nothing ends well.
StopsKept == \A t \in Created : task[t].stopped => task'[t].stopped

NoNewDone == \A t \in Tasks : task'[t].status = "done" => task[t].status = "done"

\* What a slot believes of a Stop comes from the row.
SeenStep ==
  \A w \in Workers : job'[w].pc \notin Free /\ job'[w].seen.stopped =>
    \/ task[job'[w].cur].stopped
    \/ job[w].pc \notin Free /\ job[w].cur = job'[w].cur /\ job[w].seen.stopped

\* No coding run comes or goes between its two commits.
CollectedSame ==
  \A w \in Workers :
    /\ (job'[w].pc = "collected") <=> (job[w].pc = "collected")
    /\ job[w].pc = "collected" => job'[w].cur = job[w].cur

Quiet == StopsKept /\ NoNewDone /\ SeenStep /\ CollectedSame

LEMMA UnchangedQuiet ==
  /\ UNCHANGED task => StopsKept /\ NoNewDone
  /\ UNCHANGED job => SeenStep /\ CollectedSame
BY DEF StopsKept, NoNewDone, SeenStep, CollectedSame

LEMMA SeenStopped ==
  ASSUME TypeOK, NEW w \in Workers
  PROVE  /\ Seen(w).stopped => job[w].seen.stopped \/ task[job[w].cur].stopped
         /\ Committed(job[w].cur).stopped => task[job[w].cur].stopped
         /\ ~Expired.stopped
BY DEF Seen, Committed, Expired

LEMMA GotoQuiet ==
  ASSUME TypeOK, NEW w \in Workers, NEW pc, NEW seen, Goto(w, pc, seen),
         pc # "collected", job[w].pc \notin Free \cup {"collected"},
         seen.stopped => job[w].seen.stopped \/ task[job[w].cur].stopped
  PROVE  SeenStep /\ CollectedSame
BY DEF Goto, TypeOK, Jobs, SeenStep, CollectedSame

LEMMA FinishQuiet ==
  ASSUME TypeOK, NEW w \in Workers, Finish(w)
  PROVE  /\ SeenStep
         /\ job[w].pc # "collected" => CollectedSame
BY DEF Finish, IdleJob, TypeOK, Jobs, SeenStep, CollectedSame, Free

\* The Stop flag that the row updates of the handlers leave.
LEMMA RowStopped ==
  ASSUME NEW r \in Rows
  PROVE  /\ Touched(r).stopped = r.stopped
         /\ \A s, n : [r EXCEPT !.status = s, !.notice = n].stopped = r.stopped
         /\ \A s : [r EXCEPT !.status = s, !.stopped = TRUE].stopped
         /\ \A s, n : [r EXCEPT !.status = s, !.attempt = n].stopped = r.stopped
         /\ \A s, n : [r EXCEPT !.status = s, !.spent = n].stopped = r.stopped
         /\ \A s, n, b : [r EXCEPT !.status = s, !.notice = n, !.spent = b].stopped
                           = r.stopped
         /\ \A n : [r EXCEPT !.notice = n].stopped = r.stopped
         /\ \A n : [r EXCEPT !.spent = n].stopped = r.stopped
         /\ \A n : [r EXCEPT !.stale = n].stopped = r.stopped
         /\ \A s : [r EXCEPT !.status = s].stopped = r.stopped
BY DEF Rows, Touched

LEMMA PutRowKeeps ==
  ASSUME TypeOK, NEW t \in Created, NEW row \in Rows, PutRow(t, row),
         task[t].stopped => row.stopped
  PROVE  /\ StopsKept
         /\ (row.status = "done" => task[t].status = "done") => NoNewDone
<1>1. /\ task'[t] = Touched(row)
      /\ \A u \in Tasks \ {t} : task'[u] = task[u]
  BY DEF PutRow, TypeOK, Created
<1>2. Touched(row).stopped = row.stopped /\ Touched(row).status = row.status
  BY RowStopped, RowStatus
<1>. QED  BY <1>1, <1>2 DEF StopsKept, NoNewDone, Created

LEMMA OutcomeKeeps ==
  ASSUME TypeOK, NEW t \in Created, NEW s \in Statuses \cap Notices,
         NEW spent \in BOOLEAN, PutRow(t, Outcome(t, s, spent))
  PROVE  StopsKept /\ (s # "done" => NoNewDone)
<1>1. t \in Tasks /\ task[t] \in Rows /\ Outcome(t, s, spent) \in Rows
  BY OutcomeType DEF Created, TypeOK
<1>2. Outcome(t, s, spent).stopped = task[t].stopped /\ Outcome(t, s, spent).status = s
  BY <1>1, RowStopped, RowStatus DEF Outcome
<1>. QED  BY <1>1, <1>2, PutRowKeeps

LEMMA FailQuiet ==
  ASSUME TypeOK, NEW w \in Workers, job[w].cur \in Created, job[w].pc # "collected",
         FailWithRefund(w)
  PROVE  Quiet
<1>1. StopsKept /\ NoNewDone
  <2>1. "failed" \in Statuses \cap Notices
    BY DEF Statuses, Notices
  <2>2. PutRow(job[w].cur, Outcome(job[w].cur, "failed", FALSE))
    BY DEF FailWithRefund
  <2>. QED  BY <2>1, <2>2, OutcomeKeeps
<1>. QED  BY <1>1, FinishQuiet DEF FailWithRefund, Quiet

LEMMA DispatchingQuiet ==
  ASSUME TypeOK, Known, NEW w \in Workers, Dispatching(w)
  PROVE  Quiet
<1>. DEFINE t == job[w].cur
<1>0. job[w].pc \notin Free => t \in Created /\ task[t] \in Rows
  BY DEF Known, Created, TypeOK
<1>1. ASSUME NEW u \in Tasks, Deliver(w, u) PROVE Quiet
  <2>1. \/ job' = [job EXCEPT ![w] = [IdleJob EXCEPT !.pc = "loaded", !.cur = u,
                                                    !.seen = Committed(u)]]
        \/ job' = job
    BY <1>1 DEF Deliver
  <2>2. job[w].pc = "idle" /\ task' = task
    BY <1>1 DEF Deliver
  <2>3. SeenStep
    <3>1. \A v \in Workers \ {w} : job'[v] = job[v]
      BY <2>1 DEF TypeOK
    <3>2. \/ job'[w].cur = u /\ job'[w].seen = Committed(u)
          \/ job'[w] = job[w]
      BY <2>1 DEF IdleJob, TypeOK
    <3>3. Committed(u).stopped = task[u].stopped
      BY DEF Committed
    <3>. QED  BY <3>1, <3>2, <3>3 DEF SeenStep
  <2>4. CollectedSame
    BY <2>1, <2>2 DEF CollectedSame, IdleJob, TypeOK, Jobs
  <2>. QED  BY <2>2, <2>3, <2>4, UnchangedQuiet DEF Quiet
<1>2. CASE PassGates(w)
  BY <1>2, GotoQuiet, SeenStopped, UnchangedQuiet DEF PassGates, Quiet, Free
<1>3. CASE FailGates(w)
  BY <1>3, FinishQuiet, UnchangedQuiet DEF FailGates, Quiet
<1>4. CASE BeginWork(w)
  <2>. DEFINE row == [task[t] EXCEPT !.status = "working"]
  <2>1. t \in Created /\ task[t] \in Rows
    BY <1>0, <1>4 DEF BeginWork, Free
  <2>2. row \in Rows /\ row.stopped = task[t].stopped /\ row.status = "working"
    <3>1. row \in Rows
      BY <2>1, RowTypes DEF Statuses
    <3>. QED  BY <2>1, <3>1, RowStopped, RowStatus
  <2>3. StopsKept /\ NoNewDone
    BY <1>4, <2>1, <2>2, PutRowKeeps DEF BeginWork
  <2>. QED  BY <1>4, <2>3, GotoQuiet, SeenStopped DEF BeginWork, Quiet, Free
<1>5. CASE EmitWorking(w)
  BY <1>5, GotoQuiet, SeenStopped, UnchangedQuiet DEF EmitWorking, Quiet, Free
<1>6. CASE Charge(w)
  <2>1. \E seen \in {Expired, Seen(w)} : Goto(w, "routing", seen)
    BY <1>6 DEF Charge
  <2>. QED  BY <1>6, <2>1, GotoQuiet, SeenStopped, UnchangedQuiet DEF Charge, Quiet, Free
<1>7. CASE OutOfCredits(w)
  <2>. DEFINE row == [task[t] EXCEPT !.status = "blocked", !.notice = "blocked"]
  <2>1. t \in Created /\ task[t] \in Rows
    BY <1>0, <1>7 DEF OutOfCredits, Free
  <2>2. row \in Rows /\ row.stopped = task[t].stopped /\ row.status = "blocked"
    <3>1. row \in Rows
      BY <2>1, RowTypes DEF Statuses, Waiting, Notices
    <3>. QED  BY <2>1, <3>1, RowStopped, RowStatus
  <2>3. StopsKept /\ NoNewDone
    BY <1>7, <2>1, <2>2, PutRowKeeps DEF OutOfCredits
  <2>. QED  BY <1>7, <2>3, FinishQuiet DEF OutOfCredits, Quiet
<1>8. CASE RouteEngine(w)
  <2>1. \E pc \in {"running", "starting"} : Goto(w, pc, Seen(w))
    BY <1>8 DEF RouteEngine
  <2>. QED  BY <1>8, <2>1, GotoQuiet, SeenStopped, UnchangedQuiet DEF RouteEngine, Quiet, Free
<1>. QED  BY <1>1, <1>2, <1>3, <1>4, <1>5, <1>6, <1>7, <1>8 DEF Dispatching

\* The commit of _finalize_done, apart from the slot between its two commits.
LEMMA CommitDoneKeeps ==
  ASSUME TypeOK, Known, NEW w \in Workers, job[w].cur \in Created, job[w].pc \notin Free,
         NEW r \in Rows, NEW F, CommitDone(w, r, F),
         task[job[w].cur].stopped => r.stopped
  PROVE  /\ StopsKept /\ SeenStep
         /\ r.status = "done" => \A u \in Tasks \ {job[w].cur} :
              task'[u].status = "done" => task[u].status = "done"
         /\ (r.status = "done" => task[job[w].cur].status = "done") => NoNewDone
         /\ job[w].pc # "collected" => CollectedSame
<1>. DEFINE t == job[w].cur
            kids == IF F = {} THEN {} ELSE {NextId}
<1>1. /\ task'[t] = r
      /\ \A u \in Tasks \ {t} : task'[u] = NewRow \/ task'[u] = task[u]
      /\ \A u \in Created \ {t} : task'[u] = task[u]
  <2>1. task' = [k \in Tasks |-> IF k = t THEN r
                                 ELSE IF k \in kids THEN NewRow ELSE task[k]]
    BY DEF CommitDone
  <2>2. \A u \in Created : u \notin kids
    BY NextIdFresh
  <2>. QED  BY <2>1, <2>2 DEF Created
<1>2. NewRow.status = "queued"
  BY DEF NewRow, NoRow
<1>3. /\ \A v \in Workers \ {w} : job'[v] = job[v]
      /\ job'[w] = IdleJob \/ job'[w] = [job[w] EXCEPT !.pc = "enqueue", !.batch = kids]
  BY DEF CommitDone, TypeOK
<1>4. SeenStep /\ (job[w].pc # "collected" => CollectedSame)
  <2>1. \/ job'[w].pc = "idle"
        \/ /\ job'[w].pc = "enqueue" /\ job'[w].cur = t
           /\ job'[w].seen = job[w].seen
    <3>1. IdleJob.pc = "idle" /\ job[w] \in Jobs
      BY DEF IdleJob, TypeOK
    <3>2. CASE job'[w] = IdleJob
      BY <3>1, <3>2
    <3>3. CASE job'[w] = [job[w] EXCEPT !.pc = "enqueue", !.batch = kids]
      BY <3>1, <3>3 DEF Jobs
    <3>. QED  BY <1>3, <3>2, <3>3
  <2>2. SeenStep
    BY <1>3, <2>1 DEF SeenStep, Free
  <2>. QED  BY <1>3, <2>1, <2>2 DEF CollectedSame
<1>5. StopsKept
  BY <1>1 DEF StopsKept
<1>6. \A u \in Tasks \ {t} : task'[u].status = "done" => task[u].status = "done"
  BY <1>1, <1>2
<1>. QED  BY <1>1, <1>4, <1>5, <1>6 DEF NoNewDone

LEMMA AnnouncedStopped ==
  ASSUME TypeOK, NEW t \in Tasks, NEW s
  PROVE  Announced(t, s).stopped = task[t].stopped
BY RowStopped DEF TypeOK, Announced

LEMMA RunQuiet ==
  ASSUME TypeOK, Known, NEW w \in Workers,
         \/ \E approved \in BOOLEAN : CrewDoneMemoryFails(w, approved)
         \/ CrewFails(w) \/ NeedsInput(w) \/ RaiseIllegal(w) \/ EnqueueChildren(w)
  PROVE  Quiet
<1>. DEFINE t == job[w].cur
<1>0. job[w].pc \notin Free => t \in Created /\ t \in Tasks
  BY DEF Known, Created
<1>1. ASSUME NEW approved \in BOOLEAN, CrewDoneMemoryFails(w, approved) PROVE Quiet
  <2>. DEFINE r == Announced(t, task[t].status)
              F == Propagate(t, task[t].stopped, approved)
  <2>1. job[w].pc \notin Free \cup {"collected"} /\ t \in Created /\ t \in Tasks
    BY <1>0, <1>1 DEF CrewDoneMemoryFails, Free
  <2>2. r \in Rows /\ r.status = task[t].status /\ r.stopped = task[t].stopped
    BY <2>1, AnnouncedType, AnnouncedStatus, AnnouncedStopped
  <2>3. CommitDone(w, r, F)
    BY <1>1 DEF CrewDoneMemoryFails
  <2>. QED  BY <2>1, <2>2, <2>3, CommitDoneKeeps DEF Quiet
<1>2. CASE CrewFails(w)
  BY <1>0, <1>2, FailQuiet DEF CrewFails, Free
<1>3. CASE NeedsInput(w)
  <2>1. t \in Created
    BY <1>0, <1>3 DEF NeedsInput, Free
  <2>2. "needs-input" \in Statuses \cap Notices
    BY DEF Statuses, Notices, Waiting
  <2>3. StopsKept /\ NoNewDone
    BY <1>3, <2>1, <2>2, OutcomeKeeps DEF NeedsInput
  <2>. QED  BY <1>3, <2>3, FinishQuiet DEF NeedsInput, Quiet
<1>4. CASE RaiseIllegal(w)
  BY <1>4, FinishQuiet, UnchangedQuiet DEF RaiseIllegal, Quiet
<1>5. CASE EnqueueChildren(w)
  BY <1>5, FinishQuiet, UnchangedQuiet DEF EnqueueChildren, Quiet
<1>. QED  BY <1>1, <1>2, <1>3, <1>4, <1>5

LEMMA DevRunQuiet ==
  ASSUME TypeOK, Known, NEW w \in Workers,
         \/ SandboxUp(w) \/ SandboxFails(w) \/ NextTurn(w) \/ DevStopped(w)
         \/ \E beat \in BOOLEAN : ToolCalls(w, beat)
         \/ DevFails(w)
  PROVE  Quiet
<1>. DEFINE t == job[w].cur
<1>0. job[w].pc \notin Free => t \in Created /\ t \in Tasks /\ task[t] \in Rows
  BY DEF Known, Created, TypeOK
<1>1. CASE SandboxUp(w)
  <2>1. PICK seen \in {Seen(w), Committed(t)} : Goto(w, "boundary", seen)
    BY <1>1 DEF SandboxUp
  <2>2. seen.stopped => job[w].seen.stopped \/ task[t].stopped
    BY <2>1, SeenStopped
  <2>. QED  BY <1>1, <2>1, <2>2, GotoQuiet, UnchangedQuiet DEF SandboxUp, Quiet, Free
<1>2. CASE SandboxFails(w)
  BY <1>0, <1>2, FailQuiet DEF SandboxFails, Free
<1>3. CASE NextTurn(w)
  BY <1>3, GotoQuiet, UnchangedQuiet DEF NextTurn, Quiet, Free
<1>4. CASE DevStopped(w)
  <2>. DEFINE row == [task[t] EXCEPT !.spent = TRUE]
  <2>1. t \in Created /\ task[t] \in Rows
    BY <1>0, <1>4 DEF DevStopped, Free
  <2>2. row \in Rows /\ row.stopped = task[t].stopped /\ row.status = task[t].status
    <3>1. row \in Rows
      BY <2>1, RowTypes
    <3>. QED  BY <2>1, <3>1, RowStopped, RowStatus
  <2>3. StopsKept /\ NoNewDone
    BY <1>4, <2>1, <2>2, PutRowKeeps DEF DevStopped
  <2>. QED  BY <1>4, <2>3, FinishQuiet DEF DevStopped, Quiet
<1>5. ASSUME NEW beat \in BOOLEAN, ToolCalls(w, beat) PROVE Quiet
  <2>. DEFINE seen == IF beat THEN Expired ELSE Seen(w)
  <2>1. t \in Created /\ Goto(w, "boundary", seen) /\ job[w].pc \notin Free \cup {"collected"}
    BY <1>0, <1>5 DEF ToolCalls, Free
  <2>2. seen.stopped => job[w].seen.stopped \/ task[t].stopped
    BY SeenStopped
  <2>. HIDE DEF seen
  <2>3. SeenStep /\ CollectedSame
    BY <2>1, <2>2, GotoQuiet
  <2>4. StopsKept /\ NoNewDone
    <3>1. CASE beat
      <4>1. PutRow(t, task[t])
        BY <1>5, <3>1 DEF ToolCalls, PutRow
      <4>2. task[t] \in Rows
        BY <2>1 DEF TypeOK, Created
      <4>. QED  BY <2>1, <4>1, <4>2, PutRowKeeps
    <3>2. CASE ~beat
      BY <1>5, <3>2, UnchangedQuiet DEF ToolCalls
    <3>. QED  BY <3>1, <3>2
  <2>. QED  BY <2>3, <2>4 DEF Quiet
<1>6. CASE DevFails(w)
  <2>1. t \in Created
    BY <1>0, <1>6 DEF DevFails, Free
  <2>2. "failed" \in Statuses \cap Notices
    BY DEF Statuses, Notices
  <2>3. StopsKept /\ NoNewDone
    BY <1>6, <2>1, <2>2, OutcomeKeeps DEF DevFails
  <2>. QED  BY <1>6, <2>3, FinishQuiet DEF DevFails, Quiet
<1>. QED  BY <1>1, <1>2, <1>3, <1>4, <1>5, <1>6

LEMMA ReaperQuiet ==
  ASSUME TypeOK, Known, NEW w \in Workers, Reaper(w)
  PROVE  Quiet
<1>1. CASE ReapSelect(w)
  <2>1. /\ job[w].pc = "idle" /\ task' = task
        /\ \A v \in Workers \ {w} : job'[v] = job[v]
    BY <1>1 DEF ReapSelect, TypeOK
  <2>2. job'[w].pc \in Free
    <3>1. PICK pc \in {"recovering", "reaping"}, S \in SUBSET Tasks :
            job' = [job EXCEPT ![w] = [IdleJob EXCEPT !.batch = S, !.pc = pc]]
      BY <1>1 DEF ReapSelect, WithStatus
    <3>. QED  BY <3>1 DEF IdleJob, TypeOK, Free
  <2>3. SeenStep /\ CollectedSame
    BY <2>1, <2>2 DEF SeenStep, CollectedSame, Free
  <2>. QED  BY <2>1, <2>3, UnchangedQuiet DEF Quiet
<1>2. CASE ReapCommit(w)
  <2>1. \A t \in Tasks : \/ task'[t] = task[t]
                         \/ /\ task'[t].status = "failed"
                            /\ task'[t].stopped = task[t].stopped
    <3>. SUFFICES ASSUME NEW t \in Tasks, t \in job[w].batch
         PROVE  task'[t].status = "failed" /\ task'[t].stopped = task[t].stopped
      BY <1>2 DEF ReapCommit
    <3>. DEFINE row == [task[t] EXCEPT !.status = "failed"]
    <3>1. task[t] \in Rows
      BY DEF TypeOK
    <3>2. row \in Rows /\ row.status = "failed" /\ row.stopped = task[t].stopped
      <4>1. row \in Rows
        BY <3>1, RowTypes DEF Statuses
      <4>. QED  BY <3>1, <4>1, RowStatus, RowStopped
    <3>3. task'[t] = Touched(row)
      BY <1>2 DEF ReapCommit
    <3>. HIDE DEF row
    <3>4. Touched(row).status = row.status /\ Touched(row).stopped = row.stopped
      BY <3>2, RowStatus, RowStopped
    <3>. QED  BY <3>2, <3>3, <3>4
  <2>2. StopsKept /\ NoNewDone
    BY <2>1 DEF StopsKept, NoNewDone, Created
  <2>3. job[w].pc = "reaping" /\ job'[w].pc = "recovering"
        /\ \A v \in Workers \ {w} : job'[v] = job[v]
    BY <1>2 DEF ReapCommit, TypeOK, IdleJob
  <2>4. SeenStep /\ CollectedSame
    BY <2>3 DEF SeenStep, CollectedSame, Free
  <2>. QED  BY <2>2, <2>4 DEF Quiet
<1>3. CASE RecoverQueued(w)
  BY <1>3, FinishQuiet, UnchangedQuiet DEF RecoverQueued, Quiet
<1>. QED  BY <1>1, <1>2, <1>3 DEF Reaper

LEMMA ClientQuiet ==
  ASSUME TypeOK, Known, NEW c \in Clients, Client(c)
  PROVE  Quiet
<1>1. ASSUME NEW t \in Tasks, ContinueLoad(c, t) PROVE Quiet
  BY <1>1, UnchangedQuiet DEF ContinueLoad, Quiet
<1>2. CASE ContinueFlush(c)
  BY <1>2, UnchangedQuiet DEF ContinueFlush, Quiet
<1>3. CASE ContinueCommit(c)
  <2>. DEFINE t == call[c].cur
              row == [task[t] EXCEPT !.status = "queued", !.attempt = call[c].attempt + 1]
  <2>1. t \in Created /\ task[t] \in Rows /\ call[c].attempt + 1 \in Nat
    BY <1>3 DEF ContinueCommit, Known, TypeOK, Calls, Created
  <2>2. row \in Rows /\ row.stopped = task[t].stopped /\ row.status = "queued"
    <3>1. row \in Rows
      BY <2>1, RowTypes DEF Statuses
    <3>. QED  BY <2>1, <3>1, RowStopped, RowStatus
  <2>3. StopsKept /\ NoNewDone
    BY <1>3, <2>1, <2>2, PutRowKeeps DEF ContinueCommit
  <2>. QED  BY <1>3, <2>3, UnchangedQuiet DEF ContinueCommit, Quiet
<1>4. CASE CallEnqueue(c)
  BY <1>4, UnchangedQuiet DEF CallEnqueue, Quiet
<1>5. ASSUME NEW t \in Tasks, Stop(c, t) PROVE Quiet
  <2>. DEFINE row == [task[t] EXCEPT !.status = "failed", !.stopped = TRUE]
  <2>1. t \in Created /\ task[t] \in Rows
    BY <1>5 DEF Stop, Active, Statuses, Created, TypeOK
  <2>2. row \in Rows /\ row.stopped /\ row.status = "failed"
    <3>1. row \in Rows
      BY <2>1, RowTypes DEF Statuses
    <3>. QED  BY <2>1, <3>1, RowStopped, RowStatus
  <2>3. StopsKept /\ NoNewDone
    BY <1>5, <2>1, <2>2, PutRowKeeps DEF Stop
  <2>. QED  BY <1>5, <2>3, UnchangedQuiet DEF Stop, Quiet
<1>6. ASSUME NEW p, Create(c, p) PROVE Quiet
  <2>1. NextId \notin Created /\ NextId \in Tasks
    BY <1>6, NextIdFresh DEF Create
  <2>2. NewRow.status = "queued"
    BY DEF NewRow, NoRow
  <2>3. /\ task'[NextId] = NewRow
        /\ \A t \in Tasks \ {NextId} : task'[t] = task[t]
    BY <1>6, <2>1 DEF Create, TypeOK
  <2>4. StopsKept /\ NoNewDone
    BY <2>1, <2>2, <2>3 DEF StopsKept, NoNewDone, Created
  <2>. QED  BY <1>6, <2>4, UnchangedQuiet DEF Create, Quiet
<1>. QED  BY <1>1, <1>2, <1>3, <1>4, <1>5, <1>6
          DEF Client, Continue, Retry, DispatchTask

LEMMA OthersQuiet ==
  ASSUME TypeOK, Known,
         \/ \E b \in BOOLEAN : SetPaused(b)
         \/ \E t \in Tasks : Age(t)
         \/ \E c \in Clients : CallLost(c)
         \/ BrokerRestart
         \/ UNCHANGED vars
  PROVE  Quiet
<1>1. ASSUME NEW b \in BOOLEAN, SetPaused(b) PROVE Quiet
  BY <1>1, UnchangedQuiet DEF SetPaused, Quiet
<1>2. ASSUME NEW t \in Tasks, Age(t) PROVE Quiet
  <2>1. \A u \in Tasks : /\ task'[u].status = task[u].status
                         /\ task'[u].stopped = task[u].stopped
    BY <1>2, RowStatus, RowStopped DEF Age, TypeOK
  <2>2. StopsKept /\ NoNewDone
    BY <2>1 DEF StopsKept, NoNewDone, Created
  <2>. QED  BY <1>2, <2>2, UnchangedQuiet DEF Age, Quiet
<1>3. ASSUME NEW c \in Clients, CallLost(c) PROVE Quiet
  BY <1>3, UnchangedQuiet DEF CallLost, Quiet
<1>4. CASE BrokerRestart
  BY <1>4, UnchangedQuiet DEF BrokerRestart, Quiet
<1>5. CASE UNCHANGED vars
  BY <1>5, UnchangedQuiet DEF vars, Quiet
<1>. QED  BY <1>1, <1>2, <1>3, <1>4, <1>5

\* The steps at which a run ends well or dies.
Ending(w) ==
  \/ \E approved \in BOOLEAN : CrewDone(w, approved) \/ DevFinalize(w, approved)
  \/ DevCollect(w)
  \/ \E back \in BOOLEAN : Crash(w, back)

LEMMA NextQuiet ==
  ASSUME TypeOK, Known, [Next]_vars
  PROVE  Quiet \/ \E w \in Workers : Ending(w)
<1>1. ASSUME NEW w \in Workers, Worker(w) PROVE Quiet \/ Ending(w)
  <2>1. CASE Dispatching(w)
    BY <2>1, DispatchingQuiet
  <2>2. CASE CrewRun(w)
    BY <2>2, RunQuiet DEF CrewRun, Ending
  <2>3. CASE DevRun(w)
    BY <2>3, DevRunQuiet DEF DevRun, Ending
  <2>4. CASE NeedsInput(w) \/ RaiseIllegal(w) \/ EnqueueChildren(w)
    BY <2>4, RunQuiet
  <2>5. CASE Reaper(w)
    BY <2>5, ReaperQuiet
  <2>. QED  BY <1>1, <2>1, <2>2, <2>3, <2>4, <2>5 DEF Worker
<1>2. ASSUME NEW c \in Clients, Client(c) PROVE Quiet
  BY <1>2, ClientQuiet
<1>3. CASE Fault
  BY <1>3, OthersQuiet DEF Fault, Ending
<1>4. ASSUME \/ \E b \in BOOLEAN : SetPaused(b)
             \/ \E t \in Tasks : Age(t)
             \/ UNCHANGED vars
      PROVE  Quiet
  BY <1>4, OthersQuiet
<1>. QED  BY <1>1, <1>2, <1>3, <1>4 DEF Next

\* The clicks on pause and resume and the faults are counted.
LEMMA Counted ==
  ASSUME TypeOK, [Next]_vars
  PROVE  /\ pauses' = 0 => pauses = 0 /\ paused' = paused
         /\ faults' = 0 => faults = 0
<1>0. pauses \in Nat /\ faults \in Nat
  BY DEF TypeOK
<1>. DEFINE Still == UNCHANGED <<paused, pauses, faults>>
<1>1. ASSUME NEW w \in Workers, Worker(w) PROVE Still
  <2>1. CASE Dispatching(w)
    BY <2>1 DEF Dispatching, Deliver, PassGates, FailGates, BeginWork, EmitWorking, Charge,
                OutOfCredits, RouteEngine
  <2>2. CASE CrewRun(w) \/ NeedsInput(w) \/ RaiseIllegal(w) \/ EnqueueChildren(w)
    BY <2>2 DEF CrewRun, CrewDone, CrewDoneMemoryFails, CrewFails, FailWithRefund, NeedsInput,
                RaiseIllegal, EnqueueChildren
  <2>3. CASE DevRun(w)
    BY <2>3 DEF DevRun, SandboxUp, SandboxFails, NextTurn, DevStopped, ToolCalls, DevFails,
                DevCollect, DevFinalize, FailWithRefund
  <2>4. CASE Reaper(w)
    BY <2>4 DEF Reaper, ReapSelect, ReapCommit, RecoverQueued
  <2>. QED  BY <1>1, <2>1, <2>2, <2>3, <2>4 DEF Worker
<1>2. ASSUME NEW c \in Clients, Client(c) PROVE Still
  BY <1>2 DEF Client, Continue, ContinueLoad, ContinueFlush, ContinueCommit, CallEnqueue,
              Stop, Retry, DispatchTask, Create
<1>3. ASSUME NEW b \in BOOLEAN, SetPaused(b) PROVE pauses' # 0 /\ faults' = faults
  BY <1>0, <1>3 DEF SetPaused
<1>4. ASSUME Fault PROVE faults' # 0 /\ UNCHANGED <<paused, pauses>>
  <2>1. faults' = faults + 1 /\ UNCHANGED <<paused, pauses>>
    BY <1>4 DEF Fault, Crash, CallLost, BrokerRestart
  <2>. QED  BY <1>0, <2>1
<1>5. ASSUME (\E t \in Tasks : Age(t)) \/ UNCHANGED vars PROVE Still
  BY <1>5 DEF Age, vars
<1>6. Still => /\ pauses' = 0 => pauses = 0 /\ paused' = paused
               /\ faults' = 0 => faults = 0
  OBVIOUS
<1>. HIDE DEF Still
<1>. QED  BY <1>1, <1>2, <1>3, <1>4, <1>5, <1>6 DEF Next

\* What the other steps do.
LEMMA EndingKeeps ==
  ASSUME TypeOK, Known, NEW w \in Workers, Ending(w)
  PROVE  /\ job[w].pc \notin Free => job[w].cur \in Created
         /\ StopsKept /\ SeenStep
         /\ (\E back \in BOOLEAN : Crash(w, back)) => NoNewDone /\ faults' # 0
         /\ (\E approved \in BOOLEAN : CrewDone(w, approved)) =>
              /\ CollectedSame
              /\ \A u \in Tasks \ {job[w].cur} :
                   task'[u].status = "done" => task[u].status = "done"
         /\ DevCollect(w) =>
              /\ job'[w].pc = "collected" /\ job'[w].cur = job[w].cur
              /\ \A v \in Workers \ {w} : job'[v] = job[v]
              /\ \A u \in Tasks \ {job[w].cur} : task'[u] = task[u]
         /\ (\E approved \in BOOLEAN : DevFinalize(w, approved)) =>
              /\ NoNewDone
              /\ job'[w].pc # "collected"
              /\ \A v \in Workers \ {w} : job'[v] = job[v]
<1>. DEFINE t == job[w].cur
<1>0. job[w].pc \notin Free => t \in Created /\ t \in Tasks /\ task[t] \in Rows
  BY DEF Known, Created, TypeOK
<1>1. ASSUME NEW approved \in BOOLEAN, CrewDone(w, approved)
      PROVE  /\ StopsKept /\ SeenStep /\ CollectedSame
             /\ \A u \in Tasks \ {t} : task'[u].status = "done" => task[u].status = "done"
             /\ job[w].pc = "running"
  <2>. DEFINE r == Touched(Outcome(t, "done", TRUE))
              F == Propagate(t, Seen(w).stopped, approved)
  <2>1. job[w].pc = "running" /\ t \in Created /\ t \in Tasks /\ task[t] \in Rows
    BY <1>0, <1>1 DEF CrewDone, Free
  <2>2. Outcome(t, "done", TRUE) \in Rows
    BY <2>1, OutcomeType DEF Statuses, Notices
  <2>3. r \in Rows /\ r.status = "done" /\ r.stopped = task[t].stopped
    <3>1. /\ Outcome(t, "done", TRUE).status = "done"
          /\ Outcome(t, "done", TRUE).stopped = task[t].stopped
      BY <2>1, RowStatus, RowStopped DEF Outcome
    <3>. QED  BY <2>2, <3>1, RowTypes, RowStatus, RowStopped
  <2>4. CommitDone(w, r, F)
    BY <1>1 DEF CrewDone
  <2>. HIDE DEF r, F
  <2>. QED  BY <2>1, <2>3, <2>4, CommitDoneKeeps DEF Free
<1>2. ASSUME NEW approved \in BOOLEAN, DevFinalize(w, approved)
      PROVE  /\ StopsKept /\ SeenStep /\ NoNewDone
             /\ job'[w].pc # "collected"
             /\ \A v \in Workers \ {w} : job'[v] = job[v]
             /\ job[w].pc = "collected"
  <2>1. job[w].pc = "collected" /\ t \in Created /\ t \in Tasks
    BY <1>0, <1>2 DEF DevFinalize, Free
  <2>2. PICK seen \in {Seen(w), Committed(t)} :
          CommitDone(w, Announced(t, seen.status), Propagate(t, seen.stopped, approved))
    BY <1>2 DEF DevFinalize
  <2>. DEFINE r == Announced(t, seen.status)
              F == Propagate(t, seen.stopped, approved)
  <2>3. r \in Rows /\ r.status = task[t].status /\ r.stopped = task[t].stopped
    BY <2>1, AnnouncedType, AnnouncedStatus, AnnouncedStopped
  <2>4. CommitDone(w, r, F)
    BY <2>2
  <2>. HIDE DEF r, F
  <2>5. StopsKept /\ SeenStep /\ NoNewDone
    BY <2>1, <2>3, <2>4, CommitDoneKeeps DEF Free
  <2>6. job'[w].pc # "collected" /\ \A v \in Workers \ {w} : job'[v] = job[v]
    BY <2>4 DEF CommitDone, IdleJob, TypeOK, Jobs
  <2>. QED  BY <2>1, <2>5, <2>6
<1>3. ASSUME DevCollect(w)
      PROVE  /\ StopsKept /\ SeenStep
             /\ job'[w].pc = "collected" /\ job'[w].cur = t
             /\ \A v \in Workers \ {w} : job'[v] = job[v]
             /\ \A u \in Tasks \ {t} : task'[u] = task[u]
             /\ job[w].pc = "running"
  <2>. DEFINE row == [task[t] EXCEPT !.status = "done", !.spent = TRUE]
  <2>1. job[w].pc = "running" /\ t \in Created /\ t \in Tasks /\ task[t] \in Rows
    BY <1>0, <1>3 DEF DevCollect, Free
  <2>2. row \in Rows /\ row.stopped = task[t].stopped
    <3>1. row \in Rows
      BY <2>1, RowTypes DEF Statuses
    <3>. QED  BY <2>1, <3>1, RowStopped
  <2>3. PutRow(t, row)
    BY <1>3 DEF DevCollect
  <2>. HIDE DEF row
  <2>4. StopsKept /\ \A u \in Tasks \ {t} : task'[u] = task[u]
    <3>1. StopsKept
      BY <2>1, <2>2, <2>3, PutRowKeeps
    <3>. QED  BY <2>3, <3>1 DEF PutRow, TypeOK
  <2>5. /\ job'[w].pc = "collected" /\ job'[w].cur = t
        /\ job'[w].seen.stopped = task[t].stopped
        /\ \A v \in Workers \ {w} : job'[v] = job[v]
    BY <1>3 DEF DevCollect, Goto, TypeOK, Jobs
  <2>6. SeenStep
    BY <2>5 DEF SeenStep
  <2>. QED  BY <2>1, <2>4, <2>5, <2>6
<1>4. ASSUME NEW back \in BOOLEAN, Crash(w, back)
      PROVE  StopsKept /\ SeenStep /\ NoNewDone /\ faults' # 0
  <2>1. faults \in Nat
    BY DEF TypeOK
  <2>2. Finish(w) /\ task' = task /\ faults' = faults + 1
    BY <1>4 DEF Crash
  <2>. QED  BY <2>1, <2>2, FinishQuiet, UnchangedQuiet
<1>5. StopsKept /\ SeenStep
  BY <1>1, <1>2, <1>3, <1>4 DEF Ending
<1>. QED  BY <1>0, <1>1, <1>2, <1>3, <1>4, <1>5

\* A completion that is to be handed on was so before, and what was handed on stays.
LEMMA WantedBack ==
  ASSUME TypeOK, Known, Watchful, [Next]_vars, NEW t \in Created
  PROVE  /\ prov'[t] = prov[t]
         /\ Wanted(t)' => Wanted(t) /\ ~paused
         /\ Handed(t) => Handed(t)'
<1>1. StopsKept
  BY NextQuiet, EndingKeeps DEF Quiet
<1>2. /\ \A u \in Created : prov'[u] = prov[u]
      /\ Created \subseteq Created' /\ Created' \subseteq Tasks
  BY NextStep, CreatedStep DEF Same, Created
<1>3. Handed(t) => Handed(t)'
  BY <1>2 DEF Handed, AlreadyFired
<1>4. (GoalSize(t) <= GoalBudget)' => GoalSize(t) <= GoalBudget
  <2>. DEFINE G == {u \in Tasks : prov[u].goal}
  <2>1. \A u \in Tasks \ Created : ~prov[u].goal
    BY DEF Watchful, NoProv
  <2>2. G \subseteq G'
    BY <1>2, <2>1
  <2>3. /\ IsFiniteSet(Tasks) /\ IsFiniteSet(G')
        /\ Cardinality(G) \in Nat /\ Cardinality(G') \in Nat
    <3>1. IsFiniteSet(Tasks)
      BY RunnerAssumption, FS_Interval DEF RunnerAssumption, Tasks
    <3>. QED  BY <3>1, FS_Subset, FS_CardinalityType
  <2>4. Cardinality(G) <= Cardinality(G')
    BY <2>2, <2>3, FS_Subset
  <2>5. GoalBudget \in Nat
    BY RunnerAssumption DEF RunnerAssumption
  <2>6. /\ GoalSize(t) = IF prov[t].goal THEN Cardinality(G) ELSE 0
        /\ GoalSize(t)' = IF prov'[t].goal THEN Cardinality(G') ELSE 0
    BY DEF GoalSize
  <2>. HIDE DEF G
  <2>. QED  BY <1>2, <2>3, <2>4, <2>5, <2>6
<1>5. pauses' = 0 => pauses = 0 /\ ~paused
  BY Counted DEF Watchful
<1>6. faults' = 0 => faults = 0
  BY Counted
<1>7. Wanted(t)' => Wanted(t)
  BY <1>1, <1>2, <1>4, <1>5, <1>6 DEF Wanted, StopsKept
<1>. QED  BY <1>2, <1>3, <1>5, <1>7 DEF Wanted

\* _finalize_done of a completion that nobody stopped creates the task of its edge.
LEMMA CommitHandsOver ==
  ASSUME TypeOK, Known, Watchful, [Next]_vars, NEW w \in Workers,
         NEW t \in Created, t = job[w].cur, NEW r, NEW stopped, NEW approved,
         CommitDone(w, r, Propagate(t, stopped, approved)),
         ~stopped, ~paused, Wanted(t)
  PROVE  Handed(t)'
<1>. DEFINE F == Propagate(t, stopped, approved)
            f == CHOOSE g \in F : TRUE
<1>1. /\ prov'[t] = prov[t]
      /\ Handed(t) => Handed(t)'
  BY WantedBack
<1>2. GoalBudget \in Nat /\ ~(GoalSize(t) > GoalBudget)
  <2>1. GoalBudget \in Nat
    BY RunnerAssumption DEF RunnerAssumption
  <2>2. GoalSize(t) \in Nat
    BY Finite DEF GoalSize
  <2>. QED  BY <2>1, <2>2 DEF Wanted
<1>3. F = {g \in OnProducerDone(Edges, prov[t]) : g.edge = None \/ ~AlreadyFired(t, g.edge)}
  <2>1. Route(Edges, prov[t], approved) = OnProducerDone(Edges, prov[t])
    BY DEF Wanted, Route, NoLoop
  <2>. QED  BY <1>2, <2>1 DEF Propagate
<1>4. OnProducerDone(Edges, prov[t]) =
        {Firing(e.to, e.id, IF e.type = "handoff" THEN NoLoop ELSE ReviewOver(e, prov[t].loop)) :
           e \in Outgoing(Edges, prov[t].agent)}
  BY DEF Wanted, OnProducerDone
<1>5. \A g \in OnProducerDone(Edges, prov[t]) :
        \E e \in Outgoing(Edges, prov[t].agent) : g.edge = e.id
  BY <1>4 DEF Firing
<1>6. CASE F = {}
  <2>1. \A e \in Outgoing(Edges, prov[t].agent) : AlreadyFired(t, e.id)
    <3>. SUFFICES ASSUME NEW e \in Outgoing(Edges, prov[t].agent), ~AlreadyFired(t, e.id)
         PROVE  FALSE
      OBVIOUS
    <3>. DEFINE g == Firing(e.to, e.id, IF e.type = "handoff" THEN NoLoop
                                        ELSE ReviewOver(e, prov[t].loop))
    <3>1. g \in OnProducerDone(Edges, prov[t]) /\ g.edge = e.id
      BY <1>4 DEF Firing
    <3>. HIDE DEF g
    <3>. QED  BY <1>3, <1>6, <3>1
  <2>. QED  BY <1>1, <2>1 DEF Handed
<1>7. CASE F # {}
  <2>1. f \in F
    BY <1>7
  <2>2. PICK e \in Outgoing(Edges, prov[t].agent) : f.edge = e.id
    BY <1>3, <1>5, <2>1
  <2>3. /\ NextId \in Tasks
        /\ task'[NextId] = NewRow \/ NextId = t
        /\ prov'[NextId] = ChildProv(t, f)
    BY <1>7 DEF CommitDone
  <2>4. NextId # t /\ NewRow.status # "none"
    BY NextIdFresh DEF NewRow, NoRow
  <2>5. NextId \in Created'
    BY <2>3, <2>4, <1>7 DEF Created, CommitDone
  <2>6. prov'[NextId].parent = t /\ prov'[NextId].edge = e.id
    BY <2>2, <2>3 DEF ChildProv
  <2>7. \A d \in Outgoing(Edges, prov[t].agent) : d = e
    BY EdgeFacts DEF Outgoing
  <2>. QED  BY <1>1, <2>5, <2>6, <2>7 DEF Handed, AlreadyFired
<1>. QED  BY <1>6, <1>7

LEMMA WatchfulStep ==
  ASSUME TypeOK, Known, Watchful, [Next]_vars
  PROVE  Watchful'
<1>0. /\ StopsKept /\ SeenStep
      /\ \A t \in Created : prov'[t] = prov[t]
      /\ Created \subseteq Created'
      /\ \A w \in Workers : job'[w].pc \notin Free => job'[w].cur \in Created
  <2>1. StopsKept /\ SeenStep
    BY NextQuiet, EndingKeeps DEF Quiet
  <2>. QED  BY <2>1, NextStep, CreatedStep DEF Same, JobStep
<1>1. pauses' = 0 => ~paused'
  BY Counted DEF Watchful
<1>2. \A w \in Workers :
        job'[w].pc \notin Free /\ job'[w].seen.stopped => task'[job'[w].cur].stopped
  <2>. SUFFICES ASSUME NEW w \in Workers, job'[w].pc \notin Free, job'[w].seen.stopped
       PROVE  task'[job'[w].cur].stopped
    OBVIOUS
  <2>1. task[job'[w].cur].stopped
    BY <1>0 DEF SeenStep, Watchful
  <2>. QED  BY <1>0, <2>1 DEF StopsKept
<1>3. ASSUME NEW v \in Workers, job'[v].pc = "collected"
      PROVE  Engine[prov'[job'[v].cur].agent] # "crew"
  <2>0. job'[v].cur \in Created
    BY <1>0, <1>3 DEF Free
  <2>1. ASSUME job[v].pc = "collected", job'[v].cur = job[v].cur
        PROVE  Engine[prov'[job'[v].cur].agent] # "crew"
    BY <1>0, <2>0, <2>1 DEF Watchful
  <2>2. CASE CollectedSame
    BY <1>3, <2>1, <2>2 DEF CollectedSame
  <2>3. ASSUME NEW w \in Workers, Ending(w), ~CollectedSame
        PROVE  Engine[prov'[job'[v].cur].agent] # "crew"
    <3>1. CASE DevCollect(w)
      <4>1. Engine[prov[job[w].cur].agent] # "crew"
        BY <3>1 DEF DevCollect, IsCrew
      <4>2. job'[w].cur = job[w].cur /\ \A u \in Workers \ {w} : job'[u] = job[u]
        BY <2>3, <3>1, EndingKeeps
      <4>. QED  BY <1>0, <1>3, <2>0, <2>1, <4>1, <4>2
    <3>2. CASE \E approved \in BOOLEAN : DevFinalize(w, approved)
      BY <1>3, <2>1, <2>3, <3>2, EndingKeeps
    <3>3. CASE \E back \in BOOLEAN : Crash(w, back)
      <4>1. job' = [job EXCEPT ![w] = IdleJob]
        BY <3>3 DEF Crash, Finish
      <4>. QED  BY <1>3, <2>1, <4>1 DEF TypeOK, IdleJob
    <3>. QED  BY <2>3, <3>1, <3>2, <3>3, EndingKeeps DEF Ending
  <2>. QED  BY <2>2, <2>3, NextQuiet DEF Quiet
<1>4. ASSUME NEW t \in Tasks, t \notin Created' PROVE prov'[t] = NoProv
  <2>1. t \notin Created
    BY <1>0, <1>4
  <2>2. prov[t] = NoProv
    BY <2>1 DEF Watchful
  <2>3. CASE Same
    BY <2>2, <2>3 DEF Same
  <2>4. ASSUME NEW p, Adds(NextId, p) PROVE prov'[t] = NoProv
    <3>1. t # NextId
      BY <1>4, <2>4, CreatedStep
    <3>. QED  BY <2>2, <2>4, <3>1 DEF Adds, TypeOK
  <2>. QED  BY <2>3, <2>4, NextStep
<1>. QED  BY <1>1, <1>2, <1>3, <1>4 DEF Watchful

\* Only CrewDone and DevCollect end a task well; the first creates the next task
\* in its commit, and the slot of the second can only go on to DevFinalize.
LEMMA HandingStep ==
  ASSUME TypeOK, Known, Watchful, Handing, [Next]_vars
  PROVE  Handing'
<1>. SUFFICES ASSUME NEW t \in Tasks, task'[t].status = "done", Wanted(t)'
     PROVE  (Handed(t) \/ (Engine[prov[t].agent] # "crew" /\ Collecting(t)))'
  BY DEF Handing, WithStatus
<1>1. ASSUME t \in Created
      PROVE  /\ prov'[t] = prov[t] /\ Wanted(t) /\ ~paused
             /\ Handed(t) => Handed(t)'
  BY <1>1, WantedBack
<1>2. ASSUME task[t].status = "done"
      PROVE  /\ t \in Created
             /\ Handed(t) \/ (Engine[prov[t].agent] # "crew" /\ Collecting(t))
  <2>1. t \in Created
    BY <1>2 DEF Created
  <2>. QED  BY <1>1, <1>2, <2>1 DEF Handing, WithStatus
<1>3. ASSUME task[t].status = "done", CollectedSame
      PROVE  (Handed(t) \/ (Engine[prov[t].agent] # "crew" /\ Collecting(t)))'
  BY <1>1, <1>2, <1>3 DEF Collecting, CollectedSame
<1>4. CASE Quiet
  BY <1>3, <1>4 DEF Quiet, NoNewDone
<1>5. ASSUME NEW w \in Workers, Ending(w)
      PROVE  (Handed(t) \/ (Engine[prov[t].agent] # "crew" /\ Collecting(t)))'
  <2>. DEFINE u == job[w].cur
  <2>1. ASSUME NEW approved \in BOOLEAN, CrewDone(w, approved)
        PROVE  (Handed(t) \/ (Engine[prov[t].agent] # "crew" /\ Collecting(t)))'
    <3>1. CASE t # u
      BY <1>3, <1>5, <2>1, <3>1, EndingKeeps
    <3>2. CASE t = u
      <4>1. /\ job[w].pc \notin Free /\ t \in Created
            /\ CommitDone(w, Touched(Outcome(t, "done", TRUE)),
                          Propagate(t, Seen(w).stopped, approved))
        BY <1>5, <2>1, <3>2, EndingKeeps DEF CrewDone, Free
      <4>2. ~task[t].stopped /\ ~paused /\ Wanted(t)
        BY <1>1, <4>1 DEF Wanted
      <4>3. ~Seen(w).stopped
        BY <3>2, <4>1, <4>2, SeenStopped DEF Watchful
      <4>. DEFINE r == Touched(Outcome(t, "done", TRUE))
                  stopped == Seen(w).stopped
      <4>4. CommitDone(w, r, Propagate(t, stopped, approved)) /\ ~stopped
        BY <4>1, <4>3
      <4>. HIDE DEF r, stopped
      <4>5. Handed(t)'
        BY <3>2, <4>1, <4>2, <4>4, CommitHandsOver
      <4>. QED  BY <4>5
    <3>. QED  BY <3>1, <3>2
  <2>2. CASE DevCollect(w)
    <3>1. CASE t # u
      <4>1. task'[t] = task[t] /\ \A v \in Workers \ {w} : job'[v] = job[v]
        BY <1>5, <2>2, <3>1, EndingKeeps
      <4>2. job[w].pc # "collected"
        BY <2>2 DEF DevCollect
      <4>. QED  BY <1>1, <1>2, <4>1, <4>2 DEF Collecting
    <3>2. CASE t = u
      <4>1. job'[w].pc = "collected" /\ job'[w].cur = t /\ t \in Created
        BY <1>5, <2>2, <3>2, EndingKeeps DEF DevCollect, Free
      <4>2. Engine[prov[t].agent] # "crew"
        BY <2>2, <3>2 DEF DevCollect, IsCrew
      <4>. QED  BY <1>1, <4>1, <4>2 DEF Collecting
    <3>. QED  BY <3>1, <3>2
  <2>3. ASSUME NEW approved \in BOOLEAN, DevFinalize(w, approved)
        PROVE  (Handed(t) \/ (Engine[prov[t].agent] # "crew" /\ Collecting(t)))'
    <3>0. NoNewDone /\ \A v \in Workers \ {w} : job'[v] = job[v]
      BY <1>5, <2>3, EndingKeeps
    <3>1. task[t].status = "done"
      BY <3>0 DEF NoNewDone
    <3>2. CASE t # u
      BY <1>1, <1>2, <3>0, <3>1, <3>2 DEF Collecting
    <3>3. CASE t = u
      <4>1. job[w].pc \notin Free
        BY <2>3 DEF DevFinalize, Free
      <4>2. PICK seen \in {Seen(w), Committed(t)} :
              CommitDone(w, Announced(t, seen.status), Propagate(t, seen.stopped, approved))
        BY <2>3, <3>3 DEF DevFinalize
      <4>3. ~task[t].stopped /\ ~paused /\ Wanted(t) /\ t \in Created
        BY <1>1, <1>2, <3>1 DEF Wanted
      <4>4. ~seen.stopped
        BY <3>3, <4>1, <4>2, <4>3, SeenStopped DEF Watchful
      <4>5. Handed(t)'
        BY <3>3, <4>2, <4>3, <4>4, CommitHandsOver
      <4>. QED  BY <4>5
    <3>. QED  BY <3>2, <3>3
  <2>4. ASSUME NEW back \in BOOLEAN, Crash(w, back)
        PROVE  (Handed(t) \/ (Engine[prov[t].agent] # "crew" /\ Collecting(t)))'
    <3>1. NoNewDone /\ faults' # 0
      BY <1>5, <2>4, EndingKeeps
    <3>2. task[t].status = "done" /\ Engine[prov'[t].agent] = "crew"
      BY <3>1 DEF NoNewDone, Wanted
    <3>. QED  BY <1>1, <1>2, <3>2
  <2>. QED  BY <1>5, <2>1, <2>2, <2>3, <2>4 DEF Ending
<1>. QED  BY <1>4, <1>5, NextQuiet

\* No completion that nobody stopped, redirected or paused is lost on its way to
\* the next agent, however many slots, duplicates and stale sessions there are.
THEOREM NoHandoffLost == Spec => []HandoffComplete
<1>1. Init => TypeOK /\ Known /\ Watchful /\ Handing
  <2>. SUFFICES ASSUME Init PROVE Watchful /\ Handing
    BY InitTypeOK, InitKnown
  <2>1. Handing
    BY DEF Init, NoRow, Handing, WithStatus
  <2>2. Watchful
    BY DEF Init, IdleJob, Watchful, Free
  <2>. QED  BY <2>1, <2>2
<1>2. /\ TypeOK /\ Known /\ Watchful /\ Handing /\ [Next]_vars
      => (TypeOK /\ Known /\ Watchful /\ Handing)'
  BY NextTypeOK, KnownStep, WatchfulStep, HandingStep
<1>3. Handing => HandoffComplete
  <2>. SUFFICES ASSUME Handing, NEW t \in WithStatus("done"), Wanted(t),
                       Engine[prov[t].agent] = "crew" \/ Holding(t) = {}
       PROVE  Handed(t)
    BY DEF HandoffComplete, Wanted, Handed, AlreadyFired
  <2>1. Collecting(t) => Holding(t) # {}
    BY DEF Collecting, Holding
  <2>. QED  BY <2>1 DEF Handing
<1>. QED  BY <1>1, <1>2, <1>3, PTL DEF Spec
=============================================================================
