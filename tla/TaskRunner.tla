----------------------------- MODULE TaskRunner -----------------------------
(***************************************************************************)
(* How a task is run: the rows of the tasks table, the Celery broker, the  *)
(* worker slots that execute process_task and the periodic reaper, and the *)
(* API sessions that create, continue, stop and retry tasks.               *)
(*                                                                         *)
(* A worker slot and an API request each own a SQLAlchemy session.  A      *)
(* session keeps the row it loaded (its identity map) until it commits or  *)
(* rolls back, and commits one UPDATE of the columns it assigned.  The     *)
(* model keeps exactly that: `seen' is the loaded row or Expired, and a    *)
(* commit writes only the columns the handler assigns.                     *)
(***************************************************************************)
EXTENDS TaskStates, Propagation

CONSTANTS
  Workers,         \* slots of the Celery worker (--concurrency)
  Clients,         \* concurrent API sessions of the user
  MaxTasks,        \* bound: rows the tasks table can get
  Edges,           \* the drawn edges
  Engine,          \* engine of an agent's team: "crew" or "agent_sdk"
  ConcurrencyCap,  \* config concurrency_cap
  CostCap,         \* config daily_cost_cap_usd, in runs that recorded a cost
  GoalBudget,      \* config goal_chain_budget
  Goals,           \* bound: may the chat dispatch with (TRUE), without (FALSE) its goal
  Overrides,       \* bound: targets of one-off overrides, and None for no override
  Billing,         \* config billing_enabled
  SlowRuns,        \* a live run may go without a commit past the reaper's limit
  MemoryFails,     \* the flush in _append_memory may fail
  MaxMsgs,         \* bound: messages of one task in the broker
  MaxAttempts,     \* bound: answers a task is given
  MaxRoots,        \* bound: the user creates a task only in a table with fewer rows
  MaxStops,        \* bound: tasks the user stops
  MaxFaults,       \* bound: crashes and broker restarts
  MaxPauses        \* bound: clicks on pause and resume

Tasks == 1..MaxTasks

NoTask == 0

ASSUME RunnerAssumption ==
  /\ IsFiniteSet(Workers) /\ Workers # {}
  /\ MaxTasks \in Nat /\ ConcurrencyCap \in Nat /\ CostCap \in Nat
  /\ GoalBudget \in Nat /\ Goals \subseteq BOOLEAN
  /\ MaxMsgs \in Nat /\ MaxAttempts \in Nat /\ MaxFaults \in Nat /\ MaxPauses \in Nat
  /\ MaxRoots \in 0..MaxTasks /\ MaxStops \in Nat
  /\ Billing \in BOOLEAN /\ SlowRuns \in BOOLEAN /\ MemoryFails \in BOOLEAN
  /\ Engine \in [Agents -> {"crew", "agent_sdk"}]
  /\ None \notin Agents /\ Overrides \subseteq Agents \cup {None}
  /\ \A e \in Edges : e.from \in Agents /\ e.to \in Agents /\ e.id # None
  /\ \A e \in Edges : /\ e.type \in {"handoff", "review_loop"} /\ e.max \in Nat
                      /\ e.type = "review_loop" => e.max >= 1
  /\ \A e, f \in Edges : (e.from = f.from \/ e.id = f.id) => e = f

VARIABLES
  task,      \* the committed rows
  prov,      \* provenance columns of the rows, written once at creation
  bill,      \* per task: charges and refunds posted to the credit ledger
  msgs,      \* per task: run_task messages waiting in the broker
  paused,    \* projects.paused
  job,       \* what each worker slot is doing
  call,      \* what each API session is doing
  faults,    \* crashes and broker restarts so far
  pauses     \* pause and resume clicks so far

vars == <<task, prov, bill, msgs, paused, job, call, faults, pauses>>

-----------------------------------------------------------------------------
(* Rows and sessions.                                                      *)

NoRow == [status |-> "none", stopped |-> FALSE, attempt |-> 0,
          notice |-> "none", spent |-> FALSE, stale |-> FALSE]

\* create_task: a new row is queued.
NewRow == [NoRow EXCEPT !.status = "queued"]

NoProv == [agent |-> None, parent |-> NoTask, edge |-> None,
           loop |-> NoLoop, override |-> None, goal |-> FALSE]

RootProv(agent, override, goal) ==
  [agent |-> agent, parent |-> NoTask, edge |-> None, loop |-> NoLoop,
   override |-> override, goal |-> goal]

ChildProv(parent, f) ==
  [agent |-> f.to, parent |-> parent, edge |-> f.edge, loop |-> f.loop,
   override |-> None, goal |-> prov[parent].goal]

Created == {t \in Tasks : task[t].status # "none"}

NextId == Cardinality(Created) + 1

\* Tasks that count against the chain budget of t's goal.
GoalSize(t) == IF prov[t].goal THEN Cardinality({u \in Tasks : prov[u].goal}) ELSE 0

WithStatus(s) == {t \in Tasks : task[t].status = s}

\* An identity-map entry that a commit or rollback has expired.
Expired == [status |-> "expired", stopped |-> FALSE]

Committed(t) == [status |-> task[t].status, stopped |-> task[t].stopped]

\* What a session sees of its task: the loaded row, reloaded if expired.
Seen(w) == IF job[w].seen = Expired THEN Committed(job[w].cur) ELSE job[w].seen

IdleJob == [pc |-> "idle", cur |-> NoTask, seen |-> Expired, batch |-> {}]

IdleCall == [pc |-> "idle", cur |-> NoTask, attempt |-> 0]

\* Row locks: a worker between SELECT ... FOR UPDATE and its commit, an API
\* session between the flush of its UPDATE and its commit.
LockFree(t) ==
  /\ \A w \in Workers : ~(job[w].pc = "gated" /\ job[w].cur = t)
  /\ \A c \in Clients : ~(call[c].pc = "flushed" /\ call[c].cur = t)

Goto(w, pc, seen) ==
  job' = [job EXCEPT ![w] = [@ EXCEPT !.pc = pc, !.seen = seen]]

\* process_task returns or raises: the session closes, the message is acked.
Finish(w) == job' = [job EXCEPT ![w] = IdleJob]

\* A committed write of a row; onupdate refreshes updated_at.
Touched(row) == [row EXCEPT !.stale = FALSE]

PutRow(t, row) == task' = [task EXCEPT ![t] = Touched(row)]

\* run_task.delay for every task of S; a full broker keeps MaxMsgs copies.
Enqueue(S) ==
  msgs' = [t \in Tasks |->
             IF t \in S /\ msgs[t] < MaxMsgs THEN msgs[t] + 1 ELSE msgs[t]]

EdgeIds == {e.id : e \in Edges}

LoopStates == [kind  : {"none", "review", "revision"}, round : Nat,
               edge  : EdgeIds \cup {None}]

Rows == [status : Statuses \cup {"none"}, stopped : BOOLEAN, attempt : Nat,
         notice : {"none", "done", "failed"} \cup Waiting,
         spent  : BOOLEAN, stale : BOOLEAN]

Provs == [agent : Agents \cup {None}, parent : Tasks \cup {NoTask},
          edge  : EdgeIds \cup {None}, loop : LoopStates,
          override : Agents \cup {None}, goal : BOOLEAN]

Bills == [charges : Nat, refunds : Nat]

Snapshots == [status : Statuses \cup {"none", "expired"}, stopped : BOOLEAN]

Jobs == [pc   : {"idle", "loaded", "gated", "started", "metering", "routing", "starting",
                 "boundary", "running", "collected", "enqueue", "reaping", "recovering"},
         cur  : Tasks \cup {NoTask}, seen : Snapshots, batch : SUBSET Tasks]

Calls == [pc  : {"idle", "loaded", "flushed", "committed"},
          cur : Tasks \cup {NoTask}, attempt : Nat]

\* A slot that works on a task, and a request that goes on, know which.
TypeOK ==
  /\ task \in [Tasks -> Rows]
  /\ prov \in [Tasks -> Provs]
  /\ bill \in [Tasks -> Bills]
  /\ msgs \in [Tasks -> 0..MaxMsgs]
  /\ paused \in BOOLEAN
  /\ job \in [Workers -> Jobs]
  /\ \A w \in Workers :
       job[w].pc \notin {"idle", "reaping", "recovering"} => job[w].cur \in Tasks
  /\ call \in [Clients -> Calls]
  /\ \A c \in Clients : call[c].pc # "idle" => call[c].cur \in Tasks
  /\ faults \in 0..MaxFaults
  /\ pauses \in 0..MaxPauses

Init ==
  /\ task = [t \in Tasks |-> NoRow]
  /\ prov = [t \in Tasks |-> NoProv]
  /\ bill = [t \in Tasks |-> [charges |-> 0, refunds |-> 0]]
  /\ msgs = [t \in Tasks |-> 0]
  /\ paused = FALSE
  /\ job = [w \in Workers |-> IdleJob]
  /\ call = [c \in Clients |-> IdleCall]
  /\ faults = 0
  /\ pauses = 0

-----------------------------------------------------------------------------
(* A worker takes a message and tries to dispatch the task.                *)

\* process_task loads the row; it goes on only with a queued task.
Deliver(w, t) ==
  /\ job[w].pc = "idle"
  /\ msgs[t] > 0
  /\ msgs' = [msgs EXCEPT ![t] = @ - 1]
  /\ job' = IF task[t].status = "queued"
            THEN [job EXCEPT ![w] = [IdleJob EXCEPT !.pc = "loaded", !.cur = t,
                                                    !.seen = Committed(t)]]
            ELSE job
  /\ UNCHANGED <<task, prov, bill, paused, call, faults, pauses>>

\* Mutants of Blocked: an agent that is busy may start another task; the cap is
\* compared with > instead of >=.
BlockedNotByAgent(t) ==
  \/ paused
  \/ Cardinality(WithStatus("working")) >= ConcurrencyCap
  \/ GoalSize(t) > GoalBudget

BlockedAboveCap(t) ==
  \/ paused
  \/ \E u \in WithStatus("working") \ {t} : prov[u].agent = prov[t].agent
  \/ Cardinality(WithStatus("working")) > ConcurrencyCap

\* dispatch_blockers: committed state, read without locking the other rows.
Blocked(t) ==
  \/ paused
  \/ \E u \in WithStatus("working") \ {t} : prov[u].agent = prov[t].agent
  \/ Cardinality(WithStatus("working")) >= ConcurrencyCap
  \/ Cardinality({u \in Tasks : task[u].spent}) >= CostCap
  \/ GoalSize(t) > GoalBudget

\* try_dispatch: FOR UPDATE waits for the row lock but leaves the row already in
\* the identity map as it was loaded, so the status test is on the old value.
PassGates(w) ==
  /\ job[w].pc = "loaded"
  /\ LockFree(job[w].cur)
  /\ Seen(w).status = "queued"
  /\ ~Blocked(job[w].cur)
  /\ Goto(w, "gated", Seen(w))
  /\ UNCHANGED <<task, prov, bill, msgs, paused, call, faults, pauses>>

\* The task stays queued; nobody keeps a message for it.
FailGates(w) ==
  /\ job[w].pc = "loaded"
  /\ LockFree(job[w].cur)
  /\ Seen(w).status # "queued" \/ Blocked(job[w].cur)
  /\ Finish(w)
  /\ UNCHANGED <<task, prov, bill, msgs, paused, call, faults, pauses>>

\* The commit that makes the task working and releases the row.
BeginWork(w) ==
  LET t == job[w].cur IN
  /\ job[w].pc = "gated"
  /\ PutRow(t, [task[t] EXCEPT !.status = "working"])
  /\ Goto(w, "started", Expired)
  /\ UNCHANGED <<prov, bill, msgs, paused, call, faults, pauses>>

\* emit_status reloads the row.
EmitWorking(w) ==
  /\ job[w].pc = "started"
  /\ Goto(w, "metering", Committed(job[w].cur))
  /\ UNCHANGED <<task, prov, bill, msgs, paused, call, faults, pauses>>

Charged(b) == [b EXCEPT !.charges = @ + 1]

Refunded(b) == [b EXCEPT !.refunds = @ + 1]

\* charge_task and its commit.
Charge(w) ==
  LET t == job[w].cur IN
  /\ job[w].pc = "metering"
  /\ IF Billing
     THEN /\ bill' = [bill EXCEPT ![t] = Charged(@)]
          /\ Goto(w, "routing", Expired)
     ELSE /\ UNCHANGED bill
          /\ Goto(w, "routing", Seen(w))
  /\ UNCHANGED <<task, prov, msgs, paused, call, faults, pauses>>

\* Mutant of OutOfCredits: the handler returns without a transition.
OutOfCreditsReturns(w) ==
  /\ job[w].pc = "metering"
  /\ Billing
  /\ Finish(w)
  /\ UNCHANGED <<task, prov, bill, msgs, paused, call, faults, pauses>>

\* InsufficientCreditsError: the task is blocked and the user asked to top up.
OutOfCredits(w) ==
  LET t == job[w].cur IN
  /\ job[w].pc = "metering"
  /\ Billing
  /\ IsLegal(Seen(w).status, "blocked")
  /\ LockFree(t)
  /\ PutRow(t, [task[t] EXCEPT !.status = "blocked", !.notice = "blocked"])
  /\ Finish(w)
  /\ UNCHANGED <<prov, bill, msgs, paused, call, faults, pauses>>

\* Engine routing reads task.engine, which reloads an expired row.
RouteEngine(w) ==
  /\ job[w].pc = "routing"
  /\ Goto(w, IF Engine[prov[job[w].cur].agent] = "crew" THEN "running" ELSE "starting",
          Seen(w))
  /\ UNCHANGED <<task, prov, bill, msgs, paused, call, faults, pauses>>

-----------------------------------------------------------------------------
(* Outcomes shared by both engines.                                        *)

IsCrew(w) == Engine[prov[job[w].cur].agent] = "crew"

\* The row a handler commits when it ends a run with status s.
Outcome(t, s, spent) ==
  [task[t] EXCEPT !.status = s, !.notice = s, !.spent = @ \/ spent]

\* emit_terminal_notification: working and queued are not announced.
Announced(t, s) ==
  IF s \in Terminal \cup Waiting THEN [task[t] EXCEPT !.notice = s] ELSE task[t]

\* transition() accepts s for the row the session sees, and the UPDATE gets the
\* row lock.
CanEnd(w, s) == IsLegal(Seen(w).status, s) /\ LockFree(job[w].cur)

\* Mutant of AlreadyFired: no dedup.
NeverFired(t, edge) == FALSE

\* _already_fired: dedup on (parent_task_id, edge_id).
AlreadyFired(t, edge) ==
  \E u \in Created : prov[u].parent = t /\ prov[u].edge = edge

\* propagate: what the finished task t creates, given the `stopped' the session
\* sees and the reviewer's verdict.
Propagate(t, stopped, approved) ==
  IF stopped \/ paused \/ GoalSize(t) > GoalBudget THEN {}
  ELSE {f \in Route(Edges, prov[t], approved) :
          f.edge = None \/ ~AlreadyFired(t, f.edge)}

\* _finalize_done: commit row r of the task together with the children F (while
\* the table, bounded by MaxTasks, has room).
CommitDone(w, r, F) ==
  LET t == job[w].cur
      kids == IF F = {} THEN {} ELSE {NextId}
  IN  /\ kids \subseteq Tasks
      /\ task' = [k \in Tasks |-> IF k = t THEN r
                                  ELSE IF k \in kids THEN NewRow ELSE task[k]]
      /\ prov' = [k \in Tasks |->
                    IF k \in kids THEN ChildProv(t, CHOOSE f \in F : TRUE) ELSE prov[k]]
      /\ job' = [job EXCEPT ![w] = IF kids = {} THEN IdleJob
                                   ELSE [@ EXCEPT !.pc = "enqueue", !.batch = kids]]

\* _enqueue_children after the commit.
EnqueueChildren(w) ==
  /\ job[w].pc = "enqueue"
  /\ Enqueue(job[w].batch)
  /\ Finish(w)
  /\ UNCHANGED <<task, prov, bill, paused, call, faults, pauses>>

\* A refund is posted with the failed status in one commit.
FailWithRefund(w) ==
  LET t == job[w].cur IN
  /\ CanEnd(w, "failed")
  /\ PutRow(t, Outcome(t, "failed", FALSE))
  /\ bill' = IF Billing THEN [bill EXCEPT ![t] = Refunded(@)] ELSE bill
  /\ Finish(w)
  /\ UNCHANGED <<prov, msgs, paused, call, faults, pauses>>

\* The agent asks a question, or a budget of the run is used up.
NeedsInput(w) ==
  LET t == job[w].cur IN
  /\ job[w].pc = "running"
  /\ CanEnd(w, "needs-input")
  /\ PutRow(t, Outcome(t, "needs-input", TRUE))
  /\ Finish(w)
  /\ UNCHANGED <<prov, bill, msgs, paused, call, faults, pauses>>

\* transition() raises IllegalTransition: the session rolls everything back.
RaiseIllegal(w) ==
  /\ \/ job[w].pc = "metering" /\ Billing /\ ~IsLegal(Seen(w).status, "blocked")
     \/ job[w].pc = "starting" /\ ~IsLegal(Seen(w).status, "failed")
     \/ /\ job[w].pc = "running"
        /\ \E s \in {"done", "failed", "needs-input"} : ~IsLegal(Seen(w).status, s)
  /\ Finish(w)
  /\ UNCHANGED <<task, prov, bill, msgs, paused, call, faults, pauses>>

-----------------------------------------------------------------------------
(* Text teams: one LLM call, one commit.                                   *)

\* _finish_done: status, result, notification and children in one commit.
CrewDone(w, approved) ==
  LET t == job[w].cur IN
  /\ job[w].pc = "running"
  /\ IsCrew(w)
  /\ CanEnd(w, "done")
  /\ CommitDone(w, Touched(Outcome(t, "done", TRUE)), Propagate(t, Seen(w).stopped, approved))
  /\ UNCHANGED <<bill, msgs, paused, call, faults, pauses>>

\* The flush in _append_memory fails and its rollback discards the pending done
\* and result as well; the notification and propagate then act on the reloaded
\* row.  Only an earlier attempt can have left a verdict in it.
CrewDoneMemoryFails(w, approved) ==
  LET t == job[w].cur IN
  /\ MemoryFails
  /\ job[w].pc = "running"
  /\ IsCrew(w)
  /\ CanEnd(w, "done")
  /\ approved => task[t].attempt > 0
  /\ CommitDone(w, Announced(t, task[t].status), Propagate(t, task[t].stopped, approved))
  /\ UNCHANGED <<bill, msgs, paused, call, faults, pauses>>

\* The LLM call raises (an API error, the soft time limit).
CrewFails(w) == job[w].pc = "running" /\ IsCrew(w) /\ FailWithRefund(w)

-----------------------------------------------------------------------------
(* Coding teams: a sandbox and a loop of LLM turns and tool calls.         *)

\* ensure_running commits unless the sandbox was running already.
SandboxUp(w) ==
  /\ job[w].pc = "starting"
  /\ \E seen \in {Seen(w), Committed(job[w].cur)} : Goto(w, "boundary", seen)
  /\ UNCHANGED <<task, prov, bill, msgs, paused, call, faults, pauses>>

SandboxFails(w) == job[w].pc = "starting" /\ FailWithRefund(w)

\* should_stop reads the committed column at every step boundary.
NextTurn(w) ==
  /\ job[w].pc = "boundary"
  /\ ~task[job[w].cur].stopped
  /\ Goto(w, "running", job[w].seen)
  /\ UNCHANGED <<task, prov, bill, msgs, paused, call, faults, pauses>>

\* The partial work is collected and the tokens recorded; the status is left as
\* the Stop request wrote it.
DevStopped(w) ==
  LET t == job[w].cur IN
  /\ job[w].pc = "boundary"
  /\ task[t].stopped
  /\ LockFree(t)
  /\ PutRow(t, [task[t] EXCEPT !.spent = TRUE])
  /\ Finish(w)
  /\ UNCHANGED <<prov, bill, msgs, paused, call, faults, pauses>>

\* Tool calls of a turn; the heartbeat commits at most once a minute.
ToolCalls(w, beat) ==
  LET t == job[w].cur IN
  /\ job[w].pc = "running"
  /\ ~IsCrew(w)
  /\ beat => LockFree(t)
  /\ task' = IF beat THEN [task EXCEPT ![t] = Touched(@)] ELSE task
  /\ Goto(w, "boundary", IF beat THEN Expired ELSE Seen(w))
  /\ UNCHANGED <<prov, bill, msgs, paused, call, faults, pauses>>

\* The LLM stayed unreachable after the retries: no refund on this path.
DevFails(w) ==
  LET t == job[w].cur IN
  /\ job[w].pc = "running"
  /\ ~IsCrew(w)
  /\ CanEnd(w, "failed")
  /\ PutRow(t, Outcome(t, "failed", TRUE))
  /\ Finish(w)
  /\ UNCHANGED <<prov, bill, msgs, paused, call, faults, pauses>>

\* transition to done, committed by collect_outputs ahead of the notification.
DevCollect(w) ==
  LET t == job[w].cur IN
  /\ job[w].pc = "running"
  /\ ~IsCrew(w)
  /\ CanEnd(w, "done")
  /\ PutRow(t, [task[t] EXCEPT !.status = "done", !.spent = TRUE])
  /\ Goto(w, "collected", [status |-> "done", stopped |-> task[t].stopped])
  /\ UNCHANGED <<prov, bill, msgs, paused, call, faults, pauses>>

\* snapshot_version, then _finalize_done.  A rollback in either one, when the
\* version or the memory cannot be written, makes the session reload the row.
DevFinalize(w, approved) ==
  LET t == job[w].cur IN
  /\ job[w].pc = "collected"
  /\ \E seen \in {Seen(w), Committed(t)} :
       CommitDone(w, Announced(t, seen.status), Propagate(t, seen.stopped, approved))
  /\ UNCHANGED <<bill, msgs, paused, call, faults, pauses>>

-----------------------------------------------------------------------------
(* The reaper: a beat task that runs in a worker slot.                     *)

\* Mutant of ReapSelect: working rows are not looked at.
ReapSelectNone(w) ==
  /\ job[w].pc = "idle"
  /\ \E t \in Tasks : task[t].stale
  /\ Goto(w, "recovering", Expired)
  /\ UNCHANGED <<task, prov, bill, msgs, paused, call, faults, pauses>>

\* Working rows whose updated_at is older than the limit.  A beat that finds
\* nothing to do changes nothing and is left out.
ReapSelect(w) ==
  LET zombies == {t \in WithStatus("working") : task[t].stale} IN
  /\ job[w].pc = "idle"
  /\ \E t \in Tasks : task[t].stale
  /\ job' = [job EXCEPT ![w] = [IdleJob EXCEPT !.batch = zombies,
               !.pc = IF zombies = {} THEN "recovering" ELSE "reaping"]]
  /\ UNCHANGED <<task, prov, bill, msgs, paused, call, faults, pauses>>

\* Mutant of ReapCommit: the refund is posted and the status stays working.
ReapCommitRefund(w) ==
  /\ job[w].pc = "reaping"
  /\ bill' = [t \in Tasks |-> IF t \in job[w].batch THEN Refunded(bill[t]) ELSE bill[t]]
  /\ job' = [job EXCEPT ![w] = [IdleJob EXCEPT !.pc = "recovering"]]
  /\ UNCHANGED <<task, prov, msgs, paused, call, faults, pauses>>

\* The selected rows fail and are refunded, whatever they have become since.
ReapCommit(w) ==
  LET S == job[w].batch IN
  /\ job[w].pc = "reaping"
  /\ \A t \in S : LockFree(t)
  /\ task' = [t \in Tasks |-> IF t \in S
                THEN Touched([task[t] EXCEPT !.status = "failed"]) ELSE task[t]]
  /\ bill' = [t \in Tasks |-> IF t \in S /\ Billing
                THEN Refunded(bill[t]) ELSE bill[t]]
  /\ job' = [job EXCEPT ![w] = [IdleJob EXCEPT !.pc = "recovering"]]
  /\ UNCHANGED <<prov, msgs, paused, call, faults, pauses>>

\* Mutant of RecoverQueued: the age test is inverted.
RecoverRecent(w) ==
  /\ job[w].pc = "recovering"
  /\ Enqueue({t \in WithStatus("queued") : ~task[t].stale})
  /\ Finish(w)
  /\ UNCHANGED <<task, prov, bill, paused, call, faults, pauses>>

\* _recover_stuck_queued: enqueue queued rows that have not moved for 3 minutes.
RecoverQueued(w) ==
  /\ job[w].pc = "recovering"
  /\ Enqueue({t \in WithStatus("queued") : task[t].stale})
  /\ Finish(w)
  /\ UNCHANGED <<task, prov, bill, paused, call, faults, pauses>>

Executing(w) ==
  job[w].pc \in {"started", "metering", "routing", "starting", "boundary",
                 "running", "collected"}

\* Time passes without a commit to the row.
Age(t) ==
  /\ task[t].status \in {"queued", "working"}
  /\ ~task[t].stale
  /\ SlowRuns \/ \A w \in Workers : Executing(w) => job[w].cur # t
  /\ task' = [task EXCEPT ![t] = [@ EXCEPT !.stale = TRUE]]
  /\ UNCHANGED <<prov, bill, msgs, paused, job, call, faults, pauses>>

-----------------------------------------------------------------------------
(* API sessions.                                                           *)

CallGoto(c, pc, t, attempt) ==
  call' = [call EXCEPT ![c] = [pc |-> pc, cur |-> t, attempt |-> attempt]]

\* The panel's /continue or the chat's resume_task loads the waiting task.
ContinueLoad(c, t) ==
  /\ call[c].pc = "idle"
  /\ task[t].status \in Waiting
  /\ task[t].attempt < MaxAttempts
  /\ CallGoto(c, "loaded", t, task[t].attempt)
  /\ UNCHANGED <<task, prov, bill, msgs, paused, job, faults, pauses>>

\* request_continue's UPDATE takes the row lock; the chat holds it over further
\* LLM turns.
ContinueFlush(c) ==
  /\ call[c].pc = "loaded"
  /\ LockFree(call[c].cur)
  /\ CallGoto(c, "flushed", call[c].cur, call[c].attempt)
  /\ UNCHANGED <<task, prov, bill, msgs, paused, job, faults, pauses>>

\* Mutant of ContinueCommit: the attempt is not counted.
ContinueSameAttempt(c) ==
  LET t == call[c].cur IN
  /\ call[c].pc = "flushed"
  /\ PutRow(t, [task[t] EXCEPT !.status = "queued"])
  /\ CallGoto(c, "committed", t, 0)
  /\ UNCHANGED <<prov, bill, msgs, paused, job, faults, pauses>>

\* Status, attempt and the list of answers are computed from the loaded row.
ContinueCommit(c) ==
  LET t == call[c].cur IN
  /\ call[c].pc = "flushed"
  /\ PutRow(t, [task[t] EXCEPT !.status = "queued", !.attempt = call[c].attempt + 1])
  /\ CallGoto(c, "committed", t, 0)
  /\ UNCHANGED <<prov, bill, msgs, paused, job, faults, pauses>>

\* A committed request enqueues its task.
CallEnqueue(c) ==
  /\ call[c].pc = "committed"
  /\ Enqueue({call[c].cur})
  /\ call' = [call EXCEPT ![c] = IdleCall]
  /\ UNCHANGED <<task, prov, bill, paused, job, faults, pauses>>

\* Mutant of Stop: a task that has ended well is failed as well.
StopDone(c, t) ==
  /\ call[c].pc = "idle"
  /\ LockFree(t)
  /\ task[t].status \in Active \cup {"done"}
  /\ PutRow(t, [task[t] EXCEPT !.status = "failed", !.stopped = TRUE])
  /\ UNCHANGED <<prov, bill, msgs, paused, job, call, faults, pauses>>

\* stop_task refreshes the row under its lock, so it decides on the current
\* status; a terminal task is left alone.
Stop(c, t) ==
  /\ call[c].pc = "idle"
  /\ LockFree(t)
  /\ task[t].status \in Active
  /\ Cardinality({u \in Tasks : task[u].stopped}) < MaxStops
  /\ PutRow(t, [task[t] EXCEPT !.status = "failed", !.stopped = TRUE])
  /\ UNCHANGED <<prov, bill, msgs, paused, job, call, faults, pauses>>

\* A committed new row, to be enqueued by the same request.
Create(c, p) ==
  /\ call[c].pc = "idle"
  /\ Cardinality(Created) < MaxRoots
  /\ task' = [task EXCEPT ![NextId] = NewRow]
  /\ prov' = [prov EXCEPT ![NextId] = p]
  /\ CallGoto(c, "committed", NextId, 0)
  /\ UNCHANGED <<bill, msgs, paused, job, faults, pauses>>

\* The chat's dispatch_task, with or without a one-off override.
DispatchTask(c, agent, override, goal) == Create(c, RootProv(agent, override, goal))

\* retry_task and fix_task: a failed task stays as it is, a new one is created.
Retry(c, t) ==
  /\ task[t].status = "failed"
  /\ Create(c, RootProv(prov[t].agent, None, prov[t].goal))

\* pause_project and resume_project; resuming enqueues nothing.
SetPaused(b) ==
  /\ paused # b
  /\ pauses < MaxPauses
  /\ paused' = b
  /\ pauses' = pauses + 1
  /\ UNCHANGED <<task, prov, bill, msgs, job, call, faults>>

-----------------------------------------------------------------------------
(* Faults.                                                                 *)

\* A worker process dies, or its run raises out of process_task: what is not
\* committed is lost.  On a lost process the message goes back to the broker,
\* on an exception or a hard time limit it is acked.
Crash(w, back) ==
  /\ job[w].pc # "idle"
  /\ faults < MaxFaults
  /\ faults' = faults + 1
  /\ IF back THEN Enqueue({job[w].cur}) ELSE UNCHANGED msgs
  /\ Finish(w)
  /\ UNCHANGED <<task, prov, bill, paused, call, pauses>>

\* An API process dies with a request in flight.
CallLost(c) ==
  /\ call[c].pc # "idle"
  /\ faults < MaxFaults
  /\ faults' = faults + 1
  /\ call' = [call EXCEPT ![c] = IdleCall]
  /\ UNCHANGED <<task, prov, bill, msgs, paused, job, pauses>>

\* The non-persistent Redis broker restarts.
BrokerRestart ==
  /\ \E t \in Tasks : msgs[t] > 0
  /\ faults < MaxFaults
  /\ faults' = faults + 1
  /\ msgs' = [t \in Tasks |-> 0]
  /\ UNCHANGED <<task, prov, bill, paused, job, call, pauses>>

-----------------------------------------------------------------------------
Dispatching(w) ==
  \/ \E t \in Tasks : Deliver(w, t)
  \/ PassGates(w) \/ FailGates(w) \/ BeginWork(w) \/ EmitWorking(w)
  \/ Charge(w) \/ OutOfCredits(w) \/ RouteEngine(w)

CrewRun(w) ==
  \/ \E approved \in BOOLEAN : CrewDone(w, approved) \/ CrewDoneMemoryFails(w, approved)
  \/ CrewFails(w)

DevRun(w) ==
  \/ SandboxUp(w) \/ SandboxFails(w) \/ NextTurn(w) \/ DevStopped(w)
  \/ \E beat \in BOOLEAN : ToolCalls(w, beat)
  \/ DevFails(w) \/ DevCollect(w)
  \/ \E approved \in BOOLEAN : DevFinalize(w, approved)

Reaper(w) == ReapSelect(w) \/ ReapCommit(w) \/ RecoverQueued(w)

Worker(w) ==
  \/ Dispatching(w) \/ CrewRun(w) \/ DevRun(w) \/ NeedsInput(w)
  \/ RaiseIllegal(w) \/ EnqueueChildren(w) \/ Reaper(w)

Continue(c) ==
  \/ \E t \in Tasks : ContinueLoad(c, t)
  \/ ContinueFlush(c) \/ ContinueCommit(c)

Client(c) ==
  \/ Continue(c) \/ CallEnqueue(c)
  \/ \E t \in Tasks : Stop(c, t) \/ Retry(c, t)
  \/ \E a \in Agents, o \in Overrides, g \in Goals : DispatchTask(c, a, o, g)

Fault ==
  \/ \E w \in Workers, back \in BOOLEAN : Crash(w, back)
  \/ \E c \in Clients : CallLost(c)
  \/ BrokerRestart

Next ==
  \/ \E w \in Workers : Worker(w)
  \/ \E c \in Clients : Client(c)
  \/ \E b \in BOOLEAN : SetPaused(b)
  \/ \E t \in Tasks : Age(t)
  \/ Fault

Spec == Init /\ [][Next]_vars

\* What the scheduling of the code justifies.  A slot finishes what it does; the
\* Redis list is first in first out, so a message is delivered in its turn, and
\* the beat keeps sending the reaper; a request enqueues what it committed; time
\* passes; HARD_STEP_CAP ends the loop of turns and tool calls.
Fairness ==
  /\ \A w \in Workers :
       /\ WF_vars(Worker(w) /\ job[w].pc # "idle")
       /\ SF_vars(ReapSelect(w))
       /\ SF_vars(NeedsInput(w))
       /\ \A t \in Tasks : SF_vars(Deliver(w, t))
  /\ \A c \in Clients : WF_vars(CallEnqueue(c)) /\ WF_vars(ContinueCommit(c))
  /\ \A t \in Tasks : WF_vars(Age(t))

FairSpec == Spec /\ Fairness

-----------------------------------------------------------------------------
(* Safety, for any number of workers and API sessions.                     *)

Gated == {w \in Workers : job[w].pc = "gated"}

\* The gates read other rows without locking them, so the concurrency cap of
\* dispatch_blockers is soft: it may be exceeded, but never by more than one
\* task per further worker slot, and with a single slot not at all.
CapOvershoot ==
  Cardinality(WithStatus("working")) + Cardinality(Gated)
    <= ConcurrencyCap + Cardinality(Workers) - 1

\* The tasks of an agent that are working or about to be.
Occupying(agent) ==
  {t \in WithStatus("working") \cup {job[w].cur : w \in Gated} : prov[t].agent = agent}

\* agent_busy is soft in the same way: an agent never has more tasks in the
\* working state than there are slots, and with a single slot at most one.
AgentOverlap == \A a \in Agents : Cardinality(Occupying(a)) <= Cardinality(Workers)

\* Whatever is delivered twice or run twice, propagate creates at most one task
\* for a completed task and edge.
FiredOnce ==
  \A t, u \in Created :
    /\ t # u
    /\ prov[t].parent # NoTask /\ prov[t].edge # None
    => <<prov[t].parent, prov[t].edge>> # <<prov[u].parent, prov[u].edge>>

\* A review loop ends: no producer is reviewed more often than the edge allows.
ReviewRounds ==
  \A t \in Created, e \in Edges :
    prov[t].loop.kind # "none" /\ prov[t].loop.edge = e.id => prov[t].loop.round <= e.max

\* Slots that hold task t.
Holding(t) == {w \in Workers : job[w].pc # "idle" /\ job[w].cur = t}

\* A completion is not lost on the way to the next agent.  A task that ended well
\* and was never stopped has created the task of its drawn edge, unless it was
\* redirected, the review rules ended the chain, the goal's budget is used up, or
\* a coding run is still between its two commits (or crashed there).
HandoffComplete ==
  \A t \in WithStatus("done") :
    /\ ~task[t].stopped
    /\ prov[t].override = None /\ prov[t].loop = NoLoop
    /\ GoalSize(t) <= GoalBudget
    /\ pauses = 0
    /\ Engine[prov[t].agent] = "crew" \/ (faults = 0 /\ Holding(t) = {})
    => \A e \in Outgoing(Edges, prov[t].agent) :
         \E u \in Created : prov[u].parent = t /\ prov[u].edge = e.id

\* A task is working because a slot runs it: without crashes and failing writes of
\* the memory, and unless a Stop was overwritten, none is left working for the reaper.
NoOrphanRun ==
  faults = 0 =>
    \A t \in WithStatus("working") : task[t].stopped \/ Holding(t) # {}

-----------------------------------------------------------------------------
(* Safety of a single worker slot and a single API session, where only a   *)
(* Stop, a crash or a message can come between the steps of a run.         *)

\* A task costs one charge for each time the user let it start, however often its
\* message is delivered and whatever dies on the way.
OneChargePerAttempt == \A t \in Tasks : bill[t].charges <= task[t].attempt + 1

\* The reaper, a failing sandbox and a failing model never refund one task twice.
OneRefund == \A t \in Tasks : bill[t].refunds <= 1

\* Refinement: what the slot, the sessions and the broker do to the rows is
\* the life cycle of TaskLifecycle.
Lifecycle == INSTANCE TaskLifecycle WITH
  status  <- [t \in Tasks |-> task[t].status],
  stopped <- {t \in Tasks : task[t].stopped},
  held    <- {t \in Tasks : \E w \in Holding(t) : job[w].pc # "enqueue"},
  parent  <- [t \in Tasks |-> prov[t].parent]

ImplementsLifecycle == Lifecycle!LSpec

-----------------------------------------------------------------------------
(* Liveness, under FairSpec.                                               *)

\* No task stays in the working state for ever: its run ends, or the reaper ends
\* it, also when the slot died, the message was lost or a Stop was overwritten.
WorkEnds == \A t \in Tasks : task[t].status = "working" ~> task[t].status # "working"

\* No task waits for ever in front of open gates, also when its message was lost
\* or was consumed while a gate was closed.
QueuedIsServed ==
  \A t \in Tasks : []<>(task[t].status # "queued" \/ Blocked(t))

-----------------------------------------------------------------------------
(* What a comment says and the program does not do.                        *)

\* task_service.py: a stopped task does not hand work on to the next agent.
StoppedNeverPropagates ==
  \A t \in Created : prov[t].parent # NoTask => ~task[prov[t].parent].stopped
=============================================================================
