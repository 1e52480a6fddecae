# A TLA+ model of pondas.ai

pondas.ai runs teams of AI agents as an office: a user draws edges between
agents, talks to an orchestrator, and each agent works on *tasks* whose results
travel along the edges to the next agent. The backend (`src/backend/app`) is a
FastAPI process, a Celery worker with several slots, a Redis broker and a
Postgres database; the front end polls and listens to server-sent events.
Nothing but the database row of a task is shared between the processes, so what
can go wrong is decided by the order in which sessions load, change and commit
rows. That order is what these modules model.

Source paths below are relative to `src/backend/app` unless they start with `src/`.

## 1. Inventory

| part | state | operations | interacts with |
|---|---|---|---|
| Task state machine (`services/task_service.py`) | `tasks.status, stopped, attempt` | `transition`, `dispatch_blockers`, `try_dispatch`, `stop`, `request_continue`, `create_task` | called by the worker, the routes, the graph engine, the chat |
| Worker (`services/worker_core.py`) | one session per slot | `process_task`, `_run_dev_task`, `_finish_done`, `_append_memory`, `_refund_if_billing` | task rows, credit ledger, broker, events |
| Reaper and recovery (`worker_core.py`, beat in `celery_app.py`) | none | `reap_stale_tasks`, `_recover_stuck_queued` | the rows of runs that may still be alive |
| Broker and Celery (`celery_app.py`) | messages | delivery, redelivery, loss, prefetch 1, acks late | worker |
| Graph engine (`services/graph_engine.py`) | none; reads edges, writes child rows | `propagate`, `_on_reviewer_done`, `_spawn` | called inside the commit that completes a task |
| Task routes (`routers/tasks.py`) | a session per request | stop, continue, retry, fix | task rows, broker |
| Orchestrator (`services/orchestrator.py`, `routers/chat.py`) | chat history; one transaction per chat turn | tools dispatch, resume, edit the graph | task rows, edges |
| Graph editing (`edge_ops.py`, `routers/edges.py`, `routers/teams.py`) | edges, agents, teams | create/delete edge with its cycle check, delete agent/team | graph engine, tasks (cascades) |
| Credit ledger (`services/credit_service.py`) | `credit_accounts`, `credit_ledger` | `_post`, charge, refund, grant, top-up, refill | worker, webhooks, project creation |
| Stripe, account (`services/stripe_service.py`, `routers/billing.py`, `routers/account.py`) | plan, customer id | webhook, account deletion | ledger |
| Development runner (`services/dev_runner.py`) | conversation, budgets | turn loop, stop check, compaction, retries | worker, sandbox |
| Managed agents (`services/cma_engine.py`, `services/cma.py`) | environment, memory store, agent and session at the provider, their ids in rows | ensure each, send, poll, wind up | worker, provider |
| Workspace and preview sandboxes (`services/workspace.py`, `services/preview.py`, `services/sandbox.py`) | sandbox ids and status on the project, handles in each process | ensure, pause when idle, kill, destroy; start, stop, sync, the check of idle previews | worker, beat, routes, provider |
| Verification, versions, GitHub, deploy (`services/verification.py`, `versioning.py`, `github_service.py`, `deploy_service.py`) | `project_files`, `workspace_versions`, `pushed_at`, the repository, the site | collect, cut, restore, create the repository, push, backfill, deploy | worker, broker, routes |
| Events (`services/events.py`) | notifications | status, notification, paywall events | front end, push |
| Front end store (`src/frontend/lib/store.ts`, `sse.ts`) | merged view of polled and pushed state | apply event, reload | SSE, routes |
| Auth, rate limits, prompts, notes, memory, context, configuration | single rows | CRUD within a request | – |

What is hard here:

* A SQLAlchemy session keeps the row it loaded (autoflush is off, objects expire
  at commit) while other sessions commit. `SELECT ... FOR UPDATE` through a query
  locks the row but does not refresh an object that is already loaded;
  `db.refresh(..., with_for_update=True)` does.
* A run of a text team waits for a model for minutes between load and commit; a
  run of a coding team commits several times on its way and is done in one
  commit but hands its result over in another.
* Messages are delivered again by the recovery every minute, are lost when the
  (non-persistent) broker restarts, and come back when a worker dies.
* The reaper cannot tell a dead run from a slow one.
* The gates (busy agent, concurrency cap, cost) read other rows without a lock.
* The project row is read, the provider is called for seconds or minutes, and
  then the columns that changed are written, by several processes and without a lock.
* A turn of the chat is one transaction that stays open while the model thinks,
  and all rows of a transaction have one time stamp.
* Versions are numbered, pushed, repeated and shipped by transactions and jobs
  that do not know of one another; a managed session outlives the task that used it.
* Stripe delivers at least once, concurrently, in any order, and a wallet is
  created, erased and created again by whoever comes first.

`PROJECT.json` lists every such hazard with its line and the property that
would catch it, or why none does.

## 2. Modules

| module | component | composed of |
|---|---|---|
| `TaskStates`, `Propagation` | table of statuses; routing rules as operators | – |
| `TaskRunner` | task rows, broker, worker slots, reaper, recovery, task routes, faults | EXTENDS both |
| `TaskLifecycle` | abstract specification of the status of tasks | `TaskRunner` implements it |
| `CreditLedger` | wallet, ledger, Stripe webhooks, deletion of project and account | – |
| `WorkflowGraph` | edges between agents, cycle check | – |
| `Office` | chat turns beside the panel, the removal of agents and the worker | – |
| `Sandboxes` | workspace and preview machines of a project | – |
| `Versions` | files, versions, restore, GitHub, deploy | – |
| `DevRunner`, `ManagedAgent` | the two engines of a coding task | `Engines` EXTENDS both |

`MC_*` name the small instances, `*Proofs` and `*Safety` hold the theorems.
A definition called "Mutant of X" is a plausible bug of X and is used by nothing; each
property of a passing run is violated when its mutant replaces the original.

### Tasks

`TaskRunner` composes the database, the broker, the worker slots, the reaper, the
API sessions and the faults:

| variable | stands for |
|---|---|
| `task` | the committed rows: status, stopped, attempt, the status of the last notification, whether a cost was recorded, whether the row is old enough for the reaper or the recovery |
| `prov` | agent, parent, edge, loop_state, override, goal of a row, written at creation |
| `bill` | charges and refunds posted for a task |
| `msgs` | `run_task` messages waiting in the broker |
| `job` | per worker slot: program counter, the task, the row its session has loaded (`seen`, or `Expired` after a commit), the reaper's batch |
| `call` | per API session: a continue request between load, flush and commit |
| `paused`, `faults`, `pauses` | the pause switch; what has gone wrong and been clicked so far, bounded |

An action is the code between two points where another process can get in
between: a commit, a lock, a call of the model or of a sandbox, an enqueue.
`Deliver` loads the row, `PassGates`/`FailGates` is `try_dispatch` and the early
return, `BeginWork` the commit, `EmitWorking` the reload, `Charge`/`OutOfCredits`
the metering commit, `RouteEngine` the branch; `CrewDone`, `CrewDoneMemoryFails`,
`CrewFails`, `NeedsInput` are the outcomes of a text team, `SandboxUp` …
`DevFinalize` the loop and the two commits of a coding team, `EnqueueChildren` the
messages sent after the commit; `ReapSelect`, `ReapCommit`, `RecoverQueued` the
beat. `Stop`, `Retry`, `DispatchTask`, `ContinueLoad/Flush/Commit`, `CallEnqueue`
are the user's requests, `Crash`, `CallLost`, `BrokerRestart` the faults. A commit
writes only the columns the handler assigned; it is decided by `seen`, never by
the row.

`TaskLifecycle` says what a user may rely on about the status of tasks without
slots, sessions, messages or money. `TaskRunner` with one slot and one session
implements it under the mapping `Lifecycle` (property `ImplementsLifecycle`, theorem
`LifecycleImplemented`). Its one concession, `Yields`, is a
weakness of the program: a slot that loaded a task before a Stop may still write
its own outcome over it.

### Money and edges

`CreditLedger` — the wallet and the ledger of one user (every row carries its
user, and a Stripe reference belongs to one, so users do not interact). Each
operation is a transaction in a session `tx[s]`: `ReadWallet`, `ReadLedger`,
`EraseRows` are the unlocked reads; one write-and-commit action per operation
follows (`Charge`, `ChargeRefused`, `Refund`, `CreateProject`, `AddCredits`,
`RepeatCredits`, `Downgrade`, `Erase`), because the first UPDATE holds the
wallet's row lock until the commit. An INSERT of a wallet that exists meanwhile, or
an UPDATE of one that is gone, raises (`WalletConflict`, `RollBack`). `Pay` and
`Deliver` are Stripe, an external service modelled from how `routers/billing.py`
answers it.

`WorkflowGraph` — a request `req[s]` that draws an edge looks for an existing
output (`CheckOutput`), then for a cycle (`CheckCycle`), then inserts (`Insert`),
while others insert, delete, and add or remove teams and agents. The unique
constraint on the output is the table's, the absence of cycles rests on the check
alone. `CreatesHandoffCycle` says what the check is for, `Walk` is the loop of the
code, round by round; `WalkIsReach` compares them in every reachable graph. `missed` is history:
which committed edges the check of an edge had not seen. `TaskRunner` keeps the
edges constant and takes from this module that they are at most one per agent.

### The chat

`Office` — `req[x]` is a request with an open transaction: a turn (`StartChat`,
`LoadHistory`, then `AsksForTools`/`Replies`/`ModelFails` and its tools `Dispatch`,
`Resume`, `Look`, `ToolFails`, at last `Save` and `Enqueue`), an answer in the
panel (`StartPanel`, `Update`), the removal of an agent (`StartRemove`, `Delete`).
What a turn writes is in `req[x].writes`, locked and unseen, until `Save`.
`Windows` is the query of the history with its limit: rows of one transaction have
one time, so that a limit inside a turn takes either. `Prompt` is sorting, merging
of neighbours, dropping of a leading assistant and the new request, as the code
does it. `Take` and `End` are the worker, which also writes event rows.

### Machines

`Sandboxes` — `sbx` and `served` are the provider's, `handles` what each process
is connected to, `project` the committed columns, `job[p].seen` what a process has
loaded of them. `ensure_running` is `BeginRun`, `Reuse`, `Wake`/`Woken`,
`CreateMachine`/`Bind`, `BootFails`; the run is `UseMachine`, `RunRaises` and its
ends; `refresh_if_active` `Refresh`, `SyncWrite`, `SyncCommit`; `pause_if_idle`
`IdleCheck`, `BusyCheck`, `PauseMachine`, `PauseCommit`; then the preview's start,
stop and idle check with their error paths, and the deletion of the project.
`Call`, `Resume`, `Pause`, `Create`, `Expire` are the provider, external: a call
through a handle reaches a machine that is up, a new connection wakes a paused one.

### Files

`Versions` — a file is the task that wrote it. `Write`, `Collect` and `recent` are
the disk and the test of change times in `collect_outputs`; a cut is one
transaction `tx[x]` of several statements (`ReadFiles`, `FlushFiles`,
`ReadManifest`, `Number`, `InsertVersion`, `Commit`, or `Abort` at a unique
constraint); `RestoreDelete/Insert/Announce` are a restore; `Connect`,
`RequestRepo`, `TokenFails`, `CreateRepo`, `Backfill` the routes of GitHub;
`TakeJob`, `Skip`, `StartPush`, `Land`, `Mark`, `PushRaises` a push, in which a
commit lands only as a fast-forward of the parent that was read; `Deploy`, `Ship`,
`Deployed` a deployment.

### Engines

`DevRunner` — `run_dev_task`: one action per part of a step (`Top`, `Compact`,
`CheckStop`, the call of the model with its outcomes, `Tool`), with their failures. A
message is its role and its place; a summary stands for all it was made from.
`TailStart` is the search for a place to cut where no answer is parted from its call.

`ManagedAgent` — several workers, agents and tasks of a project: `Ensure*` make
sure of the four resources, `Send` and `Retry` put the message into the session and replace a
session that does not take it, `Poll*` ask for its rest, `GivesUp` is the time and
turn limit, `DeleteSession` and `ClearSession` wind up a stopped run; `Rest` and
`Dies` are the provider.

`Engines` — the setting picks one of the two at the start.

## 3. Runs

| run | instance | what it shows |
|---|---|---|
| `run_races` | 2 slots, 1 API session, 4 tasks, a review loop of two rounds from a text to a coding agent, slow runs, failing memory flush, one Stop, one pause | one child per completion and edge (`FiredOnce`); every good completion has its child (`HandoffComplete`) although deliveries, late runs and the reaper overlap; the loop ends (`ReviewRounds`) |
| `run_serial` | 1 slot, 1 API session, 2 tasks, a handoff or a one-off redirection, one crash or lost message, Stop and an answer anywhere, billing | `ImplementsLifecycle`, `CapOvershoot` (exact with one slot), `NoOrphanRun`, `OneChargePerAttempt`, `OneRefund` |
| `run_live` | 1 slot, 2 tasks, one fault, `FairSpec` | `WorkEnds`, `QueuedIsServed`; `AgentOverlap` |
| `run_v_stop` | 1 slot, 2 tasks | `StoppedNeverPropagates` is violated: a Stop during the call of the model is overwritten (`services/task_service.py:181`) |
| `run_credits` | 2 transactions at once out of all kinds, 1 project, top-up, invoice and cancellation, 2 task operations | `LedgerChain`, `NeverOverdrawn`, `CreditedOnce`, `AckedIsCredited` |
| `run_webhooks` | 2 transactions at once, top-up and invoice, 1 project, 1 repeated delivery, 1 fault, `FairSpec` | `EventsSettle` |
| `run_graph` | 3 agents, 2 requests at once | `CyclesAreRaces`, `WalkIsReach` |
| `run_sandboxes` | 2 slots, 1 API process, 2 tasks, 1 version, 2 machines of each kind, 2 requests, 1 fault | `TypeOK` (a row that claims a machine names it), `MachineAwake`, `BillingStops`, `NoLostMachine`, `ReadyIsTrue` |
| `run_versions` | 2 tasks, 2 paths, 1 API process, 1 push slot, 1 request, 1 retry, 1 fault | `TypeOK`, `HeadIsFiles`, `NothingForgotten`, `PushedIsInHistory`, `NoneLeftBehind`, `RepoShowsHead`, `SiteIsRecorded` |
| `run_v_push` | 1 task, 1 path, no further request, 1 fault, `FairSpec` | `BackfillCatchesUp` is violated: a version whose push has used up its retries is never pushed (`celery_app.py:110`) |
| `run_engines` | step cap 5, one retry, up to `Fans` tools per answer; 2 workers, 2 agents, 3 tasks, 2 sessions, 2 runs, 2 faults | `Paired`, `Remembered`, `StopObeyed`; `OneMemory`, `StopEndsLoop`, `FailsByItself` |
| `run_office` | 2 requests at once out of 3, 1 agent, 2 tasks, 2 calls of the model a turn, a history of 3 rows, 1 fault | `PromptFits`, `JobsAreCommitted`, `AnswersKept`, `WorkIsKept` |

Every configuration turns the deadlock check off: at the bounds, or when all
tasks are finished and the user does nothing, the system rightly rests. That
nothing gets stuck is the matter of the liveness runs.

### Bounds and why they are enough

* Two slots: every race in the worker is between two sessions on one row or on
  two rows of one agent; the theorems cover any number.
* Four tasks in `run_races` are two whole rounds of the loop (draft, review,
  revision, review); a goal budget of three cuts the chain after them. Billing is
  off there and on in `run_serial`. Two tasks elsewhere: a task and the next of its
  chain, or one that competes for the gates.
* `MaxMsgs = 1` copy waiting per task: a second delivery still reaches a second
  slot, because the first message has left the queue by then.
* One crash, one Stop, one answer, one pause per behaviour: each can hit every step
  of a run, and together they can hit it in any order.
* `SlowRuns` lets the reaper's limit (no commit for ten minutes) pass during a
  live run; without it only rows nobody holds grow old.
* `CostCap` counts runs that recorded a cost. 9 keeps this gate open in the runs;
  its arithmetic in dollars is data.
* Three agents: the shortest cycle, the cycle with a third agent on it, and a
  cycle beside the walk that must still end.
* Credits: cost 2, signup 1, top-up 2, invoice 3 make balances that cover one
  task but not two, the case `NeverOverdrawn` is about.
* Sandboxes: two machines of a kind are the one in the row and the one that replaces it;
  one version that can be served and, before it, none are the two a sync tells apart.
* Versions: two tasks and a restore make three cuts, enough for a version to be
  overtaken and for one to be cut between the reading and the landing of another.
* Engines: the answers of five steps with several tools each pass the twelve
  messages where compaction begins (`HEAD`, `TAIL`, `MinMiddle` are the code's
  numbers) at every alignment of calls and answers. Two sessions of an agent are a dead one
  and its replacement; two runs meet, or one comes after the other; two faults are a session
  that has died and its replacement that dies as well.
* Office: a history of three rows cuts turns in the middle, and event rows fall between.
* Symmetry is used only in runs without temporal properties.

### Fairness

`TaskRunner.Fairness`: a slot that works goes on (`WF`); the Redis list is first
in first out, so a message is delivered in its turn (`SF` on `Deliver`); the beat
keeps sending the reaper (`SF` on `ReapSelect`); a request goes on to its commit
and its enqueue; time passes (`WF` on `Age`); `HARD_STEP_CAP` and the time budget
end the loop of turns (`SF` on `NeedsInput`). Nothing is assumed about the user,
about gates opening or about faults. Two limits: the recovery looks at no
more than 200 rows (`services/worker_core.py:447`), so `QueuedIsServed` speaks of
smaller tables; and a gate that stays closed excuses it.

`CreditLedger.Fairness`: a transaction comes to its end (the statement timeout
and the deadlock detector of Postgres see to that), and Stripe tries an event again until it
is answered with 200 (`SF` on delivery; Stripe retries for days).

`Versions.FairSpec`: a transaction, a request and a push that have begun go on, and a
slot takes the next job. It makes the counterexample of `run_v_push` more than a
system that has stopped.

## 4. Proofs

For every value of the constants, from the named assumptions on them, which TLC
evaluates. Each safety theorem is `Spec => []P`; the argument is the invariant that
carries it, so here is what that invariant adds to `P`.

* **Tasks.** `TaskRunnerProofs!TypeCorrect`: one lemma per group of actions.
  The lemma `NextStep` reduces every step to what it may do to
  the rows, their provenance and the slots: rows are never removed, provenance is
  written once, at most one row is created, with the id `NextId`, and only
  `PassGates` lets a slot in. On it rest
  `ChildrenFiredOnce` (the test `AlreadyFired` and the insert are one commit under the
  unique index; `Known`: row ids are consecutive, and slots and sessions refer to rows
  that exist, so that a new row is nobody's),
  `BoundedReviews` (each row of a loop carries a round within its edge's limit, and a
  revision is created only below it),
  `BoundedOvershoot` (a slot passes the gates only below the cap, and every other slot
  may have done so meanwhile), and `BoundedOverlap`, by the same counting per agent.
  `NoHandoffLost`: the invariant `Handing` lets a coding run that is between its two
  commits stand for the handoff it still owes, and `Watchful` says that a slot never
  believes in a Stop that is not in the row (else it would keep a handoff back).
* **Runs** (`TaskRunnerSafety`). The lemma `NextShape` sorts every step by what it does
  to status, Stop, attempt and bill (it takes, begins, charges, ends, collects,
  finalizes, reaps, ...). `NoTaskOrphaned` holds for any number of slots and sessions:
  `Attended` says that the last slot to set a task to working has read nothing else of
  it since, so it cannot meet the illegal transition that makes other slots let go.
  It assumes `~MemoryFails`, because the rollback of a failed memory flush does leave a
  task working. The other three assume `OneSlot` (one worker slot, one API session):
  with two of either TLC finds all three violated. Their
  invariant `Serial` says that the row is where the slot believes it to be unless a Stop
  ended it (`SlotOK`), that a waiting task is as its session loaded it (`AnswerOK`),
  that an attempt not yet charged leaves room for its charge (`Charges`), and that a
  refunded task has failed for good and is in nobody's hands (`Refunds`). They are
  `SingleCharge`, `SingleRefund` and, also with `~MemoryFails`, `LifecycleImplemented`:
  each of the shapes is mapped to a step of `TaskLifecycle` or a stutter.
* **Money.** `CreditLedgerProofs!TypeCorrect`, then `StepCases`: a step posts one
  new row that continues from the committed balance, or leaves the balance alone and
  removes rows of one project at most, or erases the account. It needs
  `NoWalletNoCredits`, because a transaction that finds no wallet starts from zero. On
  it rest `LedgerAudits` (with `RowNumbers`), `CapHolds`, `OneCreditPerPayment` and
  `NoPaymentLost` (`SeenIsCredited`: what a webhook has seen in the ledger is still
  there, since rows of payments belong to no project).
* **Edges.** `WorkflowGraphProofs!TypeCorrect` and `!OnlyRacesCloseCycles`. The lemma
  `NoWayBack` is its heart: a cycle through a new edge, whose other edges the check
  has seen, leaves a cycle without the new edge, because the agents that can be
  reached from its end do not include its start. `SeenOK` keeps what a checked
  request knows, `BornOK` that nothing leads to an agent nobody knows yet.
  `WalkFindsCycles`: the rounds of the walk are shown to exist as a function, by
  an explicit solution of the recursion (`RoundsExist`). They stay inside
  the agents that can be reached (`RoundsInside`), and all of those are found within
  as many rounds as there are agents, because a round that is later repeats one that
  was earlier (`RoundsSuffice`, counting).
* **The tool loop** (`EnginesProofs`). `TypeCorrect`: `TypeOK` is not inductive; the
  step and the retry counter stay in range because a loop that is not over is within
  its cap and its retries (`Within`). `StopIsObeyed`: `Uncounted` adds the call that is
  about to begin to those that have begun. `AllIsRemembered`: `Tells` says at every
  moment, not only at a call of the model, what stands before the tail, how much of
  the conversation it covers, and that the rest follows in order. `CallsArePaired`:
  `Answered` says it with the answers still to come counted in, and that a cut at
  `TailStart` falls on no answer.
* **The managed engine** (`EnginesProofs`, about `EngineSpec`). `MemoryIsOne`: a
  run that still looks for the store is alone, and one that has found it has found
  the recorded one, unless two overlapped (`Memory`). `StoppedLoopEnds` is
  inductive with the types: whoever stops asking leaves a session at rest, counted as
  left, or somebody else's (`LetsGo`). `FailureIsOwn`: `Blame` says when a run may
  meet a deleted session, namely only beside a run of its own agent that is winding up,
  and both are then excused (`Apart`, `Sound`). `EngineKeepsLoop` carries the three
  theorems of the tool loop over to the composition.
* **The chat** (`OfficeProofs`). `JobsCommitted`: the jobs of an open transaction
  are of tasks it has written, and of committed ones once they are handed over
  (`JobsOK`). `AnswersAreKept`: `Rivalry` (two requests with one task open are counted)
  and `Complete` (without a rival whoever has read or written the answers of a task
  has them all). `WorkKept`: while an agent is being removed, each unfinished task it
  has came after the check (`Removals`). `PromptsFit` has two halves. About the rows:
  each reply has its request, and two rows of one time are the two of a turn
  (`RowsOK`), because no open transaction has the time of a row or of another (`Stamps`). About the conversation made of such rows: the
  order of rows is total on them, so that they have one sorting, by rank (`SortExists`,
  `SortedIs`); the fold of the merge has a solution (`FoldExists`), and each of
  its steps keeps that roles alternate and that a reply stays by itself (`MergeSteps`,
  `MergeKeeps`); what the limit cuts off is at most a first request, whose reply is then
  dropped (`PromptIsFit`).
* **Files** (`VersionsProofs`). `TypeCorrect`, whose types include the record of a
  push. `Ids` (each transaction knows its version, nobody shares one) and `Sends`
  (a push lands what is committed and marks what is on the branch) carry `PushedStays`.
  `AllArePushed`: `NobodyBehind` names who will push a version, and the recursive
  function `Unpushed` is shown to list exactly what is not pushed, by induction
  on the number of versions (`Rises`). `SiteStaysRecorded`: at most one deployment is
  open unless two overlapped, and the host serves its version or the recorded one
  (`Hosting`). `NewestIsFiles`: what an open transaction has read is what is committed,
  unless two overlapped. `WorkIsFound`: a file that is changed is recent, collected
  or in a version at each step. `NewestIsShown`: what the branch holds after each
  landing, and that a backfill goes by number.
* **Machines** (`SandboxesProofs`). The steps are first reduced to what they do to the
  process that takes them (`Moves`), the row (`RowMove`) and the machines
  (`MachineMove`); `Kinds` says which machine may be named where. `WorkersStayAwake`: a
  pause that has been decided makes every later task a late one (`Late`), and a run
  holds a machine that is not paused (`Awake`). `NoneIsLost`: as long as nothing went
  wrong a run is alone on its way to a machine (`Alone`), what it has read of the row
  is what the row says, and the machine it replaces is dead (`Agrees`); the row and the
  provider differ only while a process is about to say so (`RowTells`).
  `IdleIsNotBilled`: a workspace that is up has a task that runs or waits, or a process
  on its way to the pause (`Responsible`). `ReadyStaysTrue`: the only operation on
  the preview knows the row, the newest files and what its machine serves (`Truthful`).

The proofs changed the models. `FailsByItself` was false for two faults: when a message
is sent again and the new session has died as well, the run meets that itself, which
the history did not count; it does now, and `run_engines` has two faults since.
`NothingForgotten` was excused while a cut was open; the proof needs no such excuse, and
the property has lost it. `NoOrphanRun` was stated for a single slot and session;
its invariant needs neither, so it is now stated and proved for any number. In
`Sandboxes` no machine may be called `None` (`NoneAssumption`).

The prover has no induction over data: the library's induction theorems take
an operator as parameter. Where a proof needs it (`Unpushed`, the rounds of the walk,
the fold of the merge, the rank of a row) the argument is the least counterexample: a
set of numbers that is not empty has a least member (`WFMin`, `NatLessThanWellFounded`).
For this `Walk` was stated by rounds and `Sorted` by what a sorted list is, in place
of a recursive walk and of `SetToSortSeq`, whose sorting no prover can open.

Every invariant of a passing run is a theorem now. Only model-checked:
`BackfillCatchesUp` and `StoppedNeverPropagates`, which are violated, and liveness
(`WorkEnds`, `QueuedIsServed`, `EventsSettle`), which is out of the prover's reach.

## 5. What the code does otherwise than one might expect

Properties that name an exception ("unless ...") state what is left after one of
these; only two have a run of their own (`v_stop`, `v_push`).

Tasks. Two deliveries of a task both dispatch it: the lock in `try_dispatch` does
not refresh the loaded row (`services/task_service.py:163`, against `:157`), so that with
two slots one attempt is charged and refunded twice; two overlapping answers
(`:205`) do the same with one slot. A crash
between the two commits of a coding run leaves it done without a handoff
(`services/worker_core.py:381`, against tech-design.md:315). `NoOrphanRun` fails
when the memory flush fails, because its rollback undoes the completion
(`services/worker_core.py:53`). The reaper refunds a run that died before it was
charged (`:416`). A redelivered message of a dead run is skipped, so the run is ended
by the reaper and not repeated (`celery_app.py:30`). Two overlapping answers to one
task lose one (`services/task_service.py:205`, `AnswersKept`).

Money. Two first projects created at once are both granted the signup credits
(`services/credit_service.py:127`). Deleting a project removes ledger rows
(`models.py:713`), which `LedgerChain` allows as gaps. A late duplicate of
`invoice.paid` sets the paid plan again (`services/credit_service.py:172`). A
webhook after the deletion of the account creates a wallet again.

Graph and teams. Two handoffs drawn at once can close a cycle (`edge_ops.py:10`
says handoffs stay acyclic); a review edge with a handoff back is no cycle to the
check (`edge_ops.py:39`), so that such a chain runs until its goal's budget ends
it, or for ever without a goal. Nothing holds team and slot of an agent together
(`routers/teams.py:48`). `delete_team` does not ask for running tasks
(`routers/teams.py:141`).

Machines. Two runs that begin at once each create a machine, and one is lost
(`services/workspace.py:56`). A task that is stopped before it runs leaves the
workspace up; so does a stop beside a pause, with a row that says paused. Operations on the
preview that overlap leave a row that is wrong, and a stop after a failed start
writes paused without pausing (`services/preview.py:291`).

Files. Two cuts at once can each miss the other's files in their manifests. Two
jobs can land in the wrong order. `deploy_status` stays as the deployment has left
it, as nobody asks the host. Two first requests for a repository create two.

Engines. A conversation whose summary comes back empty is not compacted at all,
other than the docstring of `_compact_messages` promises (`services/dev_runner.py:269`). A
managed session at its turn cap or timeout fails its task and goes on working
(`services/cma.py:196`); the cap counts the whole life of the session, so that an old one
fails every later task; a question once asked makes every later run needs-input
(`:206`); tokens are counted again with each run. The deletion of a stopped session
hits the run that follows at once, and two first runs create two memory stores
(`services/cma_engine.py:46`).

## 6. What is abstracted or not modelled

* Texts: instructions, results, memory, prompts, error messages, the contents and
  sizes of files. The model's verdict is a nondeterministic outcome.
* `TaskRunner`: the edges are a constant while tasks run; configuration does not
  change; the unique index on (parent, edge) and the lookup before it are one atomic
  test; `on_plan`'s commit is the heartbeat's; both engines have the same outcomes.
* `CreditLedger`: the spending cap is never turned off (there is no route for
  it); customer id and monthly allowance are data; the running number of a ledger
  row is the order of the wallet's row lock.
* `ManagedAgent`: a resource and the commit that records it are one step; the gate
  that keeps two tasks of an agent apart is `Blocked` of `TaskRunner`.
* `Sandboxes`: what a server in the preview prints, and the ports it is looked for at.
* `Versions`: the refresh of the preview after a restore (it is in `Sandboxes` after a
  run), labels, and two repositories created at once.

Not modelled: authentication, ownership filters and the rate limiter (one request,
one row or one counter with an expiry); memory, notes, context files, schemas and
administration routes (single-row CRUD); the front end (a projection of polled rows;
the back end takes nothing from it but requests, which the models allow at any
time); migrations, scripts, mock-ups. Of the events only what is written in a
transaction is modelled: fan-out and push are fire and forget, and nothing in the back end
depends on them.

Of the properties the runs check, what no theorem states is named at the end of
section 4. The theorems with `OneSlot` say nothing about a worker with more slots;
what the code loses there is in section 5.

## 7. Running it

    tlc -workers 2 -config run_races.cfg MC_TaskRunner
    tlc -workers 2 -config run_engines.cfg MC_Engines
    tlapm SandboxesProofs.tla
