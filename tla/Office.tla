------------------------------- MODULE Office -------------------------------
(***************************************************************************)
(* The chat with the orchestrator (run_chat in orchestrator.py) beside the *)
(* other requests of one project that touch the same rows: an answer given *)
(* in the panel (routers/tasks.py), the removal of an agent                *)
(* (routers/teams.py), and the worker that runs the tasks and writes an    *)
(* event into the conversation when one ends (events.py).                  *)
(*                                                                         *)
(* A turn of the chat is one database transaction that stays open while    *)
(* the model thinks: what its tools write is flushed, holds the rows it    *)
(* changed and is seen by nobody else before the commit at the end, and    *)
(* only then are its tasks put into the queue.  PostgreSQL stamps all rows *)
(* of a transaction with the time it began.                                *)
(*                                                                         *)
(* The life of a task between queue and end, with lost and repeated jobs,  *)
(* is TaskRunner's; here a task is queued, working, waiting for an answer, *)
(* or over.                                                                *)
(***************************************************************************)
EXTENDS Naturals, Sequences, FiniteSets, SequencesExt, FiniteSetsExt, Functions

CONSTANTS
  Agents,
  Tasks,      \* ids of task rows; each is used once
  Apis,       \* requests that can be open at once
  MaxIters,   \* max_iters, the calls of the model in one turn
  Limit,      \* history_limit, the rows of the conversation a turn is given
  Fan,        \* bound: tools in one answer of the model
  MaxRequests, \* bound: requests
  MaxFaults,  \* bound: failures of the model, of a statement, of a process
  None

ASSUME OfficeAssumption ==
  /\ {MaxIters, Limit, Fan, MaxRequests, MaxFaults} \subseteq Nat \ {0}
  /\ None \notin Agents \cup Tasks

VARIABLES
  staff,    \* the agents rows
  tasks,    \* the tasks rows: tasks[t], None where there is no row
  rows,     \* the orchestrator_messages rows
  now,      \* the clock: transactions that will write rows, begun so far
  requests, \* requests begun so far
  req,      \* req[x]: the request x has open
  queue,    \* jobs of the broker
  work,     \* what the worker runs
  faults,
  used,     \* history: tasks that have been committed
  given,    \* history: given[t], the answers committed for t
  rivals,   \* history: tasks two requests were answering at once
  hired,    \* history: tasks committed while their agent was being removed
  lost      \* history: unfinished tasks that were deleted with their agent

clock == <<now, requests>>
history == <<used, given, rivals, hired, lost>>
vars == <<staff, tasks, rows, clock, req, queue, work, faults, history>>

-----------------------------------------------------------------------------
(* Requests and rows.                                                      *)

Row(agent, at, status, conts) ==
  [agent |-> agent, at |-> at, status |-> status, conts |-> conts]
Msg(role, at) == [role |-> role, at |-> at]

\* kind: chat, panel or remove; writes: the task rows flushed; target: the task
\* or agent about to be written; seen: the answers of that task, as read.
Idle == [pc |-> "idle", kind |-> None, at |-> 0, prompt |-> <<>>, calls |-> 0, todo |-> 0,
         writes |-> <<>>, target |-> None, seen |-> {}, jobs |-> <<>>, broken |-> FALSE]

Close(x) == req' = [req EXCEPT ![x] = Idle]

Rows == {t \in Tasks : tasks[t] # None}
Of(a) == {t \in Rows : tasks[t].agent = a}
\* No other transaction has changed the row without committing it.
Free(x, t) == \A y \in Apis \ {x} : t \notin DOMAIN req[y].writes

\* The request after a tool has flushed the row of t: the job comes with the commit.
Wrote(r, t, row) ==
  [r EXCEPT !.writes = [u \in DOMAIN r.writes \cup {t} |-> IF u = t THEN row ELSE r.writes[u]],
            !.jobs = Append(r.jobs, t)]

\* The row as x sees it: what it has written itself, or what is committed.
View(x) == [t \in Tasks |-> IF t \in DOMAIN req[x].writes THEN req[x].writes[t] ELSE tasks[t]]

\* Mutant of Busy: a task that waits for an answer does not keep its agent.
BusyRunning(a) == \E t \in Of(a) : tasks[t].status \in {"queued", "working"}

\* has_active_task.
Busy(a) == \E t \in Of(a) : tasks[t].status # "over"

-----------------------------------------------------------------------------
(* The conversation a turn is given.                                       *)

\* Mutant of Earlier: the rows of one turn come in either order; here the
\* reply, written second, comes first.
EarlierByTime(r, s) == r.at < s.at \/ (r.at = s.at /\ r.role # "user" /\ s.role = "user")

Earlier(r, s) == r.at < s.at \/ (r.at = s.at /\ r.role = "user" /\ s.role # "user")

\* The newest rows; the rows of one turn have one time, and where the limit
\* falls between them either is taken.
Windows ==
  {W \in SUBSET rows :
     /\ Cardinality(W) = Min({Limit, Cardinality(rows)})
     /\ \A r \in W, s \in rows \ W : r.at >= s.at}

Speaker(r) == IF r.role = "orchestrator" THEN "assistant" ELSE "user"
Message(r) == [role |-> Speaker(r), parts |-> <<r>>]

\* _merge_consecutive: neighbours of one role become one message.
Merge(ms) ==
  FoldLeft(LAMBDA merged, m :
             IF merged # <<>> /\ Last(merged).role = m.role
             THEN Front(merged) \o <<[m EXCEPT !.parts = Last(merged).parts \o @]>>
             ELSE Append(merged, m),
           <<>>, ms)

FromUser(ms) == IF ms # <<>> /\ Head(ms).role = "assistant" THEN Tail(ms) ELSE ms

\* The rows in order of time, and the request of a turn before its reply.
Sorted(W) ==
  CHOOSE s \in SetToSeqs(W) : \A j, k \in DOMAIN s : j < k => Earlier(s[j], s[k])

Prompt(W, at) ==
  LET sorted == Sorted(W)
      recent == FromUser(Merge([k \in DOMAIN sorted |-> Message(sorted[k])]))
  IN Merge(Append(recent, Message(Msg("user", at))))

-----------------------------------------------------------------------------
(* A turn of the chat.                                                     *)

Init ==
  /\ staff = Agents
  /\ tasks = [t \in Tasks |-> None]
  /\ rows = {} /\ now = 0 /\ requests = 0
  /\ req = [x \in Apis |-> Idle]
  /\ queue = {} /\ work = None /\ faults = 0
  /\ used = {} /\ given = [t \in Tasks |-> {}]
  /\ rivals = {} /\ hired = {} /\ lost = {}

\* The transaction of a request begins with the check of its owner.
Begin(x, request) ==
  /\ req[x].pc = "idle" /\ requests < MaxRequests
  /\ now' = now + 1 /\ requests' = requests + 1
  /\ req' = [req EXCEPT ![x] = [request EXCEPT !.at = now']]

StartChat(x) ==
  /\ Begin(x, [Idle EXCEPT !.pc = "load", !.kind = "chat"])
  /\ UNCHANGED <<staff, tasks, rows, queue, work, faults, history>>

LoadHistory(x) ==
  /\ req[x].pc = "load"
  /\ \E W \in Windows :
       req' = [req EXCEPT ![x].pc = "model", ![x].prompt = Prompt(W, req[x].at)]
  /\ UNCHANGED <<staff, tasks, rows, clock, queue, work, faults, history>>

\* The model asks for tools; calls the answer was cut off in are left out.  From here
\* the conversation only grows by calls and results.
AsksForTools(x) ==
  /\ req[x].pc = "model" /\ req[x].calls < MaxIters
  /\ \E n \in 1..Fan :
       req' = [req EXCEPT ![x].pc = "tool", ![x].todo = n, ![x].calls = @ + 1, ![x].prompt = <<>>]
  /\ UNCHANGED <<staff, tasks, rows, clock, queue, work, faults, history>>

\* The model answers, or has asked for tools MaxIters times and is not asked again.
Replies(x) ==
  /\ req[x].pc = "model"
  /\ req' = [req EXCEPT ![x].pc = "save", ![x].prompt = <<>>]
  /\ UNCHANGED <<staff, tasks, rows, clock, queue, work, faults, history>>

\* The model fails after its retries, or is cut off before a whole call: the
\* exception ends the request, and what its tools wrote is rolled back.
ModelFails(x) ==
  /\ req[x].pc = "model" /\ req[x].calls < MaxIters
  /\ faults < MaxFaults /\ faults' = faults + 1
  /\ Close(x)
  /\ UNCHANGED <<staff, tasks, rows, clock, queue, work, history>>

\* A tool has answered; an answer in the panel is a request for one tool.
ToolDone(x, r) ==
  [r EXCEPT !.todo = @ - 1, !.target = None, !.seen = {},
            !.pc = IF req[x].kind = "panel" THEN "save"
                   ELSE IF req[x].todo = 1 THEN "model" ELSE "tool"]

\* A tool that only reads.
Look(x) ==
  /\ req[x].pc = "tool" /\ ~req[x].broken
  /\ req' = [req EXCEPT ![x] = ToolDone(x, @)]
  /\ UNCHANGED <<staff, tasks, rows, clock, queue, work, faults, history>>

\* There is no such tool or nobody of that name, or the session is broken: the error
\* is told to the model, which goes on.
ToolFails(x) ==
  /\ req[x].pc = "tool"
  /\ req' = [req EXCEPT ![x] = ToolDone(x, @)]
  /\ UNCHANGED <<staff, tasks, rows, clock, queue, work, faults, history>>

\* Mutant of Told: a tool puts its task into the queue at once.
ToldAtOnce(t) == queue \cup {t}

\* The queue after a tool has written task t: the job waits for the commit.
Told(t) == queue

\* Another request may be inserting a row under another id: ids are never shared.
Dispatch(x, t, a) ==
  /\ req[x].pc = "tool" /\ ~req[x].broken
  /\ a \in staff
  /\ t \notin used /\ \A y \in Apis : t \notin DOMAIN req[y].writes
  /\ req' = [req EXCEPT ![x] = ToolDone(x, Wrote(@, t, Row(a, req[x].at, "queued", {})))]
  /\ queue' = Told(t)
  /\ UNCHANGED <<staff, tasks, rows, clock, work, faults, history>>

Answering(y, t) == req[y].target = t \/ t \in DOMAIN req[y].writes

\* An answer reads the row of the task without a lock, and the answers it has.
ReadTask(x, t, r) ==
  /\ req' = [req EXCEPT ![x] = [r EXCEPT !.pc = "update", !.target = t, !.seen = View(x)[t].conts]]
  /\ rivals' = IF \E y \in Apis \ {x} : Answering(y, t) THEN rivals \cup {t} ELSE rivals

\* resume_task: the newest of the agent's tasks that wait.
Resume(x, t) ==
  /\ req[x].pc = "tool" /\ ~req[x].broken
  /\ LET v == View(x)
         waiting == {u \in Tasks : v[u] # None /\ v[u].agent = v[t].agent /\ v[u].status = "needs-input"}
     IN /\ v[t] # None /\ t \in waiting
        /\ \A u \in waiting : v[u].at <= v[t].at
  /\ ReadTask(x, t, req[x])
  /\ UNCHANGED <<staff, tasks, rows, clock, queue, work, faults, used, given, hired, lost>>

\* Mutant of Answered: the new answer takes the place of the earlier ones.
AnsweredOnly(seen, at) == {at}

Answered(seen, at) == seen \cup {at}

\* request_continue: the update waits until the row is free, and writes the list
\* that was read whatever has become of the task.
Update(x) ==
  /\ req[x].pc = "update"
  /\ LET t == req[x].target IN
     /\ Free(x, t) /\ View(x)[t] # None
     /\ req' = [req EXCEPT ![x] = ToolDone(x,
          Wrote(@, t, [View(x)[t] EXCEPT !.status = "queued",
                                         !.conts = Answered(req[x].seen, req[x].at)]))]
     /\ queue' = Told(t)
  /\ UNCHANGED <<staff, tasks, rows, clock, work, faults, history>>

\* The update is given up: the row is gone, or a wait ended in a deadlock or at
\* statement_timeout.  The transaction is rolled back and the session cannot be
\* used; a panel's request fails, a turn of the chat only learns of an error.
UpdateFails(x) ==
  /\ req[x].pc = "update"
  /\ tasks[req[x].target] = None \/ ~Free(x, req[x].target)
  /\ req' = [req EXCEPT ![x] = IF @.kind = "panel" THEN Idle
                               ELSE ToolDone(x, [@ EXCEPT !.writes = <<>>, !.broken = TRUE])]
  /\ UNCHANGED <<staff, tasks, rows, clock, queue, work, faults, history>>

\* The commit, with the two rows of the turn.  A broken session cannot commit.
Save(x) ==
  /\ req[x].pc = "save"
  /\ LET new == DOMAIN req[x].writes IN
     IF req[x].broken
     THEN Close(x) /\ UNCHANGED <<tasks, rows, history>>
     ELSE /\ tasks' = View(x)
          /\ rows' = IF req[x].kind = "chat"
                     THEN rows \cup {Msg("user", req[x].at), Msg("orchestrator", req[x].at)}
                     ELSE rows
          /\ used' = used \cup new
          /\ given' = [t \in Tasks |-> IF t \in new /\ req[x].at \in View(x)[t].conts
                                       THEN given[t] \cup {req[x].at} ELSE given[t]]
          /\ hired' = hired \cup {t \in new : \E y \in Apis :
                                     req[y].pc = "delete" /\ req[y].target = View(x)[t].agent}
          /\ UNCHANGED <<rivals, lost>>
          /\ req' = [req EXCEPT ![x].pc = "enqueue", ![x].writes = <<>>]
  /\ UNCHANGED <<staff, clock, queue, work, faults>>

Enqueue(x) ==
  /\ req[x].pc = "enqueue"
  /\ IF req[x].jobs = <<>>
     THEN Close(x) /\ UNCHANGED queue
     ELSE /\ queue' = queue \cup {Head(req[x].jobs)}
          /\ req' = [req EXCEPT ![x].jobs = Tail(@)]
  /\ UNCHANGED <<staff, tasks, rows, clock, work, faults, history>>

\* The broker refuses a job, or the process dies: what is not committed is rolled
\* back, and jobs not yet handed over are not.
RequestDies(x) ==
  /\ req[x].pc # "idle"
  /\ faults < MaxFaults /\ faults' = faults + 1
  /\ Close(x)
  /\ UNCHANGED <<staff, tasks, rows, clock, queue, work, history>>

-----------------------------------------------------------------------------
(* The panel, the removal of an agent, and the worker.                     *)

\* continue_task: anything but a waiting task is refused.
StartPanel(x, t) ==
  /\ req[x].pc = "idle" /\ requests < MaxRequests
  /\ t \in Rows /\ tasks[t].status = "needs-input"
  /\ now' = now + 1 /\ requests' = requests + 1
  /\ ReadTask(x, t, [Idle EXCEPT !.kind = "panel", !.at = now', !.todo = 1])
  /\ UNCHANGED <<staff, tasks, rows, queue, work, faults, used, given, hired, lost>>

\* delete_agent: the check sees what is committed, and locks nothing.
StartRemove(x, a) ==
  /\ a \in staff /\ ~Busy(a)
  /\ Begin(x, [Idle EXCEPT !.pc = "delete", !.kind = "remove", !.target = a])
  /\ UNCHANGED <<staff, tasks, rows, queue, work, faults, history>>

\* The row and, by cascade, the agent's tasks.  It waits for the transactions
\* that have written a task of the agent; a second removal finds nothing.
Delete(x) ==
  /\ req[x].pc = "delete"
  /\ LET a == req[x].target IN
     /\ \A y \in Apis, t \in Tasks : t \in DOMAIN req[y].writes => req[y].writes[t].agent # a
     /\ staff' = staff \ {a}
     /\ tasks' = [t \in Tasks |-> IF t \in Of(a) THEN None ELSE tasks[t]]
     /\ lost' = lost \cup {t \in Of(a) : tasks[t].status # "over"}
  /\ Close(x)
  /\ UNCHANGED <<rows, clock, queue, work, faults, used, given, rivals, hired>>

\* A worker takes a job; one without a row, or of a task that is not queued, is
\* dropped.  A row that is locked makes it wait.
Take(t) ==
  /\ work = None /\ t \in queue /\ \A y \in Apis : t \notin DOMAIN req[y].writes \/ t \notin Rows
  /\ queue' = queue \ {t}
  /\ IF t \in Rows /\ tasks[t].status = "queued"
     THEN /\ tasks' = [tasks EXCEPT ![t].status = "working"]
          /\ work' = [task |-> t, at |-> now + 1] /\ now' = now + 1
     ELSE UNCHANGED <<tasks, work, now>>
  /\ UNCHANGED <<staff, rows, requests, req, faults, history>>

\* The run ends, and says so in the conversation in the same transaction.
End ==
  /\ work # None
  /\ IF work.task \in Rows
     THEN /\ Free(None, work.task)
          /\ \E status \in {"over", "needs-input"} : tasks' = [tasks EXCEPT ![work.task].status = status]
          /\ rows' = rows \cup {Msg("event", work.at)}
     ELSE UNCHANGED <<tasks, rows>>
  /\ work' = None
  /\ UNCHANGED <<staff, clock, req, queue, faults, history>>

Next ==
  \/ \E x \in Apis :
       \/ StartChat(x) \/ LoadHistory(x) \/ AsksForTools(x) \/ Replies(x) \/ ModelFails(x)
       \/ Look(x) \/ ToolFails(x)
       \/ \E t \in Tasks, a \in Agents : Dispatch(x, t, a)
       \/ \E t \in Tasks : Resume(x, t) \/ StartPanel(x, t)
       \/ Update(x) \/ UpdateFails(x) \/ Save(x) \/ Enqueue(x) \/ RequestDies(x)
       \/ \E a \in Agents : StartRemove(x, a)
       \/ Delete(x)
  \/ \E t \in Tasks : Take(t)
  \/ End

Spec == Init /\ [][Next]_vars

-----------------------------------------------------------------------------
(* Properties.                                                             *)

\* Whenever a turn calls the model, the conversation is one the model accepts and
\* remembers right, wherever the limit has cut it and whatever turns and events
\* have come between: user and assistant alternate from user to user
\* (orchestrator.py:400, 431), and each reply directly follows its own request.
PromptFits ==
  \A x \in Apis : req[x].pc = "model" /\ req[x].prompt # <<>> =>
    LET p == req[x].prompt IN
    /\ \A k \in DOMAIN p : p[k].role = IF k % 2 = 1 THEN "user" ELSE "assistant"
    /\ Last(p).role = "user"
    /\ \A k \in DOMAIN p : p[k].role = "assistant" =>
         /\ Len(p[k].parts) = 1
         /\ Last(p[k - 1].parts) = Msg("user", p[k].parts[1].at)

\* No job names a task that was never committed: a worker that took it would
\* drop it, and the task stay queued (orchestrator.py:574-576, BUG-5).
JobsAreCommitted == queue \subseteq used

\* An answer to a task is lost only where two requests had the task open at once:
\* neither a new run, a new question nor a failed turn forgets one.
AnswersKept ==
  \A t \in Rows : given[t] \subseteq tasks[t].conts \/ t \in rivals

\* An agent takes an unfinished task with it only if that task was committed, or
\* woken, between the check of delete_agent and the removal.
WorkIsKept == lost \subseteq hired
=============================================================================
