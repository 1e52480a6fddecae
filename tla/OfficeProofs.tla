----------------------------- MODULE OfficeProofs -----------------------------
(***************************************************************************)
(* Proofs about Office, for any number of agents, tasks and requests, and  *)
(* any length of a turn.                                                   *)
(***************************************************************************)
EXTENDS Office, Integers, FiniteSetTheorems, SequenceTheorems, WellFoundedInduction, TLAPS

-----------------------------------------------------------------------------
(* Types.  A prompt is whatever Prompt makes of rows of the conversation;  *)
(* what it looks like is the subject of the last part.                     *)

TaskRows == [agent : Agents, at : Nat,
             status : {"queued", "working", "needs-input", "over"}, conts : SUBSET Nat]

Writes == UNION {[D -> TaskRows] : D \in SUBSET Tasks}

Msgs == [role : {"user", "orchestrator", "event"}, at : Nat]

Prompts == {<<>>} \cup {Prompt(W, at) : W \in SUBSET Msgs, at \in Nat}

Requests ==
  [pc : {"idle", "load", "model", "tool", "update", "save", "enqueue", "delete"},
   kind : {"chat", "panel", "remove", None}, at : Nat, prompt : Prompts,
   calls : Nat, todo : Int, writes : Writes, target : Agents \cup Tasks \cup {None},
   seen : SUBSET Nat, jobs : Seq(Tasks), broken : BOOLEAN]

LEMMA IdleOK == Idle \in Requests
<1>1. Idle.writes \in Writes
  <2>1. Idle.writes \in [{} -> TaskRows]
    BY DEF Idle
  <2>. QED  BY <2>1 DEF Writes
<1>2. Idle.jobs \in Seq(Tasks)
  BY DEF Idle
<1>3. Idle.prompt \in Prompts
  BY DEF Idle, Prompts
<1>. QED  BY <1>1, <1>2, <1>3 DEF Idle, Requests

LEMMA WroteOK ==
  ASSUME NEW r \in Requests, NEW t \in Tasks, NEW row \in TaskRows
  PROVE  /\ Wrote(r, t, row) \in Requests
         /\ DOMAIN Wrote(r, t, row).writes = DOMAIN r.writes \cup {t}
         /\ Wrote(r, t, row).writes[t] = row
         /\ \A u \in DOMAIN r.writes \ {t} : Wrote(r, t, row).writes[u] = r.writes[u]
         /\ Wrote(r, t, row).jobs = Append(r.jobs, t)
         /\ Wrote(r, t, row).broken = r.broken
<1>1. PICK D \in SUBSET Tasks : r.writes \in [D -> TaskRows]
  BY DEF Requests, Writes
<1>. DEFINE w == [u \in DOMAIN r.writes \cup {t} |-> IF u = t THEN row ELSE r.writes[u]]
<1>2. w \in [D \cup {t} -> TaskRows] /\ DOMAIN r.writes = D
  BY <1>1
<1>3. w \in Writes
  BY <1>2 DEF Writes
<1>4. Append(r.jobs, t) \in Seq(Tasks)
  BY DEF Requests
<1>5. /\ w[t] = row /\ DOMAIN w = DOMAIN r.writes \cup {t}
      /\ \A u \in DOMAIN r.writes \ {t} : w[u] = r.writes[u]
  OBVIOUS
<1>6. Wrote(r, t, row) = [r EXCEPT !.writes = w, !.jobs = Append(r.jobs, t)]
  BY DEF Wrote
<1>. HIDE DEF w
<1>7. Wrote(r, t, row) \in Requests
  BY <1>3, <1>4, <1>6 DEF Requests
<1>8. /\ Wrote(r, t, row).writes = w /\ Wrote(r, t, row).jobs = Append(r.jobs, t)
      /\ Wrote(r, t, row).broken = r.broken
  BY <1>6 DEF Requests
<1>. QED  BY <1>5, <1>7, <1>8

LEMMA ToolDoneOK ==
  ASSUME NEW x, NEW r \in Requests
  PROVE  /\ ToolDone(x, r) \in Requests
         /\ ToolDone(x, r).pc \in {"save", "model", "tool"}
         /\ ToolDone(x, r).writes = r.writes
         /\ ToolDone(x, r).jobs = r.jobs
         /\ ToolDone(x, r).broken = r.broken
<1>1. /\ ToolDone(x, r).writes = r.writes
      /\ ToolDone(x, r).jobs = r.jobs
      /\ ToolDone(x, r).broken = r.broken
      /\ ToolDone(x, r).pc \in {"save", "model", "tool"}
  BY DEF Requests, ToolDone
<1>2. ToolDone(x, r) \in Requests
  <2>. DEFINE pc == IF req[x].kind = "panel" THEN "save"
                    ELSE IF req[x].todo = 1 THEN "model" ELSE "tool"
  <2>1. pc \in {"save", "model", "tool"} /\ r.todo - 1 \in Int
    BY DEF Requests
  <2>2. ToolDone(x, r) = [r EXCEPT !.todo = r.todo - 1, !.target = None, !.seen = {}, !.pc = pc]
    BY DEF ToolDone
  <2>. HIDE DEF pc
  <2>. QED  BY <2>1, <2>2 DEF Requests
<1>. QED  BY <1>1, <1>2

Typed ==
  /\ staff \subseteq Agents /\ used \subseteq Tasks
  /\ tasks \in [Tasks -> TaskRows \cup {None}]
  /\ rows \subseteq Msgs
  /\ now \in Nat
  /\ req \in [Apis -> Requests]
  /\ work # None => work \in [task : Tasks, at : Nat]
  /\ given \in [Tasks -> SUBSET Nat]

-----------------------------------------------------------------------------
(* The inductive invariant.                                                *)

\* A job of an open transaction is of a task the transaction has written; one
\* that is being handed over is of a committed task.
Jobs(r) == {r.jobs[k] : k \in DOMAIN r.jobs}
JobsOK(r) ==
  IF r.pc = "enqueue" THEN Jobs(r) \subseteq used
  ELSE r.broken \/ Jobs(r) \subseteq DOMAIN r.writes
JobsKnown == JobsAreCommitted /\ \A x \in Apis : JobsOK(req[x])

\* A row has been committed; what was never committed has no answers.
Known == Rows \subseteq used /\ \A t \in Tasks \ used : given[t] = {}

\* A task that is about to be written has been committed, or is one's own.
Target(r) ==
  r.pc = "update" => r.target \in Tasks /\ r.target \in used \cup DOMAIN r.writes
Targets == \A x \in Apis : Target(req[x])

\* Two requests that have the same task open are counted as rivals.
Open(r, t) == (r.pc = "update" /\ r.target = t) \/ t \in DOMAIN r.writes
Rivalry ==
  \A x, y \in Apis, t \in Tasks : x # y /\ Open(req[x], t) /\ Open(req[y], t) => t \in rivals

\* Without a rival, whoever has read or written the answers of a task has them all.
HasAnswers(t, seen) == given[t] \subseteq seen \/ t \in rivals
Complete(r) ==
  /\ r.pc = "update" => HasAnswers(r.target, r.seen)
  /\ \A t \in DOMAIN r.writes : HasAnswers(t, r.writes[t].conts)
Answers == AnswersKept /\ \A x \in Apis : Complete(req[x])

\* While an agent is being removed, each unfinished task it has was committed
\* after the check; a task that is written, and the
\* one a worker runs, is unfinished.
Removing(r) ==
  r.pc = "delete" => \A t \in Of(r.target) : tasks[t].status # "over" => t \in hired
Removals ==
  /\ WorkIsKept
  /\ \A x \in Apis : Removing(req[x])
  /\ \A x \in Apis : \A t \in DOMAIN req[x].writes : req[x].writes[t].status = "queued"
  /\ work # None /\ work.task \in Rows => tasks[work.task].status # "over"

Inv == Typed /\ JobsKnown /\ Known /\ Targets /\ Rivalry /\ Answers /\ Removals

LEMMA InitInv == Init => Inv
<1>. SUFFICES ASSUME Init PROVE Inv
  OBVIOUS
<1>1. \A x \in Apis : req[x] = Idle
  BY DEF Init
<1>2. Idle.pc = "idle" /\ DOMAIN Idle.writes = {} /\ Jobs(Idle) = {}
  BY DEF Idle, Jobs
<1>3. Typed
  <2>1. None \notin Tasks /\ req \in [Apis -> Requests]
    BY OfficeAssumption, IdleOK DEF Init
  <2>. QED  BY <2>1 DEF Init, Typed
<1>4. Rows = {}
  BY DEF Init, Rows
<1>5. JobsKnown
  BY <1>1, <1>2 DEF Init, JobsKnown, JobsAreCommitted, JobsOK
<1>6. Known /\ Targets /\ Rivalry
  BY <1>1, <1>2, <1>4 DEF Init, Known, Targets, Target, Rivalry, Open
<1>7. Answers /\ Removals
  BY <1>1, <1>2, <1>4 DEF Init, Answers, AnswersKept, Complete, Removals, Removing, WorkIsKept
<1>. QED  BY <1>3, <1>5, <1>6, <1>7 DEF Inv

-----------------------------------------------------------------------------
(* Most steps of a request change nothing but the request itself, open no  *)
(* task and drop the rows it has written or keep them.                     *)

Replaced(x, r) == r \in Requests /\ req' = [req EXCEPT ![x] = r]

LEMMA ReplacedIs ==
  ASSUME Typed, NEW x \in Apis, NEW r, Replaced(x, r)
  PROVE  /\ req' \in [Apis -> Requests]
         /\ req'[x] = r
         /\ \A y \in Apis \ {x} : req'[y] = req[y]
BY DEF Typed, Replaced

QuietStep ==
  /\ \E x \in Apis, r \in Requests :
       /\ Replaced(x, r)
       /\ r.pc \notin {"update", "enqueue", "delete"}
       /\ r.writes = req[x].writes \/ DOMAIN r.writes = {}
       /\ r.broken \/ Jobs(r) \subseteq DOMAIN r.writes
  /\ now' \in Nat
  /\ UNCHANGED <<staff, tasks, rows, queue, work, history>>

LEMMA QuietKeeps == ASSUME Inv, QuietStep PROVE Inv'
<1>1. PICK x \in Apis, r \in Requests :
         /\ Replaced(x, r)
         /\ r.pc \notin {"update", "enqueue", "delete"}
         /\ r.writes = req[x].writes \/ DOMAIN r.writes = {}
         /\ r.broken \/ Jobs(r) \subseteq DOMAIN r.writes
  BY DEF QuietStep
<1>2. /\ now' \in Nat
      /\ UNCHANGED <<staff, tasks, rows, queue, work, used, given, rivals, hired, lost>>
  BY DEF QuietStep, history
<1>3. /\ req' \in [Apis -> Requests]
      /\ req'[x] = r
      /\ \A y \in Apis \ {x} : req'[y] = req[y]
  BY <1>1, ReplacedIs DEF Inv
<1>4. Rows' = Rows /\ \A a : Of(a)' = Of(a)
  BY <1>2 DEF Rows, Of
<1>5. Typed'
  BY <1>2, <1>3 DEF Inv, Typed
<1>6. JobsKnown'
  BY <1>1, <1>2, <1>3 DEF Inv, JobsKnown, JobsAreCommitted, JobsOK, Jobs
<1>7. Known' /\ Targets'
  BY <1>1, <1>2, <1>3, <1>4 DEF Inv, Known, Targets, Target
<1>8. Rivalry'
  BY <1>1, <1>2, <1>3 DEF Inv, Rivalry, Open
<1>9. Answers'
  BY <1>1, <1>2, <1>3, <1>4 DEF Inv, Answers, AnswersKept, Complete, HasAnswers
<1>10. Removals'
  BY <1>1, <1>2, <1>3, <1>4 DEF Inv, Removals, Removing, WorkIsKept
<1>. QED  BY <1>5, <1>6, <1>7, <1>8, <1>9, <1>10 DEF Inv

LEMMA IdleIsQuiet == Idle.pc = "idle" /\ DOMAIN Idle.writes = {} /\ Jobs(Idle) = {}
BY DEF Idle, Jobs

LEMMA CloseIsQuiet ==
  ASSUME Inv, NEW x \in Apis, Close(x),
         UNCHANGED <<staff, tasks, rows, now, queue, work, history>>
  PROVE  QuietStep
<1>1. Replaced(x, Idle)
  BY IdleOK DEF Close, Replaced
<1>. QED  BY <1>1, IdleOK, IdleIsQuiet DEF QuietStep, Inv, Typed

\* What an open request that hands nothing over keeps by going on.
LEMMA GoesOnQuietly ==
  ASSUME Inv, NEW x \in Apis, NEW r, Replaced(x, r),
         req[x].pc # "enqueue", r.pc \notin {"update", "enqueue", "delete"},
         r.writes = req[x].writes, r.jobs = req[x].jobs, r.broken = req[x].broken,
         UNCHANGED <<staff, tasks, rows, now, queue, work, history>>
  PROVE  QuietStep
<1>1. r.broken \/ Jobs(r) \subseteq DOMAIN r.writes
  BY DEF Inv, JobsKnown, JobsOK, Jobs
<1>2. now' \in Nat
  BY DEF Inv, Typed
<1>3. r \in Requests
  BY DEF Replaced
<1>. QED  BY <1>1, <1>2, <1>3 DEF QuietStep

LEMMA StartChatQuiet == ASSUME Inv, NEW x \in Apis, StartChat(x) PROVE QuietStep
<1>. DEFINE r == [Idle EXCEPT !.pc = "load", !.kind = "chat", !.at = now']
<1>1. now' = now + 1 /\ req' = [req EXCEPT ![x] = r]
  BY DEF StartChat, Begin, Idle
<1>2. now' \in Nat
  BY <1>1 DEF Inv, Typed
<1>3. r \in Requests /\ r.pc = "load" /\ r.writes = Idle.writes /\ r.jobs = Idle.jobs
  BY <1>2, IdleOK DEF Requests
<1>4. Replaced(x, r)
  BY <1>1, <1>3 DEF Replaced
<1>5. UNCHANGED <<staff, tasks, rows, queue, work, history>>
  BY DEF StartChat
<1>. HIDE DEF r
<1>6. DOMAIN r.writes = {} /\ Jobs(r) = {}
  BY <1>3, IdleIsQuiet DEF Jobs
<1>. QED  BY <1>2, <1>3, <1>4, <1>5, <1>6 DEF QuietStep

LEMMA LoadHistoryQuiet == ASSUME Inv, NEW x \in Apis, LoadHistory(x) PROVE QuietStep
<1>1. req[x] \in Requests /\ rows \subseteq Msgs
  BY DEF Inv, Typed
<1>2. PICK W \in Windows :
         req' = [req EXCEPT ![x].pc = "model", ![x].prompt = Prompt(W, req[x].at)]
  BY DEF LoadHistory
<1>3. W \in SUBSET Msgs /\ req[x].at \in Nat
  BY <1>1, <1>2 DEF Windows, Requests
<1>4. Prompt(W, req[x].at) \in Prompts
  BY <1>3 DEF Prompts
<1>. DEFINE r == [req[x] EXCEPT !.pc = "model", !.prompt = Prompt(W, req[x].at)]
<1>5. req' = [req EXCEPT ![x] = r]
  BY <1>2 DEF Inv, Typed
<1>6. r \in Requests /\ r.pc = "model" /\ r.writes = req[x].writes /\ r.jobs = req[x].jobs
      /\ r.broken = req[x].broken
  BY <1>1, <1>4 DEF Requests
<1>7. req[x].pc # "enqueue" /\ UNCHANGED <<staff, tasks, rows, now, queue, work, history>>
  BY DEF LoadHistory, clock
<1>. HIDE DEF r
<1>. QED  BY <1>5, <1>6, <1>7, GoesOnQuietly DEF Replaced

LEMMA AsksForToolsQuiet == ASSUME Inv, NEW x \in Apis, AsksForTools(x) PROVE QuietStep
<1>1. req[x] \in Requests
  BY DEF Inv, Typed
<1>2. PICK n \in 1..Fan :
         req' = [req EXCEPT ![x].pc = "tool", ![x].todo = n, ![x].calls = @ + 1, ![x].prompt = <<>>]
  BY DEF AsksForTools
<1>3. <<>> \in Prompts /\ req[x].calls + 1 \in Nat /\ n \in Int
  BY <1>1, <1>2 DEF Prompts, Requests
<1>. DEFINE r == [req[x] EXCEPT !.pc = "tool", !.todo = n, !.calls = req[x].calls + 1, !.prompt = <<>>]
<1>5. req' = [req EXCEPT ![x] = r]
  BY <1>2 DEF Inv, Typed
<1>6. r \in Requests /\ r.pc = "tool" /\ r.writes = req[x].writes /\ r.jobs = req[x].jobs
      /\ r.broken = req[x].broken
  BY <1>1, <1>3 DEF Requests
<1>7. req[x].pc # "enqueue" /\ UNCHANGED <<staff, tasks, rows, now, queue, work, history>>
  BY DEF AsksForTools, clock
<1>. HIDE DEF r
<1>. QED  BY <1>5, <1>6, <1>7, GoesOnQuietly DEF Replaced

LEMMA RepliesQuiet == ASSUME Inv, NEW x \in Apis, Replies(x) PROVE QuietStep
<1>1. req[x] \in Requests /\ <<>> \in Prompts
  BY DEF Inv, Typed, Prompts
<1>. DEFINE r == [req[x] EXCEPT !.pc = "save", !.prompt = <<>>]
<1>2. req' = [req EXCEPT ![x] = r]
  BY DEF Inv, Typed, Replies
<1>3. r \in Requests /\ r.pc = "save" /\ r.writes = req[x].writes /\ r.jobs = req[x].jobs
      /\ r.broken = req[x].broken
  BY <1>1 DEF Requests
<1>4. req[x].pc # "enqueue" /\ UNCHANGED <<staff, tasks, rows, now, queue, work, history>>
  BY DEF Replies, clock
<1>. HIDE DEF r
<1>. QED  BY <1>2, <1>3, <1>4, GoesOnQuietly DEF Replaced

LEMMA ToolQuiet == ASSUME Inv, NEW x \in Apis, Look(x) \/ ToolFails(x) PROVE QuietStep
<1>1. req[x] \in Requests
  BY DEF Inv, Typed
<1>2. req' = [req EXCEPT ![x] = ToolDone(x, req[x])]
  BY DEF Inv, Typed, Look, ToolFails
<1>3. req[x].pc # "enqueue" /\ UNCHANGED <<staff, tasks, rows, now, queue, work, history>>
  BY DEF Look, ToolFails, clock
<1>4. Replaced(x, ToolDone(x, req[x]))
  BY <1>1, <1>2, ToolDoneOK DEF Replaced
<1>. QED  BY <1>1, <1>3, <1>4, ToolDoneOK, GoesOnQuietly

LEMMA UpdateFailsQuiet == ASSUME Inv, NEW x \in Apis, UpdateFails(x) PROVE QuietStep
<1>1. req[x] \in Requests
  BY DEF Inv, Typed
<1>2. UNCHANGED <<staff, tasks, rows, now, queue, work, history>>
  BY DEF UpdateFails, clock
<1>3. CASE req[x].kind = "panel"
  BY <1>2, <1>3, CloseIsQuiet DEF UpdateFails, Close
<1>4. CASE req[x].kind # "panel"
  <2>. DEFINE q == [req[x] EXCEPT !.writes = <<>>, !.broken = TRUE]
              r == ToolDone(x, q)
  <2>1. <<>> \in Writes /\ DOMAIN <<>> = {}
    BY IdleOK, IdleIsQuiet DEF Idle, Requests
  <2>2. q \in Requests /\ q.broken /\ q.writes = <<>>
    BY <1>1, <2>1 DEF Requests
  <2>3. req' = [req EXCEPT ![x] = r]
    BY <1>4 DEF Inv, Typed, UpdateFails
  <2>. HIDE DEF q
  <2>4. Replaced(x, r) /\ r.pc \notin {"update", "enqueue", "delete"} /\ r.broken /\ r.writes = <<>>
    BY <2>2, <2>3, ToolDoneOK DEF Replaced
  <2>. HIDE DEF r
  <2>5. r \in Requests /\ now' \in Nat
    BY <1>2, <2>4 DEF Replaced, Inv, Typed
  <2>. QED  BY <1>2, <2>1, <2>4, <2>5 DEF QuietStep
<1>. QED  BY <1>3, <1>4

LEMMA QuietActions ==
  ASSUME Inv, NEW x \in Apis,
         \/ StartChat(x) \/ LoadHistory(x) \/ AsksForTools(x) \/ Replies(x) \/ ModelFails(x)
         \/ Look(x) \/ ToolFails(x) \/ UpdateFails(x) \/ RequestDies(x)
  PROVE  Inv'
<1>1. CASE ModelFails(x) \/ RequestDies(x)
  BY <1>1, CloseIsQuiet, QuietKeeps DEF ModelFails, RequestDies, clock
<1>. QED  BY <1>1, StartChatQuiet, LoadHistoryQuiet, AsksForToolsQuiet, RepliesQuiet, ToolQuiet,
             UpdateFailsQuiet, QuietKeeps

-----------------------------------------------------------------------------
(* The steps that open a task, write one, commit or hand over a job.       *)

\* A step that writes a task row without committing it.
WriteStep(x, t, row, r) ==
  /\ t \in Tasks /\ row \in TaskRows
  /\ Replaced(x, r)
  /\ r.pc \in {"save", "model", "tool"}
  /\ r.writes = Wrote(req[x], t, row).writes
  /\ r.jobs = Append(req[x].jobs, t) /\ r.broken = req[x].broken
  /\ req[x].pc # "enqueue"
  /\ UNCHANGED <<staff, tasks, rows, now, queue, work, history>>

\* It keeps the invariant when nobody else can have the task open unseen, and the
\* answers written are all there are.
LEMMA WriteKeeps ==
  ASSUME Inv, NEW x \in Apis, NEW t, NEW row, NEW r, WriteStep(x, t, row, r),
         HasAnswers(t, row.conts), row.status = "queued",
         \A y \in Apis \ {x} : Open(req[y], t) => t \in rivals
  PROVE  Inv'
<1>1. /\ UNCHANGED <<staff, tasks, rows, now, queue, work, used, given, rivals, hired, lost>>
      /\ r \in Requests /\ r.pc \in {"save", "model", "tool"}
      /\ r.broken = req[x].broken /\ req[x].pc # "enqueue"
  BY DEF WriteStep, Replaced, history
<1>2. req[x] \in Requests /\ req[x].writes \in Writes /\ req[x].jobs \in Seq(Tasks)
  BY DEF Inv, Typed, Requests
<1>3. /\ DOMAIN r.writes = DOMAIN req[x].writes \cup {t}
      /\ r.writes[t] = row
      /\ \A u \in DOMAIN req[x].writes \ {t} : r.writes[u] = req[x].writes[u]
  <2>1. r.writes = Wrote(req[x], t, row).writes /\ t \in Tasks /\ row \in TaskRows
    BY DEF WriteStep
  <2>. QED  BY <1>2, <2>1, WroteOK
<1>4. Jobs(r) = Jobs(req[x]) \cup {t}
  BY <1>2 DEF WriteStep, Jobs
<1>5. /\ req' \in [Apis -> Requests]
      /\ req'[x] = r
      /\ \A y \in Apis \ {x} : req'[y] = req[y]
  BY ReplacedIs DEF WriteStep, Inv
<1>6. Rows' = Rows /\ \A a : Of(a)' = Of(a)
  BY <1>1 DEF Rows, Of
<1>7. Typed'
  BY <1>1, <1>5 DEF Inv, Typed
<1>8. JobsKnown'
  <2>1. r.broken \/ Jobs(r) \subseteq DOMAIN r.writes
    BY <1>1, <1>3, <1>4 DEF Inv, JobsKnown, JobsOK
  <2>. QED  BY <1>1, <1>5, <2>1 DEF Inv, JobsKnown, JobsAreCommitted, JobsOK, Jobs
<1>9. Known' /\ Targets'
  BY <1>1, <1>5, <1>6 DEF Inv, Known, Targets, Target
<1>10. Rivalry'
  BY <1>1, <1>3, <1>5 DEF Inv, Rivalry, Open
<1>11. Answers'
  <2>1. \A u \in DOMAIN r.writes : HasAnswers(u, r.writes[u].conts)
    BY <1>3 DEF Inv, Answers, Complete
  <2>. QED  BY <1>1, <1>5, <1>6, <2>1 DEF Inv, Answers, AnswersKept, Complete, HasAnswers
<1>12. Removals'
  BY <1>1, <1>3, <1>5, <1>6 DEF Inv, Removals, Removing, WorkIsKept
<1>. QED  BY <1>7, <1>8, <1>9, <1>10, <1>11, <1>12 DEF Inv

\* A new row is of a task that was never committed, so nobody else has it open.
LEMMA DispatchKeeps ==
  ASSUME Inv, NEW x \in Apis, NEW t \in Tasks, NEW a \in Agents, Dispatch(x, t, a)
  PROVE  Inv'
<1>1. req[x] \in Requests /\ req[x].pc = "tool" /\ req[x].at \in Nat
  BY DEF Inv, Typed, Dispatch, Requests
<1>. DEFINE row == Row(a, req[x].at, "queued", {})
            q == Wrote(req[x], t, row)
            r == ToolDone(x, q)
<1>2. row \in TaskRows /\ row.conts = {} /\ row.status = "queued"
  BY <1>1 DEF Row, TaskRows
<1>3. /\ q \in Requests /\ q.writes = Wrote(req[x], t, row).writes
      /\ q.jobs = Append(req[x].jobs, t) /\ q.broken = req[x].broken
  BY <1>1, <1>2, WroteOK
<1>5. req' = [req EXCEPT ![x] = r]
  BY DEF Dispatch
<1>6. UNCHANGED <<staff, tasks, rows, now, queue, work, history>>
  BY DEF Dispatch, Told, clock
<1>. HIDE DEF q
<1>7. WriteStep(x, t, row, r)
  BY <1>1, <1>2, <1>3, <1>5, <1>6, ToolDoneOK DEF WriteStep, Replaced
<1>. HIDE DEF row, r
<1>8. t \notin used /\ \A y \in Apis : t \notin DOMAIN req[y].writes
  BY DEF Dispatch
<1>9. given[t] = {}
  BY <1>8 DEF Inv, Known
<1>10. \A y \in Apis : ~Open(req[y], t)
  BY <1>8 DEF Inv, Targets, Target, Open
<1>. QED  BY <1>2, <1>7, <1>9, <1>10, WriteKeeps DEF HasAnswers

\* An answer to a task; the row of another request waits, or is a rival's.
LEMMA UpdateKeeps == ASSUME Inv, NEW x \in Apis, Update(x) PROVE Inv'
<1>1. req[x] \in Requests /\ req[x].pc = "update" /\ req[x].at \in Nat /\ req[x].seen \in SUBSET Nat
  BY DEF Inv, Typed, Update, Requests
<1>. DEFINE t == req[x].target
            row == [View(x)[t] EXCEPT !.status = "queued",
                                      !.conts = Answered(req[x].seen, req[x].at)]
            q == Wrote(req[x], t, row)
            r == ToolDone(x, q)
<1>2. t \in Tasks
  BY <1>1 DEF Inv, Targets, Target
<1>3. View(x)[t] \in TaskRows
  <2>1. View(x)[t] = IF t \in DOMAIN req[x].writes THEN req[x].writes[t] ELSE tasks[t]
    BY <1>2 DEF View
  <2>2. View(x)[t] # None
    BY DEF Update
  <2>3. t \in DOMAIN req[x].writes => req[x].writes[t] \in TaskRows
    BY <1>1 DEF Requests, Writes
  <2>. QED  BY <1>2, <2>1, <2>2, <2>3 DEF Inv, Typed
<1>4. Answered(req[x].seen, req[x].at) \in SUBSET Nat
      /\ req[x].seen \subseteq Answered(req[x].seen, req[x].at)
  BY <1>1 DEF Answered
<1>5. row \in TaskRows /\ row.conts = Answered(req[x].seen, req[x].at)
      /\ row.status = "queued"
  BY <1>3, <1>4 DEF TaskRows
<1>6. req' = [req EXCEPT ![x] = r]
  BY DEF Update
<1>7. UNCHANGED <<staff, tasks, rows, now, queue, work, history>>
  BY DEF Update, Told, clock
<1>. HIDE DEF row
<1>8. /\ q \in Requests /\ q.writes = Wrote(req[x], t, row).writes
      /\ q.jobs = Append(req[x].jobs, t) /\ q.broken = req[x].broken
  BY <1>1, <1>2, <1>5, WroteOK
<1>. HIDE DEF q
<1>10. WriteStep(x, t, row, r)
  BY <1>1, <1>2, <1>5, <1>6, <1>7, <1>8, ToolDoneOK DEF WriteStep, Replaced
<1>11. HasAnswers(t, row.conts)
  BY <1>1, <1>4, <1>5 DEF Inv, Answers, Complete, HasAnswers
<1>12. \A y \in Apis \ {x} : Open(req[y], t) => t \in rivals
  BY <1>1, <1>2 DEF Inv, Rivalry, Open
<1>. HIDE DEF r
<1>. QED  BY <1>5, <1>10, <1>11, <1>12, WriteKeeps

\* A request that begins to answer a task: it has read all the answers there are, and
\* whoever has the task open beside it is a rival.
LEMMA ReadKeeps ==
  ASSUME Inv, NEW x \in Apis, NEW t \in Tasks, NEW r \in Requests, ReadTask(x, t, r),
         r.writes = req[x].writes \/ DOMAIN r.writes = {},
         r.broken \/ Jobs(r) \subseteq DOMAIN r.writes,
         t \in DOMAIN r.writes \/ t \in Rows,
         now' \in Nat,
         UNCHANGED <<staff, tasks, rows, queue, work, used, given, hired, lost>>
  PROVE  Inv'
<1>1. req[x] \in Requests /\ req[x].writes \in Writes
  BY DEF Inv, Typed, Requests
<1>. DEFINE seen == View(x)[t].conts
            q == [r EXCEPT !.pc = "update", !.target = t, !.seen = seen]
<1>2. View(x)[t] = IF t \in DOMAIN req[x].writes THEN req[x].writes[t] ELSE tasks[t]
  BY DEF View
<1>3. View(x)[t] \in TaskRows
  <2>1. t \in DOMAIN req[x].writes => req[x].writes[t] \in TaskRows
    BY <1>1 DEF Writes
  <2>2. t \in Rows => tasks[t] \in TaskRows
    BY DEF Inv, Typed, Rows
  <2>. QED  BY <1>2, <2>1, <2>2
<1>4. seen \in SUBSET Nat
  BY <1>3 DEF TaskRows
<1>5. HasAnswers(t, seen)
  BY <1>2 DEF Inv, Answers, AnswersKept, Complete, HasAnswers
<1>6. req' = [req EXCEPT ![x] = q]
  BY DEF ReadTask
<1>. HIDE DEF seen
<1>7. /\ q \in Requests /\ q.pc = "update" /\ q.target = t /\ q.seen = seen
      /\ q.writes = r.writes /\ q.jobs = r.jobs /\ q.broken = r.broken
  BY <1>4 DEF Requests
<1>8. \A y \in Apis \ {x} : Open(req[y], t) => t \in rivals'
  BY DEF ReadTask, Answering, Open
<1>9. rivals \subseteq rivals'
  BY DEF ReadTask
<1>. HIDE DEF q
<1>10. /\ req' \in [Apis -> Requests]
       /\ req'[x] = q
       /\ \A y \in Apis \ {x} : req'[y] = req[y]
  BY <1>6, <1>7, ReplacedIs DEF Replaced, Inv
<1>11. Rows' = Rows /\ \A a : Of(a)' = Of(a)
  BY DEF Rows, Of
<1>12. Typed'
  BY <1>10 DEF Inv, Typed
<1>13. JobsKnown'
  <2>1. q.broken \/ Jobs(q) \subseteq DOMAIN q.writes
    BY <1>7 DEF Jobs
  <2>. QED  BY <1>7, <1>10, <2>1 DEF Inv, JobsKnown, JobsAreCommitted, JobsOK, Jobs
<1>14. Known'
  BY <1>11 DEF Inv, Known
<1>15. Targets'
  BY <1>7, <1>10 DEF Inv, Targets, Target, Known
<1>16. Rivalry'
  <2>1. \A u \in Tasks : u # t /\ Open(q, u) => Open(req[x], u)
    BY <1>7 DEF Open
  <2>. QED  BY <1>8, <1>9, <1>10, <2>1 DEF Inv, Rivalry, Open
<1>17. Answers'
  BY <1>5, <1>7, <1>9, <1>10, <1>11 DEF Inv, Answers, AnswersKept, Complete, HasAnswers
<1>18. Removals'
  BY <1>7, <1>10, <1>11 DEF Inv, Removals, Removing, WorkIsKept
<1>. QED  BY <1>12, <1>13, <1>14, <1>15, <1>16, <1>17, <1>18 DEF Inv

LEMMA ResumeKeeps ==
  ASSUME Inv, NEW x \in Apis, NEW t \in Tasks, Resume(x, t)
  PROVE  Inv'
<1>1. req[x] \in Requests /\ req[x].pc # "enqueue" /\ now' \in Nat
  BY DEF Inv, Typed, Resume, clock
<1>2. t \in DOMAIN req[x].writes \/ t \in Rows
  BY DEF Resume, View, Rows
<1>3. ReadTask(x, t, req[x])
      /\ UNCHANGED <<staff, tasks, rows, queue, work, used, given, hired, lost>>
  BY DEF Resume
<1>4. req[x].broken \/ Jobs(req[x]) \subseteq DOMAIN req[x].writes
  BY <1>1 DEF Inv, JobsKnown, JobsOK
<1>. QED  BY <1>1, <1>2, <1>3, <1>4, ReadKeeps

LEMMA StartPanelKeeps ==
  ASSUME Inv, NEW x \in Apis, NEW t \in Tasks, StartPanel(x, t)
  PROVE  Inv'
<1>. DEFINE r == [Idle EXCEPT !.kind = "panel", !.at = now', !.todo = 1]
<1>1. now' = now + 1 /\ t \in Rows /\ ReadTask(x, t, r)
      /\ UNCHANGED <<staff, tasks, rows, queue, work, used, given, hired, lost>>
  BY DEF StartPanel
<1>2. now' \in Nat
  BY <1>1 DEF Inv, Typed
<1>3. r \in Requests
  <2>. DEFINE one == [Idle EXCEPT !.todo = 1]
              panel == [one EXCEPT !.kind = "panel"]
  <2>1. one \in Requests
    BY IdleOK DEF Requests
  <2>. HIDE DEF one
  <2>2. panel \in Requests
    BY <2>1 DEF Requests
  <2>. HIDE DEF panel
  <2>3. [panel EXCEPT !.at = now'] \in Requests
    BY <1>2, <2>2 DEF Requests
  <2>4. r = [panel EXCEPT !.at = now']
    BY IdleOK DEF one, panel, Requests
  <2>. QED  BY <2>3, <2>4
<1>4. r.writes = Idle.writes /\ r.jobs = Idle.jobs
  BY IdleOK DEF Requests
<1>. HIDE DEF r
<1>5. DOMAIN r.writes = {} /\ Jobs(r) = {}
  BY <1>4, IdleIsQuiet DEF Jobs
<1>. QED  BY <1>1, <1>2, <1>3, <1>5, ReadKeeps

\* The commit: what was written is seen by all.
LEMMA SaveKeeps == ASSUME Inv, NEW x \in Apis, Save(x) PROVE Inv'
<1>1. req[x] \in Requests /\ req[x].pc = "save" /\ req[x].writes \in Writes /\ req[x].at \in Nat
  BY DEF Inv, Typed, Save, Requests
<1>2. CASE req[x].broken
  <2>1. Close(x) /\ UNCHANGED <<staff, tasks, rows, now, queue, work, history>>
    BY <1>2 DEF Save, clock
  <2>. QED  BY <2>1, CloseIsQuiet, QuietKeeps
<1>3. CASE ~req[x].broken
  <2>. DEFINE new == DOMAIN req[x].writes
              r == [req[x] EXCEPT !.pc = "enqueue", !.writes = <<>>]
  <2>1. /\ tasks' = View(x)
        /\ used' = used \cup new
        /\ given' = [t \in Tasks |-> IF t \in new /\ req[x].at \in View(x)[t].conts
                                     THEN given[t] \cup {req[x].at} ELSE given[t]]
        /\ hired' = hired \cup {t \in new : \E y \in Apis :
                                   req[y].pc = "delete" /\ req[y].target = View(x)[t].agent}
        /\ UNCHANGED <<staff, now, queue, work, rivals, lost>>
    BY <1>3 DEF Save, clock
  <2>2. rows' \subseteq Msgs
    BY <1>1, <1>3 DEF Save, Inv, Typed, Msg, Msgs
  <2>3. req' = [req EXCEPT ![x] = r]
    BY <1>3 DEF Save, Inv, Typed
  <2>4. <<>> \in Writes /\ DOMAIN <<>> = {}
    BY IdleOK, IdleIsQuiet DEF Idle, Requests
  <2>5. /\ r \in Requests /\ r.pc = "enqueue" /\ DOMAIN r.writes = {} /\ r.jobs = req[x].jobs
    BY <1>1, <2>4 DEF Requests
  <2>. HIDE DEF r
  <2>6. /\ req' \in [Apis -> Requests]
        /\ req'[x] = r
        /\ \A y \in Apis \ {x} : req'[y] = req[y]
    BY <2>3, <2>5, ReplacedIs DEF Replaced, Inv
  <2>7. new \subseteq Tasks /\ \A t \in new : req[x].writes[t] \in TaskRows
    BY <1>1 DEF Writes
  <2>8. /\ \A t \in new : tasks'[t] = req[x].writes[t]
        /\ \A t \in Tasks \ new : tasks'[t] = tasks[t]
    BY <2>1, <2>7 DEF View
  <2>9. tasks' \in [Tasks -> TaskRows \cup {None}]
    BY <2>1, <2>7, <2>8 DEF View, Inv, Typed
  <2>10. given' \in [Tasks -> SUBSET Nat]
    BY <1>1, <2>1 DEF Inv, Typed
  <2>11. Typed'
    BY <2>1, <2>2, <2>6, <2>7, <2>9, <2>10 DEF Inv, Typed
  <2>12. JobsKnown'
    <3>1. Jobs(r) \subseteq used'
      BY <1>1, <1>3, <2>1, <2>5 DEF Inv, JobsKnown, JobsOK, Jobs
    <3>. QED  BY <2>1, <2>5, <2>6, <3>1 DEF Inv, JobsKnown, JobsAreCommitted, JobsOK
  <2>13. Known'
    <3>1. Rows' \subseteq Rows \cup new
      BY <2>8 DEF Rows
    <3>2. \A t \in Tasks \ used' : given'[t] = {}
      BY <2>1 DEF Inv, Known
    <3>. QED  BY <2>1, <3>1, <3>2 DEF Inv, Known
  <2>14. Targets'
    BY <2>1, <2>5, <2>6 DEF Inv, Targets, Target
  <2>15. Rivalry'
    BY <2>1, <2>5, <2>6 DEF Inv, Rivalry, Open
  <2>16. Answers'
    <3>1. \A t \in Tasks \ new : given'[t] = given[t]
      BY <2>1
    <3>2. \A t \in new : given'[t] = IF req[x].at \in req[x].writes[t].conts
                                     THEN given[t] \cup {req[x].at} ELSE given[t]
      BY <2>1, <2>7, <2>8
    <3>3. \A t \in new : HasAnswers(t, req[x].writes[t].conts)
      BY DEF Inv, Answers, Complete
    <3>4. AnswersKept'
      <4>1. \A t \in Rows' \ new : t \in Rows /\ tasks'[t] = tasks[t] /\ given'[t] = given[t]
        BY <2>8, <3>1 DEF Rows
      <4>2. \A t \in new : given'[t] \subseteq tasks'[t].conts \/ t \in rivals'
        <5>. SUFFICES ASSUME NEW t \in new
                      PROVE  given'[t] \subseteq tasks'[t].conts \/ t \in rivals'
          OBVIOUS
        <5>1. tasks'[t].conts = req[x].writes[t].conts /\ rivals' = rivals
          BY <2>1, <2>8
        <5>2. given[t] \subseteq req[x].writes[t].conts \/ t \in rivals
          BY <3>3 DEF HasAnswers
        <5>. QED  BY <3>2, <5>1, <5>2
      <4>. QED  BY <2>1, <4>1, <4>2 DEF Inv, Answers, AnswersKept
    <3>5. \A y \in Apis \ {x} : Complete(req[y])'
      <4>1. \A y \in Apis \ {x}, t \in new : Open(req[y], t) => t \in rivals
        BY <2>7 DEF Inv, Rivalry, Open
      <4>2. \A y \in Apis \ {x} : req[y].pc = "update" => req[y].target \in Tasks
        BY DEF Inv, Targets, Target
      <4>3. \A y \in Apis \ {x} : DOMAIN req[y].writes \subseteq Tasks
        BY DEF Inv, Typed, Requests, Writes
      <4>. QED  BY <2>1, <2>6, <3>1, <4>1, <4>2, <4>3 DEF Inv, Answers, Complete, HasAnswers, Open
    <3>6. Complete(req[x])'
      BY <2>5, <2>6 DEF Complete
    <3>. QED  BY <3>4, <3>5, <3>6 DEF Answers
  <2>17. Removals'
    <3>1. WorkIsKept'
      BY <2>1 DEF Inv, Removals, WorkIsKept
    <3>2. \A y \in Apis : Removing(req[y])'
      <4>. SUFFICES ASSUME NEW y \in Apis, req'[y].pc = "delete", NEW t \in Tasks,
                           t \in Of(req[y].target)', tasks'[t].status # "over"
                    PROVE  t \in hired'
        BY DEF Removing, Of, Rows
      <4>1. y # x /\ req'[y] = req[y]
        BY <2>5, <2>6
      <4>2. CASE t \in new
        BY <2>1, <2>8, <4>1, <4>2 DEF Of, View
      <4>3. CASE t \notin new
        <5>1. t \in Of(req[y].target) /\ tasks[t].status # "over"
          BY <2>8, <4>1, <4>3 DEF Of, Rows
        <5>. QED  BY <2>1, <4>1, <5>1 DEF Inv, Removals, Removing
      <4>. QED  BY <4>2, <4>3
    <3>3. work' # None /\ work'.task \in Rows' => tasks'[work'.task].status # "over"
      BY <2>1, <2>8 DEF Inv, Removals, Rows
    <3>4. \A y \in Apis : \A t \in DOMAIN req'[y].writes : req'[y].writes[t].status = "queued"
      BY <2>5, <2>6 DEF Inv, Removals
    <3>. QED  BY <3>1, <3>2, <3>3, <3>4 DEF Removals
  <2>. QED  BY <2>11, <2>12, <2>13, <2>14, <2>15, <2>16, <2>17 DEF Inv
<1>. QED  BY <1>2, <1>3

LEMMA EnqueueKeeps == ASSUME Inv, NEW x \in Apis, Enqueue(x) PROVE Inv'
<1>1. req[x] \in Requests /\ req[x].pc = "enqueue" /\ req[x].jobs \in Seq(Tasks)
  BY DEF Inv, Typed, Enqueue, Requests
<1>2. UNCHANGED <<staff, tasks, rows, now, work, history>>
  BY DEF Enqueue, clock
<1>3. CASE req[x].jobs = <<>>
  <2>1. Close(x) /\ UNCHANGED queue
    BY <1>3 DEF Enqueue
  <2>. QED  BY <1>2, <2>1, CloseIsQuiet, QuietKeeps
<1>4. CASE req[x].jobs # <<>>
  <2>. DEFINE r == [req[x] EXCEPT !.jobs = Tail(req[x].jobs)]
  <2>1. queue' = queue \cup {Head(req[x].jobs)} /\ req' = [req EXCEPT ![x] = r]
    BY <1>4 DEF Enqueue, Inv, Typed
  <2>2. Tail(req[x].jobs) \in Seq(Tasks)
    BY <1>1, <1>4
  <2>3. /\ r \in Requests /\ r.pc = "enqueue" /\ r.writes = req[x].writes
        /\ r.jobs = Tail(req[x].jobs)
    BY <1>1, <2>2 DEF Requests
  <2>. HIDE DEF r
  <2>4. Head(req[x].jobs) \in Jobs(req[x]) /\ Jobs(r) \subseteq Jobs(req[x])
    BY <1>1, <1>4, <2>3 DEF Jobs
  <2>5. Jobs(req[x]) \subseteq used
    BY <1>1 DEF Inv, JobsKnown, JobsOK
  <2>6. /\ req' \in [Apis -> Requests]
        /\ req'[x] = r
        /\ \A y \in Apis \ {x} : req'[y] = req[y]
    BY <2>1, <2>3, ReplacedIs DEF Replaced, Inv
  <2>7. UNCHANGED <<staff, tasks, rows, now, work, used, given, rivals, hired, lost>>
    BY <1>2 DEF history
  <2>8. Rows' = Rows /\ \A a : Of(a)' = Of(a)
    BY <2>7 DEF Rows, Of
  <2>9. Typed'
    BY <2>6, <2>7 DEF Inv, Typed
  <2>10. JobsKnown'
    <3>1. queue' \subseteq used' /\ Jobs(r) \subseteq used'
      BY <2>1, <2>4, <2>5, <2>7 DEF Inv, JobsKnown, JobsAreCommitted
    <3>2. \A y \in Apis \ {x} : JobsOK(req[y])'
      BY <2>6, <2>7 DEF Inv, JobsKnown, JobsOK, Jobs
    <3>3. JobsOK(req[x])'
      BY <2>3, <2>6, <3>1 DEF JobsOK, Jobs
    <3>. QED  BY <3>1, <3>2, <3>3 DEF JobsKnown, JobsAreCommitted
  <2>11. Known' /\ Targets'
    BY <2>3, <2>6, <2>7, <2>8 DEF Inv, Known, Targets, Target
  <2>12. Rivalry'
    BY <2>3, <2>6, <2>7 DEF Inv, Rivalry, Open
  <2>13. Answers'
    BY <2>3, <2>6, <2>7, <2>8 DEF Inv, Answers, AnswersKept, Complete, HasAnswers
  <2>14. Removals'
    BY <2>3, <2>6, <2>7, <2>8 DEF Inv, Removals, Removing, WorkIsKept
  <2>. QED  BY <2>9, <2>10, <2>11, <2>12, <2>13, <2>14 DEF Inv
<1>. QED  BY <1>3, <1>4

\* The check of delete_agent has found no unfinished task.
LEMMA StartRemoveKeeps ==
  ASSUME Inv, NEW x \in Apis, NEW a \in Agents, StartRemove(x, a)
  PROVE  Inv'
<1>. DEFINE r == [Idle EXCEPT !.pc = "delete", !.kind = "remove", !.target = a, !.at = now']
<1>1. now' = now + 1 /\ req' = [req EXCEPT ![x] = r]
  BY DEF StartRemove, Begin, Idle
<1>2. now' \in Nat
  BY <1>1 DEF Inv, Typed
<1>3. r \in Requests
  BY <1>2, IdleOK DEF Requests
<1>4. r.writes = Idle.writes /\ r.jobs = Idle.jobs /\ r.pc = "delete" /\ r.target = a
  BY IdleOK DEF Requests
<1>. HIDE DEF r
<1>5. DOMAIN r.writes = {} /\ Jobs(r) = {}
  BY <1>4, IdleIsQuiet DEF Jobs
<1>6. UNCHANGED <<staff, tasks, rows, queue, work, used, given, rivals, hired, lost>>
  BY DEF StartRemove, history
<1>7. /\ req' \in [Apis -> Requests]
      /\ req'[x] = r
      /\ \A y \in Apis \ {x} : req'[y] = req[y]
  BY <1>1, <1>3, ReplacedIs DEF Replaced, Inv
<1>8. Rows' = Rows /\ \A b : Of(b)' = Of(b)
  BY <1>6 DEF Rows, Of
<1>9. Typed'
  BY <1>2, <1>6, <1>7 DEF Inv, Typed
<1>10. JobsKnown'
  BY <1>4, <1>5, <1>6, <1>7 DEF Inv, JobsKnown, JobsAreCommitted, JobsOK, Jobs
<1>11. Known' /\ Targets'
  BY <1>4, <1>6, <1>7, <1>8 DEF Inv, Known, Targets, Target
<1>12. Rivalry'
  BY <1>4, <1>5, <1>6, <1>7 DEF Inv, Rivalry, Open
<1>13. Answers'
  BY <1>4, <1>5, <1>6, <1>7, <1>8 DEF Inv, Answers, AnswersKept, Complete, HasAnswers
<1>14. Removals'
  <2>1. \A t \in Of(a) : tasks[t].status = "over"
    BY DEF StartRemove, Busy
  <2>. QED  BY <1>4, <1>5, <1>6, <1>7, <1>8, <2>1 DEF Inv, Removals, Removing, WorkIsKept
<1>. QED  BY <1>9, <1>10, <1>11, <1>12, <1>13, <1>14 DEF Inv

\* The removal: of the agent's unfinished tasks only those are left that were
\* committed since the check.
LEMMA DeleteKeeps == ASSUME Inv, NEW x \in Apis, Delete(x) PROVE Inv'
<1>. DEFINE a == req[x].target
<1>1. /\ req[x].pc = "delete"
      /\ staff' = staff \ {a}
      /\ tasks' = [t \in Tasks |-> IF t \in Of(a) THEN None ELSE tasks[t]]
      /\ lost' = lost \cup {t \in Of(a) : tasks[t].status # "over"}
      /\ UNCHANGED <<rows, now, queue, work, used, given, rivals, hired>>
  BY DEF Delete, clock
<1>2. req' = [req EXCEPT ![x] = Idle]
  BY DEF Delete, Close
<1>3. /\ req' \in [Apis -> Requests]
      /\ req'[x] = Idle
      /\ \A y \in Apis \ {x} : req'[y] = req[y]
  BY <1>2, IdleOK, ReplacedIs DEF Replaced, Inv
<1>4. Rows' \subseteq Rows /\ \A t \in Rows' : tasks'[t] = tasks[t]
  BY <1>1 DEF Rows
<1>5. \A b, t : t \in Of(b)' => t \in Of(b) /\ tasks'[t] = tasks[t]
  BY <1>4 DEF Of
<1>6. Typed'
  <2>1. tasks' \in [Tasks -> TaskRows \cup {None}]
    BY <1>1 DEF Inv, Typed
  <2>. QED  BY <1>1, <1>3, <2>1 DEF Inv, Typed
<1>7. JobsKnown'
  BY <1>1, <1>3, IdleIsQuiet DEF Inv, JobsKnown, JobsAreCommitted, JobsOK, Jobs
<1>8. Known' /\ Targets'
  BY <1>1, <1>3, <1>4, IdleIsQuiet DEF Inv, Known, Targets, Target
<1>9. Rivalry'
  BY <1>1, <1>3, IdleIsQuiet DEF Inv, Rivalry, Open
<1>10. Answers'
  BY <1>1, <1>3, <1>4, IdleIsQuiet DEF Inv, Answers, AnswersKept, Complete, HasAnswers
<1>11. Removals'
  <2>1. WorkIsKept'
    BY <1>1 DEF Inv, Removals, Removing, WorkIsKept
  <2>2. \A y \in Apis : Removing(req[y])'
    BY <1>1, <1>3, <1>5, IdleIsQuiet DEF Inv, Removals, Removing
  <2>3. work' # None /\ work'.task \in Rows' => tasks'[work'.task].status # "over"
    BY <1>1, <1>4 DEF Inv, Removals
  <2>4. \A y \in Apis : \A t \in DOMAIN req'[y].writes : req'[y].writes[t].status = "queued"
    BY <1>3, IdleIsQuiet DEF Inv, Removals
  <2>. QED  BY <2>1, <2>2, <2>3, <2>4 DEF Removals
<1>. QED  BY <1>6, <1>7, <1>8, <1>9, <1>10, <1>11 DEF Inv

-----------------------------------------------------------------------------
(* The worker.  It changes the status of a task, and of one that is        *)
(* finished only by taking it from "queued" to "working".                  *)

LEMMA StatusKeeps ==
  ASSUME Inv, NEW t \in Rows, NEW status,
         status \in {"working", "needs-input", "over"},
         tasks' = [tasks EXCEPT ![t].status = status],
         tasks[t].status # "over",
         \/ work' = None
         \/ status # "over" /\ work' \in [task : {t}, at : Nat],
         rows' \subseteq Msgs, now' \in Nat, queue' \subseteq queue,
         UNCHANGED <<staff, req, history>>
  PROVE  Inv'
<1>1. UNCHANGED <<staff, req, used, given, rivals, hired, lost>>
  BY DEF history
<1>2. t \in Tasks /\ tasks[t] \in TaskRows
  BY DEF Inv, Typed, Rows
<1>. DEFINE row == [tasks[t] EXCEPT !.status = status]
<1>3. tasks' = [tasks EXCEPT ![t] = row]
  OBVIOUS
<1>4. /\ row \in TaskRows /\ row.agent = tasks[t].agent /\ row.conts = tasks[t].conts
      /\ row.status = status
  BY <1>2 DEF TaskRows
<1>. HIDE DEF row
<1>5. /\ tasks' \in [Tasks -> TaskRows \cup {None}]
      /\ tasks'[t] = row /\ \A u \in Tasks \ {t} : tasks'[u] = tasks[u]
  BY <1>2, <1>3, <1>4 DEF Inv, Typed
<1>6. Rows' \subseteq Rows
  BY <1>5 DEF Rows
<1>7. Typed'
  <2>1. work' # None => work' \in [task : Tasks, at : Nat]
    BY <1>2
  <2>. QED  BY <1>1, <1>5, <2>1 DEF Inv, Typed
<1>8. JobsKnown'
  BY <1>1 DEF Inv, JobsKnown, JobsAreCommitted, JobsOK, Jobs
<1>9. Known' /\ Targets'
  BY <1>1, <1>6 DEF Inv, Known, Targets, Target
<1>10. Rivalry'
  BY <1>1 DEF Inv, Rivalry, Open
<1>11. Answers'
  <2>1. \A u \in Rows' : tasks'[u].conts = tasks[u].conts
    BY <1>4, <1>5, <1>6 DEF Rows
  <2>. QED  BY <1>1, <1>6, <2>1 DEF Inv, Answers, AnswersKept, Complete, HasAnswers
<1>12. Removals'
  <2>1. \A b, u : u \in Of(b)' => u \in Of(b)
    BY <1>4, <1>5, <1>6 DEF Of, Rows
  <2>2. \A u \in Rows' : tasks'[u].status # "over" => tasks[u].status # "over"
    BY <1>4, <1>5, <1>6 DEF Rows
  <2>3. \A y \in Apis : Removing(req[y])'
    <3>1. \A b : Of(b)' \subseteq Rows'
      BY DEF Of
    <3>. QED  BY <1>1, <2>1, <2>2, <3>1 DEF Inv, Removals, Removing
  <2>4. work' # None /\ work'.task \in Rows' => tasks'[work'.task].status # "over"
    BY <1>4, <1>5
  <2>. QED  BY <1>1, <2>3, <2>4 DEF Inv, Removals, WorkIsKept
<1>. QED  BY <1>7, <1>8, <1>9, <1>10, <1>11, <1>12 DEF Inv

\* The worker is free, or stays as it is, and no row changes.
LEMMA WorkerKeeps ==
  ASSUME Inv, work' \in {work, None}, queue' \subseteq queue,
         UNCHANGED <<staff, tasks, rows, now, req, history>>
  PROVE  Inv'
<1>1. UNCHANGED <<staff, tasks, rows, now, req, used, given, rivals, hired, lost>>
  BY DEF history
<1>2. Rows' = Rows /\ \A a : Of(a)' = Of(a)
  BY <1>1 DEF Rows, Of
<1>3. Typed' /\ Known' /\ Targets'
  BY <1>1, <1>2 DEF Inv, Typed, Known, Targets, Target
<1>4. JobsKnown'
  BY <1>1 DEF Inv, JobsKnown, JobsAreCommitted, JobsOK, Jobs
<1>5. Rivalry' /\ Answers'
  BY <1>1, <1>2 DEF Inv, Rivalry, Open, Answers, AnswersKept, Complete, HasAnswers
<1>6. Removals'
  BY <1>1, <1>2 DEF Inv, Removals, Removing, WorkIsKept
<1>. QED  BY <1>3, <1>4, <1>5, <1>6 DEF Inv

LEMMA TakeKeeps == ASSUME Inv, NEW t \in Tasks, Take(t) PROVE Inv'
<1>1. queue' \subseteq queue /\ UNCHANGED <<staff, rows, req, history>>
  BY DEF Take
<1>2. CASE t \in Rows /\ tasks[t].status = "queued"
  <2>1. /\ tasks' = [tasks EXCEPT ![t].status = "working"]
        /\ work' = [task |-> t, at |-> now + 1] /\ now' = now + 1
    BY <1>2 DEF Take
  <2>2. now' \in Nat /\ work' \in [task : {t}, at : Nat] /\ rows' \subseteq Msgs
    BY <1>1, <2>1 DEF Inv, Typed
  <2>. QED  BY <1>1, <1>2, <2>1, <2>2, StatusKeeps
<1>3. CASE ~(t \in Rows /\ tasks[t].status = "queued")
  BY <1>1, <1>3, WorkerKeeps DEF Take
<1>. QED  BY <1>2, <1>3

LEMMA EndKeeps == ASSUME Inv, End PROVE Inv'
<1>1. work # None /\ work' = None /\ UNCHANGED <<staff, now, req, queue, history>>
  BY DEF End, clock
<1>2. CASE work.task \in Rows
  <2>1. PICK status \in {"over", "needs-input"} :
           tasks' = [tasks EXCEPT ![work.task].status = status]
    BY <1>2 DEF End
  <2>2. rows' \subseteq Msgs /\ now' \in Nat
    BY <1>1, <1>2 DEF End, Inv, Typed, Msg, Msgs
  <2>3. tasks[work.task].status # "over"
    BY <1>1, <1>2 DEF Inv, Removals
  <2>. QED  BY <1>1, <1>2, <2>1, <2>2, <2>3, StatusKeeps
<1>3. CASE work.task \notin Rows
  BY <1>1, <1>3, WorkerKeeps DEF End
<1>. QED  BY <1>2, <1>3

-----------------------------------------------------------------------------
(* The theorems.                                                           *)

LEMMA InvStep == Inv /\ [Next]_vars => Inv'
<1>. SUFFICES ASSUME Inv, [Next]_vars PROVE Inv'
  OBVIOUS
<1>1. ASSUME NEW x \in Apis,
             \/ StartChat(x) \/ LoadHistory(x) \/ AsksForTools(x) \/ Replies(x) \/ ModelFails(x)
             \/ Look(x) \/ ToolFails(x) \/ UpdateFails(x) \/ RequestDies(x)
      PROVE  Inv'
  BY <1>1, QuietActions
<1>2. ASSUME NEW x \in Apis, NEW t \in Tasks, NEW a \in Agents, Dispatch(x, t, a)
      PROVE  Inv'
  BY <1>2, DispatchKeeps
<1>3. ASSUME NEW x \in Apis, NEW t \in Tasks, Resume(x, t) \/ StartPanel(x, t)
      PROVE  Inv'
  BY <1>3, ResumeKeeps, StartPanelKeeps
<1>4. ASSUME NEW x \in Apis, Update(x) \/ Save(x) \/ Enqueue(x) \/ Delete(x)
      PROVE  Inv'
  BY <1>4, UpdateKeeps, SaveKeeps, EnqueueKeeps, DeleteKeeps
<1>5. ASSUME NEW x \in Apis, NEW a \in Agents, StartRemove(x, a)
      PROVE  Inv'
  BY <1>5, StartRemoveKeeps
<1>6. ASSUME NEW t \in Tasks, Take(t)
      PROVE  Inv'
  BY <1>6, TakeKeeps
<1>7. CASE End
  BY <1>7, EndKeeps
<1>8. CASE UNCHANGED vars
  BY <1>8, WorkerKeeps DEF vars, clock
<1>. QED  BY <1>1, <1>2, <1>3, <1>4, <1>5, <1>6, <1>7, <1>8 DEF Next

\* Whatever fails and in whatever order requests are open, a job is of a task that has
\* been committed (run_chat enqueues after the commit only what its transaction wrote).
THEOREM JobsCommitted == Spec => []JobsAreCommitted
<1>1. Inv => JobsAreCommitted
  BY DEF Inv, JobsKnown
<1>. QED  BY <1>1, InitInv, InvStep, PTL DEF Spec

\* An answer the user has been told is stored stays with its task, unless two requests
\* had the task open at once (request_continue reads the answers and writes them back).
THEOREM AnswersAreKept == Spec => []AnswersKept
<1>1. Inv => AnswersKept
  BY DEF Inv, Answers
<1>. QED  BY <1>1, InitInv, InvStep, PTL DEF Spec

\* The removal of an agent deletes no unfinished task but those committed or woken
\* between its check and its delete (delete_agent locks nothing).
THEOREM WorkKept == Spec => []WorkIsKept
<1>1. Inv => WorkIsKept
  BY DEF Inv, Removals
<1>. QED  BY <1>1, InitInv, InvStep, PTL DEF Spec

-----------------------------------------------------------------------------
(* Neighbours of one role become one message.                              *)

\* Induction over numbers: a set of them that is not empty has a least one.
LEMMA LeastNumber ==
  ASSUME NEW T, T \subseteq Nat, T # {}
  PROVE  \E n \in T : \A m \in T : n <= m
<1>1. PICK n \in T : \A m \in T : <<m, n>> \notin OpToRel(<, Nat)
  BY NatLessThanWellFounded, WFMin
<1>2. \A m \in T : ~(m < n)
  BY <1>1 DEF OpToRel
<1>. QED  BY <1>2

\* The message m after those that are merged already.
Onto(merged, m) ==
  IF merged # <<>> /\ Last(merged).role = m.role
  THEN Front(merged) \o <<[m EXCEPT !.parts = Last(merged).parts \o @]>>
  ELSE Append(merged, m)

\* The recursion of the fold over the positions of D.
Folds(iter, D, ms) ==
  iter = [s \in SUBSET D |-> IF s = {} THEN <<>> ELSE Onto(iter[s \ {Max(s)}], ms[Max(s)])]

\* The fold of the merge has a solution, so that it can be unfolded.
LEMMA FoldExists ==
  ASSUME NEW ms, NEW N \in Nat
  PROVE  \E iter : Folds(iter, 1..N, ms)
<1>. DEFINE T == {n \in Nat : ~\E iter : Folds(iter, 1..n, ms)}
<1>. SUFFICES ASSUME T # {} PROVE FALSE
  OBVIOUS
<1>1. PICK n \in T : \A m \in T : n <= m
  <2>1. T \subseteq Nat
    OBVIOUS
  <2>. HIDE DEF T
  <2>. QED  BY <2>1, LeastNumber
<1>2. n # 0
  <2>1. 1..0 = {} /\ SUBSET {} = {{}}
    OBVIOUS
  <2>2. Folds([s \in SUBSET {} |-> <<>>], {}, ms)
    BY <2>1 DEF Folds
  <2>. QED  BY <2>1, <2>2
<1>3. n - 1 \in Nat /\ n - 1 \notin T
  BY <1>1, <1>2
<1>4. PICK g : Folds(g, 1..(n - 1), ms)
  BY <1>3
<1>. DEFINE h == [s \in SUBSET (1..n) |-> IF n \in s THEN Onto(g[s \ {n}], ms[n]) ELSE g[s]]
<1>5. ASSUME NEW s \in SUBSET (1..n)
      PROVE  h[s] = IF s = {} THEN <<>> ELSE Onto(h[s \ {Max(s)}], ms[Max(s)])
  <2>1. CASE n \in s
    <3>1. Max(s) = n
      <4>1. n \in s /\ \A y \in s : n >= y
        BY <2>1
      <4>2. \A x \in s : (\A y \in s : x >= y) => x = n
        BY <2>1
      <4>. QED  BY <4>1, <4>2 DEF Max
    <3>2. s \ {n} \in SUBSET (1..n) /\ n \notin s \ {n}
      OBVIOUS
    <3>3. h[s \ {n}] = g[s \ {n}]
      BY <3>2
    <3>. QED  BY <2>1, <3>1, <3>3
  <2>2. CASE n \notin s
    <3>1. s \in SUBSET (1..(n - 1)) /\ h[s] = g[s]
      BY <1>3, <2>2
    <3>2. s \ {Max(s)} \in SUBSET (1..n) /\ n \notin s \ {Max(s)}
      BY <2>2
    <3>3. h[s \ {Max(s)}] = g[s \ {Max(s)}]
      BY <3>2
    <3>. HIDE DEF h
    <3>. QED  BY <1>4, <3>1, <3>3 DEF Folds
  <2>. QED  BY <2>1, <2>2
<1>6. Folds(h, 1..n, ms)
  <2>1. h = [s \in SUBSET (1..n) |-> h[s]]
    OBVIOUS
  <2>. HIDE DEF h
  <2>. QED  BY <1>5, <2>1 DEF Folds
<1>. QED  BY <1>1, <1>6

\* The messages that are merged, after each one.
LEMMA MergeSteps ==
  ASSUME NEW S, NEW ms \in Seq(S)
  PROVE  \E f : /\ f[0] = <<>>
                /\ \A k \in 1..Len(ms) : f[k] = Onto(f[k - 1], ms[k])
                /\ Merge(ms) = f[Len(ms)]
<1>. DEFINE w == CHOOSE iter :
       iter = [s \in SUBSET (DOMAIN ms) |->
                 IF s = {} THEN <<>> ELSE Onto(iter[s \ {Max(s)}], ms[Max(s)])]
<1>1. DOMAIN ms = 1..Len(ms) /\ Len(ms) \in Nat
  OBVIOUS
<1>2. Folds(w, DOMAIN ms, ms)
  <2>1. \E iter : Folds(iter, DOMAIN ms, ms)
    BY <1>1, FoldExists
  <2>. QED  BY <2>1 DEF Folds
<1>3. Merge(ms) = w[DOMAIN ms]
  BY DEF Merge, FoldLeft, MapThenFoldSet, Onto
<1>. HIDE DEF w
<1>. DEFINE f == [k \in 0..Len(ms) |-> w[1..k]]
<1>4. f[0] = <<>>
  <2>1. 1..0 = {} /\ {} \in SUBSET (DOMAIN ms)
    OBVIOUS
  <2>. QED  BY <1>1, <1>2, <2>1 DEF Folds
<1>5. ASSUME NEW k \in 1..Len(ms) PROVE f[k] = Onto(f[k - 1], ms[k])
  <2>1. k \in 0..Len(ms) /\ k - 1 \in 0..Len(ms) /\ 1..k \in SUBSET (DOMAIN ms) /\ 1..k # {}
    <3>1. k \in 1..k /\ k \in 0..Len(ms) /\ k - 1 \in 0..Len(ms)
      BY <1>1
    <3>2. \A j \in 1..k : j \in 1..Len(ms)
      BY <1>1
    <3>3. 1..k \in SUBSET (DOMAIN ms)
      BY <1>1, <3>2
    <3>. QED  BY <3>1, <3>3
  <2>2. Max(1..k) = k
    <3>1. k \in 1..k /\ \A y \in 1..k : k >= y
      OBVIOUS
    <3>2. \A x \in 1..k : (\A y \in 1..k : x >= y) => x = k
      OBVIOUS
    <3>. QED  BY <3>1, <3>2 DEF Max
  <2>3. (1..k) \ {k} = 1..(k - 1)
    OBVIOUS
  <2>4. w[1..k] = Onto(w[(1..k) \ {Max(1..k)}], ms[Max(1..k)])
    BY <1>2, <2>1 DEF Folds
  <2>. QED  BY <2>1, <2>2, <2>3, <2>4
<1>6. Merge(ms) = f[Len(ms)]
  BY <1>1, <1>3
<1>. HIDE DEF f
<1>. QED  BY <1>4, <1>5, <1>6

Speeches == [role : {"user", "assistant"}, parts : Seq(Msgs)]

\* A reply directly follows its own request.
Follows(p, k) ==
  p[k].role = "assistant" =>
    /\ Len(p[k].parts) = 1
    /\ k > 1 => /\ p[k - 1].role = "user"
                /\ Last(p[k - 1].parts) = Msg("user", p[k].parts[1].at)

\* A conversation, and one whose neighbours are merged.
Talk(p) ==
  /\ p \in Seq(Speeches)
  /\ \A k \in 1..Len(p) : Len(p[k].parts) > 0 /\ Follows(p, k)
TakesTurns(p) == \A k \in 2..Len(p) : p[k].role # p[k - 1].role

\* One more message keeps it a conversation, and takes the floor.
LEMMA OntoKeeps ==
  ASSUME NEW p, Talk(p), TakesTurns(p), Len(p) > 0,
         NEW m \in Speeches, Len(m.parts) > 0,
         m.role = "assistant" =>
           /\ Len(m.parts) = 1 /\ Last(p).role = "user"
           /\ Last(Last(p).parts) = Msg("user", m.parts[1].at)
  PROVE  /\ Talk(Onto(p, m)) /\ TakesTurns(Onto(p, m)) /\ Len(Onto(p, m)) > 0
         /\ Onto(p, m)[1].role = p[1].role
         /\ Last(Onto(p, m)).role = m.role
         /\ Last(Last(Onto(p, m)).parts) = Last(m.parts)
<1>. DEFINE L == Len(p)
<1>1. p \in Seq(Speeches) /\ L \in Nat /\ L \in 1..L /\ p # <<>>
  BY DEF Talk
<1>2. \A k \in 1..L : p[k] \in Speeches
  BY <1>1
<1>3. p[L].parts \in Seq(Msgs) /\ m.parts \in Seq(Msgs)
  BY <1>1, <1>2 DEF Speeches
<1>4. CASE p[L].role = m.role
  <2>. DEFINE both == p[L].parts \o m.parts
              last == [m EXCEPT !.parts = both]
              n == Front(p) \o <<last>>
  <2>1. Onto(p, m) = n
    BY <1>1, <1>4 DEF Onto, Last
  <2>2. m.role = "user"
    BY <1>1, <1>4 DEF Speeches, Last
  <2>3. /\ both \in Seq(Msgs) /\ Len(both) = Len(p[L].parts) + Len(m.parts)
        /\ both[Len(both)] = m.parts[Len(m.parts)] /\ Len(both) > 0
    <3>1. /\ both \in Seq(Msgs) /\ Len(both) = Len(p[L].parts) + Len(m.parts)
          /\ \A i \in 1..(Len(p[L].parts) + Len(m.parts)) :
               both[i] = IF i <= Len(p[L].parts) THEN p[L].parts[i]
                         ELSE m.parts[i - Len(p[L].parts)]
      BY <1>3, ConcatProperties
    <3>2. Len(p[L].parts) \in Nat /\ Len(m.parts) \in Nat
      BY <1>3
    <3>. HIDE DEF both
    <3>. DEFINE a == Len(p[L].parts)
                b == Len(m.parts)
    <3>3. a + b \in 1..(a + b) /\ ~(a + b <= a) /\ (a + b) - a = b /\ a + b > 0
      <4>1. a \in Nat /\ b \in Nat /\ b > 0
        BY <3>2
      <4>. HIDE DEF a, b
      <4>. QED  BY <4>1
    <3>4. both[a + b] = m.parts[b]
      BY <3>1, <3>3
    <3>. QED  BY <3>1, <3>3, <3>4
  <2>. HIDE DEF both
  <2>4. last \in Speeches /\ last.role = "user" /\ last.parts = both
    BY <2>2, <2>3 DEF Speeches
  <2>. HIDE DEF last
  <2>5. /\ Front(p) \in Seq(Speeches) /\ Len(Front(p)) = L - 1
        /\ \A k \in 1..(L - 1) : Front(p)[k] = p[k]
    <3>1. \A k \in 1..(L - 1) : p[k] \in Speeches
      BY <1>1, <1>2
    <3>2. L - 1 \in Int
      BY <1>1
    <3>3. /\ SubSeq(p, 1, L - 1) \in Seq(Speeches)
          /\ Len(SubSeq(p, 1, L - 1)) = IF 1 <= L - 1 THEN (L - 1) - 1 + 1 ELSE 0
          /\ \A i \in 1..((L - 1) - 1 + 1) : SubSeq(p, 1, L - 1)[i] = p[1 + i - 1]
      BY <3>1, <3>2, SubSeqProperties
    <3>4. \A i \in 1..(L - 1) : i \in 1..((L - 1) - 1 + 1) /\ 1 + i - 1 = i
      BY <1>1
    <3>5. (IF 1 <= L - 1 THEN (L - 1) - 1 + 1 ELSE 0) = L - 1
      <4>1. L \in Nat /\ L >= 1
        BY <1>1
      <4>. HIDE DEF L
      <4>. QED  BY <4>1
    <3>6. Front(p) = SubSeq(p, 1, L - 1)
      BY DEF Front
    <3>. HIDE DEF L
    <3>7. \A i \in 1..(L - 1) : SubSeq(p, 1, L - 1)[i] = p[i]
      BY <3>3, <3>4
    <3>. QED  BY <3>3, <3>5, <3>6, <3>7
  <2>6. /\ n \in Seq(Speeches) /\ Len(n) = L /\ n[L] = last
        /\ \A k \in 1..(L - 1) : n[k] = p[k]
    <3>1. <<last>> \in Seq(Speeches) /\ Len(<<last>>) = 1 /\ <<last>>[1] = last
      BY <2>4
    <3>2. /\ n \in Seq(Speeches) /\ Len(n) = (L - 1) + 1
          /\ \A i \in 1..((L - 1) + 1) : n[i] = IF i <= L - 1 THEN Front(p)[i]
                                              ELSE <<last>>[i - (L - 1)]
      BY <2>5, <3>1, ConcatProperties
    <3>. HIDE DEF n
    <3>3. n[L] = last
      <4>1. L \in 1..((L - 1) + 1) /\ ~(L <= L - 1) /\ L - (L - 1) = 1
        BY <1>1
      <4>. QED  BY <3>1, <3>2, <4>1
    <3>4. ASSUME NEW k \in 1..(L - 1) PROVE n[k] = p[k]
      <4>1. k \in 1..((L - 1) + 1) /\ k <= L - 1
        BY <1>1
      <4>. QED  BY <2>5, <3>2, <4>1
    <3>. QED  BY <1>1, <3>2, <3>3, <3>4
  <2>. HIDE DEF n
  <2>7. \A k \in 1..L : n[k].role = p[k].role
    <3>1. \A k \in 1..L : k = L \/ k \in 1..(L - 1)
      BY <1>1
    <3>. QED  BY <1>4, <2>2, <2>4, <2>6, <3>1
  <2>8. ASSUME NEW k \in 1..L PROVE Len(n[k].parts) > 0 /\ Follows(n, k)
    <3>1. CASE k = L
      BY <2>3, <2>4, <2>6, <3>1 DEF Follows
    <3>2. CASE k # L
      <4>1. k \in 1..(L - 1) /\ (k > 1 => k - 1 \in 1..(L - 1))
        BY <1>1, <3>2
      <4>2. n[k] = p[k] /\ (k > 1 => n[k - 1] = p[k - 1])
        BY <2>6, <4>1
      <4>3. Len(p[k].parts) > 0 /\ Follows(p, k)
        BY DEF Talk
      <4>. QED  BY <4>2, <4>3 DEF Follows
    <3>. QED  BY <3>1, <3>2
  <2>9. Talk(n)
    BY <2>6, <2>8 DEF Talk
  <2>10. TakesTurns(n)
    <3>1. \A k \in 2..L : k \in 1..L /\ k - 1 \in 1..L
      BY <1>1
    <3>. QED  BY <2>6, <2>7, <3>1 DEF TakesTurns
  <2>11. n[1].role = p[1].role
    BY <1>1, <2>7
  <2>. QED  BY <1>1, <2>1, <2>2, <2>3, <2>4, <2>6, <2>9, <2>10, <2>11 DEF Last
<1>5. CASE p[L].role # m.role
  <2>. DEFINE n == Append(p, m)
  <2>1. Onto(p, m) = n
    BY <1>5 DEF Onto, Last
  <2>2. /\ n \in Seq(Speeches) /\ Len(n) = L + 1 /\ n[L + 1] = m
        /\ \A k \in 1..L : n[k] = p[k]
    BY <1>1
  <2>. HIDE DEF n
  <2>3. ASSUME NEW k \in 1..(L + 1) PROVE Len(n[k].parts) > 0 /\ Follows(n, k)
    <3>1. CASE k = L + 1
      <4>1. n[k] = m /\ k - 1 = L /\ n[L] = p[L]
        BY <1>1, <2>2, <3>1
      <4>. QED  BY <4>1 DEF Follows, Last
    <3>2. CASE k # L + 1
      <4>1. k \in 1..L /\ (k > 1 => k - 1 \in 1..L)
        BY <1>1, <3>2
      <4>2. n[k] = p[k] /\ (k > 1 => n[k - 1] = p[k - 1])
        BY <2>2, <4>1
      <4>3. Len(p[k].parts) > 0 /\ Follows(p, k)
        BY <4>1 DEF Talk
      <4>. QED  BY <4>2, <4>3 DEF Follows
    <3>. QED  BY <3>1, <3>2
  <2>4. Talk(n)
    BY <2>2, <2>3 DEF Talk
  <2>5. TakesTurns(n)
    <3>. SUFFICES ASSUME NEW k \in 2..(L + 1) PROVE n[k].role # n[k - 1].role
      BY <2>2 DEF TakesTurns
    <3>1. CASE k = L + 1
      <4>1. n[k] = m /\ k - 1 = L /\ n[L] = p[L]
        BY <1>1, <2>2, <3>1
      <4>. QED  BY <1>5, <4>1
    <3>2. CASE k # L + 1
      <4>1. k \in 2..L /\ k \in 1..L /\ k - 1 \in 1..L
        BY <1>1, <3>2
      <4>. QED  BY <2>2, <4>1 DEF TakesTurns
    <3>. QED  BY <3>1, <3>2
  <2>6. n[1].role = p[1].role
    BY <1>1, <2>2
  <2>. QED  BY <1>1, <2>1, <2>2, <2>4, <2>5, <2>6 DEF Last
<1>. QED  BY <1>4, <1>5

\* What _merge_consecutive makes of a conversation.
LEMMA MergeKeeps ==
  ASSUME NEW ms, Talk(ms)
  PROVE  /\ Talk(Merge(ms)) /\ TakesTurns(Merge(ms))
         /\ ms = <<>> => Merge(ms) = <<>>
         /\ ms # <<>> => /\ Len(Merge(ms)) > 0 /\ Merge(ms)[1].role = ms[1].role
                         /\ Last(Merge(ms)).role = Last(ms).role
<1>1. ms \in Seq(Speeches) /\ Len(ms) \in Nat
  BY DEF Talk
<1>2. PICK f : /\ f[0] = <<>>
               /\ \A k \in 1..Len(ms) : f[k] = Onto(f[k - 1], ms[k])
               /\ Merge(ms) = f[Len(ms)]
  BY <1>1, MergeSteps
<1>. DEFINE OK(k) ==
       /\ Talk(f[k]) /\ TakesTurns(f[k]) /\ Len(f[k]) > 0
       /\ f[k][1].role = ms[1].role /\ Last(f[k]).role = ms[k].role
       /\ Last(Last(f[k]).parts) = Last(ms[k].parts)
<1>3. \A k \in 1..Len(ms) : OK(k)
  <2>. DEFINE T == {k \in 1..Len(ms) : ~OK(k)}
  <2>. SUFFICES ASSUME T # {} PROVE FALSE
    OBVIOUS
  <2>1. PICK k \in T : \A m \in T : k <= m
    <3>1. T \subseteq Nat
      OBVIOUS
    <3>. HIDE DEF T
    <3>. QED  BY <3>1, LeastNumber
  <2>2. k \in 1..Len(ms) /\ ~OK(k)
    OBVIOUS
  <2>3. ms[k] \in Speeches /\ Len(ms[k].parts) > 0 /\ Follows(ms, k)
    BY <1>1, <2>2 DEF Talk
  <2>4. CASE k = 1
    <3>1. f[1] = <<ms[1]>>
      <4>1. f[1] = Onto(<<>>, ms[1])
        <5>1. 1 - 1 = 0
          OBVIOUS
        <5>. QED  BY <1>2, <2>2, <2>4, <5>1
      <4>. QED  BY <4>1 DEF Onto
    <3>2. <<ms[1]>> \in Seq(Speeches) /\ Len(<<ms[1]>>) = 1 /\ <<ms[1]>>[1] = ms[1]
      BY <2>3, <2>4
    <3>3. \A j \in 1..1 : j = 1
      OBVIOUS
    <3>4. Talk(f[1])
      BY <2>3, <2>4, <3>1, <3>2, <3>3 DEF Talk, Follows
    <3>5. TakesTurns(f[1])
      BY <3>1, <3>2 DEF TakesTurns
    <3>. QED  BY <2>2, <2>4, <3>1, <3>2, <3>4, <3>5 DEF Last
  <2>5. CASE k # 1
    <3>1. k - 1 \in 1..Len(ms) /\ k > 1
      BY <1>1, <2>2, <2>5
    <3>2. OK(k - 1)
      BY <2>1, <2>2, <3>1
    <3>3. f[k] = Onto(f[k - 1], ms[k])
      BY <1>2, <2>2
    <3>4. ms[k].role = "assistant" =>
            /\ Len(ms[k].parts) = 1 /\ Last(f[k - 1]).role = "user"
            /\ Last(Last(f[k - 1]).parts) = Msg("user", ms[k].parts[1].at)
      BY <2>3, <3>1, <3>2 DEF Follows
    <3>5. OK(k)
      BY <2>3, <3>2, <3>3, <3>4, OntoKeeps
    <3>. QED  BY <2>2, <3>5
  <2>. QED  BY <2>4, <2>5
<1>4. CASE ms = <<>>
  <2>1. Merge(ms) = <<>>
    BY <1>2, <1>4
  <2>2. <<>> \in Seq(Speeches) /\ Len(<<>>) = 0 /\ 1..0 = {} /\ 2..0 = {}
    OBVIOUS
  <2>3. Talk(<<>>) /\ TakesTurns(<<>>)
    BY <2>2 DEF Talk, TakesTurns
  <2>. QED  BY <1>4, <2>1, <2>3
<1>5. CASE ms # <<>>
  <2>1. Len(ms) \in 1..Len(ms)
    BY <1>1, <1>5
  <2>. QED  BY <1>2, <1>3, <1>5, <2>1 DEF Last
<1>. QED  BY <1>4, <1>5

-----------------------------------------------------------------------------
(* The order of the rows.                                                  *)

\* Two rows of one time are the two of a turn.
Paired(W) == \A r, s \in W : r.at = s.at /\ r # s => (r.role = "user") # (s.role = "user")

\* The order of rows is strict and total where no two requests share a time.
LEMMA EarlierOrders ==
  ASSUME NEW W \in SUBSET Msgs, Paired(W)
  PROVE  /\ \A r \in W : ~Earlier(r, r)
         /\ \A r, s \in W : r # s => Earlier(r, s) \/ Earlier(s, r)
         /\ \A r, s, q \in W : Earlier(r, s) /\ Earlier(s, q) => Earlier(r, q)
<1>1. \A r \in W : r.at \in Nat
  BY DEF Msgs
<1>. QED  BY <1>1 DEF Earlier, Paired

\* The rows can be sorted: the place of each is the number of those before it.
LEMMA SortExists ==
  ASSUME NEW W \in SUBSET Msgs, IsFiniteSet(W), Paired(W)
  PROVE  \E s \in SetToSeqs(W) : \A j, k \in DOMAIN s : j < k => Earlier(s[j], s[k])
<1>. DEFINE N == Cardinality(W)
            Before(r) == {q \in W : Earlier(q, r)}
            place == [r \in W |-> Cardinality(Before(r)) + 1]
<1>1. N \in Nat
  BY FS_CardinalityType
<1>2. ASSUME NEW r \in W
      PROVE  /\ IsFiniteSet(Before(r)) /\ Cardinality(Before(r)) \in Nat
             /\ Cardinality(Before(r)) < N
  <2>1. Before(r) \in SUBSET W /\ Before(r) # W
    BY EarlierOrders
  <2>2. /\ IsFiniteSet(Before(r)) /\ Cardinality(Before(r)) <= N
        /\ N = Cardinality(Before(r)) => W = Before(r)
    BY <2>1, FS_Subset
  <2>3. Cardinality(Before(r)) \in Nat
    BY <2>2, FS_CardinalityType
  <2>. HIDE DEF Before
  <2>. QED  BY <1>1, <2>1, <2>2, <2>3
<1>3. place \in [W -> 1..N]
  <2>1. \A r \in W : Cardinality(Before(r)) + 1 \in 1..N
    <3>. HIDE DEF Before, N
    <3>. QED  BY <1>1, <1>2
  <2>. HIDE DEF Before, N
  <2>. QED  BY <2>1
<1>4. ASSUME NEW r \in W, NEW s \in W, Earlier(r, s) PROVE place[r] < place[s]
  <2>1. Before(r) \in SUBSET Before(s) /\ r \in Before(s) /\ r \notin Before(r)
    BY <1>4, EarlierOrders
  <2>2. /\ Cardinality(Before(r)) <= Cardinality(Before(s))
        /\ Cardinality(Before(s)) = Cardinality(Before(r)) => Before(s) = Before(r)
    BY <1>2, <2>1, FS_Subset
  <2>. HIDE DEF Before
  <2>. QED  BY <1>2, <2>1, <2>2
<1>. HIDE DEF place
<1>5. place \in Injection(W, 1..N)
  <2>1. \A r, s \in W : place[r] = place[s] => r = s
    <3>. SUFFICES ASSUME NEW r \in W, NEW s \in W, place[r] = place[s], r # s PROVE FALSE
      OBVIOUS
    <3>1. place[r] < place[s] \/ place[s] < place[r]
      BY <1>4, EarlierOrders
    <3>2. place[r] \in Int /\ place[s] \in Int
      BY <1>3
    <3>. QED  BY <3>1, <3>2
  <2>. QED  BY <1>3, <2>1 DEF Injection, IsInjective
<1>6. \A k \in 1..N : \E r \in W : place[r] = k
  <2>1. IsFiniteSet(1..N) /\ Cardinality(1..N) = N
    <3>1. IsFiniteSet(1..N) /\ Cardinality(1..N) = IF 1 > N THEN 0 ELSE N - 1 + 1
      BY <1>1, FS_Interval
    <3>. HIDE DEF N
    <3>. QED  BY <1>1, <3>1
  <2>2. place \in Surjection(W, 1..N)
    BY <1>5, <2>1, FS_Injection
  <2>. QED  BY <2>2 DEF Surjection
<1>. DEFINE s == [k \in 1..N |-> CHOOSE r \in W : place[r] = k]
<1>7. \A k \in 1..N : s[k] \in W /\ place[s[k]] = k
  BY <1>6
<1>8. s \in [1..N -> W]
  <2>1. s = [k \in 1..N |-> s[k]]
    OBVIOUS
  <2>. HIDE DEF s
  <2>. QED  BY <1>7, <2>1
<1>. HIDE DEF s
<1>9. s \in SetToSeqs(W)
  <2>1. \A j, k \in 1..N : j # k => s[j] # s[k]
    BY <1>7
  <2>. QED  BY <1>8, <2>1 DEF SetToSeqs
<1>10. ASSUME NEW j \in DOMAIN s, NEW k \in DOMAIN s, j < k PROVE Earlier(s[j], s[k])
  <2>1. j \in 1..N /\ k \in 1..N
    BY <1>8
  <2>2. s[j] \in W /\ s[k] \in W /\ place[s[j]] = j /\ place[s[k]] = k
    BY <1>7, <2>1
  <2>3. j \in Int /\ k \in Int
    BY <2>1
  <2>4. ~Earlier(s[k], s[j])
    BY <1>4, <1>10, <2>2, <2>3
  <2>5. s[j] # s[k]
    BY <1>10, <2>2, <2>3
  <2>. QED  BY <2>2, <2>4, <2>5, EarlierOrders
<1>. QED  BY <1>9, <1>10

\* Sorted lists every row once, and in order.
LEMMA SortedIs ==
  ASSUME NEW W \in SUBSET Msgs, IsFiniteSet(W), Paired(W)
  PROVE  /\ Sorted(W) \in Seq(W) /\ Len(Sorted(W)) = Cardinality(W)
         /\ \A j, k \in 1..Len(Sorted(W)) : j < k => Earlier(Sorted(W)[j], Sorted(W)[k])
         /\ \A r \in W : \E k \in 1..Len(Sorted(W)) : Sorted(W)[k] = r
<1>. DEFINE N == Cardinality(W)
            s == Sorted(W)
<1>1. N \in Nat
  BY FS_CardinalityType
<1>2. /\ s \in SetToSeqs(W)
      /\ \A j, k \in DOMAIN s : j < k => Earlier(s[j], s[k])
  BY SortExists DEF Sorted
<1>. HIDE DEF s
<1>3. s \in [1..N -> W] /\ \A j, k \in 1..N : j # k => s[j] # s[k]
  BY <1>2 DEF SetToSeqs
<1>. HIDE DEF N
<1>4. s \in Seq(W) /\ Len(s) = N /\ DOMAIN s = 1..N
  BY <1>1, <1>3
<1>5. \A r \in W : \E k \in 1..N : s[k] = r
  <2>1. s \in Injection(1..N, W)
    BY <1>3 DEF Injection, IsInjective
  <2>2. IsFiniteSet(1..N) /\ Cardinality(1..N) = N
    <3>1. IsFiniteSet(1..N) /\ Cardinality(1..N) = IF 1 > N THEN 0 ELSE N - 1 + 1
      BY <1>1, FS_Interval
    <3>. QED  BY <1>1, <3>1
  <2>3. s \in Surjection(1..N, W)
    BY <2>1, <2>2, FS_Injection DEF N
  <2>. QED  BY <2>3 DEF Surjection
<1>. QED  BY <1>2, <1>4, <1>5 DEF s, N

\* Each reply has its request, and two rows of one time are the two of a turn.
RowsOK ==
  /\ IsFiniteSet(rows) /\ Paired(rows)
  /\ \A r \in rows : r.role = "orchestrator" => Msg("user", r.at) \in rows

\* PromptFits, of one prompt.
Fits(p) ==
  /\ \A k \in DOMAIN p : p[k].role = IF k % 2 = 1 THEN "user" ELSE "assistant"
  /\ Last(p).role = "user"
  /\ \A k \in DOMAIN p : p[k].role = "assistant" =>
       /\ Len(p[k].parts) = 1
       /\ Last(p[k - 1].parts) = Msg("user", p[k].parts[1].at)

\* Wherever the window begins, only its first row can be a reply without its request.
LEMMA SortedTalks ==
  ASSUME RowsOK, NEW W \in Windows, rows \subseteq Msgs
  PROVE  Talk([k \in DOMAIN Sorted(W) |-> Message(Sorted(W)[k])])
<1>. DEFINE s == Sorted(W)
            ms == [k \in DOMAIN s |-> Message(s[k])]
<1>1. W \in SUBSET rows /\ \A r \in W, q \in rows \ W : r.at >= q.at
  BY DEF Windows
<1>2. W \in SUBSET Msgs /\ IsFiniteSet(W) /\ Paired(W)
  <2>1. IsFiniteSet(W)
    BY <1>1, FS_Subset DEF RowsOK
  <2>. QED  BY <1>1, <2>1 DEF RowsOK, Paired
<1>3. /\ s \in Seq(W)
      /\ \A j, k \in 1..Len(s) : j < k => Earlier(s[j], s[k])
      /\ \A r \in W : \E k \in 1..Len(s) : s[k] = r
  BY <1>2, SortedIs
<1>. HIDE DEF s
<1>4. Len(s) \in Nat /\ DOMAIN s = 1..Len(s) /\ \A k \in 1..Len(s) : s[k] \in W /\ s[k] \in Msgs
  BY <1>2, <1>3
<1>5. ASSUME NEW r \in Msgs
      PROVE  /\ Message(r) \in Speeches /\ Message(r).parts = <<r>>
             /\ Message(r).role = IF r.role = "orchestrator" THEN "assistant" ELSE "user"
  <2>1. <<r>> \in Seq(Msgs)
    OBVIOUS
  <2>. QED  BY <2>1 DEF Message, Speaker, Speeches
<1>6. ms \in Seq(Speeches) /\ Len(ms) = Len(s) /\ \A k \in 1..Len(s) : ms[k] = Message(s[k])
  <2>1. \A k \in 1..Len(s) : Message(s[k]) \in Speeches
    BY <1>4, <1>5
  <2>. QED  BY <1>4, <2>1
<1>7. ASSUME NEW k \in 1..Len(s), k > 1, s[k].role = "orchestrator"
      PROVE  s[k - 1] = Msg("user", s[k].at)
  <2>. DEFINE u == Msg("user", s[k].at)
  <2>1. k - 1 \in 1..Len(s) /\ k - 1 < k /\ k \in Int
    BY <1>4, <1>7
  <2>2. Earlier(s[k - 1], s[k]) /\ s[k - 1] \in Msgs /\ s[k] \in Msgs /\ s[k - 1] \in W
    BY <1>3, <1>4, <2>1
  <2>3. u \in rows /\ u.at = s[k].at /\ u.role = "user" /\ s[k].at \in Nat /\ s[k - 1].at \in Nat
    BY <1>1, <1>4, <1>7, <2>2 DEF RowsOK, Msg, Msgs
  <2>4. CASE u \in W
    <3>1. PICK j \in 1..Len(s) : s[j] = u
      BY <1>3, <2>4
    <3>2. j # k /\ ~Earlier(s[k], s[j])
      BY <1>7, <2>3, <3>1 DEF Earlier
    <3>3. j < k
      BY <1>3, <1>4, <3>1, <3>2
    <3>4. CASE j < k - 1
      <4>1. Earlier(u, s[k - 1])
        BY <1>3, <2>1, <3>1, <3>4
      <4>. QED  BY <1>7, <2>2, <2>3, <4>1 DEF Earlier
    <3>5. CASE j = k - 1
      BY <3>1, <3>5
    <3>. QED  BY <1>4, <3>3, <3>4, <3>5
  <2>5. CASE u \notin W
    <3>1. s[k - 1].at >= u.at
      BY <1>1, <2>2, <2>3, <2>5
    <3>2. s[k - 1].at = s[k].at /\ s[k - 1].role = "user"
      BY <1>7, <2>2, <2>3, <3>1 DEF Earlier
    <3>. QED  BY <2>2, <3>2 DEF Msg, Msgs
  <2>. QED  BY <2>4, <2>5
<1>8. ASSUME NEW k \in 1..Len(ms) PROVE Len(ms[k].parts) > 0 /\ Follows(ms, k)
  <2>1. k \in 1..Len(s) /\ ms[k] = Message(s[k]) /\ s[k] \in Msgs
    BY <1>4, <1>6
  <2>2. ms[k].parts = <<s[k]>> /\ Len(<<s[k]>>) = 1 /\ <<s[k]>>[1] = s[k]
    BY <1>5, <2>1
  <2>3. ASSUME ms[k].role = "assistant", k > 1
        PROVE  ms[k - 1].role = "user" /\ Last(ms[k - 1].parts) = Msg("user", s[k].at)
    <3>1. k - 1 \in 1..Len(s) /\ ms[k - 1] = Message(s[k - 1]) /\ s[k - 1] \in Msgs
      BY <1>4, <1>6, <2>1, <2>3
    <3>2. s[k].role = "orchestrator"
      BY <1>5, <2>1, <2>3
    <3>3. s[k - 1] = Msg("user", s[k].at)
      BY <1>7, <2>1, <2>3, <3>2
    <3>4. s[k - 1].role = "user"
      BY <3>3 DEF Msg
    <3>5. ms[k - 1].role = "user" /\ ms[k - 1].parts = <<s[k - 1]>>
      BY <1>5, <3>1, <3>4
    <3>6. Last(<<s[k - 1]>>) = s[k - 1]
      BY DEF Last
    <3>. QED  BY <3>3, <3>5, <3>6
  <2>. HIDE DEF ms
  <2>. QED  BY <2>2, <2>3 DEF Follows
<1>9. Talk(ms)
  <2>. HIDE DEF ms
  <2>. QED  BY <1>6, <1>8 DEF Talk
<1>. QED  BY <1>9 DEF s

\* The prompt a turn begins with.
LEMMA PromptIsFit ==
  ASSUME RowsOK, NEW W \in Windows, rows \subseteq Msgs, NEW at \in Nat
  PROVE  Fits(Prompt(W, at))
<1>. DEFINE ms == [k \in DOMAIN Sorted(W) |-> Message(Sorted(W)[k])]
            m == Merge(ms)
            r == FromUser(m)
            b == Message(Msg("user", at))
            q == Append(r, b)
            p == Merge(q)
<1>1. Talk(m) /\ TakesTurns(m)
  <2>1. Talk(ms)
    BY SortedTalks
  <2>. HIDE DEF ms
  <2>. QED  BY <2>1, MergeKeeps
<1>2. Prompt(W, at) = p
  BY DEF Prompt
<1>. HIDE DEF m
<1>3. Talk(r) /\ (r # <<>> => r[1].role = "user")
  <2>1. m \in Seq(Speeches) /\ Len(m) \in Nat
    BY <1>1 DEF Talk
  <2>2. CASE m # <<>> /\ Head(m).role = "assistant"
    <3>1. r = Tail(m)
      BY <2>2 DEF FromUser
    <3>2. /\ r \in Seq(Speeches) /\ Len(r) = Len(m) - 1
          /\ \A k \in 1..Len(r) : r[k] = m[k + 1]
      BY <2>1, <2>2, <3>1, HeadTailProperties
    <3>3. m[1].role = "assistant"
      BY <2>1, <2>2
    <3>. HIDE DEF r
    <3>4. ASSUME NEW k \in 1..Len(r) PROVE Len(r[k].parts) > 0 /\ Follows(r, k)
      <4>1. k + 1 \in 1..Len(m) /\ r[k] = m[k + 1] /\ k + 1 > 1 /\ (k + 1) - 1 = k
        BY <2>1, <3>2
      <4>2. Len(m[k + 1].parts) > 0 /\ Follows(m, k + 1)
        BY <1>1, <4>1 DEF Talk
      <4>3. k > 1 => r[k - 1] = m[k]
        <5>. SUFFICES ASSUME k > 1 PROVE r[k - 1] = m[k]
          OBVIOUS
        <5>1. k - 1 \in 1..Len(r) /\ (k - 1) + 1 = k
          BY <2>1, <3>2
        <5>. QED  BY <3>2, <5>1
      <4>. QED  BY <4>1, <4>2, <4>3 DEF Follows
    <3>5. r # <<>> => r[1].role = "user"
      <4>. SUFFICES ASSUME r # <<>> PROVE r[1].role = "user"
        OBVIOUS
      <4>1. 1 \in 1..Len(r) /\ 2 \in 2..Len(m)
        BY <2>1, <3>2
      <4>2. r[1] = m[2] /\ m[2].role # m[1].role /\ r[1] \in Speeches
        <5>1. 1 + 1 = 2 /\ 2 - 1 = 1
          OBVIOUS
        <5>. QED  BY <1>1, <3>2, <4>1, <5>1 DEF TakesTurns
      <4>. QED  BY <3>3, <4>2 DEF Speeches
    <3>. QED  BY <3>2, <3>4, <3>5 DEF Talk
  <2>3. CASE ~(m # <<>> /\ Head(m).role = "assistant")
    <3>1. r = m
      BY <2>3 DEF FromUser
    <3>2. m # <<>> => m[1].role = "user"
      <4>. SUFFICES ASSUME m # <<>> PROVE m[1].role = "user"
        OBVIOUS
      <4>1. m[1] \in Speeches /\ Head(m) = m[1]
        BY <2>1
      <4>. QED  BY <2>3, <4>1 DEF Speeches
    <3>. QED  BY <1>1, <3>1, <3>2
  <2>. QED  BY <2>2, <2>3
<1>. HIDE DEF r
<1>4. b \in Speeches /\ b.role = "user" /\ Len(b.parts) = 1
  <2>1. Msg("user", at) \in Msgs /\ Msg("user", at).role = "user"
    BY DEF Msg, Msgs
  <2>2. <<Msg("user", at)>> \in Seq(Msgs) /\ Len(<<Msg("user", at)>>) = 1
    BY <2>1
  <2>. QED  BY <2>1, <2>2 DEF Message, Speaker, Speeches
<1>. HIDE DEF b
<1>5. Talk(q) /\ q # <<>> /\ q[1].role = "user" /\ Last(q).role = "user"
  <2>1. r \in Seq(Speeches) /\ Len(r) \in Nat
    BY <1>3 DEF Talk
  <2>2. /\ q \in Seq(Speeches) /\ Len(q) = Len(r) + 1 /\ q[Len(r) + 1] = b
        /\ \A k \in 1..Len(r) : q[k] = r[k]
    BY <1>4, <2>1
  <2>. HIDE DEF q
  <2>3. ASSUME NEW k \in 1..Len(q) PROVE Len(q[k].parts) > 0 /\ Follows(q, k)
    <3>1. CASE k = Len(r) + 1
      <4>1. q[k] = b
        BY <2>2, <3>1
      <4>2. q[k].role # "assistant"
        BY <1>4, <4>1
      <4>3. Len(b.parts) > 0
        BY <1>4
      <4>. QED  BY <4>1, <4>2, <4>3 DEF Follows
    <3>2. CASE k # Len(r) + 1
      <4>1. k \in 1..Len(r) /\ (k > 1 => k - 1 \in 1..Len(r))
        BY <2>1, <2>2, <3>2
      <4>2. q[k] = r[k] /\ (k > 1 => q[k - 1] = r[k - 1])
        BY <2>2, <4>1
      <4>3. Len(r[k].parts) > 0 /\ Follows(r, k)
        BY <1>3, <4>1 DEF Talk
      <4>. QED  BY <4>2, <4>3 DEF Follows
    <3>. QED  BY <3>1, <3>2
  <2>4. q[1].role = "user"
    <3>1. CASE r = <<>>
      <4>1. Len(r) + 1 = 1
        BY <3>1
      <4>. QED  BY <1>4, <2>2, <4>1
    <3>2. CASE r # <<>>
      <4>1. 1 \in 1..Len(r)
        BY <2>1, <3>2
      <4>. QED  BY <1>3, <2>2, <3>2, <4>1
    <3>. QED  BY <3>1, <3>2
  <2>5. q # <<>>
    BY <2>1, <2>2
  <2>. QED  BY <1>4, <2>2, <2>3, <2>4, <2>5 DEF Talk, Last
<1>. HIDE DEF q
<1>6. /\ Talk(p) /\ TakesTurns(p) /\ Len(p) > 0 /\ p[1].role = "user"
      /\ Last(p).role = "user"
  BY <1>5, MergeKeeps
<1>. HIDE DEF p
<1>7. p \in Seq(Speeches) /\ Len(p) \in Nat /\ DOMAIN p = 1..Len(p)
  BY <1>6 DEF Talk
<1>. DEFINE Even(k) == p[k].role = IF k % 2 = 1 THEN "user" ELSE "assistant"
<1>8. \A k \in 1..Len(p) : Even(k)
  <2>. DEFINE T == {k \in 1..Len(p) : ~Even(k)}
  <2>. SUFFICES ASSUME T # {} PROVE FALSE
    OBVIOUS
  <2>1. PICK k \in T : \A n \in T : k <= n
    <3>1. T \subseteq Nat
      OBVIOUS
    <3>. HIDE DEF T
    <3>. QED  BY <3>1, LeastNumber
  <2>2. k \in 1..Len(p) /\ ~Even(k) /\ k \in Nat
    OBVIOUS
  <2>3. k # 1
    <3>1. 1 % 2 = 1
      OBVIOUS
    <3>. QED  BY <1>6, <2>2, <3>1
  <2>4. k - 1 \in 1..Len(p) /\ k \in 2..Len(p) /\ k - 1 < k
    BY <1>7, <2>2, <2>3
  <2>5. Even(k - 1)
    BY <2>1, <2>2, <2>4
  <2>6. p[k] \in Speeches /\ p[k].role # p[k - 1].role
    BY <1>6, <1>7, <2>2, <2>4 DEF TakesTurns
  <2>7. (k - 1) % 2 = 1 <=> k % 2 # 1
    BY <2>2
  <2>. QED  BY <2>2, <2>5, <2>6, <2>7 DEF Speeches
<1>9. ASSUME NEW k \in 1..Len(p), p[k].role = "assistant"
      PROVE  Len(p[k].parts) = 1 /\ Last(p[k - 1].parts) = Msg("user", p[k].parts[1].at)
  <2>1. k > 1
    BY <1>6, <1>7, <1>9
  <2>2. Follows(p, k)
    BY <1>6 DEF Talk
  <2>. QED  BY <1>9, <2>1, <2>2 DEF Follows
<1>. QED  BY <1>2, <1>6, <1>7, <1>8, <1>9 DEF Fits

-----------------------------------------------------------------------------
(* The times of the rows.                                                  *)

\* A request whose transaction may still write its rows.
Unsaid(r) == r.pc \notin {"idle", "enqueue"}

\* Transactions that are open have times of their own, which no row has yet.
Stamps ==
  /\ RowsOK
  /\ \A r \in rows : r.at <= now
  /\ \A x \in Apis : Unsaid(req[x]) => req[x].at <= now /\ \A r \in rows : r.at # req[x].at
  /\ \A x, y \in Apis : x # y /\ Unsaid(req[x]) /\ Unsaid(req[y]) => req[x].at # req[y].at
  /\ work # None => /\ work.at <= now /\ \A r \in rows : r.at # work.at
                    /\ \A x \in Apis : Unsaid(req[x]) => req[x].at # work.at

Prompted == \A x \in Apis : req[x].prompt = <<>> \/ Fits(req[x].prompt)

\* A step of the request x that writes no row.
GoesOn(x) ==
  /\ \A y \in Apis \ {x} : req'[y] = req[y]
  /\ Unsaid(req'[x]) => Unsaid(req[x]) /\ req'[x].at = req[x].at
  /\ req'[x].prompt \in {<<>>, req[x].prompt} \/ Fits(req'[x].prompt)
  /\ UNCHANGED <<rows, now, work>>

LEMMA GoesOnKeeps ==
  ASSUME Stamps, Prompted, NEW x \in Apis, GoesOn(x)
  PROVE  Stamps' /\ Prompted'
<1>1. RowsOK'
  BY DEF Stamps, RowsOK, Paired, GoesOn
<1>2. \A y \in Apis : Unsaid(req'[y]) => Unsaid(req[y]) /\ req'[y].at = req[y].at
  BY DEF GoesOn
<1>3. UNCHANGED <<rows, now, work>>
  BY DEF GoesOn
<1>4. Stamps'
  BY <1>1, <1>2, <1>3 DEF Stamps, Unsaid
<1>5. Prompted'
  BY DEF Prompted, GoesOn, Fits
<1>. QED  BY <1>4, <1>5

\* A transaction begins.
LEMMA BeginsKeeps ==
  ASSUME Typed, Stamps, Prompted, NEW x \in Apis, now' = now + 1, UNCHANGED <<rows, work>>,
         \A y \in Apis \ {x} : req'[y] = req[y],
         req'[x].at = now', req'[x].prompt = <<>>
  PROVE  Stamps' /\ Prompted'
<1>1. RowsOK'
  BY DEF Stamps, RowsOK, Paired
<1>2. now \in Nat /\ (\A r \in rows : r.at \in Nat) /\ (\A y \in Apis : req[y].at \in Nat)
      /\ (work # None => work.at \in Nat)
  BY DEF Typed, Msgs, Requests
<1>3. Stamps'
  <2>1. /\ \A r \in rows : r.at < now'
        /\ \A y \in Apis \ {x} : Unsaid(req[y]) => req[y].at < now'
        /\ work # None => work.at < now'
    BY <1>2 DEF Stamps
  <2>2. /\ \A r \in rows : r.at # now' /\ r.at <= now'
        /\ \A y \in Apis \ {x} : Unsaid(req[y]) => req[y].at # now' /\ req[y].at <= now'
        /\ work # None => work.at # now' /\ work.at <= now'
        /\ now' <= now'
    BY <1>2, <2>1
  <2>. QED  BY <1>1, <2>2 DEF Stamps, Unsaid
<1>4. Prompted'
  BY DEF Prompted, Fits
<1>. QED  BY <1>3, <1>4

\* The rows of a transaction come in with its commit.
LEMMA RowsComeIn ==
  ASSUME RowsOK, rows \subseteq Msgs, NEW at \in Nat, \A r \in rows : r.at # at,
         \/ rows' = rows \cup {Msg("user", at), Msg("orchestrator", at)}
         \/ rows' = rows \cup {Msg("event", at)}
  PROVE  RowsOK' /\ \A r \in rows' : r \in rows \/ r.at = at
<1>1. \A role : Msg(role, at).role = role /\ Msg(role, at).at = at
  BY DEF Msg
<1>2. IsFiniteSet(rows')
  <2>1. IsFiniteSet(rows \cup {Msg("event", at)}) /\ IsFiniteSet(rows \cup {Msg("user", at)})
    BY FS_AddElement DEF RowsOK
  <2>2. IsFiniteSet((rows \cup {Msg("user", at)}) \cup {Msg("orchestrator", at)})
    BY <2>1, FS_AddElement
  <2>3. (rows \cup {Msg("user", at)}) \cup {Msg("orchestrator", at)}
          = rows \cup {Msg("user", at), Msg("orchestrator", at)}
    OBVIOUS
  <2>. QED  BY <2>1, <2>2, <2>3
<1>3. Paired(rows)'
  BY <1>1 DEF RowsOK, Paired
<1>4. \A r \in rows' : r.role = "orchestrator" => Msg("user", r.at) \in rows'
  BY <1>1 DEF RowsOK
<1>5. \A r \in rows' : r \in rows \/ r.at = at
  BY <1>1
<1>. QED  BY <1>2, <1>3, <1>4, <1>5 DEF RowsOK

LEMMA SaveTalks ==
  ASSUME Typed, Stamps, Prompted, NEW x \in Apis, Save(x)
  PROVE  Stamps' /\ Prompted'
<1>1. req[x] \in Requests /\ req[x].pc = "save" /\ req[x].at \in Nat /\ req \in [Apis -> Requests]
  BY DEF Save, Typed, Requests
<1>2. UNCHANGED <<now, work>>
  BY DEF Save, clock
<1>3. CASE req[x].broken
  <2>1. req' = [req EXCEPT ![x] = Idle] /\ rows' = rows
    BY <1>3 DEF Save, Close
  <2>2. GoesOn(x)
    BY <1>1, <1>2, <2>1 DEF GoesOn, Idle, Unsaid
  <2>. QED  BY <2>2, GoesOnKeeps
<1>4. CASE ~req[x].broken
  <2>1. req' = [req EXCEPT ![x].pc = "enqueue", ![x].writes = <<>>]
    BY <1>4 DEF Save
  <2>2. /\ req'[x].pc = "enqueue" /\ req'[x].prompt = req[x].prompt
        /\ \A y \in Apis \ {x} : req'[y] = req[y]
    BY <1>1, <2>1 DEF Requests
  <2>3. CASE rows' = rows
    <3>1. GoesOn(x)
      BY <1>2, <2>2, <2>3 DEF GoesOn, Unsaid
    <3>. QED  BY <3>1, GoesOnKeeps
  <2>4. CASE rows' = rows \cup {Msg("user", req[x].at), Msg("orchestrator", req[x].at)}
    <3>1. Unsaid(req[x]) /\ \A r \in rows : r.at # req[x].at
      BY <1>1 DEF Stamps, Unsaid
    <3>2. RowsOK' /\ \A r \in rows' : r \in rows \/ r.at = req[x].at
      BY <1>1, <2>4, <3>1, RowsComeIn DEF Stamps, Typed
    <3>3. \A y \in Apis : Unsaid(req'[y]) => y # x /\ req'[y] = req[y]
      BY <2>2 DEF Unsaid
    <3>4. Stamps'
      BY <1>2, <3>1, <3>2, <3>3 DEF Stamps
    <3>5. Prompted'
      BY <2>2 DEF Prompted, Fits
    <3>. QED  BY <3>4, <3>5
  <2>. QED  BY <1>4, <2>3, <2>4 DEF Save
<1>. QED  BY <1>3, <1>4

LEMMA TakeTalks ==
  ASSUME Typed, Stamps, Prompted, NEW t \in Tasks, Take(t)
  PROVE  Stamps' /\ Prompted'
<1>1. UNCHANGED <<rows, req>>
  BY DEF Take
<1>2. RowsOK' /\ Prompted'
  BY <1>1 DEF Stamps, RowsOK, Paired, Prompted, Fits
<1>3. CASE UNCHANGED <<work, now>>
  BY <1>1, <1>2, <1>3 DEF Stamps, Unsaid
<1>4. CASE work' = [task |-> t, at |-> now + 1] /\ now' = now + 1
  <2>1. now \in Nat /\ (\A r \in rows : r.at \in Nat) /\ (\A y \in Apis : req[y].at \in Nat)
    BY DEF Typed, Msgs, Requests
  <2>2. /\ \A r \in rows : r.at <= now' /\ r.at # now'
        /\ \A y \in Apis : Unsaid(req[y]) => req[y].at <= now' /\ req[y].at # now'
        /\ work'.at = now' /\ now' <= now'
    BY <1>4, <2>1 DEF Stamps
  <2>. QED  BY <1>1, <1>2, <2>2 DEF Stamps, Unsaid
<1>. QED  BY <1>3, <1>4 DEF Take

LEMMA EndTalks ==
  ASSUME Typed, Stamps, Prompted, End
  PROVE  Stamps' /\ Prompted'
<1>1. work # None /\ work' = None /\ UNCHANGED <<now, req>>
  BY DEF End, clock
<1>2. Prompted'
  BY <1>1 DEF Prompted, Fits
<1>3. work.at \in Nat
  BY <1>1 DEF Typed
<1>4. RowsOK' /\ \A r \in rows' : r \in rows \/ r.at = work.at
  <2>1. CASE rows' = rows
    BY <2>1 DEF Stamps, RowsOK, Paired
  <2>2. CASE rows' = rows \cup {Msg("event", work.at)}
    BY <1>1, <1>3, <2>2, RowsComeIn DEF Stamps, Typed
  <2>. QED  BY <2>1, <2>2 DEF End
<1>5. Stamps'
  BY <1>1, <1>4 DEF Stamps, Unsaid
<1>. QED  BY <1>2, <1>5

-----------------------------------------------------------------------------
(* The other steps of a request.                                           *)

LEMMA LoadHistoryTalks ==
  ASSUME Typed, Stamps, NEW x \in Apis, LoadHistory(x)
  PROVE  GoesOn(x)
<1>1. req[x] \in Requests /\ req[x].at \in Nat /\ req \in [Apis -> Requests]
  BY DEF Typed, Requests
<1>2. PICK W \in Windows :
         req' = [req EXCEPT ![x].pc = "model", ![x].prompt = Prompt(W, req[x].at)]
  BY DEF LoadHistory
<1>3. Fits(Prompt(W, req[x].at))
  BY <1>1, PromptIsFit DEF Stamps, Typed
<1>. DEFINE p == Prompt(W, req[x].at)
<1>. HIDE DEF p
<1>4. req' = [req EXCEPT ![x] = [req[x] EXCEPT !.pc = "model", !.prompt = p]]
  BY <1>1, <1>2 DEF p
<1>5. /\ req'[x].at = req[x].at /\ req'[x].prompt = p
      /\ \A y \in Apis \ {x} : req'[y] = req[y]
  BY <1>1, <1>4 DEF Requests
<1>6. Unsaid(req[x]) /\ UNCHANGED <<rows, now, work>>
  BY DEF LoadHistory, Unsaid, clock
<1>. QED  BY <1>3, <1>5, <1>6 DEF GoesOn, p

LEMMA ModelTalks ==
  ASSUME Typed, NEW x \in Apis,
         AsksForTools(x) \/ Replies(x) \/ ModelFails(x) \/ RequestDies(x) \/ Delete(x)
  PROVE  GoesOn(x)
<1>1. req[x] \in Requests /\ req \in [Apis -> Requests]
  BY DEF Typed
<1>2. CASE AsksForTools(x)
  <2>1. PICK n \in 1..Fan :
           req' = [req EXCEPT ![x].pc = "tool", ![x].todo = n, ![x].calls = @ + 1, ![x].prompt = <<>>]
    BY <1>2 DEF AsksForTools
  <2>2. /\ req'[x].at = req[x].at /\ req'[x].prompt = <<>>
        /\ \A y \in Apis \ {x} : req'[y] = req[y]
    BY <1>1, <2>1 DEF Requests
  <2>. QED  BY <1>2, <2>2 DEF GoesOn, AsksForTools, Unsaid, clock
<1>3. CASE Replies(x)
  <2>1. req' = [req EXCEPT ![x].pc = "save", ![x].prompt = <<>>]
    BY <1>3 DEF Replies
  <2>2. /\ req'[x].at = req[x].at /\ req'[x].prompt = <<>>
        /\ \A y \in Apis \ {x} : req'[y] = req[y]
    BY <1>1, <2>1 DEF Requests
  <2>. QED  BY <1>3, <2>2 DEF GoesOn, Replies, Unsaid, clock
<1>4. CASE ModelFails(x) \/ RequestDies(x) \/ Delete(x)
  <2>1. req' = [req EXCEPT ![x] = Idle] /\ UNCHANGED <<rows, now, work>>
    BY <1>4 DEF ModelFails, RequestDies, Delete, Close, clock
  <2>. QED  BY <1>1, <2>1 DEF GoesOn, Idle, Unsaid
<1>. QED  BY <1>2, <1>3, <1>4

LEMMA DoneSays ==
  ASSUME NEW x, NEW r \in Requests
  PROVE  /\ ToolDone(x, r).at = r.at /\ ToolDone(x, r).prompt = r.prompt
         /\ ToolDone(x, [r EXCEPT !.writes = <<>>, !.broken = TRUE]).at = r.at
         /\ ToolDone(x, [r EXCEPT !.writes = <<>>, !.broken = TRUE]).prompt = r.prompt
BY DEF Requests, ToolDone

LEMMA WrittenSays ==
  ASSUME NEW x, NEW r \in Requests
  PROVE  \A t, row : /\ ToolDone(x, Wrote(r, t, row)).at = r.at
                     /\ ToolDone(x, Wrote(r, t, row)).prompt = r.prompt
BY DEF Requests, ToolDone, Wrote

LEMMA ToolTalks ==
  ASSUME Typed, NEW x \in Apis,
         \/ Look(x) \/ ToolFails(x) \/ Update(x) \/ UpdateFails(x)
         \/ \E t \in Tasks, a \in Agents : Dispatch(x, t, a)
  PROVE  GoesOn(x)
<1>1. req[x] \in Requests /\ req \in [Apis -> Requests]
  BY DEF Typed
<1>2. Unsaid(req[x]) /\ UNCHANGED <<rows, now, work>>
  BY DEF Look, ToolFails, Update, UpdateFails, Dispatch, Unsaid, clock
<1>3. \E r : /\ req' = [req EXCEPT ![x] = r] /\ r.prompt \in {<<>>, req[x].prompt}
             /\ r.at = req[x].at \/ ~Unsaid(r)
  <2>1. CASE Look(x) \/ ToolFails(x)
    <3>. DEFINE r == ToolDone(x, req[x])
    <3>1. req' = [req EXCEPT ![x] = r]
      BY <1>1, <2>1 DEF Look, ToolFails
    <3>2. r.at = req[x].at /\ r.prompt = req[x].prompt
      BY <1>1, DoneSays
    <3>. HIDE DEF r
    <3>. QED  BY <3>1, <3>2
  <2>2. CASE Update(x)
    <3>1. PICK t, row : req' = [req EXCEPT ![x] = ToolDone(x, Wrote(req[x], t, row))]
      BY <1>1, <2>2 DEF Update
    <3>. DEFINE r == ToolDone(x, Wrote(req[x], t, row))
    <3>2. r.at = req[x].at /\ r.prompt = req[x].prompt
      BY <1>1, WrittenSays
    <3>. HIDE DEF r
    <3>. QED  BY <3>1, <3>2 DEF r
  <2>3. CASE UpdateFails(x)
    <3>1. Idle.prompt = <<>> /\ ~Unsaid(Idle)
      BY DEF Idle, Unsaid
    <3>2. CASE req[x].kind = "panel"
      <4>1. req' = [req EXCEPT ![x] = Idle]
        BY <1>1, <2>3, <3>2 DEF UpdateFails
      <4>. QED  BY <3>1, <4>1
    <3>3. CASE req[x].kind # "panel"
      <4>. DEFINE r == ToolDone(x, [req[x] EXCEPT !.writes = <<>>, !.broken = TRUE])
      <4>1. req' = [req EXCEPT ![x] = r]
        BY <1>1, <2>3, <3>3 DEF UpdateFails
      <4>2. r.at = req[x].at /\ r.prompt = req[x].prompt
        BY <1>1, DoneSays
      <4>. HIDE DEF r
      <4>. QED  BY <4>1, <4>2
    <3>. QED  BY <3>2, <3>3
  <2>5. CASE \E t \in Tasks, a \in Agents : Dispatch(x, t, a)
    <3>1. PICK t, row : req' = [req EXCEPT ![x] = ToolDone(x, Wrote(req[x], t, row))]
      BY <1>1, <2>5 DEF Dispatch
    <3>. DEFINE r == ToolDone(x, Wrote(req[x], t, row))
    <3>2. r.at = req[x].at /\ r.prompt = req[x].prompt
      BY <1>1, WrittenSays
    <3>. HIDE DEF r
    <3>. QED  BY <3>1, <3>2 DEF r
  <2>. QED  BY <2>1, <2>2, <2>3, <2>5
<1>4. PICK r : /\ req' = [req EXCEPT ![x] = r] /\ r.prompt \in {<<>>, req[x].prompt}
               /\ r.at = req[x].at \/ ~Unsaid(r)
  BY <1>3
<1>5. req'[x] = r /\ \A y \in Apis \ {x} : req'[y] = req[y]
  BY <1>1, <1>4
<1>. QED  BY <1>2, <1>4, <1>5 DEF GoesOn

LEMMA ResumeTalks ==
  ASSUME Typed, NEW x \in Apis, NEW t \in Tasks, Resume(x, t)
  PROVE  GoesOn(x)
<1>1. req[x] \in Requests /\ req \in [Apis -> Requests]
  BY DEF Typed
<1>2. req' = [req EXCEPT ![x] = [req[x] EXCEPT !.pc = "update", !.target = t, !.seen = View(x)[t].conts]]
  BY DEF Resume, ReadTask
<1>3. /\ req'[x].at = req[x].at /\ req'[x].prompt = req[x].prompt
      /\ \A y \in Apis \ {x} : req'[y] = req[y]
  BY <1>1, <1>2 DEF Requests
<1>. QED  BY <1>3 DEF GoesOn, Resume, Unsaid, clock

LEMMA EnqueueTalks ==
  ASSUME Typed, NEW x \in Apis, Enqueue(x)
  PROVE  GoesOn(x)
<1>1. req[x] \in Requests /\ req \in [Apis -> Requests] /\ req[x].pc = "enqueue"
      /\ UNCHANGED <<rows, now, work>>
  BY DEF Typed, Enqueue, clock
<1>2. CASE req[x].jobs = <<>>
  <2>1. req' = [req EXCEPT ![x] = Idle]
    BY <1>2 DEF Enqueue, Close
  <2>. QED  BY <1>1, <2>1 DEF GoesOn, Idle, Unsaid
<1>3. CASE req[x].jobs # <<>>
  <2>1. req' = [req EXCEPT ![x].jobs = Tail(@)]
    BY <1>3 DEF Enqueue
  <2>2. /\ req'[x].pc = "enqueue" /\ req'[x].prompt = req[x].prompt
        /\ \A y \in Apis \ {x} : req'[y] = req[y]
    BY <1>1, <2>1 DEF Requests
  <2>. QED  BY <1>1, <2>2 DEF GoesOn, Unsaid
<1>. QED  BY <1>2, <1>3

LEMMA StartTalks ==
  ASSUME Typed, Stamps, Prompted, NEW x \in Apis,
         \/ StartChat(x)
         \/ \E a \in Agents : StartRemove(x, a)
         \/ \E t \in Tasks : StartPanel(x, t)
  PROVE  Stamps' /\ Prompted'
<1>1. req \in [Apis -> Requests] /\ now' = now + 1 /\ UNCHANGED <<rows, work>>
  BY DEF Typed, StartChat, StartRemove, StartPanel, Begin
<1>2. \E r : req' = [req EXCEPT ![x] = r] /\ r.at = now' /\ r.prompt = <<>>
  <2>1. CASE StartChat(x)
    <3>. DEFINE r == [Idle EXCEPT !.pc = "load", !.kind = "chat", !.at = now']
    <3>1. req' = [req EXCEPT ![x] = r]
      BY <2>1 DEF StartChat, Begin, Idle
    <3>2. r.at = now' /\ r.prompt = <<>>
      BY DEF Idle
    <3>. QED  BY <3>1, <3>2
  <2>2. ASSUME NEW a \in Agents, StartRemove(x, a)
        PROVE  \E r : req' = [req EXCEPT ![x] = r] /\ r.at = now' /\ r.prompt = <<>>
    <3>. DEFINE r == [Idle EXCEPT !.pc = "delete", !.kind = "remove", !.target = a, !.at = now']
    <3>1. req' = [req EXCEPT ![x] = r]
      BY <2>2 DEF StartRemove, Begin, Idle
    <3>2. r.at = now' /\ r.prompt = <<>>
      BY DEF Idle
    <3>. QED  BY <3>1, <3>2
  <2>3. ASSUME NEW t \in Tasks, StartPanel(x, t)
        PROVE  \E r : req' = [req EXCEPT ![x] = r] /\ r.at = now' /\ r.prompt = <<>>
    <3>. DEFINE q == [Idle EXCEPT !.kind = "panel", !.at = now', !.todo = 1]
                r == [q EXCEPT !.pc = "update", !.target = t, !.seen = View(x)[t].conts]
    <3>1. req' = [req EXCEPT ![x] = r]
      BY <2>3 DEF StartPanel, ReadTask
    <3>2. r.at = now' /\ r.prompt = <<>>
      BY DEF Idle
    <3>. QED  BY <3>1, <3>2
  <2>. QED  BY <2>1, <2>2, <2>3
<1>3. PICK r : req' = [req EXCEPT ![x] = r] /\ r.at = now' /\ r.prompt = <<>>
  BY <1>2
<1>4. req'[x] = r /\ \A y \in Apis \ {x} : req'[y] = req[y]
  BY <1>1, <1>3
<1>. QED  BY <1>1, <1>3, <1>4, BeginsKeeps

LEMMA TalkStep == Inv /\ Stamps /\ Prompted /\ [Next]_vars => Stamps' /\ Prompted'
<1>. SUFFICES ASSUME Inv, Stamps, Prompted, [Next]_vars PROVE Stamps' /\ Prompted'
  OBVIOUS
<1>1. Typed
  BY DEF Inv
<1>2. ASSUME NEW x \in Apis,
             \/ StartChat(x) \/ \E a \in Agents : StartRemove(x, a)
             \/ \E t \in Tasks : StartPanel(x, t)
      PROVE  Stamps' /\ Prompted'
  BY <1>1, <1>2, StartTalks
<1>3. ASSUME NEW x \in Apis,
             \/ LoadHistory(x) \/ AsksForTools(x) \/ Replies(x) \/ ModelFails(x) \/ RequestDies(x)
             \/ Look(x) \/ ToolFails(x) \/ Update(x) \/ UpdateFails(x) \/ Enqueue(x) \/ Delete(x)
             \/ \E t \in Tasks, a \in Agents : Dispatch(x, t, a)
             \/ \E t \in Tasks : Resume(x, t)
      PROVE  Stamps' /\ Prompted'
  <2>1. GoesOn(x)
    BY <1>1, <1>3, LoadHistoryTalks, ModelTalks, ToolTalks, ResumeTalks, EnqueueTalks
  <2>. QED  BY <2>1, GoesOnKeeps
<1>4. ASSUME NEW x \in Apis, Save(x) PROVE Stamps' /\ Prompted'
  BY <1>1, <1>4, SaveTalks
<1>5. ASSUME NEW t \in Tasks, Take(t) PROVE Stamps' /\ Prompted'
  BY <1>1, <1>5, TakeTalks
<1>6. CASE End
  BY <1>1, <1>6, EndTalks
<1>7. CASE UNCHANGED vars
  BY <1>7 DEF vars, clock, Stamps, RowsOK, Paired, Unsaid, Prompted, Fits
<1>. QED  BY <1>2, <1>3, <1>4, <1>5, <1>6, <1>7 DEF Next

\* Whatever has been said and in whatever order turns and runs have ended, the model is
\* given a conversation in which user and assistant alternate and each reply directly
\* follows its own request, wherever the limit cuts it.
THEOREM PromptsFit == Spec => []PromptFits
<1>1. Init => Stamps /\ Prompted
  <2>. SUFFICES ASSUME Init PROVE Stamps /\ Prompted
    OBVIOUS
  <2>1. \A x \in Apis : req[x].pc = "idle" /\ req[x].prompt = <<>>
    BY DEF Init, Idle
  <2>2. RowsOK
    BY FS_EmptySet DEF Init, RowsOK, Paired
  <2>. QED  BY <2>1, <2>2 DEF Init, Stamps, Unsaid, Prompted
<1>2. Prompted => PromptFits
  BY DEF Prompted, PromptFits, Fits
<1>. QED  BY <1>1, <1>2, InitInv, InvStep, TalkStep, PTL DEF Spec
=============================================================================
