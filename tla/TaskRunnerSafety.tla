-------------------------- MODULE TaskRunnerSafety --------------------------
(***************************************************************************)
(* Proofs about TaskRunner that rest on what each step does to the rows.   *)
(*                                                                         *)
(* For any number of worker slots and API sessions: no task is left in the *)
(* working state without a crash.                                          *)
(*                                                                         *)
(* For a single slot and a single session, and any number of tasks, edges, *)
(* stops, crashes and duplicate messages: charges and refunds, and the     *)
(* implementation of TaskLifecycle.  With two slots, or with two sessions, *)
(* these three fail, because the handlers act on rows they loaded earlier. *)
(***************************************************************************)
EXTENDS TaskRunnerProofs

-----------------------------------------------------------------------------
(* What a step does to the rows, the slot, the session and the bill.       *)

\* The places of process_task before the commit to working, after it, and after
\* the charge.
Beginning == {"loaded", "gated"}
Charging == {"started", "metering"}
Metered == {"routing", "starting", "boundary", "running"}
AtWork == Charging \cup Metered

Field(r) == <<r.status, r.stopped, r.attempt>>

RowsSame == \A u \in Tasks : Field(task'[u]) = Field(task[u])

\* Row t gets status s and keeps its Stop and its attempt.
RowTo(t, s) ==
  /\ Field(task'[t]) = <<s, task[t].stopped, task[t].attempt>>
  /\ \A u \in Tasks \ {t} : Field(task'[u]) = Field(task[u])

\* What a session holds was loaded before the step, or is loaded by it.
CallNext ==
  \A c \in Clients : call'[c].pc \in {"loaded", "flushed"} =>
    \/ /\ call[c].pc \in {"loaded", "flushed"}
       /\ call'[c].cur = call[c].cur /\ call'[c].attempt = call[c].attempt
    \/ /\ task[call'[c].cur].status \in Waiting
       /\ call'[c].attempt = task[call'[c].cur].attempt

Keeps == RowsSame /\ prov' = prov /\ bill' = bill

Calm == Keeps /\ job' = job /\ CallNext

Takes(w, t) ==
  /\ Keeps /\ call' = call
  /\ job[w].pc = "idle" /\ task[t].status = "queued"
  /\ job'[w].pc = "loaded" /\ job'[w].cur = t

Moves(w) ==
  /\ Keeps /\ call' = call
  /\ job'[w].cur = job[w].cur
  /\ \/ job[w].pc = "loaded" /\ job'[w].pc = "gated"
     \/ job[w].pc = "started" /\ job'[w].pc = "metering"
     \/ job[w].pc = "metering" /\ job'[w].pc = "routing"
     \/ job[w].pc \in Metered /\ job'[w].pc \in Metered
  /\ \/ job'[w].seen = Committed(job[w].cur)
     \/ job[w].pc # "started" /\ job'[w].seen \in {Expired, Seen(w), job[w].seen}

\* The slot lets go of the task without an outcome.
Drops(w) ==
  /\ Keeps /\ call' = call
  /\ job'[w] = IdleJob
  /\ \/ job[w].pc \in {"loaded", "enqueue", "recovering"}
     \/ job[w].pc \in AtWork /\ task[job[w].cur].stopped
     \/ job[w].pc \in AtWork \ {"started"} /\ Seen(w).status # "working"
     \/ job[w].pc # "idle" /\ faults' # 0

Begins(w) ==
  /\ RowTo(job[w].cur, "working")
  /\ prov' = prov /\ bill' = bill /\ call' = call
  /\ job[w].pc = "gated" /\ job'[w].pc = "started" /\ job'[w].cur = job[w].cur

Meters(w) ==
  /\ RowsSame /\ prov' = prov /\ call' = call
  /\ bill' = [bill EXCEPT ![job[w].cur] = Charged(@)]
  /\ job[w].pc = "metering" /\ job'[w].pc = "routing" /\ job'[w].cur = job[w].cur
  /\ job'[w].seen = Expired

Ends(w, s) ==
  LET t == job[w].cur IN
  /\ job[w].pc \in AtWork
  /\ s \in Waiting \cup {"failed"}
  /\ RowTo(t, s)
  /\ \/ bill' = bill
     \/ s = "failed" /\ bill' = [bill EXCEPT ![t] = Refunded(@)]
  /\ prov' = prov /\ call' = call /\ job'[w] = IdleJob

Collects(w) ==
  /\ job[w].pc = "running"
  /\ RowTo(job[w].cur, "done")
  /\ prov' = prov /\ bill' = bill /\ call' = call
  /\ job'[w].pc = "collected" /\ job'[w].cur = job[w].cur

\* The commit of _finalize_done: row t with status s, and the row k or none.
Finalizes(w, s, k) ==
  LET t == job[w].cur IN
  /\ job[w].pc \in {"running", "collected"}
  /\ \/ s = "done"
     \/ s = task[t].status /\ (MemoryFails \/ job[w].pc = "collected")
  /\ bill' = bill /\ call' = call
  /\ \/ k = NoTask /\ RowTo(t, s) /\ prov' = prov /\ job'[w] = IdleJob
     \/ /\ k \in Tasks \ Created
        /\ Field(task'[t]) = <<s, task[t].stopped, task[t].attempt>>
        /\ Field(task'[k]) = <<"queued", FALSE, 0>>
        /\ \A u \in Tasks \ {t, k} : Field(task'[u]) = Field(task[u])
        /\ \E p : prov' = [prov EXCEPT ![k] = p] /\ p.parent = t
        /\ job'[w].pc = "enqueue" /\ job'[w].cur = t

Selects(w) ==
  /\ Keeps /\ call' = call
  /\ job[w].pc = "idle" /\ job'[w].pc \in {"recovering", "reaping"}
  /\ job'[w].cur = NoTask
  /\ job'[w].pc = "reaping" =>
       job'[w].batch # {} /\ job'[w].batch \subseteq WithStatus("working")

Reaps(w) ==
  /\ job[w].pc = "reaping"
  /\ \A u \in Tasks :
       /\ Field(task'[u]) = IF u \in job[w].batch
                            THEN <<"failed", task[u].stopped, task[u].attempt>>
                            ELSE Field(task[u])
       /\ bill'[u] = bill[u] \/ (u \in job[w].batch /\ bill'[u] = Refunded(bill[u]))
  /\ prov' = prov /\ call' = call
  /\ job'[w].pc = "recovering" /\ job'[w].cur = NoTask

Answers(c) ==
  LET t == call[c].cur IN
  /\ call[c].pc = "flushed" /\ call'[c].pc = "committed"
  /\ Field(task'[t]) = <<"queued", task[t].stopped, call[c].attempt + 1>>
  /\ \A u \in Tasks \ {t} : Field(task'[u]) = Field(task[u])
  /\ prov' = prov /\ bill' = bill /\ job' = job

Stops(c, t) ==
  /\ call[c].pc = "idle"
  /\ task[t].status \in Active
  /\ Field(task'[t]) = <<"failed", TRUE, task[t].attempt>>
  /\ \A u \in Tasks \ {t} : Field(task'[u]) = Field(task[u])
  /\ prov' = prov /\ bill' = bill /\ job' = job /\ call' = call

Orders(c, k) ==
  /\ k \in Tasks \ Created
  /\ Field(task'[k]) = <<"queued", FALSE, 0>>
  /\ \A u \in Tasks \ {k} : Field(task'[u]) = Field(task[u])
  /\ \E p : prov' = [prov EXCEPT ![k] = p] /\ p.parent = NoTask
  /\ bill' = bill /\ job' = job
  /\ call'[c].pc = "committed"

\* Every step of the slot and of the session.
SlotShape(w) ==
  \/ \E t \in Tasks : Takes(w, t)
  \/ Moves(w) \/ Drops(w) \/ Begins(w) \/ Meters(w)
  \/ \E s \in Waiting \cup {"failed"} : Ends(w, s)
  \/ Collects(w)
  \/ \E s \in Statuses, k \in Tasks \cup {NoTask} : Finalizes(w, s, k)
  \/ Selects(w) \/ Reaps(w)

CallShape(c) ==
  \/ Answers(c)
  \/ \E t \in Tasks : Stops(c, t) \/ Orders(c, t)

\* The row updates of the handlers.
LEMMA Fields ==
  ASSUME NEW r \in Rows
  PROVE  /\ Field(Touched(r)) = Field(r)
         /\ \A s : Field([r EXCEPT !.status = s]) = <<s, r.stopped, r.attempt>>
         /\ \A s, n : Field([r EXCEPT !.status = s, !.notice = n])
                        = <<s, r.stopped, r.attempt>>
         /\ \A s, b : Field([r EXCEPT !.status = s, !.stopped = b]) = <<s, b, r.attempt>>
         /\ \A s, n : Field([r EXCEPT !.status = s, !.attempt = n]) = <<s, r.stopped, n>>
         /\ \A s, b : Field([r EXCEPT !.status = s, !.spent = b])
                        = <<s, r.stopped, r.attempt>>
         /\ \A s, n, b : Field([r EXCEPT !.status = s, !.notice = n, !.spent = b])
                           = <<s, r.stopped, r.attempt>>
         /\ \A n : Field([r EXCEPT !.notice = n]) = Field(r)
         /\ \A b : Field([r EXCEPT !.spent = b]) = Field(r)
         /\ \A b : Field([r EXCEPT !.stale = b]) = Field(r)
BY DEF Field, Rows, Touched

LEMMA FieldParts ==
  /\ \A r, q : Field(r) = Field(q) =>
       r.status = q.status /\ r.stopped = q.stopped /\ r.attempt = q.attempt
  /\ \A r, x, y, z : Field(r) = <<x, y, z>> =>
       r.status = x /\ r.stopped = y /\ r.attempt = z
BY DEF Field

\* t has status s, unless a Stop ended it.
OrStopped(t, s) == task[t].status = s \/ (task[t].status = "failed" /\ task[t].stopped)

LEMMA RowFacts ==
  ASSUME NEW u \in Tasks, Field(task'[u]) = Field(task[u])
  PROVE  /\ task'[u].status = task[u].status
         /\ task'[u].stopped = task[u].stopped
         /\ task'[u].attempt = task[u].attempt
         /\ \A s : OrStopped(u, s)' <=> OrStopped(u, s)
         /\ u \in Created' <=> u \in Created
BY FieldParts DEF OrStopped, Created

LEMMA PutField ==
  ASSUME TypeOK, NEW t \in Tasks, NEW row \in Rows, PutRow(t, row)
  PROVE  /\ Field(task'[t]) = Field(row)
         /\ \A u \in Tasks \ {t} : Field(task'[u]) = Field(task[u])
<1>1. task'[t] = Touched(row) /\ \A u \in Tasks \ {t} : task'[u] = task[u]
  BY DEF PutRow, TypeOK
<1>. QED  BY <1>1, Fields

LEMMA OutcomeFields ==
  ASSUME TypeOK, NEW t \in Tasks, NEW s, NEW spent
  PROVE  Field(Outcome(t, s, spent)) = <<s, task[t].stopped, task[t].attempt>>
<1>1. task[t] \in Rows
  BY DEF TypeOK
<1>2. /\ Outcome(t, s, spent).status = s
      /\ Outcome(t, s, spent).stopped = task[t].stopped
      /\ Outcome(t, s, spent).attempt = task[t].attempt
  BY <1>1 DEF Outcome, Rows
<1>. QED  BY <1>2 DEF Field

LEMMA OutcomeField ==
  ASSUME TypeOK, NEW t \in Tasks, NEW s \in Statuses \cap Notices,
         NEW spent \in BOOLEAN, PutRow(t, Outcome(t, s, spent))
  PROVE  RowTo(t, s)
<1>1. task[t] \in Rows /\ Outcome(t, s, spent) \in Rows
  BY OutcomeType DEF TypeOK
<1>2. Field(Outcome(t, s, spent)) = <<s, task[t].stopped, task[t].attempt>>
  BY OutcomeFields
<1>. QED  BY <1>1, <1>2, PutField DEF RowTo

LEMMA GotoField ==
  ASSUME TypeOK, NEW w \in Workers, NEW pc, NEW seen, Goto(w, pc, seen)
  PROVE  job'[w].pc = pc /\ job'[w].cur = job[w].cur /\ job'[w].seen = seen
BY DEF Goto, TypeOK, Jobs

LEMMA FinishField ==
  ASSUME TypeOK, NEW w \in Workers, Finish(w)
  PROVE  job'[w] = IdleJob
BY DEF Finish, TypeOK

LEMMA SameField == UNCHANGED task => RowsSame
BY DEF RowsSame

\* What a slot that works on a task has in its hands.
LEMMA InHand ==
  ASSUME TypeOK, Known, NEW w \in Workers, job[w].pc \notin Free
  PROVE  /\ job[w].cur \in Created /\ job[w].cur \in Tasks
         /\ task[job[w].cur] \in Rows /\ task[job[w].cur].status \in Statuses
BY DEF Known, Created, TypeOK, Rows

LEMMA DispatchingShape ==
  ASSUME TypeOK, Known, NEW w \in Workers, Dispatching(w)
  PROVE  SlotShape(w) \/ UNCHANGED <<task, prov, bill, job, call>>
<1>. DEFINE t == job[w].cur
<1>1. ASSUME NEW u \in Tasks, Deliver(w, u)
      PROVE  Takes(w, u) \/ UNCHANGED <<task, prov, bill, job, call>>
  <2>1. CASE task[u].status = "queued"
    <3>1. job' = [job EXCEPT ![w] = [IdleJob EXCEPT !.pc = "loaded", !.cur = u,
                                                    !.seen = Committed(u)]]
      BY <1>1, <2>1 DEF Deliver
    <3>2. job'[w].pc = "loaded" /\ job'[w].cur = u
      BY <3>1 DEF IdleJob, TypeOK
    <3>. QED  BY <1>1, <2>1, <3>2, SameField DEF Deliver, Takes, Keeps
  <2>2. CASE task[u].status # "queued"
    BY <1>1, <2>2 DEF Deliver
  <2>. QED  BY <2>1, <2>2
<1>2. CASE PassGates(w)
  BY <1>2, GotoField, SameField DEF PassGates, Moves, Keeps, SlotShape
<1>3. CASE FailGates(w)
  BY <1>3, FinishField, SameField DEF FailGates, Drops, Keeps, SlotShape
<1>4. CASE BeginWork(w)
  <2>. DEFINE row == [task[t] EXCEPT !.status = "working"]
  <2>1. t \in Tasks /\ task[t] \in Rows
    BY <1>4, InHand DEF BeginWork, Free
  <2>2. row \in Rows /\ Field(row) = <<"working", task[t].stopped, task[t].attempt>>
    <3>1. row \in Rows
      BY <2>1, RowTypes DEF Statuses
    <3>. QED  BY <2>1, <3>1, Fields
  <2>3. PutRow(t, row)
    BY <1>4 DEF BeginWork
  <2>. HIDE DEF row
  <2>4. RowTo(t, "working")
    BY <2>1, <2>2, <2>3, PutField DEF RowTo
  <2>. QED  BY <1>4, <2>4, GotoField DEF BeginWork, Begins, SlotShape
<1>5. CASE EmitWorking(w)
  BY <1>5, GotoField, SameField DEF EmitWorking, Moves, Keeps, SlotShape
<1>6. CASE Charge(w)
  <2>1. CASE Billing
    BY <1>6, <2>1, GotoField, SameField DEF Charge, Meters, SlotShape
  <2>2. CASE ~Billing
    BY <1>6, <2>2, GotoField, SameField DEF Charge, Moves, Keeps, SlotShape
  <2>. QED  BY <2>1, <2>2
<1>7. CASE OutOfCredits(w)
  <2>. DEFINE row == [task[t] EXCEPT !.status = "blocked", !.notice = "blocked"]
  <2>1. t \in Tasks /\ task[t] \in Rows
    BY <1>7, InHand DEF OutOfCredits, Free
  <2>2. row \in Rows /\ Field(row) = <<"blocked", task[t].stopped, task[t].attempt>>
    <3>1. row \in Rows
      BY <2>1, RowTypes DEF Statuses, Waiting, Notices
    <3>. QED  BY <2>1, <3>1, Fields
  <2>3. PutRow(t, row)
    BY <1>7 DEF OutOfCredits
  <2>. HIDE DEF row
  <2>4. RowTo(t, "blocked")
    BY <2>1, <2>2, <2>3, PutField DEF RowTo
  <2>5. Ends(w, "blocked")
    BY <1>7, <2>4, FinishField DEF OutOfCredits, Ends, AtWork, Charging, Waiting
  <2>. QED  BY <2>5 DEF SlotShape, Waiting
<1>8. CASE RouteEngine(w)
  <2>1. PICK pc \in {"running", "starting"} : Goto(w, pc, Seen(w))
    BY <1>8 DEF RouteEngine
  <2>2. Moves(w)
    BY <1>8, <2>1, GotoField, SameField DEF RouteEngine, Moves, Keeps, Metered
  <2>. QED  BY <2>2 DEF SlotShape
<1>. QED  BY <1>1, <1>2, <1>3, <1>4, <1>5, <1>6, <1>7, <1>8 DEF Dispatching, SlotShape

LEMMA FailShape ==
  ASSUME TypeOK, Known, NEW w \in Workers, job[w].pc \in AtWork, FailWithRefund(w)
  PROVE  Ends(w, "failed")
<1>. DEFINE t == job[w].cur
<1>1. t \in Tasks /\ "failed" \in Statuses \cap Notices
  BY InHand DEF Free, AtWork, Charging, Metered, Statuses, Notices
<1>2. PutRow(t, Outcome(t, "failed", FALSE))
  BY DEF FailWithRefund
<1>3. RowTo(t, "failed")
  BY <1>1, <1>2, OutcomeField
<1>. QED  BY <1>3, FinishField DEF FailWithRefund, Ends

LEMMA CommitDoneShape ==
  ASSUME TypeOK, Known, NEW w \in Workers, job[w].pc \in {"running", "collected"},
         NEW r \in Rows, NEW s \in Statuses, NEW F, CommitDone(w, r, F),
         Field(r) = <<s, task[job[w].cur].stopped, task[job[w].cur].attempt>>,
         \/ s = "done"
         \/ s = task[job[w].cur].status /\ (MemoryFails \/ job[w].pc = "collected"),
         bill' = bill, call' = call
  PROVE  \E k \in Tasks \cup {NoTask} : Finalizes(w, s, k)
<1>. DEFINE t == job[w].cur
            p == ChildProv(t, CHOOSE f \in F : TRUE)
<1>1. t \in Created /\ t \in Tasks
  BY InHand DEF Free
<1>2. CASE F = {}
  <2>1. task' = [k \in Tasks |-> IF k = t THEN r ELSE task[k]]
    BY <1>2 DEF CommitDone
  <2>2. prov' = prov /\ job'[w] = IdleJob
    BY <1>2 DEF CommitDone, TypeOK
  <2>3. RowTo(t, s)
    BY <1>1, <2>1 DEF RowTo
  <2>4. Finalizes(w, s, NoTask)
    BY <2>2, <2>3 DEF Finalizes
  <2>. QED  BY <2>4
<1>3. CASE F # {}
  <2>1. NextId \in Tasks \ Created /\ NextId # t
    BY <1>1, <1>3, NextIdFresh DEF CommitDone
  <2>2. task' = [k \in Tasks |-> IF k = t THEN r
                                 ELSE IF k = NextId THEN NewRow ELSE task[k]]
    BY <1>3 DEF CommitDone
  <2>3. prov' = [prov EXCEPT ![NextId] = p] /\ p.parent = t
    BY <1>3, <2>1 DEF CommitDone, TypeOK, ChildProv
  <2>4. job'[w].pc = "enqueue" /\ job'[w].cur = t
    BY <1>3 DEF CommitDone, TypeOK, Jobs
  <2>5. Field(NewRow) = <<"queued", FALSE, 0>>
    BY DEF NewRow, NoRow, Field
  <2>6. /\ Field(task'[t]) = Field(r)
        /\ Field(task'[NextId]) = Field(NewRow)
        /\ \A u \in Tasks \ {t, NextId} : Field(task'[u]) = Field(task[u])
    BY <1>1, <2>1, <2>2
  <2>. HIDE DEF p
  <2>7. \E q : prov' = [prov EXCEPT ![NextId] = q] /\ q.parent = t
    BY <2>3
  <2>8. Finalizes(w, s, NextId)
    BY <2>1, <2>4, <2>5, <2>6, <2>7 DEF Finalizes
  <2>. QED  BY <2>1, <2>8
<1>. QED  BY <1>2, <1>3

LEMMA AnnouncedField ==
  ASSUME TypeOK, NEW t \in Tasks, NEW s
  PROVE  Field(Announced(t, s)) = Field(task[t])
BY Fields DEF TypeOK, Announced

LEMMA OutcomesShape ==
  ASSUME TypeOK, Known, NEW w \in Workers,
         CrewRun(w) \/ NeedsInput(w) \/ RaiseIllegal(w) \/ EnqueueChildren(w)
  PROVE  SlotShape(w)
<1>. DEFINE t == job[w].cur
<1>1. ASSUME NEW approved \in BOOLEAN, CrewDone(w, approved)
      PROVE  \E k \in Tasks \cup {NoTask} : Finalizes(w, "done", k)
  <2>. DEFINE o == Outcome(t, "done", TRUE)
              r == Touched(o)
              F == Propagate(t, Seen(w).stopped, approved)
  <2>1. /\ job[w].pc = "running" /\ bill' = bill /\ call' = call
        /\ CommitDone(w, r, F)
    BY <1>1 DEF CrewDone
  <2>2. t \in Tasks /\ task[t] \in Rows
    BY <2>1, InHand DEF Free
  <2>3. "done" \in Statuses /\ "done" \in Notices
    BY DEF Statuses, Notices
  <2>4. o \in Rows
    BY <2>2, <2>3, OutcomeType
  <2>5. Field(o) = <<"done", task[t].stopped, task[t].attempt>>
    BY <2>2, OutcomeFields
  <2>. HIDE DEF o
  <2>6. r \in Rows /\ Field(r) = Field(o)
    BY <2>4, RowTypes, Fields
  <2>. HIDE DEF r, F
  <2>. QED  BY <2>1, <2>3, <2>5, <2>6, CommitDoneShape
<1>2. ASSUME NEW approved \in BOOLEAN, CrewDoneMemoryFails(w, approved)
      PROVE  \E k \in Tasks \cup {NoTask} : Finalizes(w, task[t].status, k)
  <2>. DEFINE r == Announced(t, task[t].status)
              F == Propagate(t, task[t].stopped, approved)
  <2>1. /\ job[w].pc = "running" /\ bill' = bill /\ call' = call /\ MemoryFails
        /\ CommitDone(w, r, F)
    BY <1>2 DEF CrewDoneMemoryFails
  <2>2. t \in Tasks /\ task[t].status \in Statuses
    BY <2>1, InHand DEF Free
  <2>3. r \in Rows /\ Field(r) = Field(task[t])
    BY <2>2, AnnouncedType, AnnouncedField
  <2>4. Field(task[t]) = <<task[t].status, task[t].stopped, task[t].attempt>>
    BY DEF Field
  <2>. HIDE DEF r, F
  <2>. QED  BY <2>1, <2>2, <2>3, <2>4, CommitDoneShape
<1>3. CASE CrewFails(w)
  <2>1. job[w].pc \in AtWork /\ FailWithRefund(w)
    BY <1>3 DEF CrewFails, AtWork, Metered
  <2>. QED  BY <2>1, FailShape DEF SlotShape
<1>4. CASE NeedsInput(w)
  <2>1. job[w].pc \in AtWork /\ job[w].pc \notin Free
    BY <1>4 DEF NeedsInput, AtWork, Metered, Free
  <2>2. t \in Tasks /\ "needs-input" \in Statuses \cap Notices
    BY <2>1, InHand DEF Statuses, Notices, Waiting
  <2>3. RowTo(t, "needs-input")
    BY <1>4, <2>2, OutcomeField DEF NeedsInput
  <2>4. Ends(w, "needs-input")
    BY <1>4, <2>1, <2>3, FinishField DEF NeedsInput, Ends, Waiting
  <2>. QED  BY <2>4 DEF SlotShape, Waiting
<1>5. CASE RaiseIllegal(w)
  <2>1. job[w].pc \in AtWork \ {"started"}
    BY <1>5 DEF RaiseIllegal, AtWork, Charging, Metered
  <2>2. Seen(w).status # "working"
    BY <1>5 DEF RaiseIllegal, IsLegal, Legal, Waiting, Terminal
  <2>4. Drops(w)
    BY <1>5, <2>1, <2>2, FinishField, SameField DEF RaiseIllegal, Drops, Keeps
  <2>. QED  BY <2>4 DEF SlotShape
<1>6. CASE EnqueueChildren(w)
  BY <1>6, FinishField, SameField DEF EnqueueChildren, Drops, Keeps, SlotShape
<1>7. job[w].pc = "running" => task[t].status \in Statuses
  BY InHand DEF Free
<1>. QED  BY <1>1, <1>2, <1>3, <1>4, <1>5, <1>6, <1>7
          DEF CrewRun, SlotShape, CrewDoneMemoryFails, Statuses

LEMMA DevRunShape ==
  ASSUME TypeOK, Known, NEW w \in Workers, DevRun(w)
  PROVE  SlotShape(w)
<1>. DEFINE t == job[w].cur
<1>1. CASE SandboxUp(w)
  <2>1. PICK seen \in {Seen(w), Committed(t)} : Goto(w, "boundary", seen)
    BY <1>1 DEF SandboxUp
  <2>2. Moves(w)
    BY <1>1, <2>1, GotoField, SameField DEF SandboxUp, Moves, Keeps, Metered
  <2>. QED  BY <2>2 DEF SlotShape
<1>2. CASE SandboxFails(w)
  <2>1. job[w].pc \in AtWork /\ FailWithRefund(w)
    BY <1>2 DEF SandboxFails, AtWork, Metered
  <2>. QED  BY <2>1, FailShape DEF SlotShape
<1>3. CASE NextTurn(w)
  <2>1. Moves(w)
    BY <1>3, GotoField, SameField DEF NextTurn, Moves, Keeps, Metered
  <2>. QED  BY <2>1 DEF SlotShape
<1>4. CASE DevStopped(w)
  <2>. DEFINE row == [task[t] EXCEPT !.spent = TRUE]
  <2>1. job[w].pc \in AtWork /\ t \in Tasks /\ task[t] \in Rows /\ task[t].stopped
    BY <1>4, InHand DEF DevStopped, Free, AtWork, Metered
  <2>2. row \in Rows /\ Field(row) = Field(task[t])
    <3>1. row \in Rows
      BY <2>1, RowTypes
    <3>. QED  BY <2>1, <3>1, Fields
  <2>3. PutRow(t, row)
    BY <1>4 DEF DevStopped
  <2>. HIDE DEF row
  <2>4. RowsSame
    BY <2>1, <2>2, <2>3, PutField DEF RowsSame
  <2>5. Drops(w)
    BY <1>4, <2>1, <2>4, FinishField DEF DevStopped, Drops, Keeps
  <2>. QED  BY <2>5 DEF SlotShape
<1>5. ASSUME NEW beat \in BOOLEAN, ToolCalls(w, beat) PROVE SlotShape(w)
  <2>. DEFINE seen == IF beat THEN Expired ELSE Seen(w)
  <2>1. /\ t \in Tasks /\ task[t] \in Rows
        /\ Goto(w, "boundary", seen)
    BY <1>5, InHand DEF ToolCalls, Free
  <2>2. seen \in {Expired, Seen(w)}
    OBVIOUS
  <2>. HIDE DEF seen
  <2>3. RowsSame
    <3>1. CASE beat
      <4>1. PutRow(t, task[t])
        BY <1>5, <3>1 DEF ToolCalls, PutRow
      <4>. QED  BY <2>1, <4>1, PutField DEF RowsSame
    <3>2. CASE ~beat
      BY <1>5, <3>2, SameField DEF ToolCalls
    <3>. QED  BY <3>1, <3>2
  <2>4. Moves(w)
    BY <1>5, <2>1, <2>2, <2>3, GotoField DEF ToolCalls, Moves, Keeps, Metered
  <2>. QED  BY <2>4 DEF SlotShape
<1>6. CASE DevFails(w)
  <2>1. job[w].pc \in AtWork /\ job[w].pc \notin Free
    BY <1>6 DEF DevFails, AtWork, Metered, Free
  <2>2. t \in Tasks /\ "failed" \in Statuses \cap Notices
    BY <2>1, InHand DEF Statuses, Notices
  <2>3. RowTo(t, "failed")
    BY <1>6, <2>2, OutcomeField DEF DevFails
  <2>4. Ends(w, "failed")
    BY <1>6, <2>1, <2>3, FinishField DEF DevFails, Ends
  <2>. QED  BY <2>4 DEF SlotShape
<1>7. CASE DevCollect(w)
  <2>. DEFINE row == [task[t] EXCEPT !.status = "done", !.spent = TRUE]
  <2>1. job[w].pc = "running" /\ t \in Tasks /\ task[t] \in Rows
    BY <1>7, InHand DEF DevCollect, Free
  <2>2. row \in Rows /\ Field(row) = <<"done", task[t].stopped, task[t].attempt>>
    <3>1. row \in Rows
      BY <2>1, RowTypes DEF Statuses
    <3>. QED  BY <2>1, <3>1, Fields
  <2>3. PutRow(t, row)
    BY <1>7 DEF DevCollect
  <2>. HIDE DEF row
  <2>4. RowTo(t, "done")
    BY <2>1, <2>2, <2>3, PutField DEF RowTo
  <2>. QED  BY <1>7, <2>4, GotoField DEF DevCollect, Collects, SlotShape
<1>8. ASSUME NEW approved \in BOOLEAN, DevFinalize(w, approved)
      PROVE  \E k \in Tasks \cup {NoTask} : Finalizes(w, task[t].status, k)
  <2>1. /\ job[w].pc = "collected" /\ bill' = bill /\ call' = call
        /\ t \in Tasks /\ task[t].status \in Statuses
    BY <1>8, InHand DEF DevFinalize, Free
  <2>2. PICK seen \in {Seen(w), Committed(t)} :
          CommitDone(w, Announced(t, seen.status), Propagate(t, seen.stopped, approved))
    BY <1>8 DEF DevFinalize
  <2>. DEFINE r == Announced(t, seen.status)
              F == Propagate(t, seen.stopped, approved)
  <2>3. r \in Rows /\ Field(r) = <<task[t].status, task[t].stopped, task[t].attempt>>
    BY <2>1, AnnouncedType, AnnouncedField DEF Field
  <2>4. CommitDone(w, r, F)
    BY <2>2
  <2>. HIDE DEF r, F
  <2>. QED  BY <2>1, <2>3, <2>4, CommitDoneShape
<1>9. job[w].pc = "collected" => task[t].status \in Statuses
  BY InHand DEF Free
<1>. QED  BY <1>1, <1>2, <1>3, <1>4, <1>5, <1>6, <1>7, <1>8, <1>9
          DEF DevRun, DevFinalize, SlotShape

LEMMA ReaperShape ==
  ASSUME TypeOK, Known, NEW w \in Workers, Reaper(w)
  PROVE  SlotShape(w)
<1>1. CASE ReapSelect(w)
  <2>. DEFINE zombies == {t \in WithStatus("working") : task[t].stale}
  <2>1. /\ job[w].pc = "idle" /\ Keeps /\ call' = call
        /\ job' = [job EXCEPT ![w] = [IdleJob EXCEPT !.batch = zombies,
                     !.pc = IF zombies = {} THEN "recovering" ELSE "reaping"]]
    BY <1>1, SameField DEF ReapSelect, Keeps
  <2>2. zombies \subseteq WithStatus("working")
    OBVIOUS
  <2>. HIDE DEF zombies
  <2>3. /\ job'[w].cur = NoTask /\ job'[w].batch = zombies
        /\ job'[w].pc = IF zombies = {} THEN "recovering" ELSE "reaping"
    BY <2>1 DEF IdleJob, TypeOK
  <2>4. Selects(w)
    BY <2>1, <2>2, <2>3 DEF Selects
  <2>. QED  BY <2>4 DEF SlotShape
<1>2. CASE ReapCommit(w)
  <2>. DEFINE S == job[w].batch
  <2>1. ASSUME NEW u \in Tasks
        PROVE  Field(task'[u]) = IF u \in S
                                 THEN <<"failed", task[u].stopped, task[u].attempt>>
                                 ELSE Field(task[u])
    <3>1. CASE u \in S
      <4>. DEFINE row == [task[u] EXCEPT !.status = "failed"]
      <4>1. task'[u] = Touched(row)
        BY <1>2, <3>1 DEF ReapCommit
      <4>2. task[u] \in Rows
        BY DEF TypeOK
      <4>3. row \in Rows
        BY <4>2, RowTypes DEF Statuses
      <4>4. Field(row) = <<"failed", task[u].stopped, task[u].attempt>>
        BY <4>2, Fields
      <4>. HIDE DEF row
      <4>. QED  BY <3>1, <4>1, <4>3, <4>4, Fields
    <3>2. CASE u \notin S
      BY <1>2, <3>2 DEF ReapCommit
    <3>. QED  BY <3>1, <3>2
  <2>2. \A u \in Tasks : bill'[u] = bill[u] \/ (u \in S /\ bill'[u] = Refunded(bill[u]))
    BY <1>2 DEF ReapCommit
  <2>3. job'[w].pc = "recovering" /\ job'[w].cur = NoTask
    BY <1>2 DEF ReapCommit, IdleJob, TypeOK
  <2>4. job[w].pc = "reaping" /\ prov' = prov /\ call' = call
    BY <1>2 DEF ReapCommit
  <2>5. Reaps(w)
    BY <2>1, <2>2, <2>3, <2>4 DEF Reaps
  <2>. QED  BY <2>5 DEF SlotShape
<1>3. CASE RecoverQueued(w)
  BY <1>3, FinishField, SameField DEF RecoverQueued, Drops, Keeps, SlotShape
<1>. QED  BY <1>1, <1>2, <1>3 DEF Reaper

LEMMA CallFields ==
  ASSUME TypeOK, NEW c \in Clients, NEW pc, NEW t, NEW n, CallGoto(c, pc, t, n)
  PROVE  /\ call'[c].pc = pc /\ call'[c].cur = t /\ call'[c].attempt = n
         /\ \A d \in Clients \ {c} : call'[d] = call[d]
BY DEF CallGoto, TypeOK

LEMMA ClientShape ==
  ASSUME TypeOK, Known, NEW c \in Clients, Client(c)
  PROVE  Calm \/ CallShape(c)
<1>1. ASSUME NEW t \in Tasks, ContinueLoad(c, t) PROVE Calm
  <2>1. CallNext
    BY <1>1, CallFields DEF ContinueLoad, CallNext
  <2>. QED  BY <1>1, <2>1, SameField DEF ContinueLoad, Calm, Keeps
<1>2. CASE ContinueFlush(c)
  <2>1. CallNext
    BY <1>2, CallFields DEF ContinueFlush, CallNext
  <2>. QED  BY <1>2, <2>1, SameField DEF ContinueFlush, Calm, Keeps
<1>3. CASE ContinueCommit(c)
  <2>. DEFINE t == call[c].cur
              row == [task[t] EXCEPT !.status = "queued", !.attempt = call[c].attempt + 1]
  <2>1. t \in Tasks /\ task[t] \in Rows /\ call[c].attempt + 1 \in Nat
    BY <1>3 DEF ContinueCommit, TypeOK, Calls
  <2>2. row \in Rows /\ Field(row) = <<"queued", task[t].stopped, call[c].attempt + 1>>
    <3>. DEFINE n == call[c].attempt + 1
    <3>1. n \in Nat
      BY <2>1
    <3>. HIDE DEF n
    <3>2. [task[t] EXCEPT !.status = "queued", !.attempt = n] \in Rows
      BY <2>1, <3>1, RowTypes DEF Statuses
    <3>3. Field([task[t] EXCEPT !.status = "queued", !.attempt = n])
            = <<"queued", task[t].stopped, n>>
      BY <2>1 DEF Field, Rows
    <3>. QED  BY <3>2, <3>3 DEF n
  <2>3. PutRow(t, row) /\ CallGoto(c, "committed", t, 0)
    BY <1>3 DEF ContinueCommit
  <2>. HIDE DEF row
  <2>4. /\ Field(task'[t]) = <<"queued", task[t].stopped, call[c].attempt + 1>>
        /\ \A u \in Tasks \ {t} : Field(task'[u]) = Field(task[u])
    BY <2>1, <2>2, <2>3, PutField
  <2>. QED  BY <1>3, <2>3, <2>4, CallFields DEF ContinueCommit, Answers, CallShape
<1>4. CASE CallEnqueue(c)
  <2>1. call'[c] = IdleCall /\ \A d \in Clients \ {c} : call'[d] = call[d]
    BY <1>4 DEF CallEnqueue, TypeOK
  <2>2. CallNext
    BY <2>1 DEF CallNext, IdleCall
  <2>. QED  BY <1>4, <2>2, SameField DEF CallEnqueue, Calm, Keeps
<1>5. ASSUME NEW t \in Tasks, Stop(c, t) PROVE Stops(c, t)
  <2>. DEFINE row == [task[t] EXCEPT !.status = "failed", !.stopped = TRUE]
  <2>1. task[t] \in Rows
    BY DEF TypeOK
  <2>2. row \in Rows /\ Field(row) = <<"failed", TRUE, task[t].attempt>>
    <3>1. row \in Rows
      BY <2>1, RowTypes DEF Statuses
    <3>. QED  BY <2>1, <3>1, Fields
  <2>3. PutRow(t, row)
    BY <1>5 DEF Stop
  <2>. HIDE DEF row
  <2>. QED  BY <1>5, <2>2, <2>3, PutField DEF Stop, Stops
<1>6. ASSUME NEW p, p.parent = NoTask, Create(c, p) PROVE NextId \in Tasks /\ Orders(c, NextId)
  <2>1. NextId \in Tasks \ Created
    BY <1>6, NextIdFresh DEF Create
  <2>2. /\ task' = [task EXCEPT ![NextId] = NewRow]
        /\ prov' = [prov EXCEPT ![NextId] = p]
        /\ CallGoto(c, "committed", NextId, 0)
    BY <1>6 DEF Create
  <2>3. Field(NewRow) = <<"queued", FALSE, 0>>
    BY DEF NewRow, NoRow, Field
  <2>4. /\ Field(task'[NextId]) = Field(NewRow)
        /\ \A u \in Tasks \ {NextId} : Field(task'[u]) = Field(task[u])
    BY <2>1, <2>2 DEF TypeOK
  <2>5. call'[c].pc = "committed"
    BY <2>2, CallFields
  <2>6. bill' = bill /\ job' = job
    BY <1>6 DEF Create
  <2>. QED  BY <1>6, <2>1, <2>2, <2>3, <2>4, <2>5, <2>6 DEF Orders
<1>7. ASSUME NEW t \in Tasks, Retry(c, t) PROVE CallShape(c)
  <2>. DEFINE p == RootProv(prov[t].agent, None, prov[t].goal)
  <2>1. p.parent = NoTask /\ Create(c, p)
    BY <1>7 DEF Retry, RootProv
  <2>. QED  BY <1>6, <2>1 DEF CallShape
<1>8. ASSUME NEW a \in Agents, NEW o \in Overrides, NEW g \in Goals,
             DispatchTask(c, a, o, g)
      PROVE  CallShape(c)
  <2>. DEFINE p == RootProv(a, o, g)
  <2>1. p.parent = NoTask /\ Create(c, p)
    BY <1>8 DEF DispatchTask, RootProv
  <2>. QED  BY <1>6, <2>1 DEF CallShape
<1>. QED  BY <1>1, <1>2, <1>3, <1>4, <1>5, <1>7, <1>8 DEF Client, Continue, CallShape

\* A step of a slot leaves the jobs of the others alone.
Alone(w) == \A v \in Workers \ {w} : job'[v] = job[v]

LEMMA StepAlone ==
  ASSUME TypeOK, NEW w \in Workers,
         Worker(w) \/ \E back \in BOOLEAN : Crash(w, back)
  PROVE  Alone(w)
<1>. USE DEF Alone, TypeOK
<1>1. \A pc, seen : Goto(w, pc, seen) => Alone(w)
  BY DEF Goto
<1>2. Finish(w) => Alone(w)
  BY DEF Finish
<1>3. \A r, F : CommitDone(w, r, F) => Alone(w)
  BY DEF CommitDone
<1>. USE DEF FailWithRefund
<1>4. CASE Dispatching(w)
  BY <1>1, <1>2, <1>4 DEF Dispatching, Deliver, PassGates, FailGates, BeginWork, EmitWorking,
     Charge, OutOfCredits, RouteEngine
<1>5. CASE CrewRun(w) \/ NeedsInput(w) \/ RaiseIllegal(w) \/ EnqueueChildren(w)
  BY <1>1, <1>2, <1>3, <1>5 DEF CrewRun, CrewDone, CrewDoneMemoryFails, CrewFails,
     NeedsInput, RaiseIllegal, EnqueueChildren
<1>6. CASE DevRun(w)
  BY <1>1, <1>2, <1>3, <1>6 DEF DevRun, SandboxUp, SandboxFails, NextTurn, DevStopped,
     ToolCalls, DevFails, DevCollect, DevFinalize
<1>7. CASE Reaper(w)
  BY <1>1, <1>2, <1>7 DEF Reaper, ReapSelect, ReapCommit, RecoverQueued
<1>8. ASSUME NEW back \in BOOLEAN, Crash(w, back) PROVE Alone(w)
  BY <1>2, <1>8 DEF Crash
<1>. QED  BY <1>4, <1>5, <1>6, <1>7, <1>8 DEF Worker

LEMMA NextShape ==
  ASSUME TypeOK, Known, [Next]_vars
  PROVE  \/ Calm
         \/ \E w \in Workers : SlotShape(w) /\ Alone(w)
         \/ \E c \in Clients : CallShape(c)
<1>0. call' = call => CallNext
  BY DEF CallNext
<1>1. ASSUME NEW w \in Workers, Worker(w) PROVE Calm \/ (SlotShape(w) /\ Alone(w))
  <2>0. Alone(w)
    BY <1>1, StepAlone
  <2>1. CASE Dispatching(w)
    BY <1>0, <2>0, <2>1, DispatchingShape, SameField DEF Calm, Keeps
  <2>2. CASE CrewRun(w) \/ NeedsInput(w) \/ RaiseIllegal(w) \/ EnqueueChildren(w)
    BY <2>0, <2>2, OutcomesShape
  <2>3. CASE DevRun(w)
    BY <2>0, <2>3, DevRunShape
  <2>4. CASE Reaper(w)
    BY <2>0, <2>4, ReaperShape
  <2>. QED  BY <1>1, <2>1, <2>2, <2>3, <2>4 DEF Worker
<1>2. ASSUME NEW c \in Clients, Client(c) PROVE Calm \/ CallShape(c)
  BY <1>0, <1>2, ClientShape
<1>3. ASSUME NEW b \in BOOLEAN, SetPaused(b) PROVE Calm
  BY <1>0, <1>3, SameField DEF SetPaused, Calm, Keeps
<1>4. ASSUME NEW t \in Tasks, Age(t) PROVE Calm
  <2>1. task' = [task EXCEPT ![t] = [@ EXCEPT !.stale = TRUE]]
    BY <1>4 DEF Age
  <2>2. RowsSame
    <3>1. task[t] \in Rows
      BY DEF TypeOK
    <3>2. Field([task[t] EXCEPT !.stale = TRUE]) = Field(task[t])
      BY <3>1, Fields
    <3>3. /\ task'[t] = [task[t] EXCEPT !.stale = TRUE]
          /\ \A u \in Tasks \ {t} : task'[u] = task[u]
      BY <2>1 DEF TypeOK
    <3>. QED  BY <3>2, <3>3 DEF RowsSame
  <2>. QED  BY <1>0, <1>4, <2>2 DEF Age, Calm, Keeps
<1>5. ASSUME NEW w \in Workers, NEW back \in BOOLEAN, Crash(w, back)
      PROVE  SlotShape(w) /\ Alone(w)
  <2>1. faults' # 0
    BY <1>5 DEF Crash, TypeOK
  <2>2. Drops(w)
    BY <1>5, <2>1, FinishField, SameField DEF Crash, Drops, Keeps
  <2>. QED  BY <1>5, <2>2, StepAlone DEF SlotShape
<1>6. ASSUME NEW c \in Clients, CallLost(c) PROVE Calm
  <2>1. call'[c] = IdleCall /\ \A d \in Clients \ {c} : call'[d] = call[d]
    BY <1>6 DEF CallLost, TypeOK
  <2>2. CallNext
    BY <1>0, <2>1 DEF CallNext, IdleCall
  <2>. QED  BY <1>6, <2>2, SameField DEF CallLost, Calm, Keeps
<1>7. CASE BrokerRestart \/ UNCHANGED vars
  BY <1>0, <1>7, SameField DEF BrokerRestart, vars, Calm, Keeps
<1>. QED  BY <1>1, <1>2, <1>3, <1>4, <1>5, <1>6, <1>7 DEF Next, Fault

-----------------------------------------------------------------------------
(* A task is working because a slot runs it.                               *)

\* Slot w runs t and knows that it is working.
Attends(w, t) ==
  /\ job[w].cur = t
  /\ \/ job[w].pc = "started"
     \/ job[w].pc \in AtWork \ {"started"} /\ Seen(w).status = "working"

\* Whoever set t to working last still attends to it.
Attended ==
  \A t \in WithStatus("working") : task[t].stopped \/ \E w \in Workers : Attends(w, t)

LEMMA AttendsKept ==
  ASSUME NEW v \in Workers, NEW t, Attends(v, t), job'[v] = job[v],
         task'[t].status = "working"
  PROVE  Attends(v, t)'
BY DEF Attends, Seen, Committed

\* The last slot that set a task to working has read nothing else of it since, and so
\* it does not let go of it before it has written an outcome.
LEMMA AttendedStep ==
  ASSUME TypeOK, Known, ~MemoryFails, [Next]_vars, Attended, faults' = 0
  PROVE  Attended'
<1>. SUFFICES ASSUME NEW t \in Tasks, task'[t].status = "working", ~task'[t].stopped
     PROVE  \E v \in Workers : Attends(v, t)'
  BY DEF Attended, WithStatus
<1>. DEFINE Worked == task[t].status = "working" /\ ~task[t].stopped
<1>1. Worked => \E v \in Workers : Attends(v, t)
  BY DEF Attended, WithStatus
<1>2. /\ Field(task'[t]) = Field(task[t]) => Worked
      /\ \A s, b, n : Field(task'[t]) = <<s, b, n>> => s = "working"
  BY RowFacts, FieldParts
<1>3. CASE Calm
  BY <1>1, <1>2, <1>3, AttendsKept DEF Calm, Keeps, RowsSame
<1>4. ASSUME NEW w \in Workers, SlotShape(w), Alone(w)
      PROVE  \E v \in Workers : Attends(v, t)'
  <2>1. (Worked /\ ~Attends(w, t)) => \E v \in Workers : Attends(v, t)'
    BY <1>1, <1>4, AttendsKept DEF Alone
  <2>2. ASSUME NEW u \in Tasks, Takes(w, u) PROVE Worked /\ ~Attends(w, t)
    BY <1>2, <2>2 DEF Takes, Keeps, RowsSame, Attends, AtWork, Charging, Metered
  <2>3. ASSUME Moves(w), Attends(w, t) PROVE Attends(w, t)'
    <3>1. /\ job'[w].cur = t /\ job'[w].pc \in AtWork \ {"started"}
          /\ task[t].status = "working"
      BY <1>2, <2>3 DEF Moves, Attends, AtWork, Charging, Metered, Keeps, RowsSame
    <3>2. /\ Committed(t).status = "working"
          /\ job[w].pc # "started" => Seen(w).status = "working"
          /\ job[w].seen = Expired \/ job[w].seen = Seen(w)
      BY <2>3, <3>1 DEF Attends, Committed, Seen
    <3>3. job'[w].seen = Expired \/ job'[w].seen.status = "working"
      BY <2>3, <3>2 DEF Moves, Attends
    <3>4. Seen(w)'.status = "working"
      BY <3>1, <3>3 DEF Seen, Committed
    <3>. QED  BY <3>1, <3>4 DEF Attends
  <2>4. ASSUME Moves(w) PROVE Worked
    BY <1>2, <2>4 DEF Moves, Keeps, RowsSame
  <2>5. ASSUME Drops(w) PROVE Worked /\ ~Attends(w, t)
    BY <1>2, <2>5 DEF Drops, Keeps, RowsSame, Attends, AtWork, Charging, Metered
  <2>6. ASSUME Begins(w) PROVE Attends(w, t)' \/ (Worked /\ ~Attends(w, t))
    BY <1>2, <2>6 DEF Begins, RowTo, Attends
  <2>7. ASSUME Meters(w) PROVE Attends(w, t)' \/ (Worked /\ ~Attends(w, t))
    BY <1>2, <2>7 DEF Meters, RowsSame, Attends, Seen, Committed, AtWork, Metered
  <2>8. ASSUME NEW s \in Waiting \cup {"failed"}, Ends(w, s) PROVE Worked /\ ~Attends(w, t)
    BY <1>2, <2>8 DEF Ends, RowTo, Waiting, Attends
  <2>9. ASSUME Collects(w) PROVE Worked /\ ~Attends(w, t)
    BY <1>2, <2>9 DEF Collects, RowTo, Attends
  <2>10. ASSUME NEW s \in Statuses, NEW k \in Tasks \cup {NoTask}, Finalizes(w, s, k)
         PROVE  Worked /\ ~Attends(w, t)
    <3>1. /\ s = "done" \/ (s = task[job[w].cur].status /\ job[w].pc = "collected")
          /\ Field(task'[job[w].cur]) = <<s, task[job[w].cur].stopped,
                                          task[job[w].cur].attempt>>
      BY <2>10 DEF Finalizes, RowTo
    <3>2. CASE t = job[w].cur
      <4>1. s = "working" /\ job[w].pc = "collected"
        BY <1>2, <3>1, <3>2
      <4>2. Worked
        BY <3>1, <3>2, <4>1 DEF Field
      <4>. QED  BY <4>1, <4>2 DEF Attends, AtWork, Charging, Metered
    <3>3. CASE t # job[w].cur
      <4>1. Field(task'[t]) = Field(task[t]) \/ Field(task'[t]) = <<"queued", FALSE, 0>>
        BY <2>10, <3>3 DEF Finalizes, RowTo
      <4>. QED  BY <1>2, <3>3, <4>1 DEF Attends
    <3>. QED  BY <3>2, <3>3
  <2>11. ASSUME Selects(w) PROVE Worked /\ ~Attends(w, t)
    BY <1>2, <2>11 DEF Selects, Keeps, RowsSame, Attends, AtWork, Charging, Metered
  <2>12. ASSUME Reaps(w) PROVE Worked /\ ~Attends(w, t)
    <3>1. ~Attends(w, t)
      BY <2>12 DEF Reaps, Attends, AtWork, Charging, Metered
    <3>. QED  BY <1>2, <2>12, <3>1 DEF Reaps
  <2>. QED  BY <1>4, <2>1, <2>2, <2>3, <2>4, <2>5, <2>6, <2>7, <2>8, <2>9, <2>10, <2>11, <2>12
            DEF SlotShape
<1>5. ASSUME NEW c \in Clients, CallShape(c)
      PROVE  \E v \in Workers : Attends(v, t)'
  <2>1. job' = job
    BY <1>5 DEF CallShape, Answers, Stops, Orders
  <2>2. Field(task'[t]) = Field(task[t])
    <3>1. ASSUME Answers(c) PROVE Field(task'[t]) = Field(task[t])
      BY <1>2, <3>1 DEF Answers
    <3>2. ASSUME NEW u \in Tasks, Stops(c, u) PROVE Field(task'[t]) = Field(task[t])
      BY <1>2, <3>2 DEF Stops
    <3>3. ASSUME NEW u \in Tasks, Orders(c, u) PROVE Field(task'[t]) = Field(task[t])
      BY <1>2, <3>3 DEF Orders
    <3>. QED  BY <1>5, <3>1, <3>2, <3>3 DEF CallShape
  <2>. QED  BY <1>1, <1>2, <2>1, <2>2, AttendsKept
<1>. QED  BY <1>3, <1>4, <1>5, NextShape

\* A task is working because a slot runs it, for any number of slots and sessions:
\* unless a Stop was overwritten or something crashed, nothing is left for the reaper.
THEOREM NoTaskOrphaned == ASSUME ~MemoryFails PROVE Spec => []NoOrphanRun
<1>. DEFINE IInv == TypeOK /\ Known /\ (faults = 0 => Attended)
<1>1. Init => IInv
  <2>1. Init => Attended
    BY DEF Init, Attended, WithStatus, NoRow
  <2>. QED  BY <2>1, InitTypeOK, InitKnown
<1>2. IInv /\ [Next]_vars => IInv'
  BY NextTypeOK, KnownStep, AttendedStep, Counted
<1>3. IInv => NoOrphanRun
  BY DEF Attended, Attends, Holding, AtWork, Charging, Metered, NoOrphanRun
<1>. QED  BY <1>1, <1>2, <1>3, PTL DEF Spec

-----------------------------------------------------------------------------
(* A single slot and a single session: no step of another one comes        *)
(* between the load of a row and its write.                                *)

OneSlot ==
  /\ \A v, w \in Workers : v = w
  /\ \A c, d \in Clients : c = d

\* The row is where the slot believes it to be, or a Stop ended it.
SlotOK(w) ==
  LET t == job[w].cur IN
  /\ job[w].pc \in Free => t = NoTask
  /\ job[w].pc \in Beginning => OrStopped(t, "queued")
  /\ job[w].pc \in AtWork => OrStopped(t, "working")
  /\ job[w].pc \in AtWork \ {"started"} => Seen(w).status = "working" \/ task[t].stopped
  /\ job[w].pc = "collected" => task[t].status = "done"
  /\ job[w].pc = "enqueue" => MemoryFails \/ task[t].status = "done"
  /\ job[w].pc = "reaping" =>
       job[w].batch # {} /\ \A u \in job[w].batch : OrStopped(u, "working")

\* What the session loaded is still so.
AnswerOK(c) ==
  call[c].pc \in {"loaded", "flushed"} =>
    /\ task[call[c].cur].status \in Waiting
    /\ call[c].attempt = task[call[c].cur].attempt

\* The attempt of t that its row counts has yet to be charged.
Due(t) ==
  \/ task[t].status = "queued"
  \/ \E w \in Workers : job[w].pc \in Beginning \cup Charging /\ job[w].cur = t

Charges ==
  \A t \in Tasks :
    bill[t].charges <= IF Due(t) THEN task[t].attempt ELSE task[t].attempt + 1

\* A refunded task has failed for good.
Refunds ==
  \A t \in Tasks :
    \/ bill[t].refunds = 0
    \/ /\ bill[t].refunds = 1 /\ task[t].status = "failed"
       /\ \A w \in Workers :
            job[w].cur # t /\ ~(job[w].pc = "reaping" /\ t \in job[w].batch)

Blank == \A t \in Tasks \ Created : ~task[t].stopped /\ bill[t].charges = 0

Serial ==
  /\ \A w \in Workers : SlotOK(w)
  /\ \A c \in Clients : AnswerOK(c)
  /\ Charges /\ Refunds /\ Blank

-----------------------------------------------------------------------------
(* The invariant of a single slot and a single session.                    *)

LEMMA Counts ==
  ASSUME TypeOK, NEW t \in Tasks
  PROVE  bill[t].charges \in Nat /\ bill[t].refunds \in Nat /\ task[t].attempt \in Nat
BY DEF TypeOK, Bills, Rows

\* A step that charges nothing and makes no charge due, or only what a new row or a
\* new attempt makes due.
LEMMA ChargesKept ==
  ASSUME TypeOK, Charges,
         \A t \in Tasks :
           \/ /\ bill'[t].charges = bill[t].charges /\ task'[t].attempt = task[t].attempt
              /\ Due(t)' => Due(t)
           \/ bill'[t].charges <= task'[t].attempt /\ task'[t].attempt \in Nat
              /\ bill'[t].charges \in Nat
  PROVE  Charges'
<1>. SUFFICES ASSUME NEW t \in Tasks
     PROVE  (bill[t].charges <= IF Due(t) THEN task[t].attempt ELSE task[t].attempt + 1)'
  BY DEF Charges
<1>1. bill[t].charges <= IF Due(t) THEN task[t].attempt ELSE task[t].attempt + 1
  BY DEF Charges
<1>. QED  BY <1>1, Counts

Released(t) ==
  \A w \in Workers : job[w].cur # t /\ ~(job[w].pc = "reaping" /\ t \in job[w].batch)

LEMMA RefundsKept ==
  ASSUME TypeOK, Refunds,
         \A t \in Tasks :
           \/ bill'[t].refunds = 0
           \/ /\ bill'[t].refunds = bill[t].refunds /\ task'[t].status = task[t].status
              /\ Released(t) => Released(t)'
           \/ /\ bill[t].refunds = 0 /\ bill'[t].refunds = 1
              /\ task'[t].status = "failed" /\ Released(t)'
  PROVE  Refunds'
BY DEF Refunds, Released

\* A row that waits for an answer is changed by its session only.
LEMMA AnswersKept ==
  ASSUME TypeOK, \A c \in Clients : AnswerOK(c), call' = call,
         \A u \in Tasks : task[u].status \in Waiting => Field(task'[u]) = Field(task[u])
  PROVE  \A c \in Clients : AnswerOK(c)'
<1>. SUFFICES ASSUME NEW c \in Clients, call[c].pc \in {"loaded", "flushed"}
     PROVE  /\ task'[call[c].cur].status \in Waiting
            /\ call[c].attempt = task'[call[c].cur].attempt
  BY DEF AnswerOK
<1>1. call[c].cur \in Tasks
  BY DEF TypeOK
<1>. QED  BY <1>1, RowFacts DEF AnswerOK

LEMMA KeepsRest ==
  ASSUME TypeOK, Known, Serial, Keeps
  PROVE  /\ Blank'
         /\ call' = call => \A c \in Clients : AnswerOK(c)'
<1>1. \A u \in Tasks : Field(task'[u]) = Field(task[u]) /\ bill'[u] = bill[u]
  BY DEF Keeps, RowsSame
<1>2. Created' = Created
  BY <1>1, RowFacts DEF Created
<1>3. Blank'
  BY <1>1, <1>2, RowFacts DEF Serial, Blank
<1>4. ASSUME call' = call, NEW c \in Clients PROVE AnswerOK(c)'
  <2>1. call[c].pc \in {"loaded", "flushed"} => call[c].cur \in Tasks
    BY DEF TypeOK
  <2>2. AnswerOK(c)
    BY DEF Serial
  <2>. QED  BY <1>1, <1>4, <2>1, <2>2, RowFacts DEF AnswerOK
<1>. QED  BY <1>3, <1>4

\* A step that changes no row and no bill.
LEMMA KeepsSerial ==
  ASSUME TypeOK, Known, Serial, Keeps, call' = call,
         \A w \in Workers : SlotOK(w)',
         \A t \in Tasks : Due(t)' => Due(t),
         \A t \in Tasks : bill[t].refunds # 0 /\ Released(t) => Released(t)'
  PROVE  Serial'
<1>1. \A u \in Tasks : Field(task'[u]) = Field(task[u]) /\ bill'[u] = bill[u]
  BY DEF Keeps, RowsSame
<1>2. Charges'
  BY <1>1, RowFacts, ChargesKept DEF Serial
<1>3. Refunds'
  BY <1>1, RowFacts, RefundsKept DEF Serial
<1>. QED  BY <1>2, <1>3, KeepsRest DEF Serial

LEMMA CalmSerial ==
  ASSUME TypeOK, TypeOK', Known, Serial, Calm
  PROVE  Serial'
<1>0. Keeps /\ job' = job /\ CallNext
  BY DEF Calm
<1>1. \A u \in Tasks : Field(task'[u]) = Field(task[u])
  BY <1>0 DEF Keeps, RowsSame
<1>2. ASSUME NEW w \in Workers PROVE SlotOK(w)'
  <2>1. SlotOK(w) /\ (job[w].pc \notin Free => job[w].cur \in Tasks)
    BY InHand DEF Serial
  <2>2. job[w].pc = "reaping" => job[w].batch \subseteq Tasks
    BY DEF Known, Created
  <2>3. job[w].cur \in Tasks => Seen(w)'.status = Seen(w).status
    BY <1>0, <1>1, RowFacts DEF Seen, Committed
  <2>. QED  BY <1>0, <1>1, <2>1, <2>2, <2>3, RowFacts
            DEF SlotOK, Free, Beginning, AtWork, Charging, Metered, OrStopped
<1>3. ASSUME NEW c \in Clients PROVE AnswerOK(c)'
  <2>1. call'[c].pc \in {"loaded", "flushed"} => call'[c].cur \in Tasks
    BY DEF TypeOK
  <2>2. AnswerOK(c)
    BY DEF Serial
  <2>3. call'[c].pc \in {"loaded", "flushed"} =>
          /\ task[call'[c].cur].status \in Waiting
          /\ call'[c].attempt = task[call'[c].cur].attempt
    BY <1>0, <2>2 DEF CallNext, AnswerOK
  <2>. QED  BY <1>1, <2>1, <2>3, RowFacts DEF AnswerOK
<1>4. \A t \in Tasks : Due(t)' => Due(t)
  BY <1>0, <1>1, RowFacts DEF Due
<1>5. Charges'
  BY <1>0, <1>1, <1>4, RowFacts, ChargesKept DEF Serial, Keeps
<1>6. Refunds'
  BY <1>0, <1>1, RowFacts, RefundsKept DEF Serial, Keeps, Released
<1>. QED  BY <1>0, <1>2, <1>3, <1>5, <1>6, KeepsRest DEF Serial

LEMMA TakesSerial ==
  ASSUME TypeOK, Known, Serial, OneSlot, NEW w \in Workers, NEW t \in Tasks, Takes(w, t)
  PROVE  Serial'
<1>0. /\ Keeps /\ call' = call /\ Workers = {w}
      /\ \A u \in Tasks : Field(task'[u]) = Field(task[u])
      /\ job[w].pc = "idle" /\ job'[w].pc = "loaded" /\ job'[w].cur = t
      /\ task[t].status = "queued"
  BY DEF Takes, Keeps, RowsSame, OneSlot
<1>1. SlotOK(w)'
  BY <1>0, RowFacts DEF SlotOK, OrStopped, Free, Beginning, AtWork, Charging, Metered
<1>2. \A u \in Tasks : Due(u)' => Due(u)
  BY <1>0, RowFacts DEF Due
<1>3. \A u \in Tasks : bill[u].refunds # 0 /\ Released(u) => Released(u)'
  BY <1>0 DEF Serial, Refunds, Released
<1>. QED  BY <1>0, <1>1, <1>2, <1>3, KeepsSerial

LEMMA MovesSerial ==
  ASSUME TypeOK, Known, Serial, OneSlot, NEW w \in Workers, Moves(w)
  PROVE  Serial'
<1>. DEFINE t == job[w].cur
<1>0. /\ Keeps /\ call' = call /\ Workers = {w}
      /\ \A u \in Tasks : Field(task'[u]) = Field(task[u])
      /\ job'[w].cur = t
  BY DEF Moves, Keeps, RowsSame, OneSlot
<1>1. job[w].pc \in Beginning \cup AtWork /\ t \in Tasks
  BY InHand DEF Moves, Free, Beginning, AtWork, Charging, Metered
<1>2. /\ job[w].pc \in Beginning => job'[w].pc \in Beginning
      /\ job[w].pc \in AtWork => job'[w].pc \in AtWork \ {"started"}
      /\ job'[w].pc \in Beginning \cup AtWork
  BY <1>1 DEF Moves, Beginning, AtWork, Charging, Metered
<1>3. /\ OrStopped(t, "queued")' <=> OrStopped(t, "queued")
      /\ OrStopped(t, "working")' <=> OrStopped(t, "working")
      /\ task'[t].status = task[t].status /\ task'[t].stopped = task[t].stopped
  BY <1>0, <1>1, RowFacts
<1>4. SlotOK(w)
  BY DEF Serial
<1>5. job'[w].pc \in AtWork \ {"started"} => Seen(w)'.status = "working" \/ task'[t].stopped
  <2>. SUFFICES ASSUME job'[w].pc \in AtWork \ {"started"}, ~task'[t].stopped
       PROVE  Seen(w)'.status = "working"
    OBVIOUS
  <2>1. job[w].pc \in AtWork /\ task[t].status = "working"
    <3>1. job[w].pc \in AtWork
      BY <1>1, <1>2 DEF Beginning, AtWork, Charging, Metered
    <3>. QED  BY <1>3, <1>4, <3>1 DEF SlotOK, OrStopped
  <2>2. /\ Committed(t).status = "working"
        /\ job[w].pc # "started" => Seen(w).status = "working"
    BY <1>3, <1>4, <2>1 DEF SlotOK, Committed
  <2>3. Seen(w)' = IF job'[w].seen = Expired
                   THEN [status |-> task'[t].status, stopped |-> task'[t].stopped]
                   ELSE job'[w].seen
    BY <1>0 DEF Seen, Committed
  <2>4. job'[w].seen = Expired \/ job'[w].seen.status = "working"
    <3>1. \/ job'[w].seen = Committed(t)
          \/ job[w].pc # "started" /\ job'[w].seen \in {Expired, Seen(w), job[w].seen}
      BY DEF Moves
    <3>2. job[w].seen = Expired \/ job[w].seen = Seen(w)
      BY DEF Seen
    <3>. QED  BY <2>2, <3>1, <3>2
  <2>. QED  BY <1>3, <2>1, <2>3, <2>4
<1>6. SlotOK(w)'
  BY <1>0, <1>1, <1>2, <1>3, <1>4, <1>5
     DEF SlotOK, Free, Beginning, AtWork, Charging, Metered
<1>7. \A u \in Tasks : Due(u)' => Due(u)
  <2>1. job'[w].pc \in Beginning \cup Charging => job[w].pc \in Beginning \cup Charging
    BY DEF Moves, Beginning, Charging, Metered
  <2>. QED  BY <1>0, <2>1, RowFacts DEF Due
<1>8. \A u \in Tasks : Released(u) => Released(u)'
  BY <1>0, <1>2 DEF Released, Beginning, AtWork, Charging, Metered
<1>. QED  BY <1>0, <1>6, <1>7, <1>8, KeepsSerial

LEMMA DropsSerial ==
  ASSUME TypeOK, Known, Serial, OneSlot, NEW w \in Workers, Drops(w)
  PROVE  Serial'
<1>0. /\ Keeps /\ call' = call /\ Workers = {w}
      /\ \A u \in Tasks : Field(task'[u]) = Field(task[u])
      /\ job'[w].pc = "idle" /\ job'[w].cur = NoTask /\ NoTask \notin Tasks
  BY DEF Drops, Keeps, RowsSame, OneSlot, IdleJob, NoTask, Tasks
<1>1. SlotOK(w)'
  BY <1>0 DEF SlotOK, Free, Beginning, AtWork, Charging, Metered
<1>2. \A u \in Tasks : Due(u)' => Due(u)
  BY <1>0, RowFacts DEF Due, Beginning, Charging
<1>3. \A u \in Tasks : Released(u)'
  BY <1>0 DEF Released
<1>. QED  BY <1>0, <1>1, <1>2, <1>3, KeepsSerial

LEMMA SelectsSerial ==
  ASSUME TypeOK, Known, Serial, OneSlot, NEW w \in Workers, Selects(w)
  PROVE  Serial'
<1>0. /\ Keeps /\ call' = call /\ Workers = {w}
      /\ \A u \in Tasks : Field(task'[u]) = Field(task[u])
      /\ job[w].pc = "idle" /\ job'[w].pc \in {"recovering", "reaping"}
      /\ job'[w].cur = NoTask /\ NoTask \notin Tasks
      /\ job'[w].pc = "reaping" =>
           job'[w].batch # {} /\ job'[w].batch \subseteq WithStatus("working")
  BY DEF Selects, Keeps, RowsSame, OneSlot, NoTask, Tasks
<1>1. ASSUME job'[w].pc = "reaping", NEW u \in job'[w].batch PROVE OrStopped(u, "working")'
  <2>1. u \in Tasks /\ task[u].status = "working"
    BY <1>0, <1>1 DEF WithStatus
  <2>. QED  BY <1>0, <2>1, RowFacts DEF OrStopped
<1>2. SlotOK(w)'
  BY <1>0, <1>1 DEF SlotOK, Free, Beginning, AtWork, Charging, Metered
<1>3. \A u \in Tasks : Due(u)' => Due(u)
  BY <1>0, RowFacts DEF Due, Beginning, Charging
<1>4. \A u \in Tasks : bill[u].refunds # 0 => Released(u)'
  BY <1>0 DEF Serial, Refunds, Released, WithStatus
<1>. QED  BY <1>0, <1>2, <1>3, <1>4, KeepsSerial

\* A slot that works on a task holds one that does not wait for an answer.
LEMMA NotWaiting ==
  ASSUME TypeOK, Known, Serial, NEW w \in Workers,
         job[w].pc \in Beginning \cup AtWork \cup {"collected"}
  PROVE  /\ job[w].cur \in Created /\ job[w].cur \in Tasks
         /\ task[job[w].cur].status \notin Waiting
         /\ bill[job[w].cur].refunds = 0
<1>1. job[w].pc \notin Free
  BY DEF Free, Beginning, AtWork, Charging, Metered
<1>2. job[w].cur \in Created /\ job[w].cur \in Tasks
  BY <1>1, InHand
<1>3. SlotOK(w)
  BY DEF Serial
<1>4. task[job[w].cur].status \notin Waiting
  BY <1>3 DEF SlotOK, OrStopped, Waiting
<1>5. bill[job[w].cur].refunds = 0
  BY <1>2 DEF Serial, Refunds
<1>. QED  BY <1>2, <1>4, <1>5

\* A write of the row in hand.
LEMMA RowToRest ==
  ASSUME TypeOK, Known, Serial, NEW w \in Workers, NEW t, t = job[w].cur,
         job[w].pc \in Beginning \cup AtWork \cup {"collected"},
         NEW s \in Statuses, RowTo(t, s), call' = call,
         \A u \in Tasks \ {t} : bill'[u] = bill[u]
  PROVE  /\ \A c \in Clients : AnswerOK(c)'
         /\ Blank'
         /\ t \in Tasks /\ bill[t].refunds = 0
         /\ task'[t].status = s /\ task'[t].stopped = task[t].stopped
         /\ task'[t].attempt = task[t].attempt
         /\ \A u \in Tasks \ {t} : Field(task'[u]) = Field(task[u])
<1>1. t \in Created /\ t \in Tasks /\ task[t].status \notin Waiting /\ bill[t].refunds = 0
  BY NotWaiting
<1>2. /\ \A u \in Tasks \ {t} : Field(task'[u]) = Field(task[u])
      /\ task'[t].status = s /\ task'[t].stopped = task[t].stopped
      /\ task'[t].attempt = task[t].attempt
  BY FieldParts DEF RowTo
<1>3. \A c \in Clients : AnswerOK(c)'
  BY <1>1, <1>2, AnswersKept DEF Serial
<1>4. s # "none"
  BY DEF Statuses
<1>5. Created' = Created
  BY <1>1, <1>2, <1>4, RowFacts DEF Created
<1>6. Blank'
  BY <1>1, <1>2, <1>5, RowFacts DEF Serial, Blank
<1>. QED  BY <1>1, <1>2, <1>3, <1>6

LEMMA BeginsSerial ==
  ASSUME TypeOK, Known, Serial, OneSlot, NEW w \in Workers, Begins(w)
  PROVE  Serial'
<1>. DEFINE t == job[w].cur
<1>0. /\ RowTo(t, "working") /\ bill' = bill /\ call' = call /\ Workers = {w}
      /\ job[w].pc = "gated" /\ job'[w].pc = "started" /\ job'[w].cur = t
  BY DEF Begins, OneSlot
<1>1. /\ \A c \in Clients : AnswerOK(c)'
      /\ Blank'
      /\ t \in Tasks /\ bill[t].refunds = 0
      /\ task'[t].status = "working" /\ task'[t].attempt = task[t].attempt
      /\ \A u \in Tasks \ {t} : Field(task'[u]) = Field(task[u])
  BY <1>0, RowToRest DEF Beginning, Statuses
<1>2. SlotOK(w)'
  BY <1>0, <1>1 DEF SlotOK, OrStopped, Free, Beginning, AtWork, Charging, Metered
<1>3. \A u \in Tasks : Due(u)' => Due(u)
  BY <1>0, <1>1, RowFacts DEF Due, Beginning
<1>4. Charges'
  BY <1>0, <1>1, <1>3, RowFacts, ChargesKept DEF Serial
<1>5. \A u \in Tasks : Released(u) => Released(u)'
  BY <1>0 DEF Released
<1>6. Refunds'
  BY <1>0, <1>1, <1>5, RowFacts, RefundsKept DEF Serial
<1>. QED  BY <1>0, <1>1, <1>2, <1>4, <1>6 DEF Serial

LEMMA CollectsSerial ==
  ASSUME TypeOK, Known, Serial, OneSlot, NEW w \in Workers, Collects(w)
  PROVE  Serial'
<1>. DEFINE t == job[w].cur
<1>0. /\ RowTo(t, "done") /\ bill' = bill /\ call' = call /\ Workers = {w}
      /\ job[w].pc = "running" /\ job'[w].pc = "collected" /\ job'[w].cur = t
  BY DEF Collects, OneSlot
<1>1. /\ \A c \in Clients : AnswerOK(c)'
      /\ Blank'
      /\ t \in Tasks /\ bill[t].refunds = 0
      /\ task'[t].status = "done" /\ task'[t].attempt = task[t].attempt
      /\ \A u \in Tasks \ {t} : Field(task'[u]) = Field(task[u])
  BY <1>0, RowToRest DEF AtWork, Metered, Statuses
<1>2. SlotOK(w)'
  BY <1>0, <1>1 DEF SlotOK, OrStopped, Free, Beginning, AtWork, Charging, Metered
<1>3. \A u \in Tasks : Due(u)' => Due(u)
  BY <1>0, <1>1, RowFacts DEF Due, Beginning, Charging
<1>4. Charges'
  BY <1>0, <1>1, <1>3, RowFacts, ChargesKept DEF Serial
<1>5. \A u \in Tasks : Released(u) => Released(u)'
  BY <1>0 DEF Released
<1>6. Refunds'
  BY <1>0, <1>1, <1>5, RowFacts, RefundsKept DEF Serial
<1>. QED  BY <1>0, <1>1, <1>2, <1>4, <1>6 DEF Serial

LEMMA EndsSerial ==
  ASSUME TypeOK, Known, Serial, OneSlot, NEW w \in Workers,
         NEW s \in Waiting \cup {"failed"}, Ends(w, s)
  PROVE  Serial'
<1>. DEFINE t == job[w].cur
<1>0. /\ RowTo(t, s) /\ call' = call /\ Workers = {w} /\ job[w].pc \in AtWork
      /\ job'[w].pc = "idle" /\ job'[w].cur = NoTask /\ NoTask \notin Tasks
      /\ bill' = bill \/ (s = "failed" /\ bill' = [bill EXCEPT ![t] = Refunded(@)])
      /\ s \in Statuses
  BY DEF Ends, OneSlot, IdleJob, NoTask, Tasks, Waiting, Statuses
<1>1. \A u \in Tasks : /\ u # t => bill'[u] = bill[u]
                       /\ bill'[u].charges = bill[u].charges
                       /\ \/ bill'[u].refunds = bill[u].refunds
                          \/ /\ u = t /\ s = "failed"
                             /\ bill'[u].refunds = bill[u].refunds + 1
  BY <1>0 DEF TypeOK, Bills, Refunded
<1>2. /\ \A c \in Clients : AnswerOK(c)'
      /\ Blank'
      /\ t \in Tasks /\ bill[t].refunds = 0
      /\ task'[t].status = s /\ task'[t].attempt = task[t].attempt
      /\ \A u \in Tasks \ {t} : Field(task'[u]) = Field(task[u])
  BY <1>0, <1>1, RowToRest
<1>3. SlotOK(w)'
  BY <1>0 DEF SlotOK, Free, Beginning, AtWork, Charging, Metered
<1>4. \A u \in Tasks : Due(u)' => Due(u)
  BY <1>0, <1>2, RowFacts DEF Due, Beginning, Charging, Waiting
<1>5. Charges'
  BY <1>1, <1>2, <1>4, RowFacts, ChargesKept DEF Serial
<1>6. \A u \in Tasks : Released(u)'
  BY <1>0 DEF Released
<1>7. Refunds'
  BY <1>1, <1>2, <1>6, RowFacts, RefundsKept DEF Serial
<1>. QED  BY <1>0, <1>2, <1>3, <1>5, <1>7 DEF Serial

\* The charge of an attempt: it was due, and is not due again.
LEMMA MetersSerial ==
  ASSUME TypeOK, Known, Serial, OneSlot, NEW w \in Workers, Meters(w)
  PROVE  Serial'
<1>. DEFINE t == job[w].cur
<1>0. /\ RowsSame /\ call' = call /\ Workers = {w}
      /\ \A u \in Tasks : Field(task'[u]) = Field(task[u])
      /\ bill' = [bill EXCEPT ![t] = Charged(@)]
      /\ job[w].pc = "metering" /\ job'[w].pc = "routing" /\ job'[w].cur = t
      /\ job'[w].seen = Expired
  BY DEF Meters, OneSlot, RowsSame
<1>1. t \in Created /\ t \in Tasks /\ bill[t].refunds = 0 /\ SlotOK(w)
  BY <1>0, NotWaiting DEF AtWork, Charging, Serial
<1>2. /\ \A u \in Tasks \ {t} : bill'[u] = bill[u]
      /\ bill'[t].charges = bill[t].charges + 1 /\ bill'[t].refunds = bill[t].refunds
  BY <1>0, <1>1 DEF TypeOK, Bills, Charged
<1>3. OrStopped(t, "working") /\ OrStopped(t, "working")'
  BY <1>0, <1>1, RowFacts DEF SlotOK, AtWork, Charging
<1>4. SlotOK(w)'
  <2>1. Seen(w)' = [status |-> task'[t].status, stopped |-> task'[t].stopped]
    BY <1>0 DEF Seen, Committed
  <2>. QED  BY <1>0, <1>3, <2>1 DEF SlotOK, OrStopped, Free, Beginning, AtWork, Charging, Metered
<1>5. \A c \in Clients : AnswerOK(c)'
  BY <1>0, AnswersKept DEF Serial
<1>6. Created' = Created
  BY <1>0, RowFacts DEF Created
<1>7. Blank'
  BY <1>0, <1>1, <1>2, <1>6, RowFacts DEF Serial, Blank
<1>8. Charges'
  <2>. SUFFICES ASSUME NEW u \in Tasks
       PROVE  (bill[u].charges <= IF Due(u) THEN task[u].attempt ELSE task[u].attempt + 1)'
    BY DEF Charges
  <2>1. bill[u].charges <= IF Due(u) THEN task[u].attempt ELSE task[u].attempt + 1
    BY DEF Serial, Charges
  <2>2. task'[u].attempt = task[u].attempt /\ task'[u].status = task[u].status
    BY <1>0, RowFacts
  <2>3. Due(u)' => Due(u)
    BY <1>0, <2>2 DEF Due, Beginning, Charging
  <2>4. CASE u # t
    BY <1>2, <2>1, <2>2, <2>3, <2>4, Counts
  <2>5. CASE u = t
    <3>1. Due(t)
      BY <1>0 DEF Due, Charging
    <3>2. ~Due(u)'
      BY <1>0, <1>3, <2>5 DEF Due, Beginning, Charging, OrStopped
    <3>. QED  BY <1>2, <2>1, <2>2, <2>5, <3>1, <3>2, Counts
  <2>. QED  BY <2>4, <2>5
<1>9. Refunds'
  <2>1. \A u \in Tasks : Released(u) => Released(u)'
    BY <1>0 DEF Released
  <2>. QED  BY <1>0, <1>2, <2>1, RowFacts, RefundsKept DEF Serial
<1>. QED  BY <1>0, <1>4, <1>5, <1>7, <1>8, <1>9 DEF Serial

\* A row that is still free.
LEMMA FreeRow ==
  ASSUME TypeOK, Serial, NEW k \in Tasks \ Created
  PROVE  /\ task[k].status = "none" /\ ~task[k].stopped
         /\ bill[k].charges = 0 /\ bill[k].refunds = 0
BY DEF Serial, Blank, Refunds, Created

\* The commit of a completion lets go of the task, or holds it until the next one
\* is enqueued.
LEMMA FinalizesSerial ==
  ASSUME TypeOK, Known, Serial, OneSlot, NEW w \in Workers,
         NEW s \in Statuses, NEW k \in Tasks \cup {NoTask}, Finalizes(w, s, k)
  PROVE  Serial'
<1>. DEFINE t == job[w].cur
<1>0. /\ bill' = bill /\ call' = call /\ Workers = {w} /\ NoTask \notin Tasks
      /\ job[w].pc \in {"running", "collected"}
      /\ s = "done" \/ (MemoryFails /\ s = task[t].status)
  BY DEF Finalizes, OneSlot, NoTask, Tasks, Serial, SlotOK
<1>1. /\ t \in Created /\ t \in Tasks /\ bill[t].refunds = 0
      /\ task[t].status \notin Waiting /\ task[t].status # "queued"
  <2>1. SlotOK(w)
    BY DEF Serial
  <2>. QED  BY <1>0, <2>1, NotWaiting DEF SlotOK, OrStopped, AtWork, Metered
<1>2. CASE k = NoTask
  <2>1. RowTo(t, s) /\ job'[w].pc = "idle" /\ job'[w].cur = NoTask
    <3>1. RowTo(t, s) /\ job'[w] = IdleJob
      BY <1>0, <1>2 DEF Finalizes
    <3>. QED  BY <3>1 DEF IdleJob
  <2>2. /\ \A c \in Clients : AnswerOK(c)'
        /\ Blank'
        /\ task'[t].status = s /\ task'[t].attempt = task[t].attempt
        /\ \A u \in Tasks \ {t} : Field(task'[u]) = Field(task[u])
    <3>1. job[w].pc \in Beginning \cup AtWork \cup {"collected"}
      BY <1>0 DEF AtWork, Metered
    <3>. HIDE DEF t
    <3>. QED  BY <1>0, <2>1, <3>1, RowToRest DEF t
  <2>3. SlotOK(w)'
    BY <1>0, <2>1 DEF SlotOK, Free, Beginning, AtWork, Charging, Metered
  <2>4. \A u \in Tasks : Due(u)' => Due(u)
    BY <1>0, <1>1, <2>1, <2>2, RowFacts DEF Due, Beginning, Charging
  <2>5. Charges'
    BY <1>0, <2>2, <2>4, RowFacts, ChargesKept DEF Serial
  <2>6. \A u \in Tasks : Released(u)'
    BY <1>0, <2>1 DEF Released
  <2>7. Refunds'
    BY <1>0, <1>1, <2>2, <2>6, RowFacts, RefundsKept DEF Serial
  <2>. QED  BY <1>0, <2>2, <2>3, <2>5, <2>7 DEF Serial
<1>3. CASE k # NoTask
  <2>1. /\ k \in Tasks \ Created /\ k # t
        /\ Field(task'[t]) = <<s, task[t].stopped, task[t].attempt>>
        /\ Field(task'[k]) = <<"queued", FALSE, 0>>
        /\ \A u \in Tasks \ {t, k} : Field(task'[u]) = Field(task[u])
        /\ job'[w].pc = "enqueue" /\ job'[w].cur = t
    BY <1>1, <1>3 DEF Finalizes
  <2>2. /\ task'[t].status = s /\ task'[t].attempt = task[t].attempt
        /\ task'[k].status = "queued" /\ ~task'[k].stopped /\ task'[k].attempt = 0
    <3>. HIDE DEF t
    <3>1. task'[t].status = s /\ task'[t].attempt = task[t].attempt
      BY <2>1, FieldParts
    <3>2. task'[k].status = "queued" /\ task'[k].stopped = FALSE /\ task'[k].attempt = 0
      BY <2>1 DEF Field
    <3>. QED  BY <3>1, <3>2
  <2>3. /\ task[k].status = "none" /\ bill[k].charges = 0 /\ bill[k].refunds = 0
    BY <2>1, FreeRow
  <2>4. \A c \in Clients : AnswerOK(c)'
    <3>1. \A u \in Tasks : task[u].status \in Waiting => Field(task'[u]) = Field(task[u])
      BY <1>1, <2>1, <2>3 DEF Waiting
    <3>. QED  BY <1>0, <3>1, AnswersKept DEF Serial
  <2>5. Blank'
    <3>1. Created' = Created \cup {k}
      BY <1>1, <2>1, <2>2, RowFacts DEF Created, Statuses
    <3>. QED  BY <1>0, <1>1, <2>1, <3>1, RowFacts DEF Serial, Blank
  <2>6. SlotOK(w)'
    BY <1>0, <2>1, <2>2 DEF SlotOK, Free, Beginning, AtWork, Charging, Metered
  <2>7. \A u \in Tasks \ {k} : Due(u)' => Due(u)
    BY <1>0, <1>1, <2>1, <2>2, RowFacts DEF Due, Beginning, Charging
  <2>8. Charges'
    BY <1>0, <2>1, <2>2, <2>3, <2>7, RowFacts, ChargesKept DEF Serial
  <2>9. \A u \in Tasks : Released(u) => Released(u)'
    BY <1>0, <2>1 DEF Released
  <2>10. Refunds'
    BY <1>0, <1>1, <2>1, <2>3, <2>9, RowFacts, RefundsKept DEF Serial
  <2>. QED  BY <1>0, <2>4, <2>5, <2>6, <2>8, <2>10 DEF Serial
<1>. QED  BY <1>2, <1>3

\* The rows of the batch have not moved since they were selected.
LEMMA ReapsSerial ==
  ASSUME TypeOK, Known, Serial, OneSlot, NEW w \in Workers, Reaps(w)
  PROVE  Serial'
<1>. DEFINE S == job[w].batch
<1>0. /\ call' = call /\ Workers = {w} /\ NoTask \notin Tasks
      /\ job[w].pc = "reaping" /\ job'[w].pc = "recovering" /\ job'[w].cur = NoTask
  BY DEF Reaps, OneSlot, NoTask, Tasks
<1>1. \A u \in S : u \in Created /\ OrStopped(u, "working") /\ bill[u].refunds = 0
  <2>1. SlotOK(w)
    BY DEF Serial
  <2>2. S \subseteq Created
    BY <1>0 DEF Known
  <2>3. \A u \in S : bill[u].refunds = 0
    BY <1>0, <2>2 DEF Serial, Refunds, Created
  <2>. QED  BY <1>0, <2>1, <2>2, <2>3 DEF SlotOK
<1>2. \A u \in Tasks :
        /\ u \notin S => Field(task'[u]) = Field(task[u]) /\ bill'[u] = bill[u]
        /\ u \in S => /\ task'[u].status = "failed" /\ task'[u].stopped = task[u].stopped
                      /\ task'[u].attempt = task[u].attempt
                      /\ bill'[u] = bill[u] \/ bill'[u] = Refunded(bill[u])
  <2>1. ASSUME NEW u \in Tasks \ S
        PROVE  Field(task'[u]) = Field(task[u]) /\ bill'[u] = bill[u]
    BY <2>1 DEF Reaps
  <2>2. ASSUME NEW u \in Tasks, u \in S
        PROVE  /\ Field(task'[u]) = <<"failed", task[u].stopped, task[u].attempt>>
               /\ bill'[u] = bill[u] \/ bill'[u] = Refunded(bill[u])
    BY <2>2 DEF Reaps
  <2>. HIDE DEF S
  <2>3. ASSUME NEW u \in Tasks, u \in S
        PROVE  /\ task'[u].status = "failed" /\ task'[u].stopped = task[u].stopped
               /\ task'[u].attempt = task[u].attempt
    BY <2>2, <2>3, FieldParts
  <2>. QED  BY <2>1, <2>2, <2>3
<1>3. \A u \in Tasks : bill'[u].charges = bill[u].charges
  BY <1>2 DEF TypeOK, Bills, Refunded
<1>4. \A u \in S : bill'[u].refunds = 0 \/ bill'[u].refunds = 1
  <2>. SUFFICES ASSUME NEW u \in S PROVE bill'[u].refunds = 0 \/ bill'[u].refunds = 1
    OBVIOUS
  <2>1. u \in Tasks /\ bill[u] \in Bills /\ bill[u].refunds = 0
    BY <1>1 DEF Created, TypeOK
  <2>2. bill'[u] = bill[u] \/ bill'[u] = Refunded(bill[u])
    BY <1>2, <2>1
  <2>. QED  BY <2>1, <2>2 DEF Bills, Refunded
<1>5. \A c \in Clients : AnswerOK(c)'
  <2>1. \A u \in Tasks : task[u].status \in Waiting => Field(task'[u]) = Field(task[u])
    BY <1>1, <1>2 DEF OrStopped, Waiting
  <2>. QED  BY <1>0, <2>1, AnswersKept DEF Serial
<1>6. Blank'
  <2>1. Created' = Created
    BY <1>1, <1>2, RowFacts DEF Created
  <2>. QED  BY <1>1, <1>2, <1>3, <2>1, RowFacts DEF Serial, Blank, Created
<1>7. SlotOK(w)'
  BY <1>0 DEF SlotOK, Free, Beginning, AtWork, Charging, Metered
<1>8. \A u \in Tasks : Due(u)' => Due(u)
  BY <1>0, <1>2, RowFacts DEF Due, Beginning, Charging
<1>9. Charges'
  BY <1>2, <1>3, <1>8, RowFacts, ChargesKept DEF Serial
<1>10. \A u \in Tasks : Released(u)'
  BY <1>0 DEF Released
<1>11. Refunds'
  BY <1>1, <1>2, <1>4, <1>10, RowFacts, RefundsKept DEF Serial
<1>. QED  BY <1>0, <1>5, <1>6, <1>7, <1>9, <1>11 DEF Serial

\* A step of the session that leaves the rows in a slot's hands alone.
LEMMA SlotKept ==
  ASSUME TypeOK, Known, Serial, job' = job,
         \A u \in Created : task[u].status \notin Waiting => Field(task'[u]) = Field(task[u])
  PROVE  \A w \in Workers : SlotOK(w)'
<1>. TAKE w \in Workers
<1>1. SlotOK(w) /\ (job[w].pc \notin Free => job[w].cur \in Created /\ job[w].cur \in Tasks)
  BY InHand DEF Serial
<1>2. job[w].pc = "reaping" => job[w].batch \subseteq Created
  BY DEF Known
<1>3. CASE job[w].pc \in Free
  <2>1. ASSUME job[w].pc = "reaping", NEW u \in job[w].batch PROVE OrStopped(u, "working")'
    <3>1. OrStopped(u, "working") /\ u \in Created /\ u \in Tasks
      BY <1>1, <1>2, <2>1 DEF SlotOK, Created
    <3>2. task[u].status \notin Waiting
      BY <3>1 DEF OrStopped, Waiting
    <3>. QED  BY <3>1, <3>2, RowFacts
  <2>. QED  BY <1>1, <1>3, <2>1 DEF SlotOK, Free, Beginning, AtWork, Charging, Metered
<1>4. CASE job[w].pc \notin Free /\ task[job[w].cur].status \notin Waiting
  <2>1. Field(task'[job[w].cur]) = Field(task[job[w].cur])
    BY <1>1, <1>4
  <2>2. Seen(w)'.status = Seen(w).status
    BY <1>1, <1>4, <2>1, RowFacts DEF Seen, Committed
  <2>3. /\ \A s : OrStopped(job[w].cur, s)' <=> OrStopped(job[w].cur, s)
        /\ task'[job[w].cur].status = task[job[w].cur].status
        /\ task'[job[w].cur].stopped = task[job[w].cur].stopped
    BY <1>1, <1>4, <2>1, RowFacts
  <2>. QED  BY <1>1, <1>4, <2>2, <2>3 DEF SlotOK, Free
<1>5. CASE job[w].pc \notin Free /\ task[job[w].cur].status \in Waiting
  BY <1>1, <1>5 DEF SlotOK, OrStopped, Free, Waiting, Beginning, AtWork, Charging, Metered
<1>. QED  BY <1>3, <1>4, <1>5

LEMMA AnswersSerial ==
  ASSUME TypeOK, Known, Serial, OneSlot, NEW c \in Clients, Answers(c)
  PROVE  Serial'
<1>. DEFINE t == call[c].cur
<1>0. /\ bill' = bill /\ job' = job /\ Clients = {c}
      /\ call[c].pc = "flushed" /\ call'[c].pc = "committed"
      /\ Field(task'[t]) = <<"queued", task[t].stopped, call[c].attempt + 1>>
      /\ \A u \in Tasks \ {t} : Field(task'[u]) = Field(task[u])
  BY DEF Answers, OneSlot
<1>1. t \in Tasks /\ t \in Created
  BY <1>0 DEF Known, Created
<1>2. task[t].status \in Waiting /\ call[c].attempt = task[t].attempt
  BY <1>0 DEF Serial, AnswerOK
<1>3. /\ task'[t].status = "queued" /\ task'[t].stopped = task[t].stopped
      /\ task'[t].attempt = task[t].attempt + 1
  <2>. HIDE DEF t
  <2>. QED  BY <1>0, <1>2, FieldParts
<1>4. bill[t].refunds = 0 /\ bill[t].charges <= task[t].attempt + 1
  BY <1>1, <1>2, Counts DEF Serial, Charges, Refunds, Waiting
<1>5. \A w \in Workers : SlotOK(w)'
  <2>1. \A u \in Created : task[u].status \notin Waiting => Field(task'[u]) = Field(task[u])
    BY <1>0, <1>2 DEF Created
  <2>. QED  BY <1>0, <2>1, SlotKept
<1>6. \A d \in Clients : AnswerOK(d)'
  BY <1>0 DEF AnswerOK
<1>7. Blank'
  <2>1. Created' = Created
    BY <1>0, <1>1, <1>3, RowFacts DEF Created
  <2>. QED  BY <1>0, <1>1, <2>1, RowFacts DEF Serial, Blank
<1>8. \A u \in Tasks \ {t} : Due(u)' => Due(u)
  BY <1>0, RowFacts DEF Due
<1>9. Charges'
  BY <1>0, <1>1, <1>3, <1>4, <1>8, RowFacts, Counts, ChargesKept DEF Serial
<1>10. Refunds'
  BY <1>0, <1>1, <1>3, <1>4, RowFacts, RefundsKept DEF Serial, Released
<1>. QED  BY <1>5, <1>6, <1>7, <1>9, <1>10 DEF Serial

\* A Stop comes between two steps of the slot, and between two requests.
LEMMA StopsSerial ==
  ASSUME TypeOK, Known, Serial, OneSlot, NEW c \in Clients, NEW t \in Tasks, Stops(c, t)
  PROVE  Serial'
<1>0. /\ bill' = bill /\ job' = job /\ call' = call /\ Clients = {c}
      /\ call[c].pc = "idle" /\ task[t].status \in Active
      /\ Field(task'[t]) = <<"failed", TRUE, task[t].attempt>>
      /\ \A u \in Tasks \ {t} : Field(task'[u]) = Field(task[u])
  BY DEF Stops, OneSlot
<1>1. /\ task'[t].status = "failed" /\ task'[t].stopped /\ task'[t].attempt = task[t].attempt
  BY <1>0 DEF Field
<1>2. t \in Created /\ task[t].status \notin {"done", "failed"}
  BY <1>0 DEF Created, Active, Statuses, Terminal
<1>3. bill[t].refunds = 0
  BY <1>2 DEF Serial, Refunds
<1>4. ASSUME NEW w \in Workers PROVE SlotOK(w)'
  <2>1. SlotOK(w)
    BY DEF Serial
  <2>2. job[w].pc \notin Free => job[w].cur \in Tasks
    BY InHand
  <2>3. job[w].pc = "reaping" => job[w].batch \subseteq Tasks
    BY DEF Known, Created
  <2>4. \A s : \A u \in Tasks : OrStopped(u, s) => OrStopped(u, s)'
    BY <1>0, <1>1, RowFacts DEF OrStopped
  <2>5. CASE job[w].pc \in Free
    BY <1>0, <2>1, <2>3, <2>4, <2>5 DEF SlotOK, Free, Beginning, AtWork, Charging, Metered
  <2>6. CASE job[w].pc \notin Free /\ job[w].cur = t
    BY <1>0, <1>1, <1>2, <2>1, <2>2, <2>4, <2>6 DEF SlotOK, Free
  <2>7. CASE job[w].pc \notin Free /\ job[w].cur # t
    <3>1. Field(task'[job[w].cur]) = Field(task[job[w].cur])
      BY <1>0, <2>2, <2>7
    <3>2. Seen(w)'.status = Seen(w).status
      BY <1>0, <2>2, <2>7, <3>1, RowFacts DEF Seen, Committed
    <3>3. /\ task'[job[w].cur].status = task[job[w].cur].status
          /\ task'[job[w].cur].stopped = task[job[w].cur].stopped
      BY <2>2, <2>7, <3>1, RowFacts
    <3>. QED  BY <1>0, <2>1, <2>2, <2>4, <2>7, <3>2, <3>3 DEF SlotOK, Free
  <2>. QED  BY <2>5, <2>6, <2>7
<1>5. \A d \in Clients : AnswerOK(d)'
  BY <1>0 DEF AnswerOK
<1>6. Blank'
  <2>1. Created' = Created
    BY <1>0, <1>1, <1>2, RowFacts DEF Created
  <2>. QED  BY <1>0, <1>2, <2>1, RowFacts DEF Serial, Blank
<1>7. \A u \in Tasks : Due(u)' => Due(u)
  BY <1>0, <1>1, RowFacts DEF Due
<1>8. Charges'
  BY <1>0, <1>1, <1>7, RowFacts, ChargesKept DEF Serial
<1>9. Refunds'
  BY <1>0, <1>3, RowFacts, RefundsKept DEF Serial, Released
<1>. QED  BY <1>4, <1>5, <1>6, <1>8, <1>9 DEF Serial

LEMMA OrdersSerial ==
  ASSUME TypeOK, Known, Serial, OneSlot, NEW c \in Clients, NEW k \in Tasks, Orders(c, k)
  PROVE  Serial'
<1>0. /\ bill' = bill /\ job' = job /\ Clients = {c} /\ call'[c].pc = "committed"
      /\ k \in Tasks \ Created
      /\ Field(task'[k]) = <<"queued", FALSE, 0>>
      /\ \A u \in Tasks \ {k} : Field(task'[u]) = Field(task[u])
  BY DEF Orders, OneSlot
<1>1. task'[k].status = "queued" /\ task'[k].stopped = FALSE /\ task'[k].attempt = 0
  BY <1>0 DEF Field
<1>2. /\ task[k].status = "none" /\ bill[k].charges = 0 /\ bill[k].refunds = 0
  BY <1>0, FreeRow
<1>3. \A w \in Workers : SlotOK(w)'
  BY <1>0, SlotKept DEF Created
<1>4. \A d \in Clients : AnswerOK(d)'
  BY <1>0 DEF AnswerOK
<1>5. Blank'
  <2>1. Created' = Created \cup {k}
    BY <1>0, <1>1, RowFacts DEF Created
  <2>. QED  BY <1>0, <2>1, RowFacts DEF Serial, Blank
<1>6. \A u \in Tasks \ {k} : Due(u)' => Due(u)
  BY <1>0, RowFacts DEF Due
<1>7. Charges'
  BY <1>0, <1>1, <1>2, <1>6, RowFacts, ChargesKept DEF Serial
<1>8. Refunds'
  BY <1>0, <1>2, RowFacts, RefundsKept DEF Serial, Released
<1>. QED  BY <1>3, <1>4, <1>5, <1>7, <1>8 DEF Serial

LEMMA SerialStep ==
  ASSUME TypeOK, TypeOK', Known, Serial, OneSlot, [Next]_vars
  PROVE  Serial'
<1>1. ASSUME NEW w \in Workers, SlotShape(w) PROVE Serial'
  BY <1>1, TakesSerial, MovesSerial, DropsSerial, BeginsSerial, MetersSerial, EndsSerial,
     CollectsSerial, FinalizesSerial, SelectsSerial, ReapsSerial DEF SlotShape
<1>2. ASSUME NEW c \in Clients, CallShape(c) PROVE Serial'
  BY <1>2, AnswersSerial, StopsSerial, OrdersSerial DEF CallShape
<1>. QED  BY <1>1, <1>2, CalmSerial, NextShape

LEMMA InitSerial == Init => Serial
BY DEF Init, Serial, SlotOK, AnswerOK, Charges, Refunds, Blank, Due, IdleJob, IdleCall,
       NoRow, Free, Beginning, AtWork, Charging, Metered, NoTask, Tasks, OrStopped

LEMMA AlwaysSerial == ASSUME OneSlot PROVE Spec => [](TypeOK /\ Known /\ Serial)
<1>1. Init => TypeOK /\ Known /\ Serial
  BY InitTypeOK, InitKnown, InitSerial
<1>2. TypeOK /\ Known /\ Serial /\ [Next]_vars => (TypeOK /\ Known /\ Serial)'
  BY NextTypeOK, KnownStep, SerialStep
<1>. QED  BY <1>1, <1>2, PTL DEF Spec

\* With one slot and one session, a task is refunded at most once, whether the
\* reaper, the sandbox or the model fails it, for every number of crashes.
THEOREM SingleRefund == ASSUME OneSlot PROVE Spec => []OneRefund
<1>1. TypeOK /\ Serial => OneRefund
  BY Counts DEF Serial, Refunds, OneRefund
<1>. QED  BY <1>1, AlwaysSerial, PTL

\* With one slot and one session, a task costs at most one charge for each time the
\* user let it start, however often its message is delivered and whatever dies.
THEOREM SingleCharge == ASSUME OneSlot PROVE Spec => []OneChargePerAttempt
<1>1. TypeOK /\ Serial => OneChargePerAttempt
  BY Counts DEF Serial, Charges, OneChargePerAttempt
<1>. QED  BY <1>1, AlwaysSerial, PTL

-----------------------------------------------------------------------------
(* The refinement: each step of the slot and the session is a step of the  *)
(* life cycle, or changes nothing it can see.                              *)

status == [t \in Tasks |-> task[t].status]
stopped == {t \in Tasks : task[t].stopped}
held == {t \in Tasks : \E w \in Holding(t) : job[w].pc # "enqueue"}
parent == [t \in Tasks |-> prov[t].parent]

LEMMA HeldIs ==
  ASSUME NEW w \in Workers, Workers = {w}
  PROVE  /\ held = {t \in Tasks : job[w].cur = t /\ job[w].pc \notin {"idle", "enqueue"}}
         /\ held' = {t \in Tasks : job'[w].cur = t /\ job'[w].pc \notin {"idle", "enqueue"}}
BY DEF held, Holding

LEMMA KeepsMaps ==
  /\ RowsSame => status' = status /\ stopped' = stopped
  /\ prov' = prov => parent' = parent
  /\ job' = job => held' = held
<1>1. ASSUME RowsSame PROVE status' = status /\ stopped' = stopped
  BY <1>1, RowFacts DEF RowsSame, status, stopped
<1>. QED  BY <1>1 DEF parent, held, Holding

LEMMA RowToMaps ==
  ASSUME NEW t \in Tasks, NEW s, RowTo(t, s)
  PROVE  status' = [status EXCEPT ![t] = s] /\ stopped' = stopped
<1>1. task'[t].status = s /\ task'[t].stopped = task[t].stopped
  BY FieldParts DEF RowTo
<1>2. \A u \in Tasks \ {t} : task'[u].status = task[u].status /\ task'[u].stopped = task[u].stopped
  BY RowFacts DEF RowTo
<1>. QED  BY <1>1, <1>2 DEF status, stopped

Mapped == Lifecycle!LNext \/ UNCHANGED <<status, stopped, held, parent>>

LEMMA CalmMaps == Calm => Mapped
BY KeepsMaps DEF Calm, Keeps, Mapped

LEMMA TakesMaps ==
  ASSUME OneSlot, NEW w \in Workers, NEW t \in Tasks, Takes(w, t)
  PROVE  Mapped
<1>1. Workers = {w} /\ job[w].pc = "idle" /\ job'[w].pc = "loaded" /\ job'[w].cur = t
  BY DEF OneSlot, Takes
<1>2. held = {} /\ held' = {t}
  BY <1>1, HeldIs
<1>3. /\ status' = status /\ stopped' = stopped /\ parent' = parent
      /\ status[t] = "queued"
  BY KeepsMaps DEF Takes, Keeps, status
<1>4. Lifecycle!Take(t)
  BY <1>2, <1>3 DEF Lifecycle!Take, status, stopped, parent, held
<1>. QED  BY <1>4 DEF Mapped, Lifecycle!LNext

\* Steps of the slot that write no row, or the bill only.
LEMMA QuietMaps ==
  ASSUME TypeOK, Known, Serial, OneSlot, NEW w \in Workers,
         Moves(w) \/ Drops(w) \/ Meters(w) \/ Selects(w)
  PROVE  Mapped
<1>. SUFFICES ASSUME NEW t, t = job[w].cur PROVE Mapped
  OBVIOUS
<1>1. Workers = {w} /\ NoTask \notin Tasks /\ SlotOK(w)
      /\ status' = status /\ stopped' = stopped /\ parent' = parent
  BY KeepsMaps DEF OneSlot, NoTask, Tasks, Serial, Moves, Drops, Meters, Selects, Keeps
<1>2. CASE Moves(w) \/ Meters(w)
  <2>1. held' = held
    BY <1>1, <1>2, HeldIs DEF Moves, Meters, Metered
  <2>. QED  BY <1>1, <2>1 DEF Mapped
<1>3. CASE Selects(w)
  <2>1. held' = {} /\ held = {}
    BY <1>1, <1>3, HeldIs DEF Selects
  <2>. QED  BY <1>1, <2>1 DEF Mapped
<1>4. CASE Drops(w)
  <2>1. held' = {}
    BY <1>1, <1>4, HeldIs DEF Drops, IdleJob
  <2>2. CASE job[w].pc \in Free \cup {"enqueue"}
    <3>1. held = {}
      BY <1>1, <2>2, HeldIs DEF SlotOK, Free
    <3>. QED  BY <1>1, <2>1, <3>1 DEF Mapped
  <2>3. CASE job[w].pc \notin Free \cup {"enqueue"}
    <3>1. t \in Tasks /\ held = {t}
      BY <1>1, <2>3, HeldIs, InHand DEF Free
    <3>2. Lifecycle!LetGo(t)
      BY <1>1, <2>1, <3>1 DEF Lifecycle!LetGo, status, stopped, parent, held
    <3>. QED  BY <3>1, <3>2 DEF Mapped, Lifecycle!LNext
  <2>. QED  BY <2>2, <2>3
<1>. QED  BY <1>2, <1>3, <1>4

LEMMA BeginsMaps ==
  ASSUME TypeOK, Known, Serial, OneSlot, NEW w \in Workers, Begins(w)
  PROVE  Mapped
<1>. SUFFICES ASSUME NEW t, t = job[w].cur PROVE Mapped
  OBVIOUS
<1>1. Workers = {w} /\ RowTo(t, "working") /\ parent' = parent
      /\ job[w].pc = "gated" /\ job'[w].pc = "started" /\ job'[w].cur = t
  BY KeepsMaps DEF OneSlot, Begins
<1>2. t \in Tasks /\ OrStopped(t, "queued")
  BY <1>1, InHand DEF Serial, SlotOK, Free, Beginning
<1>3. held = {t} /\ held' = {t}
  BY <1>1, <1>2, HeldIs
<1>4. status' = [status EXCEPT ![t] = "working"] /\ stopped' = stopped
  BY <1>1, <1>2, RowToMaps
<1>5. Lifecycle!Yields(t, "queued")
  BY <1>2 DEF Lifecycle!Yields, OrStopped
<1>6. Lifecycle!Start(t)
  BY <1>1, <1>3, <1>4, <1>5 DEF Lifecycle!Start, status, stopped, parent, held
<1>. QED  BY <1>2, <1>6 DEF Mapped, Lifecycle!LNext

LEMMA EndsMaps ==
  ASSUME TypeOK, Known, Serial, OneSlot, NEW w \in Workers,
         NEW s \in Waiting \cup {"failed"}, Ends(w, s)
  PROVE  Mapped
<1>. SUFFICES ASSUME NEW t, t = job[w].cur PROVE Mapped
  OBVIOUS
<1>1. Workers = {w} /\ RowTo(t, s) /\ parent' = parent
      /\ job[w].pc \in AtWork /\ job'[w].pc = "idle"
  BY KeepsMaps DEF OneSlot, Ends, IdleJob
<1>2. t \in Tasks /\ OrStopped(t, "working")
  BY <1>1, InHand DEF Serial, SlotOK, Free, AtWork, Charging, Metered
<1>3. held = {t} /\ held' = {}
  BY <1>1, <1>2, HeldIs DEF AtWork, Charging, Metered
<1>4. status' = [status EXCEPT ![t] = s] /\ stopped' = stopped
  BY <1>1, <1>2, RowToMaps
<1>5. Lifecycle!Yields(t, "working")
  BY <1>2 DEF Lifecycle!Yields, OrStopped
<1>6. Lifecycle!End(t, s)
  BY <1>1, <1>3, <1>4, <1>5
     DEF Lifecycle!End, status, stopped, parent, held, Waiting, Lifecycle!Waiting
<1>. QED  BY <1>2, <1>6 DEF Mapped, Lifecycle!LNext, Waiting, Lifecycle!Statuses

LEMMA CollectsMaps ==
  ASSUME TypeOK, Known, Serial, OneSlot, NEW w \in Workers, Collects(w)
  PROVE  Mapped
<1>. SUFFICES ASSUME NEW t, t = job[w].cur PROVE Mapped
  OBVIOUS
<1>1. Workers = {w} /\ RowTo(t, "done") /\ parent' = parent
      /\ job[w].pc = "running" /\ job'[w].pc = "collected" /\ job'[w].cur = t
  BY KeepsMaps DEF OneSlot, Collects
<1>2. t \in Tasks /\ OrStopped(t, "working")
  BY <1>1, InHand DEF Serial, SlotOK, Free, AtWork, Metered
<1>3. held = {t} /\ held' = {t}
  BY <1>1, <1>2, HeldIs
<1>4. status' = [status EXCEPT ![t] = "done"] /\ stopped' = stopped
  BY <1>1, <1>2, RowToMaps
<1>5. Lifecycle!Yields(t, "working")
  BY <1>2 DEF Lifecycle!Yields, OrStopped
<1>6. Lifecycle!Collect(t)
  BY <1>1, <1>3, <1>4, <1>5 DEF Lifecycle!Collect, status, stopped, parent, held
<1>. QED  BY <1>2, <1>6 DEF Mapped, Lifecycle!LNext

\* The completion of a task and the creation of the next one.
LEMMA FinalizesMaps ==
  ASSUME TypeOK, Known, Serial, OneSlot, ~MemoryFails, NEW w \in Workers,
         NEW s \in Statuses, NEW k \in Tasks \cup {NoTask}, Finalizes(w, s, k)
  PROVE  Mapped
<1>. SUFFICES ASSUME NEW t, t = job[w].cur PROVE Mapped
  OBVIOUS
<1>. DEFINE base == [status EXCEPT ![t] = "done"]
<1>1. Workers = {w} /\ s = "done" /\ job[w].pc \in {"running", "collected"}
      /\ NoTask \notin Tasks
  BY DEF OneSlot, Finalizes, NoTask, Tasks, Serial, SlotOK
<1>2. /\ t \in Tasks /\ t \in Created
      /\ job[w].pc = "running" => OrStopped(t, "working")
      /\ job[w].pc = "collected" => status[t] = "done"
  BY <1>1, InHand DEF Serial, SlotOK, Free, AtWork, Metered, status
<1>3. held = {t} /\ held' = {}
  <2>1. job'[w].pc \in {"idle", "enqueue"}
    <3>1. job'[w] = IdleJob \/ job'[w].pc = "enqueue"
      BY DEF Finalizes
    <3>. QED  BY <3>1 DEF IdleJob
  <2>. QED  BY <1>1, <1>2, <2>1, HeldIs
<1>4. stopped' = stopped /\ Lifecycle!Child(t, k, base)
  <2>1. CASE k = NoTask
    <3>1. RowTo(t, "done") /\ parent' = parent
      BY <1>1, <2>1, KeepsMaps DEF Finalizes
    <3>2. status' = base /\ stopped' = stopped
      BY <1>2, <3>1, RowToMaps
    <3>. QED  BY <2>1, <3>1, <3>2 DEF Lifecycle!Child, status, parent
  <2>2. CASE k # NoTask
    <3>1. /\ k \in Tasks \ Created /\ k # t
          /\ Field(task'[t]) = <<"done", task[t].stopped, task[t].attempt>>
          /\ Field(task'[k]) = <<"queued", FALSE, 0>>
          /\ \A u \in Tasks \ {t, k} : Field(task'[u]) = Field(task[u])
      BY <1>1, <1>2, <2>2 DEF Finalizes
    <3>2. PICK p : prov' = [prov EXCEPT ![k] = p] /\ p.parent = t
      BY <2>2 DEF Finalizes
    <3>3. /\ task'[t].status = "done" /\ task'[t].stopped = task[t].stopped
          /\ task'[k].status = "queued" /\ task'[k].stopped = FALSE
      BY <3>1 DEF Field
    <3>4. task[k].status = "none" /\ ~task[k].stopped
      BY <3>1, FreeRow
    <3>5. \A u \in Tasks \ {t, k} : /\ task'[u].status = task[u].status
                                    /\ task'[u].stopped = task[u].stopped
      BY <3>1, RowFacts
    <3>6. stopped' = stopped
      BY <3>3, <3>4, <3>5 DEF stopped
    <3>7. status' = [base EXCEPT ![k] = "queued"]
      BY <3>1, <3>3, <3>5 DEF status
    <3>8. parent' = [parent EXCEPT ![k] = t]
      BY <3>1, <3>2 DEF parent, TypeOK
    <3>9. status[k] = "none" /\ k \in Tasks
      BY <3>1, <3>4 DEF status
    <3>. QED  BY <3>6, <3>7, <3>8, <3>9 DEF Lifecycle!Child, status, parent
  <2>. QED  BY <2>1, <2>2
<1>5. CASE job[w].pc = "running"
  <2>1. Lifecycle!Yields(t, "working")
    BY <1>2, <1>5 DEF Lifecycle!Yields, OrStopped
  <2>2. Lifecycle!Complete(t, k)
    BY <1>3, <1>4, <2>1 DEF Lifecycle!Complete, status, stopped, held
  <2>. QED  BY <1>2, <2>2 DEF Mapped, Lifecycle!LNext
<1>6. CASE job[w].pc = "collected"
  <2>1. base = status
    BY <1>2, <1>6 DEF status
  <2>2. Lifecycle!Child(t, k, status)
    <3>. HIDE DEF base
    <3>. QED  BY <1>4, <2>1 DEF Lifecycle!Child
  <2>3. Lifecycle!HandOver(t, k)
    BY <1>2, <1>3, <1>4, <1>6, <2>2 DEF Lifecycle!HandOver, status, stopped, held
  <2>. QED  BY <1>2, <2>3 DEF Mapped, Lifecycle!LNext
<1>. QED  BY <1>1, <1>5, <1>6

LEMMA ReapsMaps ==
  ASSUME TypeOK, Known, Serial, OneSlot, NEW w \in Workers, Reaps(w)
  PROVE  Mapped
<1>. SUFFICES ASSUME NEW S, S = job[w].batch PROVE Mapped
  OBVIOUS
<1>1. /\ Workers = {w} /\ parent' = parent /\ NoTask \notin Tasks
      /\ job[w].pc = "reaping" /\ job'[w].cur = NoTask
  BY KeepsMaps DEF OneSlot, Reaps, NoTask, Tasks
<1>2. S # {} /\ S \subseteq Tasks /\ \A u \in S : OrStopped(u, "working")
  BY <1>1 DEF Serial, SlotOK, Known, Created
<1>3. held = {} /\ held' = {}
  <2>1. job[w].cur = NoTask
    BY <1>1 DEF Serial, SlotOK, Free
  <2>. QED  BY <1>1, <2>1, HeldIs
<1>4. \A u \in Tasks : /\ task'[u].status = IF u \in S THEN "failed" ELSE task[u].status
                       /\ task'[u].stopped = task[u].stopped
  <2>1. ASSUME NEW u \in Tasks \ S PROVE Field(task'[u]) = Field(task[u])
    BY <2>1 DEF Reaps
  <2>2. ASSUME NEW u \in Tasks, u \in S
        PROVE  Field(task'[u]) = <<"failed", task[u].stopped, task[u].attempt>>
    BY <2>2 DEF Reaps
  <2>. QED  BY <2>1, <2>2, FieldParts
<1>5. stopped' = stopped
  BY <1>4 DEF stopped
<1>6. \A u \in S : Lifecycle!Yields(u, "working")
  BY <1>2 DEF Lifecycle!Yields, OrStopped
<1>7. status' = [u \in Tasks |-> IF u \in S THEN "failed" ELSE status[u]]
  BY <1>4 DEF status
<1>8. Lifecycle!Reap(S)
  BY <1>1, <1>2, <1>3, <1>5, <1>6, <1>7
     DEF Lifecycle!Reap, status, stopped, held, parent
<1>. QED  BY <1>2, <1>8 DEF Mapped, Lifecycle!LNext

LEMMA CallMaps ==
  ASSUME TypeOK, Known, Serial, Watchful, NEW c \in Clients, CallShape(c)
  PROVE  Mapped
<1>0. held' = held
  BY KeepsMaps DEF CallShape, Answers, Stops, Orders
<1>1. CASE Answers(c)
  <2>. SUFFICES ASSUME NEW t, t = call[c].cur PROVE Mapped
    OBVIOUS
  <2>1. t \in Tasks /\ task[t].status \in Waiting
    BY <1>1 DEF Answers, Serial, AnswerOK, Known, Created
  <2>2. task'[t].status = "queued" /\ task'[t].stopped = task[t].stopped
    BY <1>1 DEF Answers, Field
  <2>3. \A u \in Tasks \ {t} : /\ task'[u].status = task[u].status
                               /\ task'[u].stopped = task[u].stopped
    BY <1>1, RowFacts DEF Answers
  <2>4. status' = [status EXCEPT ![t] = "queued"] /\ stopped' = stopped
    BY <2>1, <2>2, <2>3 DEF status, stopped
  <2>5. Lifecycle!ContinueTask(t)
    BY <1>0, <1>1, <2>1, <2>4, KeepsMaps
       DEF Lifecycle!ContinueTask, Answers, status, stopped, held, parent,
           Waiting, Lifecycle!Waiting
  <2>. QED  BY <2>1, <2>5 DEF Mapped, Lifecycle!LNext
<1>2. ASSUME NEW t \in Tasks, Stops(c, t) PROVE Mapped
  <2>1. task'[t].status = "failed" /\ task'[t].stopped = TRUE
    BY <1>2 DEF Stops, Field
  <2>2. \A u \in Tasks \ {t} : /\ task'[u].status = task[u].status
                               /\ task'[u].stopped = task[u].stopped
    BY <1>2, RowFacts DEF Stops
  <2>3. status' = [status EXCEPT ![t] = "failed"] /\ stopped' = stopped \cup {t}
    BY <2>1, <2>2 DEF status, stopped
  <2>4. Lifecycle!StopTask(t)
    BY <1>0, <1>2, <2>3, KeepsMaps
       DEF Lifecycle!StopTask, Stops, status, stopped, held, parent, Active, Statuses,
           Terminal, Lifecycle!Active, Lifecycle!Statuses, Lifecycle!Terminal
  <2>. QED  BY <2>4 DEF Mapped, Lifecycle!LNext
<1>3. ASSUME NEW k \in Tasks, Orders(c, k) PROVE Mapped
  <2>1. task[k].status = "none" /\ ~task[k].stopped /\ prov[k] = NoProv
    BY <1>3, FreeRow DEF Orders, Watchful
  <2>2. task'[k].status = "queued" /\ task'[k].stopped = FALSE
    BY <1>3 DEF Orders, Field
  <2>3. \A u \in Tasks \ {k} : /\ task'[u].status = task[u].status
                               /\ task'[u].stopped = task[u].stopped
    BY <1>3, RowFacts DEF Orders
  <2>4. status' = [status EXCEPT ![k] = "queued"] /\ stopped' = stopped
    BY <2>1, <2>2, <2>3 DEF status, stopped
  <2>5. parent' = parent
    <3>1. PICK p : prov' = [prov EXCEPT ![k] = p] /\ p.parent = NoTask
      BY <1>3 DEF Orders
    <3>. QED  BY <2>1, <3>1 DEF parent, TypeOK, NoProv
  <2>6. Lifecycle!CreateRoot(k)
    BY <1>0, <2>1, <2>4, <2>5 DEF Lifecycle!CreateRoot, status, stopped, held, parent
  <2>. QED  BY <2>6 DEF Mapped, Lifecycle!LNext
<1>. QED  BY <1>1, <1>2, <1>3 DEF CallShape

LEMMA NextMaps ==
  ASSUME TypeOK, Known, Serial, Watchful, OneSlot, ~MemoryFails, [Next]_vars
  PROVE  [Lifecycle!LNext]_(Lifecycle!lvars)
<1>1. ASSUME NEW w \in Workers, SlotShape(w) PROVE Mapped
  BY <1>1, TakesMaps, QuietMaps, BeginsMaps, EndsMaps, CollectsMaps, FinalizesMaps, ReapsMaps
     DEF SlotShape
<1>2. Mapped
  BY <1>1, CalmMaps, CallMaps, NextShape
<1>. QED  BY <1>2 DEF Mapped, Lifecycle!lvars, status, stopped, held, parent

LEMMA InitWatchful == Init => Watchful
BY DEF Init, IdleJob, Watchful, Free

LEMMA InitMaps == Init => Lifecycle!LInit
BY DEF Init, Lifecycle!LInit, NoRow, NoProv, IdleJob, Holding

\* With one slot and one session, and a memory that can be written, what becomes of
\* the rows is the life cycle that TaskLifecycle promises.
THEOREM LifecycleImplemented == ASSUME OneSlot, ~MemoryFails PROVE Spec => ImplementsLifecycle
<1>. DEFINE IInv == TypeOK /\ Known /\ Serial /\ Watchful
<1>1. Init => IInv
  BY InitTypeOK, InitKnown, InitSerial, InitWatchful
<1>2. IInv /\ [Next]_vars => IInv'
  BY NextTypeOK, KnownStep, SerialStep, WatchfulStep
<1>3. IInv /\ [Next]_vars => [Lifecycle!LNext]_(Lifecycle!lvars)
  BY NextMaps
<1>. QED  BY <1>1, <1>2, <1>3, InitMaps, PTL DEF Spec, ImplementsLifecycle, Lifecycle!LSpec
=============================================================================
