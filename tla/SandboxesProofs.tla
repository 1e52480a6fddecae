--------------------------- MODULE SandboxesProofs ---------------------------
(***************************************************************************)
(* Proofs about the sandboxes of a project, for any number of workers, API *)
(* processes, tasks and machines.                                          *)
(***************************************************************************)
EXTENDS Sandboxes, TLAPS

Ws == {"ws"} \X (1..MaxBuilds)
Pv == {"pv"} \X (1..MaxPreviews)
Pcs == {"idle", "kill", "delete"} \cup WorkspaceSteps \cup PreviewSteps

LEMMA Machines ==
  /\ Ids = Ws \cup Pv /\ Ws \cap Pv = {}
  /\ \A i \in Ids : (i[1] = "ws" <=> i \in Ws) /\ (i[1] = "pv" <=> i \in Pv)
  BY DEF Ids, Ws, Pv

LEMMA NewRowTyped == NewRow \in Rows /\ Idle \in Jobs
<1>1. 0 \in 0..MaxVersions
  BY SandboxesAssumption DEF SandboxesAssumption
<1>2. NewRow \in Rows
  BY <1>1 DEF NewRow, Rows
<1>. QED  BY <1>1, <1>2 DEF Idle, Jobs

-----------------------------------------------------------------------------
(* What a step does to the record of the process that takes it.            *)

OtherJobs(p) == job' \in [Procs -> Jobs] /\ \A q \in Procs \ {p} : job'[q] = job[q]

\* The process goes on with what it knows.
Carries(p, pc) ==
  /\ OtherJobs(p) /\ job'[p].pc = pc
  /\ job'[p].task = job[p].task /\ job'[p].seen = job[p].seen /\ job'[p].id = job[p].id
  /\ job'[p].files = job[p].files /\ job'[p].ver = job[p].ver

\* It forgets all of that.
Turns(p, pc) ==
  /\ OtherJobs(p) /\ job'[p].pc = pc
  /\ job'[p].task = None /\ job'[p].seen = NewRow /\ job'[p].id = None

\* A machine is created for it.
Takes(p, pc, i) ==
  /\ OtherJobs(p) /\ job'[p].pc = pc /\ job'[p].id = i
  /\ job'[p].task = job[p].task /\ job'[p].seen = job[p].seen
  /\ job'[p].files = job[p].files /\ job'[p].ver = job[p].ver

\* The run begins in the machine i.
Enters(p, i) ==
  /\ OtherJobs(p) /\ job'[p].pc = "loop" /\ job'[p].id = i
  /\ job'[p].task = job[p].task /\ job'[p].seen = NewRow

\* An operation begins with the row as it is loaded.
Loads(p, pc, row) ==
  /\ OtherJobs(p) /\ job'[p].pc = pc /\ job'[p].seen = row /\ job'[p].id = None

LEMMA JobTyped ==
  ASSUME TypeOK, NEW p \in Procs
  PROVE  /\ job \in [Procs -> Jobs] /\ job[p] \in Jobs
         /\ job[p].pc \in Pcs /\ job[p].task \in Tasks \cup {None} /\ job[p].seen \in Rows
         /\ job[p].id \in Ids \cup {None}
         /\ job[p].files \in 0..MaxVersions /\ job[p].ver \in 0..MaxVersions
<1>1. job \in [Procs -> Jobs]
  BY DEF TypeOK
<1>2. job[p] \in Jobs
  BY <1>1
<1>. QED  BY <1>1, <1>2 DEF Jobs, Pcs

LEMMA SetJob ==
  ASSUME TypeOK, NEW p \in Procs, NEW j \in Jobs, job' = [job EXCEPT ![p] = j]
  PROVE  OtherJobs(p) /\ job'[p] = j
  BY JobTyped DEF OtherJobs

LEMMA GotoDoes ==
  ASSUME TypeOK, NEW p \in Procs, NEW pc \in Pcs, Goto(p, pc)
  PROVE  Carries(p, pc)
<1>. DEFINE j == [job[p] EXCEPT !.pc = pc]
<1>1. /\ j \in Jobs /\ j.pc = pc /\ j.task = job[p].task /\ j.seen = job[p].seen
      /\ j.id = job[p].id /\ j.files = job[p].files /\ j.ver = job[p].ver
  BY JobTyped DEF Jobs, Pcs
<1>2. job' = [job EXCEPT ![p] = j]
  BY DEF Goto
<1>. HIDE DEF j
<1>. QED  BY <1>1, <1>2, SetJob DEF Carries

LEMMA LeaveDoes ==
  ASSUME TypeOK, NEW p \in Procs, Leave(p)
  PROVE  Turns(p, "idle")
<1>1. /\ Idle \in Jobs /\ Idle.pc = "idle" /\ Idle.task = None /\ Idle.seen = NewRow
      /\ Idle.id = None
  BY NewRowTyped DEF Idle
<1>2. OtherJobs(p) /\ job'[p] = Idle
  BY <1>1, SetJob DEF Leave
<1>. QED  BY <1>1, <1>2 DEF Turns

LEMMA ThenDoes ==
  ASSUME TypeOK, NEW p \in Procs, NEW pc \in Pcs, Then(p, pc)
  PROVE  Turns(p, pc)
<1>. DEFINE j == [Idle EXCEPT !.pc = pc]
<1>1. j \in Jobs /\ j.pc = pc /\ j.task = None /\ j.seen = NewRow /\ j.id = None
  BY NewRowTyped DEF Idle, Jobs, Pcs
<1>2. job' = [job EXCEPT ![p] = j]
  BY DEF Then
<1>. HIDE DEF j
<1>. QED  BY <1>1, <1>2, SetJob DEF Turns

LEMMA EnterDoes ==
  ASSUME TypeOK, NEW p \in Procs, NEW i \in Ids \cup {None}, Enter(p, i)
  PROVE  Enters(p, i)
<1>. DEFINE j == [job[p] EXCEPT !.pc = "loop", !.id = i, !.seen = NewRow]
<1>1. j \in Jobs /\ j.pc = "loop" /\ j.task = job[p].task /\ j.seen = NewRow /\ j.id = i
  BY JobTyped, NewRowTyped DEF Jobs, WorkspaceSteps, RunSteps
<1>2. job' = [job EXCEPT ![p] = j]
  BY DEF Enter
<1>. HIDE DEF j
<1>. QED  BY <1>1, <1>2, SetJob DEF Enters

LEMMA TakeDoes ==
  ASSUME TypeOK, NEW p \in Procs, NEW pc \in Pcs, NEW i \in Ids,
         job' = [job EXCEPT ![p].pc = pc, ![p].id = i]
  PROVE  Takes(p, pc, i)
<1>. DEFINE j == [job[p] EXCEPT !.pc = pc, !.id = i]
<1>1. /\ j \in Jobs /\ j.pc = pc /\ j.task = job[p].task /\ j.seen = job[p].seen /\ j.id = i
      /\ j.files = job[p].files /\ j.ver = job[p].ver
  BY JobTyped DEF Jobs, Pcs
<1>2. job' = [job EXCEPT ![p] = j]
  BY JobTyped
<1>. HIDE DEF j
<1>. QED  BY <1>1, <1>2, SetJob DEF Takes

LEMMA Columns ==
  ASSUME TypeOK
  PROVE  /\ project \in Rows
         /\ WorkspaceColumns \in Rows
         /\ WorkspaceColumns.id = project.id /\ WorkspaceColumns.status = project.status
         /\ WorkspaceColumns.pvId = None /\ WorkspaceColumns.pvStatus = "none"
         /\ PreviewColumns \in Rows
         /\ PreviewColumns.id = None /\ PreviewColumns.status = "none"
         /\ PreviewColumns.pvId = project.pvId /\ PreviewColumns.pvStatus = project.pvStatus
         /\ PreviewColumns.pvVer = project.pvVer
<1>1. project \in Rows
  BY DEF TypeOK
<1>. QED  BY <1>1, NewRowTyped DEF NewRow, WorkspaceColumns, PreviewColumns, Rows

\* The run of the task t begins.
Begins(p, t) ==
  /\ OtherJobs(p) /\ job'[p].pc = "ensure" /\ job'[p].task = t
  /\ job'[p].seen = WorkspaceColumns /\ job'[p].id = None

LEMMA BeginDoes ==
  ASSUME TypeOK, NEW w \in Workers, NEW t \in Tasks, BeginRun(w, t)
  PROVE  w \in Procs /\ Begins(w, t)
<1>. DEFINE row == WorkspaceColumns
            j == [Idle EXCEPT !.pc = "ensure", !.task = t, !.seen = row]
<1>1. row \in Rows /\ w \in Procs
  BY Columns DEF Procs
<1>2. job' = [job EXCEPT ![w] = j]
  BY DEF BeginRun
<1>. HIDE DEF row
<1>3. j \in Jobs /\ j.pc = "ensure" /\ j.task = t /\ j.seen = row /\ j.id = None
  BY <1>1, NewRowTyped DEF Idle, Jobs, WorkspaceSteps, RunSteps
<1>. HIDE DEF j
<1>4. OtherJobs(w) /\ job'[w] = j
  BY <1>1, <1>2, <1>3, SetJob
<1>. QED  BY <1>1, <1>3, <1>4 DEF Begins, row

LEMMA RequestDoes ==
  ASSUME TypeOK, NEW p \in Procs, NEW pc \in Pcs, NEW row \in Rows, NEW files \in 0..MaxVersions,
         Request(p, pc, row, files)
  PROVE  Loads(p, pc, row) /\ job'[p].task = None /\ job'[p].files = files
<1>. DEFINE j == [Idle EXCEPT !.pc = pc, !.seen = row, !.files = files]
<1>1. job' = [job EXCEPT ![p] = j]
  BY DEF Request
<1>2. j \in Jobs /\ j.pc = pc /\ j.task = None /\ j.seen = row /\ j.id = None /\ j.files = files
  BY NewRowTyped DEF Idle, Jobs, Pcs
<1>. HIDE DEF j
<1>3. OtherJobs(p) /\ job'[p] = j
  BY <1>1, <1>2, SetJob
<1>. QED  BY <1>2, <1>3 DEF Loads

\* The first test of pause_if_idle on the row it has loaded.
Tests(p, row) ==
  \/ row.id # None /\ row.status = "running" /\ Loads(p, "busycheck", row) /\ job'[p].task = None
  \/ ~(row.id # None /\ row.status = "running") /\ Turns(p, "idle")

LEMMA TestDoes ==
  ASSUME TypeOK, NEW w \in Procs, NEW row \in Rows, TestRow(w, row)
  PROVE  Tests(w, row)
<1>1. CASE row.id # None /\ row.status = "running"
  <2>. DEFINE j == [Idle EXCEPT !.pc = "busycheck", !.seen = row]
  <2>1. job' = [job EXCEPT ![w] = j]
    BY <1>1 DEF TestRow
  <2>2. j \in Jobs /\ j.pc = "busycheck" /\ j.task = None /\ j.seen = row /\ j.id = None
    BY NewRowTyped DEF Idle, Jobs, WorkspaceSteps
  <2>. HIDE DEF j
  <2>3. OtherJobs(w) /\ job'[w] = j
    BY <2>1, <2>2, SetJob
  <2>. QED  BY <1>1, <2>2, <2>3 DEF Tests, Loads
<1>2. CASE ~(row.id # None /\ row.status = "running")
  <2>1. Leave(w)
    BY <1>2 DEF TestRow, Leave
  <2>. QED  BY <1>2, <2>1, LeaveDoes DEF Tests
<1>. QED  BY <1>1, <1>2

\* The preview is brought up to date behind a run.
Syncs(p) ==
  /\ OtherJobs(p) /\ job'[p].pc = "pvsync" /\ job'[p].seen = project /\ job'[p].files = latest
  /\ job'[p].task = job[p].task

LEMMA RefreshDoes ==
  ASSUME TypeOK, NEW w \in Procs, Refresh(w)
  PROVE  \/ project.pvStatus = "ready" /\ Syncs(w) /\ Cross(w)
         \/ project.pvStatus # "ready" /\ Tests(w, WorkspaceColumns) /\ crossed' = crossed
<1>1. CASE project.pvStatus = "ready"
  <2>. DEFINE j == [job[w] EXCEPT !.pc = "pvsync", !.seen = project, !.files = latest]
  <2>1. job' = [job EXCEPT ![w] = j] /\ Cross(w)
    BY <1>1, JobTyped DEF Refresh
  <2>2. latest \in 0..MaxVersions /\ project \in Rows
    BY DEF TypeOK
  <2>3. /\ j \in Jobs /\ j.pc = "pvsync" /\ j.seen = project /\ j.files = latest
        /\ j.task = job[w].task
    BY <2>2, JobTyped DEF Jobs, PreviewSteps
  <2>. HIDE DEF j
  <2>4. OtherJobs(w) /\ job'[w] = j
    BY <2>1, <2>3, SetJob
  <2>. QED  BY <1>1, <2>1, <2>3, <2>4 DEF Syncs
<1>2. CASE project.pvStatus # "ready"
  BY <1>2, TestDoes, Columns DEF Refresh
<1>. QED  BY <1>1, <1>2

\* The preview is committed as starting, and its row loaded anew.
Sets(p) ==
  /\ OtherJobs(p) /\ job'[p].pc = "pvload" /\ job'[p].ver = latest
  /\ job'[p].task = job[p].task /\ job'[p].seen = job[p].seen /\ job'[p].id = job[p].id
  /\ job'[p].files = job[p].files

Reloads(p) ==
  /\ OtherJobs(p) /\ job'[p].pc = "pvprobe" /\ job'[p].seen = PreviewColumns
  /\ job'[p].id = project.pvId
  /\ job'[p].task = job[p].task /\ job'[p].files = job[p].files /\ job'[p].ver = job[p].ver

LEMMA PvStartingDoes ==
  ASSUME TypeOK, NEW p \in Procs, PvStarting(p)
  PROVE  \/ /\ Sets(p)
            /\ Commit(p, [job[p].seen EXCEPT !.pvStatus = "starting", !.pvVer = latest])
         \/ Turns(p, "idle") /\ Commit(p, [job[p].seen EXCEPT !.pvStatus = "none"])
<1>1. CASE Servable(job[p].files)
  <2>. DEFINE j == [job[p] EXCEPT !.pc = "pvload", !.ver = latest]
  <2>1. job' = [job EXCEPT ![p] = j]
    BY <1>1, JobTyped DEF PvStarting
  <2>2. latest \in 0..MaxVersions
    BY DEF TypeOK
  <2>3. /\ j \in Jobs /\ j.pc = "pvload" /\ j.ver = latest /\ j.task = job[p].task
        /\ j.seen = job[p].seen /\ j.id = job[p].id /\ j.files = job[p].files
    BY <2>2, JobTyped DEF Jobs, PreviewSteps
  <2>. HIDE DEF j
  <2>4. OtherJobs(p) /\ job'[p] = j
    BY <2>1, <2>3, SetJob
  <2>. QED  BY <1>1, <2>3, <2>4 DEF Sets, PvStarting
<1>2. CASE ~Servable(job[p].files)
  BY <1>2, LeaveDoes DEF PvStarting
<1>. QED  BY <1>1, <1>2

LEMMA PvLoadDoes ==
  ASSUME TypeOK, NEW p \in Procs, PvLoad(p)
  PROVE  Reloads(p)
<1>. DEFINE row == PreviewColumns
            i == project.pvId
            j == [job[p] EXCEPT !.pc = "pvprobe", !.seen = row, !.id = i]
<1>1. row \in Rows /\ i \in Ids \cup {None}
  BY Columns DEF Rows
<1>2. job' = [job EXCEPT ![p] = j]
  BY JobTyped DEF PvLoad
<1>. HIDE DEF row, i
<1>3. /\ j \in Jobs /\ j.pc = "pvprobe" /\ j.seen = row /\ j.id = i /\ j.task = job[p].task
      /\ j.files = job[p].files /\ j.ver = job[p].ver
  BY <1>1, JobTyped DEF Jobs, PreviewSteps
<1>. HIDE DEF j
<1>4. OtherJobs(p) /\ job'[p] = j
  BY <1>2, <1>3, SetJob
<1>. QED  BY <1>3, <1>4 DEF Reloads, row, i

-----------------------------------------------------------------------------
(* What a commit writes.                                                   *)

\* The columns of the workspace, of which only those are written that differ from what
\* the process p has loaded.
Saves(p, i, status) ==
  /\ project.exists /\ project'.exists /\ project' \in Rows
  /\ project'.id = IF i # job[p].seen.id THEN i ELSE project.id
  /\ project'.status = IF status # job[p].seen.status THEN status ELSE project.status
  /\ project'.pvId = project.pvId /\ project'.pvStatus = project.pvStatus
  /\ project'.pvVer = project.pvVer

\* Those of the preview.
SavesPv(p, i, status, ver) ==
  /\ project.exists /\ project'.exists /\ project' \in Rows
  /\ project'.pvId = IF i # job[p].seen.pvId THEN i ELSE project.pvId
  /\ project'.pvStatus = IF status # job[p].seen.pvStatus THEN status ELSE project.pvStatus
  /\ project'.pvVer = IF ver # job[p].seen.pvVer THEN ver ELSE project.pvVer
  /\ project'.id = project.id /\ project'.status = project.status

LEMMA CommitDoes ==
  ASSUME TypeOK, NEW p \in Procs, NEW want \in Rows, Commit(p, want),
         want.exists = job[p].seen.exists
  PROVE  /\ project.exists /\ project'.exists /\ project' \in Rows
         /\ project'.id = IF want.id # job[p].seen.id THEN want.id ELSE project.id
         /\ project'.status = IF want.status # job[p].seen.status THEN want.status ELSE project.status
         /\ project'.pvId = IF want.pvId # job[p].seen.pvId THEN want.pvId ELSE project.pvId
         /\ project'.pvStatus =
              IF want.pvStatus # job[p].seen.pvStatus THEN want.pvStatus ELSE project.pvStatus
         /\ project'.pvVer = IF want.pvVer # job[p].seen.pvVer THEN want.pvVer ELSE project.pvVer
<1>. DEFINE seen == job[p].seen
<1>1. project \in Rows /\ seen \in Rows
  BY JobTyped, Columns
<1>2. project' = [c \in DOMAIN project |-> IF want[c] # seen[c] THEN want[c] ELSE project[c]]
  BY DEF Commit, Written
<1>3. project.exists /\ want.exists = seen.exists
  BY DEF Commit
<1>. HIDE DEF seen
<1>4. /\ project'.exists = project.exists
      /\ project'.id = IF want.id # seen.id THEN want.id ELSE project.id
      /\ project'.status = IF want.status # seen.status THEN want.status ELSE project.status
      /\ project'.pvId = IF want.pvId # seen.pvId THEN want.pvId ELSE project.pvId
      /\ project'.pvStatus = IF want.pvStatus # seen.pvStatus THEN want.pvStatus ELSE project.pvStatus
      /\ project'.pvVer = IF want.pvVer # seen.pvVer THEN want.pvVer ELSE project.pvVer
  BY <1>1, <1>2, <1>3 DEF Rows
<1>5. project' \in Rows
  <2>1. project' = [exists |-> project'.exists, id |-> project'.id, status |-> project'.status,
                    pvId |-> project'.pvId, pvStatus |-> project'.pvStatus, pvVer |-> project'.pvVer]
    BY <1>1, <1>2 DEF Rows
  <2>. QED  BY <1>1, <1>4, <2>1 DEF Rows
<1>. QED  BY <1>3, <1>4, <1>5 DEF seen

LEMMA SaveDoes ==
  ASSUME TypeOK, NEW p \in Procs, NEW i \in Ids \cup {None},
         NEW status \in {"none", "running", "paused", "error"},
         Commit(p, [job[p].seen EXCEPT !.id = i, !.status = status])
  PROVE  Saves(p, i, status)
<1>. DEFINE want == [job[p].seen EXCEPT !.id = i, !.status = status]
<1>1. job[p].seen \in Rows
  BY JobTyped
<1>2. /\ want \in Rows /\ want.exists = job[p].seen.exists /\ want.id = i /\ want.status = status
      /\ want.pvId = job[p].seen.pvId /\ want.pvStatus = job[p].seen.pvStatus
      /\ want.pvVer = job[p].seen.pvVer
  BY <1>1 DEF Rows
<1>3. Commit(p, want)
  OBVIOUS
<1>. HIDE DEF want
<1>. QED  BY <1>2, <1>3, CommitDoes DEF Saves

LEMMA SaveStatusDoes ==
  ASSUME TypeOK, NEW p \in Procs,
         NEW status \in {"none", "running", "paused", "error"},
         Commit(p, [job[p].seen EXCEPT !.status = status])
  PROVE  Saves(p, job[p].seen.id, status)
<1>1. job[p].seen \in Rows
  BY JobTyped
<1>2. [job[p].seen EXCEPT !.status = status] = [job[p].seen EXCEPT !.id = job[p].seen.id, !.status = status]
  BY <1>1 DEF Rows
<1>3. job[p].seen.id \in Ids \cup {None}
  BY <1>1 DEF Rows
<1>. QED  BY <1>2, <1>3, SaveDoes

LEMMA SavePvDoes ==
  ASSUME TypeOK, NEW p \in Procs, NEW i \in Ids \cup {None},
         NEW status \in {"none", "starting", "ready", "paused", "error"}, NEW ver \in 0..MaxVersions,
         Commit(p, [job[p].seen EXCEPT !.pvId = i, !.pvVer = ver, !.pvStatus = status])
  PROVE  SavesPv(p, i, status, ver)
<1>. DEFINE want == [job[p].seen EXCEPT !.pvId = i, !.pvVer = ver, !.pvStatus = status]
<1>1. job[p].seen \in Rows
  BY JobTyped
<1>2. /\ want \in Rows /\ want.exists = job[p].seen.exists
      /\ want.pvId = i /\ want.pvStatus = status /\ want.pvVer = ver
      /\ want.id = job[p].seen.id /\ want.status = job[p].seen.status
  BY <1>1 DEF Rows
<1>3. Commit(p, want)
  OBVIOUS
<1>. HIDE DEF want
<1>. QED  BY <1>2, <1>3, CommitDoes DEF SavesPv

LEMMA SavePvStatusDoes ==
  ASSUME TypeOK, NEW p \in Procs,
         NEW status \in {"none", "starting", "ready", "paused", "error"}, NEW ver \in 0..MaxVersions
  PROVE  /\ Commit(p, [job[p].seen EXCEPT !.pvStatus = status, !.pvVer = ver])
              => SavesPv(p, job[p].seen.pvId, status, ver)
         /\ Commit(p, [job[p].seen EXCEPT !.pvStatus = status])
              => SavesPv(p, job[p].seen.pvId, status, job[p].seen.pvVer)
<1>. DEFINE seen == job[p].seen
<1>1. seen \in Rows
  BY JobTyped
<1>2. seen.pvId \in Ids \cup {None} /\ seen.pvVer \in 0..MaxVersions
  BY <1>1 DEF Rows
<1>3. /\ [seen EXCEPT !.pvStatus = status, !.pvVer = ver]
           = [seen EXCEPT !.pvId = seen.pvId, !.pvVer = ver, !.pvStatus = status]
      /\ [seen EXCEPT !.pvStatus = status]
           = [seen EXCEPT !.pvId = seen.pvId, !.pvVer = seen.pvVer, !.pvStatus = status]
  BY <1>1 DEF Rows
<1>4. ASSUME Commit(p, [seen EXCEPT !.pvStatus = status, !.pvVer = ver])
      PROVE  SavesPv(p, seen.pvId, status, ver)
  <2>1. Commit(p, [seen EXCEPT !.pvId = seen.pvId, !.pvVer = ver, !.pvStatus = status])
    BY <1>3, <1>4
  <2>. QED  BY <1>2, <2>1, SavePvDoes
<1>5. ASSUME Commit(p, [seen EXCEPT !.pvStatus = status])
      PROVE  SavesPv(p, seen.pvId, status, seen.pvVer)
  <2>1. Commit(p, [seen EXCEPT !.pvId = seen.pvId, !.pvVer = seen.pvVer, !.pvStatus = status])
    BY <1>3, <1>5
  <2>. QED  BY <1>2, <2>1, SavePvDoes
<1>. QED  BY <1>4, <1>5

-----------------------------------------------------------------------------
(* Every step, by what it does to the jobs.                                *)

RunMove(w) ==
  \/ \E t \in Tasks : /\ BeginRun(w, t) /\ Begins(w, t)
                       /\ At(w, "idle") /\ task[t] = "queued" /\ task'[t] = "working"
  \/ /\ At(w, "ensure") /\ job[w].seen.id # None
     /\ \/ Enters(w, job[w].seen.id) /\ job[w].seen.id \in Ids /\ sbx'[job[w].seen.id] = "up"
        \/ Carries(w, "create")
        \/ /\ Carries(w, "resumed") /\ job[w].seen.status = "paused"
           /\ job[w].seen.id \in Ids /\ sbx'[job[w].seen.id] = "up"
  \/ At(w, "resumed") /\ Enters(w, job[w].seen.id) /\ sbx' = sbx
  \/ /\ job[w].pc \in {"ensure", "create"}
     /\ \E i \in Ws : Takes(w, "bind", i) /\ sbx[i] = "unborn" /\ sbx'[i] = "up"
  \/ At(w, "bind") /\ Enters(w, job[w].id) /\ sbx' = sbx

WindMove(w) ==
  \/ job[w].pc \in {"loop", "pvsynced"} /\ Turns(w, "idlecheck")
  \/ At(w, "loop") /\ Turns(w, "finished")
  \/ At(w, "finished") /\ project.pvStatus = "ready" /\ Syncs(w)
  \/ job[w].pc \in {"finished", "idlecheck"} /\ Tests(w, WorkspaceColumns)
  \/ At(w, "pvsync") /\ (Tests(w, job[w].seen) \/ Carries(w, "pvsynced"))
  \/ /\ At(w, "busycheck") /\ Carries(w, "pause")
     /\ raced' = raced \cup StoppedInside(w) /\ ~HasActiveDevTask /\ task' = task
  \/ At(w, "pause") /\ Carries(w, "paused")

PreviewMove(p) ==
  \/ /\ At(p, "idle") /\ job'[p].task = None
     /\ Loads(p, "pvversion", PreviewColumns) \/ Loads(p, "pvpause", PreviewColumns)
  \/ At(p, "pvversion") /\ Sets(p)
  \/ At(p, "pvload") /\ Reloads(p)
  \/ /\ At(p, "pvprobe")
     /\ \/ Carries(p, "pvcreate")
        \/ Carries(p, "pvserve") /\ job[p].seen.pvId # None
  \/ At(p, "pvcreate") /\ (Carries(p, "pverror") \/ \E i \in Pv : Takes(p, "pvserve", i))
  \/ At(p, "pvserve") /\ (Carries(p, "pvready") \/ Carries(p, "pverror"))
  \/ At(p, "pvpause") /\ Carries(p, "pvpaused")

DeleteMove(p) ==
  \/ /\ At(p, "idle") /\ Loads(p, "kill", project) /\ job'[p].task = None
     /\ clash' = (clash \/ OthersEnsure(p))
  \/ At(p, "kill") /\ Carries(p, "delete")

Moves ==
  \/ job' = job
  \/ \E p \in Procs : Turns(p, "idle")
  \/ \E w \in Workers : RunMove(w) \/ WindMove(w)
  \/ \E p \in Apis : PreviewMove(p) \/ DeleteMove(p)

LEMMA Bounds ==
  /\ MaxVersions \in Nat /\ MaxBuilds \in Nat /\ MaxPreviews \in Nat
  /\ MaxRequests \in Nat /\ MaxFaults \in Nat
  BY SandboxesAssumption DEF SandboxesAssumption

LEMMA SeenTyped ==
  ASSUME TypeOK, NEW p \in Procs
  PROVE  /\ job[p].seen.id \in Ids \cup {None} /\ job[p].seen.pvId \in Ids \cup {None}
         /\ job[p].seen.status \in {"none", "running", "paused", "error"}
         /\ job[p].seen.pvStatus \in {"none", "starting", "ready", "paused", "error"}
         /\ job[p].seen.pvVer \in 0..MaxVersions
  BY JobTyped DEF Rows

LEMMA Steps ==
         {"idle", "kill", "delete", "ensure", "resumed", "create", "bind", "loop", "finished",
          "idlecheck", "busycheck", "pause", "paused", "pvversion", "pvload", "pvprobe",
          "pvcreate", "pvserve", "pvready", "pverror", "pvpause", "pvpaused", "pvsync",
          "pvsynced"} \subseteq Pcs
  BY DEF Pcs, WorkspaceSteps, RunSteps, PreviewSteps

LEMMA EnsureMoves ==
  ASSUME TypeOK, NEW w \in Workers, Ensure(w)
  PROVE  RunMove(w) \/ (Turns(w, "idle") /\ Fault)
<1>. w \in Procs
  BY DEF Procs
<1>. DEFINE i == job[w].seen.id
<1>1. i \in Ids \cup {None} /\ sbx \in [Ids -> {"unborn", "up", "paused", "gone"}]
  BY SeenTyped DEF TypeOK
<1>2. job[w].id \in Ids \cup {None}
  BY JobTyped
<1>3. "create" \in Pcs /\ "resumed" \in Pcs /\ "bind" \in Pcs
  BY Steps
<1>4. CASE Reuse(w)
  <2>1. CASE Call(w, i) /\ Enter(w, i)
    BY <1>1, <1>4, <2>1, EnterDoes DEF Reuse, Call, RunMove
  <2>2. CASE Goto(w, "create")
    BY <1>3, <1>4, <2>2, GotoDoes DEF Reuse, RunMove
  <2>. QED  BY <1>4, <2>1, <2>2 DEF Reuse
<1>5. CASE Wake(w)
  <2>1. CASE Resume(w, i) /\ Goto(w, "resumed")
    BY <1>1, <1>3, <1>5, <2>1, GotoDoes DEF Wake, Resume, RunMove
  <2>2. CASE Goto(w, "create")
    BY <1>3, <1>5, <2>2, GotoDoes DEF Wake, RunMove
  <2>. QED  BY <1>5, <2>1, <2>2 DEF Wake
<1>6. CASE Woken(w)
  BY <1>1, <1>6, EnterDoes DEF Woken, RunMove, provider
<1>7. CASE CreateMachine(w)
  <2>1. PICK k \in Ids : k[1] = "ws" /\ Create(w, k) /\ job' = [job EXCEPT ![w].pc = "bind", ![w].id = k]
    BY <1>7 DEF CreateMachine
  <2>2. Takes(w, "bind", k) /\ k \in Ws
    BY <1>3, <2>1, TakeDoes, Machines
  <2>3. sbx[k] = "unborn" /\ sbx'[k] = "up"
    BY <1>1, <2>1 DEF Create
  <2>4. job[w].pc \in {"ensure", "create"}
    BY <1>7 DEF CreateMachine, NeedsMachine, At
  <2>. QED  BY <2>2, <2>3, <2>4 DEF RunMove
<1>8. CASE Bind(w)
  BY <1>2, <1>8, EnterDoes DEF Bind, RunMove, provider
<1>9. CASE BootFails(w)
  BY <1>9, LeaveDoes DEF BootFails
<1>. QED  BY <1>4, <1>5, <1>6, <1>7, <1>8, <1>9 DEF Ensure

LEMMA RunMoves ==
  ASSUME TypeOK, NEW w \in Workers, Run(w)
  PROVE  WindMove(w) \/ Turns(w, "idle") \/ job' = job
<1>. w \in Procs
  BY DEF Procs
<1>1. "idlecheck" \in Pcs /\ "finished" \in Pcs
  BY Steps
<1>2. CASE UseMachine(w)
  BY <1>2 DEF UseMachine
<1>3. CASE RunRaises(w)
  BY <1>3, LeaveDoes DEF RunRaises
<1>4. CASE EndUnfinished(w) \/ EndStopped(w)
  <2>1. At(w, "loop") /\ Then(w, "idlecheck")
    BY <1>4 DEF EndUnfinished, EndStopped
  <2>2. Turns(w, "idlecheck")
    BY <1>1, <2>1, ThenDoes
  <2>. QED  BY <2>1, <2>2 DEF WindMove, At
<1>5. CASE EndDone(w)
  <2>1. At(w, "loop") /\ Then(w, "finished")
    BY <1>5 DEF EndDone
  <2>. QED  BY <1>1, <2>1, ThenDoes DEF WindMove
<1>. QED  BY <1>2, <1>3, <1>4, <1>5 DEF Run

LEMMA WindMoves ==
  ASSUME TypeOK, NEW w \in Workers, Wind(w)
  PROVE  WindMove(w) \/ Turns(w, "idle")
<1>. w \in Procs
  BY DEF Procs
<1>1. "idlecheck" \in Pcs /\ "pvsynced" \in Pcs /\ "pause" \in Pcs /\ "paused" \in Pcs
  BY Steps
<1>2. CASE Refresh(w)
  BY <1>2, RefreshDoes DEF WindMove, Refresh, At
<1>3. CASE SyncWrite(w)
  <2>1. CASE Goto(w, "pvsynced")
    BY <1>1, <1>3, <2>1, GotoDoes DEF SyncWrite, WindMove
  <2>2. CASE TestRow(w, job[w].seen)
    BY <1>3, <2>2, JobTyped, TestDoes DEF SyncWrite, WindMove
  <2>. QED  BY <1>3, <2>1, <2>2 DEF SyncWrite
<1>4. CASE SyncCommit(w)
  BY <1>1, <1>4, ThenDoes DEF SyncCommit, WindMove, At
<1>5. CASE IdleCheck(w)
  BY <1>5, Columns, TestDoes DEF IdleCheck, WindMove, At
<1>6. CASE BusyCheck(w)
  <2>1. CASE HasActiveDevTask
    BY <1>6, <2>1, LeaveDoes DEF BusyCheck
  <2>2. CASE ~HasActiveDevTask
    BY <1>1, <1>6, <2>2, GotoDoes DEF BusyCheck, WindMove
  <2>. QED  BY <2>1, <2>2
<1>7. CASE PauseMachine(w)
  <2>1. CASE Goto(w, "paused")
    BY <1>1, <1>7, <2>1, GotoDoes DEF PauseMachine, WindMove
  <2>2. CASE Leave(w)
    BY <2>2, LeaveDoes
  <2>. QED  BY <1>7, <2>1, <2>2 DEF PauseMachine
<1>8. CASE PauseCommit(w)
  BY <1>8, LeaveDoes DEF PauseCommit
<1>. QED  BY <1>2, <1>3, <1>4, <1>5, <1>6, <1>7, <1>8 DEF Wind

LEMMA PreviewMoves ==
  ASSUME TypeOK, NEW p \in Apis, Preview(p)
  PROVE  PreviewMove(p) \/ Turns(p, "idle") \/ job' = job
<1>. p \in Procs
  BY DEF Procs
<1>1. {"pvversion", "pvcreate", "pvserve", "pvready", "pverror", "pvpause", "pvpaused"} \subseteq Pcs
  BY Steps
<1>2. latest \in 0..MaxVersions /\ 0 \in 0..MaxVersions
  BY Bounds DEF TypeOK
<1>3. CASE StartPreview(p)
  <2>1. Request(p, "pvversion", PreviewColumns, latest)
    BY <1>3 DEF StartPreview
  <2>2. Loads(p, "pvversion", PreviewColumns) /\ job'[p].task = None
    BY <1>1, <1>2, <2>1, Columns, RequestDoes
  <2>. QED  BY <2>1, <2>2 DEF PreviewMove, Request
<1>4. CASE PvStarting(p)
  BY <1>4, PvStartingDoes DEF PreviewMove, PvStarting
<1>5. CASE PvLoad(p)
  BY <1>5, PvLoadDoes DEF PreviewMove, PvLoad
<1>6. CASE PvProbe(p)
  <2>. At(p, "pvprobe")
    BY <1>6 DEF PvProbe
  <2>1. CASE Goto(p, "pvcreate")
    BY <1>1, <2>1, GotoDoes DEF PreviewMove
  <2>2. CASE Goto(p, "pvserve") /\ job[p].seen.pvId # None
    BY <1>1, <2>2, GotoDoes DEF PreviewMove
  <2>. QED  BY <1>6, <2>1, <2>2 DEF PvProbe
<1>7. CASE PvCreate(p)
  <2>1. CASE \E i \in Ids : /\ i[1] = "pv" /\ Create(p, i)
                            /\ job' = [job EXCEPT ![p].pc = "pvserve", ![p].id = i]
    BY <1>1, <1>7, <2>1, TakeDoes, Machines DEF PvCreate, PreviewMove
  <2>2. CASE Goto(p, "pverror")
    BY <1>1, <1>7, <2>2, GotoDoes DEF PvCreate, PreviewMove
  <2>. QED  BY <1>7, <2>1, <2>2 DEF PvCreate
<1>8. CASE PvServe(p)
  <2>1. CASE Goto(p, "pvready")
    BY <1>1, <1>8, <2>1, GotoDoes DEF PvServe, PreviewMove
  <2>2. CASE Goto(p, "pverror")
    BY <1>1, <1>8, <2>2, GotoDoes DEF PvServe, PreviewMove
  <2>. QED  BY <1>8, <2>1, <2>2 DEF PvServe
<1>9. CASE PvFinish(p) \/ PvPaused(p)
  BY <1>9, LeaveDoes DEF PvFinish, PvPaused
<1>10. CASE StopPreview(p)
  <2>1. Request(p, "pvpause", PreviewColumns, 0)
    BY <1>10 DEF StopPreview
  <2>2. Loads(p, "pvpause", PreviewColumns) /\ job'[p].task = None
    BY <1>1, <1>2, <2>1, Columns, RequestDoes
  <2>. QED  BY <2>1, <2>2 DEF PreviewMove, Request
<1>11. CASE PvPause(p)
  BY <1>1, <1>11, GotoDoes DEF PvPause, PreviewMove
<1>12. CASE GetPreview(p)
  BY <1>12 DEF GetPreview
<1>. QED
  BY <1>3, <1>4, <1>5, <1>6, <1>7, <1>8, <1>9, <1>10, <1>11, <1>12 DEF Preview

LEMMA DeletionMoves ==
  ASSUME TypeOK, NEW p \in Apis, Deletion(p)
  PROVE  DeleteMove(p) \/ Turns(p, "idle")
<1>. p \in Procs
  BY DEF Procs
<1>1. "kill" \in Pcs /\ "delete" \in Pcs /\ 0 \in 0..MaxVersions
  BY Steps, Bounds
<1>2. CASE DeleteProject(p)
  <2>1. Request(p, "kill", project, 0)
    BY <1>2 DEF DeleteProject
  <2>2. Loads(p, "kill", project) /\ job'[p].task = None
    BY <1>1, <2>1, Columns, RequestDoes
  <2>. QED  BY <1>2, <2>1, <2>2 DEF DeleteMove, Request, DeleteProject
<1>3. CASE Kill(p)
  BY <1>1, <1>3, GotoDoes DEF Kill, DeleteMove
<1>4. CASE Delete(p)
  BY <1>4, LeaveDoes DEF Delete
<1>. QED  BY <1>2, <1>3, <1>4 DEF Deletion

LEMMA NextMoves ==
  ASSUME TypeOK, [Next]_vars
  PROVE  Moves
<1>1. CASE \E w \in Workers, t \in Tasks : BeginRun(w, t)
  <2>1. PICK w \in Workers, t \in Tasks : BeginRun(w, t)
    BY <1>1
  <2>2. Begins(w, t) /\ At(w, "idle") /\ task[t] = "queued"
    BY <2>1, BeginDoes DEF BeginRun
  <2>3. task'[t] = "working"
    BY <2>1 DEF BeginRun, TypeOK
  <2>. QED  BY <2>1, <2>2, <2>3 DEF Moves, RunMove
<1>2. CASE \E w \in Workers : Ensure(w) \/ Run(w) \/ Wind(w)
  BY <1>2, EnsureMoves, RunMoves, WindMoves DEF Moves, Procs
<1>3. CASE \E p \in Apis : Preview(p) \/ Deletion(p)
  BY <1>3, PreviewMoves, DeletionMoves DEF Moves, Procs
<1>4. CASE \E p \in Procs : Lost(p) \/ Crash(p)
  BY <1>4, LeaveDoes DEF Moves, Lost, Crash
<1>5. CASE \E t \in Tasks : QueueTask(t) \/ StopTask(t) \/ Reap(t)
  BY <1>5 DEF QueueTask, StopTask, Reap, Moves
<1>6. CASE \E i \in Ids : Expire(i)
  BY <1>6 DEF Expire, Moves
<1>7. CASE UNCHANGED vars
  BY <1>7 DEF vars, Moves
<1>. QED  BY <1>1, <1>2, <1>3, <1>4, <1>5, <1>6, <1>7 DEF Next

-----------------------------------------------------------------------------
(* What holds of every process and its job.                                *)

Syncing == {"pvsync", "pvsynced"}
Building == {"pvprobe", "pvcreate", "pvserve", "pvready", "pverror"}
Winding == {"finished", "idlecheck", "busycheck", "pause", "paused"}

\* Workers run and wind up, the others serve the preview or delete.
Place(p) ==
  /\ job[p].pc \in RunSteps \cup Winding \cup Syncing => p \in Workers
  /\ job[p].pc \in (PreviewSteps \ Syncing) \cup {"kill", "delete"} => p \in Apis

\* A run has a task that has begun; nobody else has one.
Tasked(p) ==
  IF job[p].pc \in RunSteps
  THEN job[p].task \in Tasks /\ task[job[p].task] \in {"working", "ended"}
  ELSE job[p].task = None

\* The machines of the row that was loaded, which the project may have replaced but
\* never forgotten.
Sees(p) ==
  /\ job[p].seen.id \in Ws \cup {None} /\ job[p].seen.pvId \in Pv \cup {None}
  /\ job[p].seen.id # None =>
       sbx[job[p].seen.id] # "unborn" /\ (project.exists => project.id # None)
  /\ job[p].seen.pvId # None => (project.exists => project.pvId # None)

\* The machine at hand.
Holds(p) ==
  /\ job[p].pc \in {"bind", "loop"} => job[p].id \in Ws /\ sbx[job[p].id] # "unborn"
  /\ job[p].pc \in Building => job[p].id = job[p].seen.pvId \/ job[p].id \in Pv
  /\ job[p].pc \in {"pvserve", "pvready"} => job[p].id \in Pv

\* What the tests have let through.
Passed(p) ==
  /\ job[p].pc \in {"busycheck", "pause", "paused"} =>
       job[p].seen.id # None /\ job[p].seen.status = "running"
  /\ job[p].pc = "resumed" => job[p].seen.id # None /\ job[p].seen.status = "paused"
  /\ job[p].pc \in Syncing => job[p].seen.pvStatus = "ready" /\ job[p].seen.pvId # None

RowKind ==
  /\ project.id \in Ws \cup {None} /\ project.pvId \in Pv \cup {None}
  /\ project.id # None => sbx[project.id] # "unborn"
  /\ ~project.exists =>
       /\ project.id = None /\ project.status = "none"
       /\ project.pvId = None /\ project.pvStatus = "none"

Kinds ==
  RowKind /\ \A p \in Procs : Place(p) /\ Tasked(p) /\ Sees(p) /\ Holds(p) /\ Passed(p)

Core == TypeOK /\ Kinds

\* What a step never takes back.
Grows ==
  /\ \A i \in Ids : sbx[i] # "unborn" => sbx'[i] # "unborn"
  /\ \A t \in Tasks : task[t] \in {"working", "ended"} => task'[t] \in {"working", "ended"}
  /\ project'.exists =>
       /\ project.exists
       /\ project.id # None => project'.id # None
       /\ project.pvId # None => project'.pvId # None

-----------------------------------------------------------------------------
(* Every step, by what it does to the project row.                         *)

RowMove(p) ==
  \/ At(p, "resumed") /\ p \in Workers /\ Saves(p, job[p].seen.id, "running")
  \/ At(p, "bind") /\ p \in Workers /\ Saves(p, job[p].id, "running")
  \/ At(p, "paused") /\ p \in Workers /\ Saves(p, job[p].seen.id, "paused")
  \/ p \in Workers /\ Saves(p, job[p].seen.id, "error")
  \/ At(p, "pvsynced") /\ SavesPv(p, job[p].seen.pvId, "ready", latest)
  \/ At(p, "pvversion") /\ SavesPv(p, job[p].seen.pvId, "starting", latest)
  \/ At(p, "pvversion") /\ SavesPv(p, job[p].seen.pvId, "none", job[p].seen.pvVer)
  \/ At(p, "pvready") /\ SavesPv(p, job[p].id, "ready", job[p].ver)
  \/ At(p, "pverror") /\ SavesPv(p, job[p].id, "error", job[p].ver)
  \/ At(p, "pvpaused") /\ SavesPv(p, job[p].seen.pvId, "paused", job[p].seen.pvVer)
  \/ At(p, "delete") /\ project' = [NewRow EXCEPT !.exists = FALSE]

LEMMA WorkerRows ==
  ASSUME TypeOK, NEW w \in Workers, Ensure(w) \/ Run(w) \/ Wind(w)
  PROVE  project' = project \/ RowMove(w)
<1>. w \in Procs
  BY DEF Procs
<1>1. job[w].id \in Ids \cup {None} /\ job[w].seen.id \in Ids \cup {None} /\ latest \in 0..MaxVersions
  BY JobTyped, SeenTyped DEF TypeOK
<1>2. CASE Woken(w)
  BY <1>2, SaveStatusDoes DEF Woken, RowMove
<1>3. CASE Bind(w)
  BY <1>1, <1>3, SaveDoes DEF Bind, RowMove
<1>4. CASE BootFails(w)
  BY <1>4, SaveStatusDoes DEF BootFails, RowMove
<1>5. CASE PauseCommit(w)
  BY <1>5, SaveStatusDoes DEF PauseCommit, RowMove
<1>6. CASE SyncCommit(w)
  BY <1>1, <1>6, SavePvStatusDoes DEF SyncCommit, RowMove
<1>7. CASE Reuse(w) \/ Wake(w) \/ CreateMachine(w) \/ Run(w)
  BY <1>7 DEF Reuse, Wake, CreateMachine, Run, UseMachine, RunRaises, EndUnfinished, EndDone, EndStopped
<1>8. CASE Refresh(w) \/ SyncWrite(w) \/ IdleCheck(w) \/ BusyCheck(w) \/ PauseMachine(w)
  BY <1>8 DEF Refresh, SyncWrite, IdleCheck, BusyCheck, PauseMachine
<1>. QED  BY <1>2, <1>3, <1>4, <1>5, <1>6, <1>7, <1>8 DEF Ensure, Wind

LEMMA PreviewRows ==
  ASSUME TypeOK, NEW p \in Apis, Preview(p) \/ Deletion(p)
  PROVE  project' = project \/ RowMove(p)
<1>. p \in Procs
  BY DEF Procs
<1>1. /\ job[p].id \in Ids \cup {None} /\ job[p].ver \in 0..MaxVersions
      /\ latest \in 0..MaxVersions /\ job[p].seen.pvVer \in 0..MaxVersions
  BY JobTyped, SeenTyped DEF TypeOK
<1>2. CASE PvStarting(p)
  <2>1. \/ Commit(p, [job[p].seen EXCEPT !.pvStatus = "starting", !.pvVer = latest])
        \/ Commit(p, [job[p].seen EXCEPT !.pvStatus = "none"])
    BY <1>2, PvStartingDoes
  <2>2. At(p, "pvversion")
    BY <1>2 DEF PvStarting
  <2>. QED  BY <1>1, <2>1, <2>2, SavePvStatusDoes DEF RowMove
<1>3. CASE PvFinish(p)
  <2>1. CASE At(p, "pvready")
    <3>1. Commit(p, [job[p].seen EXCEPT !.pvId = job[p].id, !.pvVer = job[p].ver, !.pvStatus = "ready"])
      BY <1>3, <2>1 DEF PvFinish
    <3>. QED  BY <1>1, <2>1, <3>1, SavePvDoes DEF RowMove
  <2>2. CASE ~At(p, "pvready")
    <3>1. Commit(p, [job[p].seen EXCEPT !.pvId = job[p].id, !.pvVer = job[p].ver, !.pvStatus = "error"])
      BY <1>3, <2>2 DEF PvFinish
    <3>2. At(p, "pverror")
      BY <1>3, <2>2 DEF PvFinish, At
    <3>. QED  BY <1>1, <3>1, <3>2, SavePvDoes DEF RowMove
  <2>. QED  BY <2>1, <2>2
<1>4. CASE PvPaused(p)
  BY <1>1, <1>4, SavePvStatusDoes DEF PvPaused, RowMove
<1>5. CASE Delete(p)
  BY <1>5 DEF Delete, RowMove
<1>6. CASE StartPreview(p) \/ PvLoad(p) \/ PvProbe(p) \/ PvCreate(p) \/ PvServe(p)
  BY <1>6 DEF StartPreview, PvLoad, PvProbe, PvCreate, PvServe
<1>7. CASE StopPreview(p) \/ PvPause(p) \/ GetPreview(p) \/ DeleteProject(p) \/ Kill(p)
  BY <1>7 DEF StopPreview, PvPause, GetPreview, DeleteProject, Kill
<1>. QED  BY <1>2, <1>3, <1>4, <1>5, <1>6, <1>7 DEF Preview, Deletion

LEMMA NextRows ==
  ASSUME TypeOK, [Next]_vars
  PROVE  project' = project \/ \E p \in Procs : RowMove(p)
<1>1. CASE \E w \in Workers : Ensure(w) \/ Run(w) \/ Wind(w)
  BY <1>1, WorkerRows DEF Procs
<1>2. CASE \E p \in Apis : Preview(p) \/ Deletion(p)
  BY <1>2, PreviewRows DEF Procs
<1>3. CASE UNCHANGED vars
  BY <1>3 DEF vars
<1>4. CASE \/ \E w \in Workers, t \in Tasks : BeginRun(w, t)
           \/ \E p \in Procs : Lost(p) \/ Crash(p)
           \/ \E t \in Tasks : QueueTask(t) \/ StopTask(t) \/ Reap(t)
           \/ \E i \in Ids : Expire(i)
  BY <1>4 DEF BeginRun, Lost, Crash, QueueTask, StopTask, Reap, Expire
<1>. QED  BY <1>1, <1>2, <1>3, <1>4 DEF Next

\* The row stays typed, and keeps naming a machine as long as it exists.
LEMMA RowsKept ==
  ASSUME Core, [Next]_vars
  PROVE  /\ project' \in Rows
         /\ project'.id \in Ws \cup {None} /\ project'.pvId \in Pv \cup {None}
         /\ project'.id # None => project'.id = project.id \/ \E p \in Procs : At(p, "bind") /\ project'.id = job[p].id
         /\ project'.exists =>
              /\ project.exists
              /\ project.id # None => project'.id # None
              /\ project.pvId # None => project'.pvId # None
         /\ ~project'.exists =>
              /\ project'.id = None /\ project'.status = "none"
              /\ project'.pvId = None /\ project'.pvStatus = "none"
         /\ project'.status \in {"running", "paused"} => project'.id \in Ids
         /\ project'.pvStatus = "ready" => project'.pvId \in Ids
<1>. TypeOK /\ RowKind /\ project \in Rows /\ Ids = Ws \cup Pv /\ None \notin Ids
  BY Machines, NoneAssumption DEF Core, Kinds, TypeOK
<1>0. /\ project.status \in {"running", "paused"} => project.id \in Ids
      /\ project.pvStatus = "ready" => project.pvId \in Ids
  BY DEF TypeOK
<1>1. CASE project' = project
  BY <1>0, <1>1 DEF RowKind
<1>2. ASSUME NEW p \in Procs, RowMove(p)
      PROVE  /\ project' \in Rows
             /\ project'.id \in Ws \cup {None} /\ project'.pvId \in Pv \cup {None}
             /\ project'.id # None => project'.id = project.id \/ \E q \in Procs : At(q, "bind") /\ project'.id = job[q].id
             /\ project'.exists =>
                  /\ project.exists
                  /\ project.id # None => project'.id # None
                  /\ project.pvId # None => project'.pvId # None
             /\ ~project'.exists =>
                  /\ project'.id = None /\ project'.status = "none"
                  /\ project'.pvId = None /\ project'.pvStatus = "none"
             /\ project'.status \in {"running", "paused"} => project'.id \in Ids
             /\ project'.pvStatus = "ready" => project'.pvId \in Ids
  <2>0. Sees(p) /\ Holds(p) /\ Passed(p)
    BY DEF Core, Kinds
  <2>1. CASE At(p, "resumed") /\ Saves(p, job[p].seen.id, "running")
    BY <1>0, <2>0, <2>1 DEF At, Saves, Sees, Passed, RowKind
  <2>2. CASE At(p, "bind") /\ Saves(p, job[p].id, "running")
    BY <1>0, <2>0, <2>2 DEF At, Saves, Sees, Holds, RowKind
  <2>3. CASE At(p, "paused") /\ Saves(p, job[p].seen.id, "paused")
    BY <1>0, <2>0, <2>3 DEF At, Saves, Sees, Passed, RowKind
  <2>4. CASE Saves(p, job[p].seen.id, "error")
    BY <1>0, <2>0, <2>4 DEF Saves, RowKind
  <2>5. CASE At(p, "pvsynced") /\ SavesPv(p, job[p].seen.pvId, "ready", latest)
    BY <1>0, <2>0, <2>5 DEF At, SavesPv, Sees, Passed, Syncing, RowKind
  <2>6. CASE \/ SavesPv(p, job[p].seen.pvId, "starting", latest)
             \/ SavesPv(p, job[p].seen.pvId, "none", job[p].seen.pvVer)
             \/ SavesPv(p, job[p].seen.pvId, "paused", job[p].seen.pvVer)
    BY <1>0, <2>6 DEF SavesPv, RowKind
  <2>7. CASE At(p, "pvready") /\ SavesPv(p, job[p].id, "ready", job[p].ver)
    BY <1>0, <2>0, <2>7 DEF At, SavesPv, Sees, Holds, RowKind
  <2>8. CASE At(p, "pverror") /\ SavesPv(p, job[p].id, "error", job[p].ver)
    BY <1>0, <2>0, <2>8 DEF At, SavesPv, Sees, Holds, Building, RowKind
  <2>9. CASE project' = [NewRow EXCEPT !.exists = FALSE]
    <3>1. /\ project' \in Rows /\ ~project'.exists /\ project'.id = None /\ project'.status = "none"
          /\ project'.pvId = None /\ project'.pvStatus = "none"
      BY <2>9, NewRowTyped DEF NewRow, Rows
    <3>. QED  BY <3>1
  <2>. QED  BY <1>2, <2>1, <2>2, <2>3, <2>4, <2>5, <2>6, <2>7, <2>8, <2>9 DEF RowMove
<1>. QED  BY <1>1, <1>2, NextRows

-----------------------------------------------------------------------------
(* Every step, by what it does to the machines.                            *)

\* Machine i goes to the state s.
Turned(i, s) ==
  /\ sbx' \in [Ids -> {"unborn", "up", "paused", "gone"}] /\ handles' \in [Procs -> SUBSET Ids]
  /\ sbx'[i] = s /\ \A k \in Ids \ {i} : sbx'[k] = sbx[k]

Moved(i, from, s) == sbx[i] \in from /\ Turned(i, s)

LEMMA CallDoes ==
  ASSUME TypeOK, NEW p \in Procs, NEW i \in Ids
  PROVE  /\ Call(p, i) => Moved(i, {"up", "paused"}, "up")
         /\ Resume(p, i) => Moved(i, {"up", "paused"}, "up")
         /\ Pause(p, i) => Moved(i, {"up", "paused"}, "paused")
         /\ Create(p, i) => Moved(i, {"unborn"}, "up")
<1>1. sbx \in [Ids -> {"unborn", "up", "paused", "gone"}] /\ handles \in [Procs -> SUBSET Ids]
  BY DEF TypeOK
<1>2. ASSUME NEW s \in {"up", "paused"}, sbx' = [sbx EXCEPT ![i] = s],
             handles' \in [Procs -> SUBSET Ids]
      PROVE  Turned(i, s)
  BY <1>1, <1>2 DEF Turned
<1>3. ASSUME \/ handles' = [handles EXCEPT ![p] = @ \cup {i}]
             \/ handles' = [handles EXCEPT ![p] = @ \ {i}]
      PROVE  handles' \in [Procs -> SUBSET Ids]
  BY <1>1, <1>3
<1>4. Call(p, i) => Moved(i, {"up", "paused"}, "up")
  BY <1>2, <1>3 DEF Call, Reaches, Moved
<1>5. Resume(p, i) => Moved(i, {"up", "paused"}, "up")
  BY <1>2, <1>3 DEF Resume, Moved
<1>6. Pause(p, i) => Moved(i, {"up", "paused"}, "paused")
  BY <1>2, <1>3 DEF Pause, Moved
<1>7. Create(p, i) => Moved(i, {"unborn"}, "up")
  BY <1>2, <1>3 DEF Create, Moved
<1>. QED  BY <1>4, <1>5, <1>6, <1>7

\* Which machines a process uses, wakes, sleeps and makes.
Sleep(p) ==
  \/ At(p, "pause") /\ Moved(job[p].seen.id, {"up", "paused"}, "paused")
  \/ At(p, "pvpause") /\ job[p].seen.pvId # None /\ Moved(job[p].seen.pvId, {"up", "paused"}, "paused")

Wakes(p) ==
  \/ /\ At(p, "ensure") /\ job[p].seen.id # None
     /\ Moved(job[p].seen.id, {"up", "paused"}, "up")
  \/ At(p, "loop") /\ Moved(job[p].id, {"up", "paused"}, "up")
  \/ \E i \in Pv : Moved(i, {"up", "paused"}, "up")

Births(p) ==
  \/ job[p].pc \in {"ensure", "create"} /\ \E i \in Ws : Moved(i, {"unborn"}, "up")
  \/ \E i \in Pv : Moved(i, {"unborn"}, "up")

Same == sbx' = sbx /\ handles' \in [Procs -> SUBSET Ids]

Kills(p) ==
  /\ At(p, "kill")
  /\ sbx' \in [Ids -> {"unborn", "up", "paused", "gone"}] /\ handles' \in [Procs -> SUBSET Ids]
  /\ \A i \in Ids : sbx'[i] = sbx[i] \/ sbx'[i] = "gone"

MachineMove ==
  \/ Same
  \/ \E p \in Procs : Sleep(p) \/ Wakes(p) \/ Births(p) \/ Kills(p)
  \/ \E i \in Ids : Moved(i, {"up"}, "gone")

LEMMA SameMachines ==
  ASSUME TypeOK, sbx' = sbx, handles' = handles
  PROVE  Same
  BY DEF TypeOK, Same

LEMMA EnsureMachines ==
  ASSUME Core, NEW w \in Workers, Ensure(w)
  PROVE  (Same \/ Wakes(w) \/ Births(w)) /\ served' = served
<1>. w \in Procs /\ TypeOK /\ Sees(w)
  BY DEF Procs, Core, Kinds
<1>. DEFINE i == job[w].seen.id
<1>1. i # None => i \in Ids
  BY Machines DEF Sees
<1>2. CASE Reuse(w)
  <2>1. i # None /\ At(w, "ensure") /\ (Call(w, i) \/ UNCHANGED <<sbx, handles>>) /\ served' = served
    BY <1>2 DEF Reuse
  <2>. QED  BY <1>1, <2>1, CallDoes, SameMachines DEF Wakes
<1>3. CASE Wake(w)
  <2>1. i # None /\ At(w, "ensure") /\ (Resume(w, i) \/ UNCHANGED <<sbx, handles>>) /\ served' = served
    BY <1>3 DEF Wake
  <2>. QED  BY <1>1, <2>1, CallDoes, SameMachines DEF Wakes
<1>4. CASE CreateMachine(w)
  <2>1. PICK k \in Ids : k[1] = "ws" /\ Create(w, k)
    BY <1>4 DEF CreateMachine
  <2>2. job[w].pc \in {"ensure", "create"} /\ served' = served
    BY <1>4 DEF CreateMachine, NeedsMachine, At
  <2>. QED  BY <2>1, <2>2, Machines, CallDoes DEF Births
<1>5. CASE Woken(w) \/ Bind(w) \/ BootFails(w)
  <2>1. UNCHANGED provider
    BY <1>5 DEF Woken, Bind, BootFails
  <2>. QED  BY <2>1, SameMachines DEF provider
<1>. QED  BY <1>2, <1>3, <1>4, <1>5 DEF Ensure

LEMMA RunMachines ==
  ASSUME Core, NEW w \in Workers, Run(w)
  PROVE  (Same \/ Wakes(w)) /\ served' = served
<1>. w \in Procs /\ TypeOK /\ Holds(w)
  BY DEF Procs, Core, Kinds
<1>1. CASE UseMachine(w) \/ EndDone(w) \/ EndStopped(w)
  <2>1. At(w, "loop") /\ (Call(w, job[w].id) \/ Resume(w, job[w].id)) /\ served' = served
    BY <1>1 DEF UseMachine, EndDone, EndStopped
  <2>2. job[w].id \in Ids
    BY <2>1, Machines DEF Holds, At
  <2>. QED  BY <2>1, <2>2, CallDoes DEF Wakes
<1>2. CASE RunRaises(w) \/ EndUnfinished(w)
  <2>1. UNCHANGED provider
    BY <1>2 DEF RunRaises, EndUnfinished
  <2>. QED  BY <2>1, SameMachines DEF provider
<1>. QED  BY <1>1, <1>2 DEF Run

LEMMA ServedTyped ==
  ASSUME TypeOK, NEW p \in Procs, NEW i \in Ids,
         served' = served \/ served' = [served EXCEPT ![i] = job[p].files]
  PROVE  served' \in [Ids -> 0..MaxVersions]
<1>1. served \in [Ids -> 0..MaxVersions] /\ job[p].files \in 0..MaxVersions
  BY JobTyped DEF TypeOK
<1>. QED  BY <1>1

LEMMA WindMachines ==
  ASSUME Core, NEW w \in Workers, Wind(w)
  PROVE  /\ Same \/ Wakes(w) \/ Sleep(w)
         /\ served' \in [Ids -> 0..MaxVersions]
<1>. w \in Procs /\ TypeOK /\ Sees(w) /\ Passed(w)
  BY DEF Procs, Core, Kinds
<1>1. served \in [Ids -> 0..MaxVersions]
  BY DEF TypeOK
<1>2. CASE SyncWrite(w)
  <2>. DEFINE i == job[w].seen.pvId
  <2>1. i \in Pv /\ i \in Ids
    BY <1>2, Machines DEF SyncWrite, Passed, Sees, Syncing, At
  <2>2. CASE Call(w, i) /\ served' = [served EXCEPT ![i] = job[w].files]
    BY <2>1, <2>2, CallDoes, ServedTyped DEF Wakes
  <2>3. CASE UNCHANGED provider
    BY <1>1, <2>3, SameMachines DEF provider
  <2>. QED  BY <1>2, <2>2, <2>3 DEF SyncWrite
<1>3. CASE PauseMachine(w)
  <2>. DEFINE i == job[w].seen.id
  <2>1. At(w, "pause") /\ (Pause(w, i) \/ UNCHANGED <<sbx, handles>>) /\ served' = served
    BY <1>3 DEF PauseMachine
  <2>2. i \in Ids
    BY <2>1, Machines DEF Passed, Sees, At
  <2>. QED  BY <1>1, <2>1, <2>2, CallDoes, SameMachines DEF Sleep
<1>4. CASE Refresh(w) \/ SyncCommit(w) \/ IdleCheck(w) \/ BusyCheck(w) \/ PauseCommit(w)
  <2>1. UNCHANGED provider
    BY <1>4 DEF Refresh, SyncCommit, IdleCheck, BusyCheck, PauseCommit
  <2>. QED  BY <1>1, <2>1, SameMachines DEF provider
<1>. QED  BY <1>2, <1>3, <1>4 DEF Wind

LEMMA PreviewMachines ==
  ASSUME Core, NEW p \in Apis, Preview(p)
  PROVE  /\ \/ Same
            \/ \E i \in Pv : Moved(i, {"up", "paused"}, "up") \/ Moved(i, {"unborn"}, "up")
            \/ At(p, "pvpause") /\ job[p].seen.pvId \in Pv
               /\ Moved(job[p].seen.pvId, {"up", "paused"}, "paused")
         /\ served' \in [Ids -> 0..MaxVersions]
<1>. p \in Procs /\ TypeOK /\ Sees(p) /\ Holds(p)
  BY DEF Procs, Core, Kinds
<1>. DEFINE i == job[p].seen.pvId
<1>1. served \in [Ids -> 0..MaxVersions] /\ (i # None => i \in Pv /\ i \in Ids)
  BY Machines DEF TypeOK, Sees
<1>2. CASE PvProbe(p)
  <2>1. /\ (i # None /\ (Call(p, i) \/ Resume(p, i))) \/ UNCHANGED <<sbx, handles>>
        /\ served' = served
    BY <1>2 DEF PvProbe
  <2>. QED  BY <1>1, <2>1, CallDoes, SameMachines
<1>3. CASE PvCreate(p)
  <2>1. served' = served
    BY <1>3 DEF PvCreate
  <2>2. CASE \E k \in Ids : k[1] = "pv" /\ Create(p, k)
    BY <1>1, <2>1, <2>2, Machines, CallDoes
  <2>3. CASE UNCHANGED <<sbx, handles>>
    BY <1>1, <2>1, <2>3, SameMachines
  <2>. QED  BY <1>3, <2>2, <2>3 DEF PvCreate
<1>4. CASE PvServe(p)
  <2>1. job[p].id \in Pv /\ job[p].id \in Ids
    BY <1>4, Machines DEF PvServe, Holds, At
  <2>2. CASE Call(p, job[p].id) /\ served' = [served EXCEPT ![job[p].id] = job[p].files]
    BY <2>1, <2>2, CallDoes, ServedTyped
  <2>3. CASE UNCHANGED provider
    BY <1>1, <2>3, SameMachines DEF provider
  <2>. QED  BY <1>4, <2>2, <2>3 DEF PvServe
<1>5. CASE PvPause(p)
  <2>1. /\ (i # None /\ Pause(p, i)) \/ UNCHANGED <<sbx, handles>>
        /\ served' = served /\ At(p, "pvpause")
    BY <1>5 DEF PvPause
  <2>. QED  BY <1>1, <2>1, CallDoes, SameMachines
<1>6. CASE GetPreview(p)
  <2>1. project.pvId \in Pv /\ Call(p, project.pvId) /\ served' = served
    BY <1>6, NoneAssumption DEF GetPreview, Core, Kinds, RowKind, TypeOK
  <2>. QED  BY <1>1, <2>1, Machines, CallDoes
<1>7. CASE \/ StartPreview(p) \/ PvStarting(p) \/ PvLoad(p) \/ PvFinish(p) \/ StopPreview(p)
           \/ PvPaused(p)
  <2>1. UNCHANGED provider
    BY <1>7 DEF StartPreview, PvStarting, PvLoad, PvFinish, StopPreview, PvPaused
  <2>. QED  BY <1>1, <2>1, SameMachines DEF provider
<1>. QED  BY <1>2, <1>3, <1>4, <1>5, <1>6, <1>7 DEF Preview

LEMMA KillDoes ==
  ASSUME TypeOK, NEW p \in Apis, Kill(p)
  PROVE  Kills(p) /\ served' = served
<1>1. PICK missed \in SUBSET {job[p].seen.id, job[p].seen.pvId} :
        /\ sbx' = [i \in Ids |-> IF i \in {job[p].seen.id, job[p].seen.pvId} \ missed
                                 THEN "gone" ELSE sbx[i]]
        /\ handles' = [q \in Procs |-> handles[q] \ {i \in Ids : sbx'[i] = "gone"}]
  BY DEF Kill
<1>2. sbx \in [Ids -> {"unborn", "up", "paused", "gone"}] /\ handles \in [Procs -> SUBSET Ids]
  BY DEF TypeOK
<1>3. sbx' \in [Ids -> {"unborn", "up", "paused", "gone"}]
  BY <1>1, <1>2
<1>4. handles' \in [Procs -> SUBSET Ids]
  BY <1>1, <1>2
<1>5. \A i \in Ids : sbx'[i] = sbx[i] \/ sbx'[i] = "gone"
  BY <1>1
<1>. QED  BY <1>3, <1>4, <1>5 DEF Kills, Kill

LEMMA NextMachines ==
  ASSUME Core, [Next]_vars
  PROVE  MachineMove /\ served' \in [Ids -> 0..MaxVersions]
<1>. TypeOK /\ served \in [Ids -> 0..MaxVersions]
  BY DEF Core, TypeOK
<1>1. CASE \E w \in Workers : Ensure(w) \/ Run(w) \/ Wind(w)
  BY <1>1, EnsureMachines, RunMachines, WindMachines DEF MachineMove, Procs
<1>2. CASE \E p \in Apis : Preview(p)
  <2>1. PICK p \in Apis : Preview(p)
    BY <1>2
  <2>2. p \in Procs
    BY DEF Procs
  <2>3. Same \/ Wakes(p) \/ Births(p) \/ Sleep(p)
    BY <2>1, PreviewMachines, Machines, NoneAssumption DEF Wakes, Births, Sleep
  <2>. QED  BY <2>1, <2>2, <2>3, PreviewMachines DEF MachineMove
<1>3. CASE \E p \in Apis : Deletion(p)
  <2>1. PICK p \in Apis : Deletion(p)
    BY <1>3
  <2>2. CASE Kill(p)
    BY <2>2, KillDoes DEF MachineMove, Procs
  <2>3. CASE DeleteProject(p) \/ Delete(p)
    BY <2>3, SameMachines DEF DeleteProject, Delete, MachineMove, provider
  <2>. QED  BY <2>1, <2>2, <2>3 DEF Deletion
<1>4. CASE \E p \in Procs : Lost(p) \/ Crash(p)
  <2>1. PICK p \in Procs : Lost(p) \/ Crash(p)
    BY <1>4
  <2>2. sbx' = sbx /\ served' = served /\ (handles' = handles \/ handles' = [handles EXCEPT ![p] = {}])
    BY <2>1 DEF Lost, Crash, provider
  <2>. QED  BY <2>2 DEF MachineMove, Same, TypeOK
<1>5. CASE \E i \in Ids : Expire(i)
  <2>1. PICK i \in Ids : Expire(i)
    BY <1>5
  <2>2. /\ sbx[i] = "up" /\ sbx' = [sbx EXCEPT ![i] = "gone"] /\ served' = served
        /\ handles' = [p \in Procs |-> handles[p] \ {i}]
    BY <2>1 DEF Expire
  <2>3. Moved(i, {"up"}, "gone")
    BY <2>2 DEF Moved, Turned, TypeOK
  <2>. QED  BY <2>2, <2>3 DEF MachineMove
<1>6. CASE \/ \E w \in Workers, t \in Tasks : BeginRun(w, t)
           \/ \E t \in Tasks : QueueTask(t) \/ StopTask(t) \/ Reap(t)
           \/ UNCHANGED vars
  <2>1. UNCHANGED provider
    BY <1>6 DEF BeginRun, QueueTask, StopTask, Reap, vars
  <2>. QED  BY <2>1, SameMachines DEF MachineMove, provider
<1>. QED  BY <1>1, <1>2, <1>3, <1>4, <1>5, <1>6 DEF Next

-----------------------------------------------------------------------------
(* Every step, by what it does to the tasks and the counters.              *)

TaskMove ==
  \/ task' = task
  \/ \E t \in Tasks : task' = [task EXCEPT ![t] = "ended"]
  \/ \E w \in Workers, t \in Tasks : BeginRun(w, t)
  \/ \E t \in Tasks : QueueTask(t)
  \/ task' = [t \in Tasks |-> "ended"]

LEMMA NextTasks ==
  ASSUME Core, [Next]_vars
  PROVE  TaskMove
<1>1. ASSUME NEW w \in Workers, job[w].pc \in {"ensure", "create", "loop"}
      PROVE  job[w].task \in Tasks
  BY <1>1 DEF Core, Kinds, Tasked, Procs, RunSteps
<1>2. CASE \E w \in Workers : Ensure(w)
  <2>1. PICK w \in Workers : Ensure(w)
    BY <1>2
  <2>2. CASE BootFails(w)
    BY <1>1, <2>2 DEF BootFails, NeedsMachine, At, TaskMove
  <2>3. CASE Reuse(w) \/ Wake(w) \/ Woken(w) \/ CreateMachine(w) \/ Bind(w)
    BY <2>3 DEF Reuse, Wake, Woken, CreateMachine, Bind, TaskMove
  <2>. QED  BY <2>1, <2>2, <2>3 DEF Ensure
<1>3. CASE \E w \in Workers : Run(w)
  <2>1. PICK w \in Workers : Run(w)
    BY <1>3
  <2>2. CASE EndUnfinished(w) \/ EndDone(w)
    BY <1>1, <2>2 DEF EndUnfinished, EndDone, At, TaskMove
  <2>3. CASE UseMachine(w) \/ RunRaises(w) \/ EndStopped(w)
    BY <2>3 DEF UseMachine, RunRaises, EndStopped, TaskMove
  <2>. QED  BY <2>1, <2>2, <2>3 DEF Run
<1>4. CASE \E w \in Workers : Wind(w)
  BY <1>4 DEF Wind, Refresh, SyncWrite, SyncCommit, IdleCheck, BusyCheck, PauseMachine, PauseCommit, TaskMove
<1>5. CASE \E p \in Apis : Preview(p)
  BY <1>5 DEF Preview, StartPreview, PvStarting, PvLoad, PvProbe, PvCreate, PvServe, PvFinish,
              StopPreview, PvPause, PvPaused, GetPreview, TaskMove
<1>6. CASE \E p \in Apis : Deletion(p)
  BY <1>6 DEF Deletion, DeleteProject, Kill, Delete, TaskMove
<1>7. CASE \E w \in Workers, t \in Tasks : BeginRun(w, t)
  BY <1>7 DEF TaskMove
<1>8. CASE \E p \in Procs : Lost(p) \/ Crash(p)
  BY <1>8 DEF Lost, Crash, TaskMove
<1>9. CASE \E t \in Tasks : QueueTask(t) \/ StopTask(t) \/ Reap(t)
  BY <1>9 DEF StopTask, Reap, TaskMove
<1>10. CASE (\E i \in Ids : Expire(i)) \/ UNCHANGED vars
  BY <1>10 DEF Expire, vars, TaskMove
<1>. QED  BY <1>2, <1>3, <1>4, <1>5, <1>6, <1>7, <1>8, <1>9, <1>10 DEF Next

\* The counters and the history stay typed, and the history is not forgotten.
Flags ==
  /\ latest' \in 0..MaxVersions /\ requests' \in 0..MaxRequests
  /\ faults' \in 0..MaxFaults /\ (faults' = 0 => faults = 0)
  /\ raced' \in SUBSET Tasks /\ raced \subseteq raced'
  /\ {clash', crossed', skipped'} \subseteq BOOLEAN
  /\ (clash => clash') /\ (crossed => crossed') /\ (skipped => skipped')

LEMMA Counters ==
  ASSUME TypeOK
  PROVE  /\ faults \in 0..MaxFaults /\ requests \in 0..MaxRequests /\ latest \in 0..MaxVersions
         /\ raced \in SUBSET Tasks
         /\ clash \in BOOLEAN /\ crossed \in BOOLEAN /\ skipped \in BOOLEAN
         /\ (Fault => faults' \in 0..MaxFaults /\ faults' # 0)
         /\ (faults' = faults => faults' \in 0..MaxFaults)
         /\ (requests < MaxRequests /\ requests' = requests + 1 => requests' \in 0..MaxRequests)
         /\ (latest' \in {latest, latest + 1} /\ latest' <= MaxVersions => latest' \in 0..MaxVersions)
<1>1. faults \in 0..MaxFaults /\ requests \in 0..MaxRequests /\ latest \in 0..MaxVersions
  BY DEF TypeOK
<1>2. clash \in BOOLEAN /\ crossed \in BOOLEAN /\ skipped \in BOOLEAN /\ raced \in SUBSET Tasks
  BY DEF TypeOK
<1>3. Fault => faults' \in 0..MaxFaults /\ faults' # 0
  BY <1>1, Bounds DEF Fault
<1>4. faults' = faults => faults' \in 0..MaxFaults
  BY <1>1
<1>5. requests < MaxRequests /\ requests' = requests + 1 => requests' \in 0..MaxRequests
  BY <1>1, Bounds
<1>6. latest' \in {latest, latest + 1} /\ latest' <= MaxVersions => latest' \in 0..MaxVersions
  BY <1>1, Bounds
<1>. QED  BY <1>1, <1>2, <1>3, <1>4, <1>5, <1>6

LEMMA EnsureFlags ==
  ASSUME TypeOK, NEW w \in Workers, Ensure(w)
  PROVE  Flags
<1>1. UNCHANGED <<latest, requests, history>>
  BY DEF Ensure, Reuse, Wake, Woken, CreateMachine, Bind, BootFails
<1>2. UNCHANGED faults \/ Fault
  BY DEF Ensure, Reuse, Wake, Woken, CreateMachine, Bind, BootFails, Raises
<1>. QED  BY <1>1, <1>2, Counters DEF Flags, history

LEMMA RunFlags ==
  ASSUME TypeOK, NEW w \in Workers, Run(w)
  PROVE  Flags
<1>1. CASE UseMachine(w)
  <2>1. UNCHANGED <<latest, requests, history>> /\ (UNCHANGED faults \/ Fault)
    BY <1>1 DEF UseMachine
  <2>. QED  BY <2>1, Counters DEF Flags, history
<1>2. CASE RunRaises(w)
  <2>1. UNCHANGED <<latest, requests, raced, clash, crossed>> /\ (UNCHANGED faults \/ Fault)
    BY <1>2 DEF RunRaises, Raises
  <2>2. skipped' = (skipped \/ faults' = 0)
    BY <1>2 DEF RunRaises
  <2>3. skipped' \in BOOLEAN /\ (skipped => skipped')
    BY <2>2, Counters
  <2>. QED  BY <2>1, <2>3, Counters DEF Flags
<1>3. CASE EndUnfinished(w)
  <2>1. UNCHANGED <<latest, requests, faults, history>>
    BY <1>3 DEF EndUnfinished
  <2>. QED  BY <2>1, Counters DEF Flags, history
<1>4. CASE EndDone(w) \/ EndStopped(w)
  <2>1. UNCHANGED <<requests, faults, raced, clash, skipped>> /\ CutVersion(w)
    BY <1>4 DEF EndDone, EndStopped
  <2>2. /\ latest' \in {latest, latest + 1} /\ latest' <= MaxVersions
        /\ crossed' = (crossed \/ (latest' # latest /\ OthersPreview(w)))
    BY <2>1 DEF CutVersion
  <2>. QED  BY <2>1, <2>2, Counters DEF Flags
<1>. QED  BY <1>1, <1>2, <1>3, <1>4 DEF Run

LEMMA WindFlags ==
  ASSUME TypeOK, NEW w \in Workers, Wind(w)
  PROVE  Flags
<1>1. CASE Refresh(w)
  <2>1. UNCHANGED <<latest, requests, faults, raced, clash, skipped>> /\ (Cross(w) \/ UNCHANGED crossed)
    BY <1>1 DEF Refresh
  <2>2. crossed' \in BOOLEAN /\ (crossed => crossed')
    <3>1. CASE Cross(w)
      BY <3>1, Counters DEF Cross
    <3>2. CASE UNCHANGED crossed
      BY <3>2, Counters
    <3>. QED  BY <2>1, <3>1, <3>2
  <2>. QED  BY <2>1, <2>2, Counters DEF Flags
<1>2. CASE BusyCheck(w)
  <2>1. UNCHANGED <<latest, requests, faults, clash, crossed, skipped>>
    BY <1>2 DEF BusyCheck
  <2>2. raced' = raced \/ raced' = raced \cup StoppedInside(w)
    BY <1>2 DEF BusyCheck
  <2>. QED  BY <2>1, <2>2, Counters DEF Flags, StoppedInside
<1>3. CASE SyncWrite(w) \/ SyncCommit(w) \/ IdleCheck(w) \/ PauseMachine(w) \/ PauseCommit(w)
  <2>1. UNCHANGED <<latest, requests, history>> /\ (UNCHANGED faults \/ Fault)
    BY <1>3 DEF SyncWrite, SyncCommit, IdleCheck, PauseMachine, PauseCommit, Raises, Fails
  <2>. QED  BY <2>1, Counters DEF Flags, history
<1>. QED  BY <1>1, <1>2, <1>3 DEF Wind

LEMMA PreviewFlags ==
  ASSUME TypeOK, NEW p \in Apis, Preview(p)
  PROVE  Flags
<1>1. CASE StartPreview(p) \/ StopPreview(p)
  <2>1. UNCHANGED <<latest, faults, raced, clash, skipped>> /\ Cross(p)
    BY <1>1 DEF StartPreview, StopPreview
  <2>2. requests < MaxRequests /\ requests' = requests + 1
    BY <1>1 DEF StartPreview, StopPreview, Request
  <2>. QED  BY <2>1, <2>2, Counters DEF Flags, Cross
<1>2. CASE \/ PvStarting(p) \/ PvLoad(p) \/ PvProbe(p) \/ PvCreate(p) \/ PvServe(p)
           \/ PvFinish(p) \/ PvPause(p) \/ PvPaused(p) \/ GetPreview(p)
  <2>1. UNCHANGED <<latest, requests, history>>
    BY <1>2 DEF PvStarting, PvLoad, PvProbe, PvCreate, PvServe, PvFinish, PvPause, PvPaused, GetPreview
  <2>2. UNCHANGED faults \/ Fault
    BY <1>2 DEF PvStarting, PvLoad, PvProbe, PvCreate, PvServe, PvFinish, PvPause, PvPaused, GetPreview,
                Raises, Fails
  <2>. QED  BY <2>1, <2>2, Counters DEF Flags, history
<1>. QED  BY <1>1, <1>2 DEF Preview

LEMMA DeletionFlags ==
  ASSUME TypeOK, NEW p \in Apis, Deletion(p)
  PROVE  Flags
<1>1. CASE DeleteProject(p)
  <2>1. /\ UNCHANGED <<latest, faults, raced, crossed, skipped>>
        /\ clash' = (clash \/ OthersEnsure(p))
    BY <1>1 DEF DeleteProject
  <2>2. requests < MaxRequests /\ requests' = requests + 1
    BY <1>1 DEF DeleteProject, Request
  <2>. QED  BY <2>1, <2>2, Counters DEF Flags
<1>2. CASE Kill(p) \/ Delete(p)
  <2>1. UNCHANGED <<latest, requests, history>> /\ (UNCHANGED faults \/ Fault)
    BY <1>2 DEF Kill, Delete
  <2>. QED  BY <2>1, Counters DEF Flags, history
<1>. QED  BY <1>1, <1>2 DEF Deletion

LEMMA NextFlags ==
  ASSUME TypeOK, [Next]_vars
  PROVE  Flags
<1>1. CASE \E w \in Workers : Ensure(w) \/ Run(w) \/ Wind(w)
  BY <1>1, EnsureFlags, RunFlags, WindFlags
<1>2. CASE \E p \in Apis : Preview(p) \/ Deletion(p)
  BY <1>2, PreviewFlags, DeletionFlags
<1>3. CASE \E w \in Workers, t \in Tasks : BeginRun(w, t)
  <2>1. PICK w \in Workers, t \in Tasks : BeginRun(w, t)
    BY <1>3
  <2>2. /\ UNCHANGED <<latest, requests, faults, raced, crossed, skipped>>
        /\ clash' = (clash \/ OthersEnsure(w) \/ \E q \in Procs : job[q].pc \in {"kill", "delete"})
    BY <2>1 DEF BeginRun
  <2>. QED  BY <2>2, Counters DEF Flags
<1>4. CASE \E p \in Procs : Lost(p)
  <2>1. UNCHANGED <<latest, requests, faults, history>>
    BY <1>4 DEF Lost
  <2>. QED  BY <2>1, Counters DEF Flags, history
<1>5. CASE \E p \in Procs : Crash(p)
  <2>1. PICK p \in Procs : Crash(p)
    BY <1>5
  <2>2. /\ UNCHANGED <<latest, requests, raced, clash, skipped>> /\ Fault
        /\ crossed' = (crossed \/ job[p].pc \in PreviewSteps)
    BY <2>1 DEF Crash
  <2>. QED  BY <2>2, Counters DEF Flags
<1>6. CASE \E t \in Tasks : QueueTask(t)
  <2>1. PICK t \in Tasks : QueueTask(t)
    BY <1>6
  <2>2. /\ UNCHANGED <<latest, requests, faults, clash, crossed, skipped>>
        /\ raced' = raced \/ raced' = raced \cup {t}
    BY <2>1 DEF QueueTask
  <2>. QED  BY <2>1, <2>2, Counters DEF Flags
<1>7. CASE \E t \in Tasks : StopTask(t)
  <2>1. PICK t \in Tasks : StopTask(t)
    BY <1>7
  <2>2. /\ UNCHANGED <<latest, requests, faults, raced, clash, crossed>>
        /\ skipped' = (skipped \/ \A w \in Workers : job[w].task # t)
    BY <2>1 DEF StopTask
  <2>. QED  BY <2>2, Counters DEF Flags
<1>8. CASE (\E t \in Tasks : Reap(t)) \/ (\E i \in Ids : Expire(i))
  <2>1. UNCHANGED <<latest, requests, history>> /\ (UNCHANGED faults \/ Fault)
    BY <1>8 DEF Reap, Expire
  <2>. QED  BY <2>1, Counters DEF Flags, history
<1>9. CASE UNCHANGED vars
  BY <1>9, Counters DEF Flags, vars, history
<1>. QED  BY <1>1, <1>2, <1>3, <1>4, <1>5, <1>6, <1>7, <1>8, <1>9 DEF Next

-----------------------------------------------------------------------------
(* Types, and who does what.                                               *)

LEMMA NextGrows ==
  ASSUME Core, [Next]_vars
  PROVE  /\ Grows
         /\ task' \in [Tasks -> {"unborn", "queued", "working", "ended"}]
         /\ sbx' \in [Ids -> {"unborn", "up", "paused", "gone"}]
         /\ handles' \in [Procs -> SUBSET Ids] /\ served' \in [Ids -> 0..MaxVersions]
<1>1. /\ task \in [Tasks -> {"unborn", "queued", "working", "ended"}]
      /\ sbx \in [Ids -> {"unborn", "up", "paused", "gone"}]
      /\ handles \in [Procs -> SUBSET Ids]
  BY DEF Core, TypeOK
<1>2. /\ task' \in [Tasks -> {"unborn", "queued", "working", "ended"}]
      /\ \A t \in Tasks : task[t] \in {"working", "ended"} => task'[t] \in {"working", "ended"}
  <2>1. TaskMove
    BY NextTasks
  <2>. QED  BY <1>1, <2>1 DEF TaskMove, BeginRun, QueueTask
<1>3. /\ sbx' \in [Ids -> {"unborn", "up", "paused", "gone"}] /\ handles' \in [Procs -> SUBSET Ids]
      /\ \A i \in Ids : sbx[i] # "unborn" => sbx'[i] # "unborn"
  <2>1. MachineMove
    BY NextMachines
  <2>2. ASSUME NEW i, NEW from, NEW s \in {"up", "paused", "gone"}, Moved(i, from, s)
        PROVE  /\ sbx' \in [Ids -> {"unborn", "up", "paused", "gone"}] /\ handles' \in [Procs -> SUBSET Ids]
               /\ \A k \in Ids : sbx[k] # "unborn" => sbx'[k] # "unborn"
    BY <1>1, <2>2 DEF Moved, Turned
  <2>3. CASE Same
    BY <1>1, <2>3 DEF Same
  <2>4. CASE \E p \in Procs : Kills(p)
    BY <1>1, <2>4 DEF Kills
  <2>5. CASE \E p \in Procs : Sleep(p) \/ Wakes(p) \/ Births(p)
    BY <2>2, <2>5 DEF Sleep, Wakes, Births
  <2>6. CASE \E i \in Ids : Moved(i, {"up"}, "gone")
    BY <2>2, <2>6
  <2>. QED  BY <2>1, <2>3, <2>4, <2>5, <2>6 DEF MachineMove
<1>4. project'.exists => /\ project.exists
                         /\ project.id # None => project'.id # None
                         /\ project.pvId # None => project'.pvId # None
  BY RowsKept
<1>5. served' \in [Ids -> 0..MaxVersions]
  BY NextMachines
<1>. QED  BY <1>2, <1>3, <1>4, <1>5 DEF Grows

\* A job that is not touched stays what it was.
LEMMA KindStays ==
  ASSUME Core, Grows, NEW p \in Procs, job'[p] = job[p]
  PROVE  Place(p)' /\ Tasked(p)' /\ Sees(p)' /\ Holds(p)' /\ Passed(p)'
<1>. /\ Place(p) /\ Tasked(p) /\ Sees(p) /\ Holds(p) /\ Passed(p)
     /\ Ws \subseteq Ids /\ Pv \subseteq Ids
  BY Machines DEF Core, Kinds
<1>1. Place(p)' /\ Passed(p)'
  BY DEF Place, Passed
<1>2. Tasked(p)'
  BY DEF Tasked, Grows
<1>3. Sees(p)'
  BY DEF Sees, Grows
<1>4. Holds(p)'
  BY DEF Holds, Grows
<1>. QED  BY <1>1, <1>2, <1>3, <1>4

\* Neither is one that forgets everything.
LEMMA KindTurns ==
  ASSUME Core, NEW p \in Procs, NEW pc \in {"idle", "idlecheck", "finished"}, Turns(p, pc),
         pc = "idle" \/ p \in Workers
  PROVE  Place(p)' /\ Tasked(p)' /\ Sees(p)' /\ Holds(p)' /\ Passed(p)'
<1>. /\ job'[p].pc = pc /\ job'[p].task = None /\ job'[p].id = None
     /\ job'[p].seen = NewRow /\ NewRow.id = None /\ NewRow.pvId = None
  BY DEF Turns, NewRow
<1>1. Place(p)' /\ Passed(p)' /\ Tasked(p)'
  BY DEF Place, Passed, Tasked, RunSteps, Winding, PreviewSteps, Syncing
<1>2. Sees(p)' /\ Holds(p)'
  BY DEF Sees, Holds, Building
<1>. QED  BY <1>1, <1>2

\* A job that goes on with the row it has seen.
LEMMA KindCarries ==
  ASSUME Core, Grows, NEW p \in Procs,
         job'[p].seen = job[p].seen \/ job'[p].seen = NewRow \/ job'[p].seen = WorkspaceColumns
         \/ job'[p].seen = PreviewColumns \/ job'[p].seen = project
  PROVE  Sees(p)'
<1>. /\ Sees(p) /\ RowKind /\ Ws \subseteq Ids /\ Pv \subseteq Ids /\ TypeOK
  BY Machines DEF Core, Kinds
<1>1. /\ WorkspaceColumns.id = project.id /\ WorkspaceColumns.pvId = None
      /\ PreviewColumns.id = None /\ PreviewColumns.pvId = project.pvId
      /\ NewRow.id = None /\ NewRow.pvId = None
  BY Columns DEF NewRow
<1>. QED  BY <1>1 DEF Sees, RowKind, Grows

LEMMA KindRuns ==
  ASSUME Core, Grows, NEW w \in Workers, RunMove(w)
  PROVE  Place(w)' /\ Tasked(w)' /\ Sees(w)' /\ Holds(w)' /\ Passed(w)'
<1>. w \in Procs
  BY DEF Procs
<1>. /\ Place(w) /\ Tasked(w) /\ Sees(w) /\ Holds(w) /\ Passed(w)
     /\ Ws \subseteq Ids /\ Pv \subseteq Ids /\ TypeOK
  BY Machines DEF Core, Kinds
<1>1. /\ job'[w].pc \in RunSteps
      /\ \/ job'[w].task \in Tasks /\ task[job'[w].task] = "queued" /\ task'[job'[w].task] = "working"
         \/ job[w].pc \in RunSteps /\ job'[w].task = job[w].task
  BY DEF RunMove, Begins, Enters, Carries, Takes, RunSteps, At
<1>2. Place(w)' /\ Tasked(w)'
  <2>1. Place(w)'
    BY <1>1 DEF Place, RunSteps, PreviewSteps, Syncing
  <2>2. Tasked(w)'
    BY <1>1 DEF Tasked, Grows
  <2>. QED  BY <2>1, <2>2
<1>3. Sees(w)'
  BY KindCarries DEF RunMove, Begins, Enters, Carries, Takes
<1>4. Holds(w)'
  <2>1. job'[w].pc \notin Building
    BY <1>1 DEF RunSteps, Building
  <2>2. job'[w].pc \in {"bind", "loop"} => job'[w].id \in Ws /\ sbx'[job'[w].id] # "unborn"
    BY DEF RunMove, Begins, Enters, Carries, Takes, At, Grows, Sees, Holds, Passed
  <2>. QED  BY <2>1, <2>2, <1>1 DEF Holds, RunSteps
<1>5. Passed(w)'
  <2>1. job'[w].pc = "resumed" => job'[w].seen.id # None /\ job'[w].seen.status = "paused"
    BY DEF RunMove, Begins, Enters, Carries, Takes
  <2>. QED  BY <2>1, <1>1 DEF Passed, RunSteps, Syncing
<1>. QED  BY <1>2, <1>3, <1>4, <1>5

LEMMA KindWinds ==
  ASSUME Core, Grows, NEW w \in Workers, WindMove(w)
  PROVE  Place(w)' /\ Tasked(w)' /\ Sees(w)' /\ Holds(w)' /\ Passed(w)'
<1>. w \in Procs
  BY DEF Procs
<1>. /\ Place(w) /\ Tasked(w) /\ Sees(w) /\ Holds(w) /\ Passed(w)
     /\ Ws \subseteq Ids /\ Pv \subseteq Ids /\ TypeOK
  BY Machines DEF Core, Kinds
<1>1. CASE \E pc \in {"idle", "idlecheck", "finished"} : Turns(w, pc)
  BY <1>1, KindTurns
<1>2. CASE At(w, "finished") /\ project.pvStatus = "ready" /\ Syncs(w)
  <2>1. /\ job'[w].pc = "pvsync" /\ job'[w].seen = project /\ job'[w].task = None
        /\ project.pvStatus = "ready" /\ project.pvId # None
    BY <1>2, NoneAssumption DEF Syncs, Tasked, At, RunSteps, TypeOK
  <2>2. Place(w)' /\ Tasked(w)' /\ Holds(w)' /\ Passed(w)'
    BY <2>1 DEF Place, Tasked, Holds, Passed, RunSteps, PreviewSteps, Syncing, Building
  <2>. QED  BY <2>1, <2>2, KindCarries
<1>3. ASSUME NEW row, Loads(w, "busycheck", row), job'[w].task = None, row.id # None,
             row.status = "running", row = WorkspaceColumns \/ row = job[w].seen
      PROVE  Place(w)' /\ Tasked(w)' /\ Sees(w)' /\ Holds(w)' /\ Passed(w)'
  <2>1. /\ job'[w].pc = "busycheck" /\ job'[w].seen = row
    BY <1>3 DEF Loads
  <2>2. Place(w)' /\ Tasked(w)' /\ Holds(w)' /\ Passed(w)'
    BY <1>3, <2>1 DEF Place, Tasked, Holds, Passed, RunSteps, PreviewSteps, Syncing, Building
  <2>. QED  BY <1>3, <2>1, <2>2, KindCarries
<1>4. CASE \/ At(w, "pvsync") /\ Carries(w, "pvsynced")
           \/ At(w, "busycheck") /\ Carries(w, "pause")
           \/ At(w, "pause") /\ Carries(w, "paused")
  <2>1. Place(w)' /\ Tasked(w)'
    BY <1>4 DEF Carries, At, Place, Tasked, RunSteps, PreviewSteps, Syncing, Building
  <2>2. Holds(w)' /\ Passed(w)'
    BY <1>4 DEF Carries, At, Holds, Passed, Syncing, Building
  <2>3. Sees(w)'
    BY <1>4, KindCarries DEF Carries
  <2>. QED  BY <2>1, <2>2, <2>3
<1>. QED  BY <1>1, <1>2, <1>3, <1>4 DEF WindMove, Tests

LEMMA KindPreviews ==
  ASSUME Core, Grows, NEW p \in Apis, PreviewMove(p) \/ DeleteMove(p)
  PROVE  Place(p)' /\ Tasked(p)' /\ Sees(p)' /\ Holds(p)' /\ Passed(p)'
<1>. p \in Procs
  BY DEF Procs
<1>. /\ Place(p) /\ Tasked(p) /\ Sees(p) /\ Holds(p) /\ Passed(p)
     /\ Ws \subseteq Ids /\ Pv \subseteq Ids /\ TypeOK
  BY Machines DEF Core, Kinds
<1>1. /\ job'[p].pc \in (PreviewSteps \ Syncing) \cup {"kill", "delete"}
      /\ job'[p].task = None \/ (job'[p].task = job[p].task /\ job[p].pc \notin RunSteps)
  BY DEF PreviewMove, DeleteMove, Loads, Sets, Reloads, Carries, Takes, PreviewSteps, Syncing, RunSteps, At
<1>2. Place(p)' /\ Tasked(p)'
  BY <1>1 DEF Place, Tasked, RunSteps, Winding, PreviewSteps, Syncing
<1>3. Sees(p)'
  BY KindCarries DEF PreviewMove, DeleteMove, Loads, Sets, Reloads, Carries, Takes
<1>4. Passed(p)'
  BY <1>1 DEF Passed, PreviewSteps, Syncing
<1>5. Holds(p)'
  <2>1. job'[p].pc \notin {"bind", "loop"}
    BY <1>1 DEF PreviewSteps, Syncing
  <2>2. PreviewColumns.pvId = project.pvId
    BY Columns
  <2>3. job'[p].pc \in Building => job'[p].id = job'[p].seen.pvId \/ job'[p].id \in Pv
    BY <2>2 DEF PreviewMove, DeleteMove, Loads, Sets, Reloads, Carries, Takes, At, Holds, Building
  <2>4. job'[p].pc \in {"pvserve", "pvready"} => job'[p].id \in Pv
    BY DEF PreviewMove, DeleteMove, Loads, Sets, Reloads, Carries, Takes, At, Holds, Sees, Building
  <2>. QED  BY <2>1, <2>3, <2>4 DEF Holds
<1>. QED  BY <1>2, <1>3, <1>4, <1>5

LEMMA KindsKept ==
  ASSUME Core, [Next]_vars
  PROVE  Kinds'
<1>1. Grows /\ Moves /\ TypeOK
  BY NextGrows, NextMoves DEF Core
<1>2. RowKind'
  <2>1. project'.id # None => sbx'[project'.id] # "unborn"
    <3>1. project'.id # None => project'.id = project.id \/ \E p \in Procs : At(p, "bind") /\ project'.id = job[p].id
      BY RowsKept
    <3>2. project.id # None => project.id \in Ids /\ sbx[project.id] # "unborn"
      BY Machines DEF Core, Kinds, RowKind
    <3>3. \A p \in Procs : At(p, "bind") => job[p].id \in Ids /\ sbx[job[p].id] # "unborn"
      BY Machines DEF Core, Kinds, Holds, At
    <3>. QED  BY <1>1, <3>1, <3>2, <3>3 DEF Grows
  <2>. QED  BY <2>1, RowsKept DEF RowKind
<1>3. ASSUME NEW q \in Procs
      PROVE  Place(q)' /\ Tasked(q)' /\ Sees(q)' /\ Holds(q)' /\ Passed(q)'
  <2>1. CASE job'[q] = job[q]
    BY <1>1, <2>1, KindStays
  <2>2. CASE Turns(q, "idle")
    BY <2>2, KindTurns
  <2>3. CASE q \in Workers /\ (RunMove(q) \/ WindMove(q))
    BY <1>1, <2>3, KindRuns, KindWinds
  <2>4. CASE q \in Apis /\ (PreviewMove(q) \/ DeleteMove(q))
    BY <1>1, <2>4, KindPreviews
  <2>5. ASSUME NEW p \in Procs, OtherJobs(p), p # q
        PROVE  job'[q] = job[q]
    BY <2>5 DEF OtherJobs
  <2>6. \A p \in Procs : /\ \A pc : Turns(p, pc) \/ Carries(p, pc) => OtherJobs(p)
                         /\ RunMove(p) \/ WindMove(p) \/ PreviewMove(p) \/ DeleteMove(p) => OtherJobs(p)
    BY DEF Turns, RunMove, WindMove, PreviewMove, DeleteMove, Begins, Enters, Carries, Takes, Loads,
           Syncs, Tests, Sets, Reloads
  <2>. QED  BY <1>1, <2>1, <2>2, <2>3, <2>4, <2>5, <2>6 DEF Moves, Procs
<1>. QED  BY <1>2, <1>3 DEF Kinds

LEMMA TypesKept ==
  ASSUME Core, [Next]_vars
  PROVE  TypeOK'
<1>1. Kinds' /\ Moves /\ Flags
  BY KindsKept, NextMoves, NextFlags DEF Core
<1>2. job' \in [Procs -> Jobs]
  BY <1>1 DEF Moves, Core, TypeOK, Turns, RunMove, WindMove, PreviewMove, DeleteMove, Begins, Enters,
              Carries, Takes, Loads, Syncs, Tests, Sets, Reloads, OtherJobs, Procs
<1>3. \A p \in Procs : job'[p].pc \in {"ensure", "loop"} => p \in Workers /\ job'[p].task \in Tasks
  BY <1>1 DEF Kinds, Place, Tasked, RunSteps
<1>. QED  BY <1>1, <1>2, <1>3, NextGrows, RowsKept DEF TypeOK, Flags

LEMMA CoreInit ==
  ASSUME Init
  PROVE  Core
<1>1. NewRow \in Rows /\ Idle \in Jobs /\ MaxVersions \in Nat /\ MaxRequests \in Nat /\ MaxFaults \in Nat
  BY NewRowTyped, Bounds
<1>2. /\ NewRow.id = None /\ NewRow.pvId = None /\ NewRow.exists /\ NewRow.status = "none"
      /\ NewRow.pvStatus = "none" /\ Idle.pc = "idle" /\ Idle.task = None /\ Idle.seen = NewRow
  BY DEF NewRow, Idle
<1>3. TypeOK
  <2>1. /\ sbx \in [Ids -> {"unborn", "up", "paused", "gone"}] /\ served \in [Ids -> 0..MaxVersions]
        /\ handles \in [Procs -> SUBSET Ids] /\ project \in Rows
        /\ task \in [Tasks -> {"unborn", "queued", "working", "ended"}]
    BY <1>1 DEF Init
  <2>2. /\ latest \in 0..MaxVersions /\ requests \in 0..MaxRequests /\ faults \in 0..MaxFaults
        /\ raced \in SUBSET Tasks
    BY <1>1 DEF Init
  <2>3. {clash, crossed, skipped} \subseteq BOOLEAN
    BY DEF Init
  <2>4. job \in [Procs -> Jobs] /\ \A p \in Procs : job[p].pc = "idle"
    BY <1>1, <1>2 DEF Init
  <2>5. project.status = "none" /\ project.pvStatus = "none"
    BY <1>2 DEF Init
  <2>. QED  BY <2>1, <2>2, <2>3, <2>4, <2>5 DEF TypeOK
<1>4. Kinds
  BY <1>2 DEF Init, Kinds, RowKind, Place, Tasked, Sees, Holds, Passed, RunSteps, Winding, Syncing,
              PreviewSteps, Building
<1>. QED  BY <1>3, <1>4 DEF Core

LEMMA CoreHolds == Spec => []Core
<1>1. Core /\ [Next]_vars => Core'
  BY KindsKept, TypesKept DEF Core
<1>. QED  BY CoreInit, <1>1, PTL DEF Spec

\* Every process, row and machine stays of its kind; a run that is at work knows its
\* task, and a row that claims a machine names it.
THEOREM TypeCorrect == Spec => []TypeOK
<1>1. Core => TypeOK
  BY DEF Core
<1>. QED  BY CoreHolds, <1>1, PTL

-----------------------------------------------------------------------------
(* MachineAwake.                                                           *)

Active(t) == task[t] \in {"queued", "working"}

\* Whoever is about to pause the workspace has found nobody active: what is active now
\* came later.
Late == (\E p \in Procs : At(p, "pause")) => \A t \in Tasks : Active(t) => t \in raced

\* The machine of a run that is on its way to it or in it.
Awake(w) ==
  /\ job[w].pc \in RunSteps /\ task[job[w].task] = "working" /\ job[w].task \notin raced
  => /\ job[w].pc \in {"bind", "loop"} => sbx[job[w].id] # "paused"
     /\ job[w].pc = "resumed" => sbx[job[w].seen.id] # "paused"

AllAwake == Late /\ \A w \in Workers : Awake(w)

\* Only pause_if_idle pauses a machine of the workspace.
LEMMA OnlyPause ==
  ASSUME Core, [Next]_vars, NEW i \in Ws, sbx'[i] = "paused"
  PROVE  sbx[i] = "paused" \/ \E p \in Procs : At(p, "pause") /\ i = job[p].seen.id
<1>0. i \in Ids /\ i \notin Pv /\ MachineMove
  BY Machines, NextMachines
<1>1. ASSUME NEW k, NEW from, NEW s \in {"up", "gone"}, Moved(k, from, s)
      PROVE  sbx[i] = "paused"
  BY <1>0, <1>1 DEF Moved, Turned
<1>2. ASSUME NEW p \in Procs, Sleep(p)
      PROVE  sbx[i] = "paused" \/ (At(p, "pause") /\ i = job[p].seen.id)
  <2>1. CASE At(p, "pause") /\ Moved(job[p].seen.id, {"up", "paused"}, "paused")
    BY <1>0, <2>1 DEF Moved, Turned
  <2>2. CASE job[p].seen.pvId # None /\ Moved(job[p].seen.pvId, {"up", "paused"}, "paused")
    <3>1. job[p].seen.pvId \in Pv
      BY <2>2 DEF Core, Kinds, Sees
    <3>. QED  BY <1>0, <2>2, <3>1 DEF Moved, Turned
  <2>. QED  BY <1>2, <2>1, <2>2 DEF Sleep
<1>3. CASE Same
  BY <1>3 DEF Same
<1>4. CASE \E p \in Procs : Sleep(p)
  BY <1>2, <1>4
<1>5. CASE \E p \in Procs : Wakes(p) \/ Births(p)
  BY <1>1, <1>5 DEF Wakes, Births
<1>6. CASE \E p \in Procs : Kills(p)
  BY <1>0, <1>6 DEF Kills
<1>7. CASE \E k \in Ids : Moved(k, {"up"}, "gone")
  BY <1>1, <1>7
<1>. QED  BY <1>0, <1>3, <1>4, <1>5, <1>6, <1>7 DEF MachineMove

\* A task that becomes active while somebody is about to pause has come too late.
LEMMA LateKept ==
  ASSUME Core, Late, [Next]_vars
  PROVE  Late'
<1>. SUFFICES ASSUME NEW p \in Procs, At(p, "pause")', NEW t \in Tasks, Active(t)'
              PROVE  t \in raced'
  BY DEF Late
<1>0. TypeOK /\ Moves /\ Flags /\ TaskMove
  BY NextMoves, NextFlags, NextTasks DEF Core
<1>1. CASE At(p, "pause")
  <2>1. CASE Active(t)
    BY <1>0, <1>1, <2>1 DEF Late, Flags
  <2>2. CASE ~Active(t)
    <3>1. QueueTask(t)
      <4>1. task[t] \in {"unborn", "ended"} /\ task \in [Tasks -> {"unborn", "queued", "working", "ended"}]
        BY <1>0, <2>2 DEF Active, TypeOK
      <4>. QED  BY <1>0, <4>1 DEF TaskMove, BeginRun, Active, QueueTask
    <3>2. p \in Workers /\ job[p].pc \in {"pause", "paused"}
      BY <1>1 DEF Core, Kinds, Place, Winding, At
    <3>. QED  BY <3>1, <3>2 DEF QueueTask
  <2>. QED  BY <2>1, <2>2
<1>2. CASE ~At(p, "pause")
  <2>1. job'[p].pc = "pause" /\ job[p].pc # "pause"
    BY <1>2 DEF At
  <2>2. p \in Workers /\ WindMove(p)
    BY <1>0, <2>1 DEF Moves, Turns, RunMove, WindMove, PreviewMove, DeleteMove, Begins, Enters, Carries,
                      Takes, Loads, Syncs, Tests, Sets, Reloads, OtherJobs, Procs
  <2>3. ~HasActiveDevTask /\ task' = task
    BY <2>1, <2>2 DEF WindMove, Turns, Syncs, Tests, Loads, Carries
  <2>. QED  BY <2>3 DEF HasActiveDevTask, Active
<1>. QED  BY <1>1, <1>2

LEMMA AwakeKept ==
  ASSUME Core, Late, [Next]_vars, NEW w \in Workers, Awake(w)
  PROVE  Awake(w)'
<1>. SUFFICES ASSUME job'[w].pc \in RunSteps, task'[job'[w].task] = "working", job'[w].task \notin raced'
              PROVE  /\ job'[w].pc \in {"bind", "loop"} => sbx'[job'[w].id] # "paused"
                     /\ job'[w].pc = "resumed" => sbx'[job'[w].seen.id] # "paused"
  BY DEF Awake
<1>. w \in Procs
  BY DEF Procs
<1>0. TypeOK /\ Moves /\ Flags /\ TaskMove /\ Tasked(w) /\ Holds(w) /\ Sees(w) /\ Passed(w)
  BY NextMoves, NextFlags, NextTasks DEF Core, Kinds
<1>1. ASSUME job[w].pc \in RunSteps, job'[w].task = job[w].task
      PROVE  task[job[w].task] = "working" /\ job[w].task \notin raced
  <2>1. job[w].task \in Tasks /\ task[job[w].task] \in {"working", "ended"}
    BY <1>0, <1>1 DEF Tasked
  <2>2. task \in [Tasks -> {"unborn", "queued", "working", "ended"}]
    BY <1>0 DEF TypeOK
  <2>3. ASSUME task[job[w].task] = "ended"
        PROVE  FALSE
    <3>1. task'[job[w].task] = "working"
      BY <1>1
    <3>. QED  BY <1>0, <2>1, <2>2, <2>3, <3>1 DEF TaskMove, BeginRun, QueueTask
  <2>. QED  BY <1>0, <1>1, <2>1, <2>3 DEF Flags
<1>2. CASE job'[w] = job[w]
  <2>1. task[job[w].task] = "working" /\ job[w].task \notin raced /\ job[w].task \in Tasks
    BY <1>0, <1>1, <1>2 DEF Tasked
  <2>2. ~ \E p \in Procs : At(p, "pause")
    BY <2>1 DEF Late, Active
  <2>3. \A i \in Ws : sbx'[i] = "paused" => sbx[i] = "paused"
    BY <2>2, OnlyPause
  <2>4. /\ job[w].pc \in {"bind", "loop"} => job[w].id \in Ws
        /\ job[w].pc = "resumed" => job[w].seen.id \in Ws
    BY <1>0 DEF Holds, Sees, Passed
  <2>. QED  BY <1>2, <2>1, <2>3, <2>4 DEF Awake
<1>3. CASE RunMove(w)
  <2>1. CASE \/ \E t \in Tasks : Begins(w, t)
             \/ Carries(w, "create")
    BY <2>1 DEF Begins, Carries
  <2>2. CASE Enters(w, job[w].seen.id) /\ sbx'[job[w].seen.id] = "up"
    BY <2>2 DEF Enters
  <2>3. CASE Carries(w, "resumed") /\ sbx'[job[w].seen.id] = "up"
    BY <2>3 DEF Carries
  <2>4. CASE At(w, "resumed") /\ Enters(w, job[w].seen.id) /\ sbx' = sbx
    <3>1. job[w].pc = "resumed" /\ job[w].pc \in RunSteps
      BY <2>4 DEF At, RunSteps
    <3>2. task[job[w].task] = "working" /\ job[w].task \notin raced
      BY <1>1, <2>4, <3>1 DEF Enters
    <3>. QED  BY <2>4, <3>1, <3>2 DEF Enters, Awake
  <2>5. CASE \E i \in Ws : Takes(w, "bind", i) /\ sbx'[i] = "up"
    BY <2>5 DEF Takes
  <2>6. CASE At(w, "bind") /\ Enters(w, job[w].id) /\ sbx' = sbx
    <3>1. job[w].pc = "bind" /\ job[w].pc \in RunSteps
      BY <2>6 DEF At, RunSteps
    <3>2. task[job[w].task] = "working" /\ job[w].task \notin raced
      BY <1>1, <2>6, <3>1 DEF Enters
    <3>. QED  BY <2>6, <3>1, <3>2 DEF Enters, Awake
  <2>. QED  BY <1>3, <2>1, <2>2, <2>3, <2>4, <2>5, <2>6 DEF RunMove
<1>4. CASE Turns(w, "idle") \/ WindMove(w)
  BY <1>4 DEF Turns, WindMove, Syncs, Tests, Loads, Carries, RunSteps
<1>5. CASE PreviewMove(w) \/ DeleteMove(w)
  BY <1>5 DEF PreviewMove, DeleteMove, Loads, Sets, Reloads, Takes, Carries, RunSteps
<1>. QED
  <2>1. \A p \in Procs : /\ Turns(p, "idle") \/ RunMove(p) \/ WindMove(p) \/ PreviewMove(p) \/ DeleteMove(p)
                         => OtherJobs(p)
    BY DEF Turns, RunMove, WindMove, PreviewMove, DeleteMove, Begins, Enters, Carries, Takes, Loads,
           Syncs, Tests, Sets, Reloads
  <2>. QED  BY <1>0, <1>2, <1>3, <1>4, <1>5, <2>1 DEF Moves, OtherJobs, Procs

\* A task that works never finds its machine paused: pause_if_idle counts waiting and
\* working tasks, and only a task queued after it has counted comes too late.
THEOREM WorkersStayAwake == Spec => []MachineAwake
<1>1. Init => AllAwake
  <2>1. Init => \A p \in Procs : job[p].pc = "idle"
    BY DEF Init, Idle
  <2>. QED  BY <2>1 DEF AllAwake, Late, Awake, At, RunSteps, Procs
<1>2. Core /\ AllAwake /\ [Next]_vars => AllAwake'
  BY LateKept, AwakeKept DEF AllAwake
<1>3. AllAwake => MachineAwake
  BY DEF AllAwake, Awake, MachineAwake, At, RunSteps
<1>. QED  BY CoreHolds, <1>1, <1>2, <1>3, PTL DEF Spec

-----------------------------------------------------------------------------
(* Who is alone: in getting a machine, in deleting, in pausing.            *)

Ensuring == {"ensure", "resumed", "create", "bind"}

OneEnsures ==
  ~clash =>
    \A p, q \in Procs : job[p].pc \in Ensuring =>
      job[q].pc \notin {"kill", "delete"} /\ (job[q].pc \in Ensuring => p = q)

PausesAlone ==
  raced = {} =>
    \A p \in Procs : job[p].pc \in {"pause", "paused"} =>
      /\ \A t \in Tasks : ~Active(t)
      /\ \A q \in Procs : job[q].pc \notin RunSteps

Alone == OneEnsures /\ PausesAlone

\* At most one process moves, and in which way.
LEMMA OneMoves ==
  ASSUME TypeOK, [Next]_vars, NEW p \in Procs, job'[p] # job[p]
  PROVE  /\ \A q \in Procs \ {p} : job'[q] = job[q]
         /\ \/ Turns(p, "idle")
            \/ p \in Workers /\ (RunMove(p) \/ WindMove(p))
            \/ p \in Apis /\ (PreviewMove(p) \/ DeleteMove(p))
<1>1. \A q \in Procs : /\ Turns(q, "idle") \/ RunMove(q) \/ WindMove(q) \/ PreviewMove(q) \/ DeleteMove(q)
                       => OtherJobs(q)
  BY DEF Turns, RunMove, WindMove, PreviewMove, DeleteMove, Begins, Enters, Carries, Takes, Loads,
         Syncs, Tests, Sets, Reloads
<1>. QED  BY <1>1, NextMoves DEF Moves, OtherJobs, Procs

\* How a process comes to where it is alone.
LEMMA Ways ==
  ASSUME TypeOK, [Next]_vars, NEW p \in Procs, job'[p] # job[p]
  PROVE  /\ job'[p].pc \in RunSteps =>
              p \in Workers /\ (job[p].pc \in RunSteps \/ \E t \in Tasks : BeginRun(p, t))
         /\ job'[p].pc \in Ensuring => job[p].pc \in Ensuring \/ \E t \in Tasks : BeginRun(p, t)
         /\ job'[p].pc \in {"kill", "delete"} =>
              job[p].pc \in {"kill", "delete"} \/ clash' = (clash \/ OthersEnsure(p))
         /\ job'[p].pc = "pause" =>
              p \in Workers /\ raced' = raced \cup StoppedInside(p) /\ ~HasActiveDevTask /\ task' = task
         /\ job'[p].pc = "paused" => job[p].pc = "pause"
<1>1. CASE Turns(p, "idle")
  BY <1>1 DEF Turns, RunSteps, Ensuring
<1>2. CASE p \in Workers /\ RunMove(p)
  <2>1. job'[p].pc \in RunSteps
    BY <1>2 DEF RunMove, Begins, Enters, Carries, Takes, RunSteps
  <2>2. job[p].pc \in Ensuring \/ \E t \in Tasks : BeginRun(p, t)
    BY <1>2 DEF RunMove, Ensuring, At
  <2>. QED  BY <1>2, <2>1, <2>2 DEF RunSteps, Ensuring
<1>3. CASE p \in Workers /\ WindMove(p)
  <2>1. /\ job'[p].pc \notin RunSteps \cup Ensuring \cup {"kill", "delete"}
        /\ job'[p].pc = "paused" => job[p].pc = "pause"
    BY <1>3 DEF WindMove, Turns, Syncs, Tests, Loads, Carries, RunSteps, Ensuring, At
  <2>2. job'[p].pc = "pause" => raced' = raced \cup StoppedInside(p) /\ ~HasActiveDevTask /\ task' = task
    BY <1>3 DEF WindMove, Turns, Syncs, Tests, Loads, Carries
  <2>. QED  BY <1>3, <2>1, <2>2
<1>4. CASE PreviewMove(p)
  BY <1>4 DEF PreviewMove, Loads, Sets, Reloads, Takes, Carries, RunSteps, Ensuring
<1>5. CASE DeleteMove(p)
  BY <1>5 DEF DeleteMove, Loads, Carries, RunSteps, Ensuring, At
<1>. QED  BY <1>1, <1>2, <1>3, <1>4, <1>5, OneMoves

LEMMA OneKept ==
  ASSUME Core, OneEnsures, [Next]_vars
  PROVE  OneEnsures'
<1>. SUFFICES ASSUME ~clash', NEW p \in Procs, NEW q \in Procs, job'[p].pc \in Ensuring
              PROVE  job'[q].pc \notin {"kill", "delete"} /\ (job'[q].pc \in Ensuring => p = q)
  BY DEF OneEnsures
<1>0. TypeOK /\ ~clash
  BY NextFlags DEF Core, Flags
<1>1. \A r, s \in Procs : job[r].pc \in Ensuring =>
        job[s].pc \notin {"kill", "delete"} /\ (job[s].pc \in Ensuring => r = s)
  BY <1>0 DEF OneEnsures
<1>2. \A r \in Procs : job'[r] # job[r] => \A s \in Procs \ {r} : job'[s] = job[s]
  BY <1>0, OneMoves
<1>3. ASSUME NEW r \in Procs, \E t \in Tasks : BeginRun(r, t)
      PROVE  \A s \in Procs : job[s].pc \notin {"kill", "delete"} /\ (job[s].pc \in Ensuring => s = r)
  BY <1>3 DEF BeginRun, OthersEnsure, Ensuring
<1>4. ASSUME NEW r \in Procs, clash' = (clash \/ OthersEnsure(r))
      PROVE  \A s \in Procs \ {r} : job[s].pc \notin Ensuring
  BY <1>4 DEF OthersEnsure, Ensuring
<1>5. \A r \in Procs : job'[r] # job[r] =>
        /\ job'[r].pc \in Ensuring => job[r].pc \in Ensuring \/ \E t \in Tasks : BeginRun(r, t)
        /\ job'[r].pc \in {"kill", "delete"} =>
             job[r].pc \in {"kill", "delete"} \/ clash' = (clash \/ OthersEnsure(r))
  BY <1>0, Ways
<1>6. job'[p].pc \notin {"kill", "delete"}
  BY DEF Ensuring
<1>7. CASE job'[p] # job[p]
  BY <1>1, <1>2, <1>3, <1>5, <1>6, <1>7
<1>8. CASE job'[p] = job[p] /\ job'[q] # job[q]
  BY <1>1, <1>3, <1>4, <1>5, <1>8
<1>. QED  BY <1>1, <1>7, <1>8

LEMMA PausesKept ==
  ASSUME Core, PausesAlone, [Next]_vars
  PROVE  PausesAlone'
<1>. SUFFICES ASSUME raced' = {}, NEW p \in Procs, job'[p].pc \in {"pause", "paused"}
              PROVE  /\ \A t \in Tasks : ~Active(t)'
                     /\ \A q \in Procs : job'[q].pc \notin RunSteps
  BY DEF PausesAlone
<1>0. TypeOK /\ raced = {} /\ TaskMove /\ task \in [Tasks -> {"unborn", "queued", "working", "ended"}]
  BY NextFlags, NextTasks DEF Core, Flags, TypeOK
<1>1. CASE job'[p] # job[p] /\ job'[p].pc = "pause"
  <2>1. /\ p \in Workers /\ StoppedInside(p) = {} /\ ~HasActiveDevTask /\ task' = task
        /\ \A q \in Procs \ {p} : job'[q] = job[q]
    BY <1>0, <1>1, Ways, OneMoves
  <2>2. \A t \in Tasks : ~Active(t)'
    BY <2>1 DEF HasActiveDevTask, Active
  <2>3. ASSUME NEW q \in Procs, q # p, job[q].pc \in RunSteps
        PROVE  FALSE
    <3>1. q \in Workers \ {p} /\ job[q].task \in Tasks /\ task[job[q].task] \in {"working", "ended"}
      BY <2>3 DEF Core, Kinds, Place, Tasked
    <3>2. task[job[q].task] = "ended"
      BY <2>1, <3>1 DEF HasActiveDevTask
    <3>3. job[q].task \in StoppedInside(p)
      BY <2>3, <3>1, <3>2 DEF StoppedInside
    <3>. QED  BY <2>1, <3>3
  <2>. QED  BY <1>1, <2>1, <2>2, <2>3 DEF RunSteps
<1>2. CASE job[p].pc \in {"pause", "paused"}
  <2>1. (\A t \in Tasks : ~Active(t)) /\ \A q \in Procs : job[q].pc \notin RunSteps
    BY <1>0, <1>2 DEF PausesAlone
  <2>2. \A q \in Procs : job'[q].pc \notin RunSteps
    <3>1. \A q \in Procs, t \in Tasks : ~ BeginRun(q, t)
      BY <2>1 DEF BeginRun, Active
    <3>. QED  BY <1>0, <2>1, <3>1, Ways
  <2>3. ASSUME NEW t \in Tasks, Active(t)'
        PROVE  FALSE
    <3>1. QueueTask(t)
      <4>1. task[t] \in {"unborn", "ended"}
        BY <1>0, <2>1 DEF Active
      <4>. QED  BY <1>0, <2>3, <4>1 DEF TaskMove, BeginRun, Active, QueueTask
    <3>2. p \in Workers
      BY <1>2 DEF Core, Kinds, Place, Winding
    <3>. QED  BY <1>2, <3>1, <3>2 DEF QueueTask
  <2>. QED  BY <2>2, <2>3
<1>3. CASE job'[p] # job[p] /\ job'[p].pc = "paused"
  BY <1>0, <1>2, <1>3, Ways
<1>. QED  BY <1>1, <1>2, <1>3

-----------------------------------------------------------------------------
(* NoLostMachine.                                                          *)

Good == faults = 0 /\ ~clash /\ raced = {}
Live(i) == sbx[i] \in {"up", "paused"}

\* What a process has seen of the workspace is still true when it uses it.
Agrees(p) ==
  /\ job[p].pc \in Ensuring =>
       project.exists /\ project.id = job[p].seen.id /\ project.status = job[p].seen.status
  /\ job[p].pc \in {"kill", "delete", "paused"} => (project.exists => project.id = job[p].seen.id)
  /\ job[p].pc \in {"create", "bind", "delete"} => (job[p].seen.id # None => ~Live(job[p].seen.id))
  /\ job[p].pc = "bind" => job[p].id # job[p].seen.id /\ sbx[job[p].id] # "paused"
  /\ job[p].pc = "resumed" => sbx[job[p].seen.id] # "paused"
  /\ job[p].pc = "paused" => sbx[job[p].seen.id] # "up"
  /\ job[p].pc = "loop" => (project.exists => project.status = "running")

\* What the row says of its machine is true, or about to be written.
RowTells ==
  project.id # None =>
    /\ project.status \in {"running", "paused"}
    /\ sbx[project.id] = "paused" /\ project.status = "running" => \E p \in Procs : At(p, "paused")
    /\ sbx[project.id] = "up" /\ project.status = "paused" => \E p \in Procs : At(p, "resumed")

Kept ==
  \A i \in Ws : Live(i) =>
    \/ project.exists /\ project.id = i
    \/ \E w \in Workers : At(w, "bind") /\ job[w].id = i

Found == Good => (\A p \in Procs : Agrees(p)) /\ RowTells /\ Kept

SameRow ==
  project'.exists = project.exists /\ project'.id = project.id /\ project'.status = project.status

\* A step that is of no consequence to the workspace: at most a run wakes its own machine,
\* a machine ends, and a process goes on to what makes no claim.
Plain ==
  /\ SameRow
  /\ \A i \in Ws :
       \/ sbx'[i] = sbx[i]
       \/ sbx[i] # "unborn" /\ sbx'[i] = "gone"
       \/ Live(i) /\ sbx'[i] = "up" /\ \E w \in Procs : At(w, "loop") /\ job[w].id = i
  /\ \A p \in Procs :
       \/ job'[p] = job[p]
       \/ /\ job'[p].pc \notin Ensuring \cup {"loop", "paused", "kill", "delete"}
          /\ job[p].pc \in {"resumed", "bind", "paused"} => ~project.exists

LEMMA RunPlain ==
  ASSUME Core, NEW w \in Workers, Run(w)
  PROVE  Plain
<1>. w \in Procs
  BY DEF Procs
<1>0. TypeOK /\ Ws \subseteq Ids /\ Ws \cap Pv = {}
  BY Machines DEF Core
<1>1. At(w, "loop") /\ project' = project
  BY DEF Run, UseMachine, RunRaises, EndUnfinished, EndDone, EndStopped
<1>2. \A i \in Ws : sbx'[i] = sbx[i] \/ (Live(i) /\ sbx'[i] = "up" /\ job[w].id = i)
  <2>1. CASE Same
    BY <2>1 DEF Same
  <2>2. CASE Wakes(w)
    BY <1>0, <1>1, <2>2 DEF Wakes, Moved, Turned, At, Live
  <2>. QED  BY <2>1, <2>2, RunMachines
<1>3. \A p \in Procs : job'[p] = job[p] \/ (p = w /\ job'[p].pc \in {"idle", "idlecheck", "finished"})
  <2>1. CASE WindMove(w)
    BY <1>1, <2>1 DEF WindMove, At, Turns, OtherJobs
  <2>2. CASE Turns(w, "idle") \/ job' = job
    BY <2>2 DEF Turns, OtherJobs
  <2>. QED  BY <1>0, <2>1, <2>2, RunMoves
<1>. QED  BY <1>1, <1>2, <1>3 DEF Plain, SameRow, At, Ensuring

LEMMA WindPlain ==
  ASSUME Core, NEW w \in Workers,
         Refresh(w) \/ SyncWrite(w) \/ SyncCommit(w) \/ IdleCheck(w) \/ BusyCheck(w)
  PROVE  Plain
<1>. w \in Procs
  BY DEF Procs
<1>0. TypeOK /\ Ws \subseteq Ids /\ Ws \cap Pv = {} /\ Wind(w)
  BY Machines DEF Core, Wind
<1>1. job[w].pc \in {"finished", "pvsync", "pvsynced", "idlecheck", "busycheck"}
  BY DEF Refresh, SyncWrite, SyncCommit, IdleCheck, BusyCheck, At
<1>2. SameRow
  <2>1. project' = project \/ RowMove(w)
    BY <1>0, WorkerRows
  <2>2. CASE project' = project
    BY <2>2 DEF SameRow
  <2>3. CASE SyncCommit(w)
    <3>1. SavesPv(w, job[w].seen.pvId, "ready", latest)
      BY <1>0, <2>3, SavePvStatusDoes DEF SyncCommit, TypeOK
    <3>. QED  BY <3>1 DEF SavesPv, SameRow
  <2>. QED  BY <2>2, <2>3 DEF Refresh, SyncWrite, IdleCheck, BusyCheck
<1>3. \A i \in Ws : sbx'[i] = sbx[i]
  <2>1. Same \/ \E i \in Pv : Moved(i, {"up", "paused"}, "up")
    BY <1>0, <1>1, WindMachines DEF Wakes, Sleep, At
  <2>. QED  BY <1>0, <2>1 DEF Same, Moved, Turned
<1>4. \A p \in Procs : job'[p] = job[p] \/ (p = w /\ job'[p].pc \in {"idle", "idlecheck", "busycheck", "pause", "pvsync", "pvsynced"})
  <2>1. CASE WindMove(w)
    BY <1>1, <2>1 DEF WindMove, At, Turns, Tests, Loads, Syncs, Carries, OtherJobs
  <2>2. CASE Turns(w, "idle")
    BY <2>2 DEF Turns, OtherJobs
  <2>. QED  BY <1>0, <2>1, <2>2, WindMoves
<1>. QED  BY <1>1, <1>2, <1>3, <1>4 DEF Plain, Ensuring

LEMMA PreviewPlain ==
  ASSUME Core, NEW p \in Apis, Preview(p)
  PROVE  Plain
<1>. p \in Procs /\ p \notin Workers
  BY SandboxesAssumption DEF Procs, SandboxesAssumption
<1>0. TypeOK /\ Ws \subseteq Ids /\ Ws \cap Pv = {}
  BY Machines DEF Core
<1>1. job[p].pc \in PreviewSteps \cup {"idle"}
  BY DEF Preview, StartPreview, PvStarting, PvLoad, PvProbe, PvCreate, PvServe, PvFinish, StopPreview,
         PvPause, PvPaused, GetPreview, Request, At, PreviewSteps
<1>2. SameRow
  <2>1. project' = project \/ RowMove(p)
    BY <1>0, PreviewRows
  <2>. QED  BY <1>1, <2>1 DEF RowMove, SavesPv, SameRow, At, PreviewSteps
<1>3. \A i \in Ws : sbx'[i] = sbx[i]
  BY <1>0, PreviewMachines DEF Same, Moved, Turned
<1>4. \A q \in Procs : job'[q] = job[q] \/ (q = p /\ job'[q].pc \in PreviewSteps \cup {"idle"})
  <2>1. CASE PreviewMove(p)
    BY <2>1 DEF PreviewMove, Loads, Sets, Reloads, Carries, Takes, OtherJobs, PreviewSteps
  <2>2. CASE Turns(p, "idle") \/ job' = job
    BY <2>2 DEF Turns, OtherJobs
  <2>. QED  BY <1>0, <2>1, <2>2, PreviewMoves
<1>. QED  BY <1>1, <1>2, <1>3, <1>4 DEF Plain, Ensuring, PreviewSteps

\* The steps that matter.
Matters(w) ==
  \/ \E t \in Tasks : BeginRun(w, t)
  \/ Reuse(w) \/ Wake(w) \/ Woken(w) \/ CreateMachine(w) \/ Bind(w)
  \/ PauseMachine(w) \/ PauseCommit(w)

LEMMA NextPlain ==
  ASSUME Core, [Next]_vars, faults' = 0
  PROVE  Plain \/ (\E w \in Workers : Matters(w)) \/ \E p \in Apis : Deletion(p)
<1>0. TypeOK /\ faults \in Nat
  BY Counters DEF Core
<1>1. ~Fault
  BY <1>0 DEF Fault
<1>2. CASE \E w \in Workers : Ensure(w)
  BY <1>1, <1>2 DEF Ensure, Matters, BootFails
<1>3. CASE \E w \in Workers : Run(w)
  BY <1>3, RunPlain
<1>4. CASE \E w \in Workers : Wind(w)
  BY <1>4, WindPlain DEF Wind, Matters
<1>5. CASE \E p \in Apis : Preview(p)
  BY <1>5, PreviewPlain
<1>6. CASE \E p \in Procs : Lost(p)
  <2>1. PICK p \in Procs : Lost(p)
    BY <1>6
  <2>2. Turns(p, "idle") /\ sbx' = sbx /\ project' = project /\ ~project.exists
    BY <1>0, <2>1, LeaveDoes DEF Lost, provider
  <2>. QED  BY <2>2 DEF Plain, SameRow, Turns, OtherJobs, Ensuring
<1>7. CASE \E p \in Procs : Crash(p)
  BY <1>1, <1>7 DEF Crash
<1>8. CASE \E i \in Ids : Expire(i)
  <2>1. PICK i \in Ids : Expire(i)
    BY <1>8
  <2>2. sbx[i] = "up" /\ sbx' = [sbx EXCEPT ![i] = "gone"] /\ project' = project /\ job' = job
    BY <2>1 DEF Expire
  <2>3. \A k \in Ws : sbx'[k] = sbx[k] \/ (sbx[k] # "unborn" /\ sbx'[k] = "gone")
    BY <1>0, <2>2, Machines DEF TypeOK
  <2>. QED  BY <2>2, <2>3 DEF Plain, SameRow
<1>9. CASE (\E t \in Tasks : QueueTask(t) \/ StopTask(t) \/ Reap(t)) \/ UNCHANGED vars
  <2>1. sbx' = sbx /\ project' = project /\ job' = job
    BY <1>9 DEF QueueTask, StopTask, Reap, vars, provider
  <2>. QED  BY <2>1 DEF Plain, SameRow
<1>10. CASE \E w \in Workers, t \in Tasks : BeginRun(w, t)
  BY <1>10 DEF Matters
<1>. QED  BY <1>2, <1>3, <1>4, <1>5, <1>6, <1>7, <1>8, <1>9, <1>10 DEF Next

LEMMA PlainKeeps ==
  ASSUME Core, Alone, Good, Found, Plain
  PROVE  (\A p \in Procs : Agrees(p)') /\ RowTells' /\ Kept'
<1>0. /\ \A p \in Procs : Agrees(p) /\ Sees(p) /\ Holds(p) /\ Passed(p)
      /\ RowTells /\ Kept /\ RowKind /\ None \notin Ws
  BY Machines, NoneAssumption DEF Found, Core, Kinds
<1>1. \A p, q \in Procs : job[p].pc = "paused" => job[q].pc # "loop"
  BY DEF Alone, PausesAlone, Good, RunSteps
<1>2. ASSUME NEW p \in Procs
      PROVE  Agrees(p)'
  <2>1. CASE job'[p] = job[p]
    <3>1. /\ Agrees(p) /\ Sees(p) /\ Holds(p) /\ Passed(p)
      BY <1>0
    <3>2. job[p].pc \in {"create", "bind", "delete"} => (job[p].seen.id # None => sbx'[job[p].seen.id] \notin {"up", "paused"})
      BY <3>1 DEF Agrees, Sees, Plain, Live
    <3>3. job[p].pc = "bind" => sbx'[job[p].id] # "paused"
      BY <3>1 DEF Agrees, Holds, Plain
    <3>4. job[p].pc = "resumed" => sbx'[job[p].seen.id] # "paused"
      BY <3>1 DEF Agrees, Sees, Passed, Plain
    <3>5. job[p].pc = "paused" => sbx'[job[p].seen.id] # "up"
      BY <1>1, <3>1 DEF Agrees, Sees, Passed, Plain, At
    <3>. QED  BY <2>1, <3>1, <3>2, <3>3, <3>4, <3>5 DEF Agrees, Plain, SameRow, Live
  <2>2. CASE job'[p].pc \notin Ensuring \cup {"loop", "paused", "kill", "delete"}
    BY <2>2 DEF Agrees, Ensuring
  <2>. QED  BY <2>1, <2>2 DEF Plain
<1>3. RowTells'
  <2>. SUFFICES ASSUME project.id # None
                PROVE  /\ project.status \in {"running", "paused"}
                       /\ sbx'[project.id] = "paused" /\ project.status = "running" =>
                            \E p \in Procs : At(p, "paused")'
                       /\ sbx'[project.id] = "up" /\ project.status = "paused" =>
                            \E p \in Procs : At(p, "resumed")'
    BY DEF RowTells, Plain, SameRow
  <2>1. project.exists /\ project.id \in Ws /\ project.status \in {"running", "paused"}
    BY <1>0 DEF RowKind, RowTells
  <2>2. \A p \in Procs : job[p].pc \in {"resumed", "paused"} => job'[p] = job[p]
    BY <2>1 DEF Plain
  <2>3. ASSUME sbx'[project.id] = "paused", project.status = "running"
        PROVE  \E p \in Procs : At(p, "paused")'
    BY <1>0, <2>1, <2>2, <2>3 DEF Plain, RowTells, At
  <2>4. ASSUME sbx'[project.id] = "up", project.status = "paused"
        PROVE  \E p \in Procs : At(p, "resumed")'
    <3>1. sbx[project.id] = "up" \/ \E w \in Procs : At(w, "loop")
      BY <2>1, <2>4 DEF Plain
    <3>2. \A w \in Procs : ~At(w, "loop")
      BY <1>0, <2>1, <2>4 DEF Agrees, At
    <3>. QED  BY <1>0, <2>2, <2>4, <3>1, <3>2 DEF RowTells, At
  <2>. QED  BY <2>1, <2>3, <2>4
<1>4. Kept'
  <2>1. \A i \in Ws : Live(i)' => Live(i)
    BY DEF Plain, Live
  <2>2. \A w \in Workers : At(w, "bind") => job'[w] = job[w]
    BY <1>0 DEF Plain, Agrees, At, Ensuring, Procs
  <2>. QED  BY <1>0, <2>1, <2>2 DEF Kept, Plain, SameRow, At
<1>. QED  BY <1>2, <1>3, <1>4

\* While somebody gets a machine, nobody else does, pauses or deletes.
LEMMA Lonely ==
  ASSUME Core, Alone, Good, NEW w \in Workers, job[w].pc \in Ensuring
  PROVE  /\ \A q \in Procs \ {w} : job[q].pc \notin Ensuring
         /\ \A q \in Procs : job[q].pc \notin {"kill", "delete", "pause", "paused"}
<1>1. w \in Procs /\ job[w].pc \in RunSteps
  BY DEF Procs, Ensuring, RunSteps
<1>2. OneEnsures /\ PausesAlone
  BY DEF Alone
<1>. QED  BY <1>1, <1>2 DEF OneEnsures, PausesAlone, Good

\* The others keep their claims when somebody gets a machine.
LEMMA OthersAgree ==
  ASSUME Core, Alone, Good, Found, NEW w \in Workers, job[w].pc \in Ensuring, OtherJobs(w),
         project' = project \/ (project'.exists /\ project'.status = "running"),
         NEW q \in Procs \ {w}
  PROVE  Agrees(q)'
<1>1. /\ job'[q] = job[q] /\ Agrees(q)
      /\ job[q].pc \notin Ensuring \cup {"kill", "delete", "pause", "paused"}
  BY Lonely DEF OtherJobs, Found
<1>. QED  BY <1>1 DEF Agrees, Ensuring

LEMMA BeginKeeps ==
  ASSUME Core, Alone, Good, Found, NEW w \in Workers, NEW t \in Tasks, BeginRun(w, t)
  PROVE  (\A p \in Procs : Agrees(p)') /\ RowTells' /\ Kept'
<1>0. TypeOK /\ w \in Procs /\ (\A p \in Procs : Agrees(p)) /\ RowTells /\ Kept
  BY DEF Core, Found, Procs
<1>1. /\ Begins(w, t) /\ At(w, "idle") /\ project.exists /\ project' = project /\ sbx' = sbx
  BY <1>0, BeginDoes DEF BeginRun, provider
<1>2. \A q \in Procs \ {w} : job'[q] = job[q]
  BY <1>1 DEF Begins, OtherJobs
<1>3. Agrees(w)'
  BY <1>0, <1>1, Columns DEF Begins, Agrees
<1>4. \A q \in Procs \ {w} : Agrees(q)'
  BY <1>0, <1>1, <1>2 DEF Agrees, Live
<1>5. RowTells'
  BY <1>0, <1>1, <1>2 DEF RowTells, At
<1>6. Kept'
  BY <1>0, <1>1, <1>2 DEF Kept, Live, At, Procs
<1>. QED  BY <1>3, <1>4, <1>5, <1>6

\* A run that finds its machine in the row, running.
LEMMA ReuseKeeps ==
  ASSUME Core, Alone, Good, Found, NEW w \in Workers, Reuse(w), faults' = 0
  PROVE  (\A p \in Procs : Agrees(p)') /\ RowTells' /\ Kept'
<1>. DEFINE i == job[w].seen.id
<1>0. /\ TypeOK /\ w \in Procs /\ (\A p \in Procs : Agrees(p)) /\ RowTells /\ Kept /\ Sees(w)
      /\ Ws \subseteq Ids /\ faults = 0
  BY Machines DEF Core, Found, Procs, Kinds, Good
<1>1. At(w, "ensure") /\ i # None /\ job[w].seen.status = "running" /\ project' = project
  BY DEF Reuse
<1>2. job[w].pc \in Ensuring /\ i \in Ws
  BY <1>0, <1>1 DEF At, Ensuring, Sees
<1>3. /\ \A q \in Procs \ {w} : job[q].pc \notin Ensuring
      /\ \A q \in Procs : job[q].pc \notin {"kill", "delete", "pause", "paused"}
  BY <1>2, Lonely
<1>4. project.exists /\ project.id = i /\ project.status = "running"
  BY <1>0, <1>1, <1>2 DEF Agrees
<1>5. CASE Call(w, i) /\ Enter(w, i)
  <2>1. Moved(i, {"up", "paused"}, "up") /\ Enters(w, i)
    BY <1>0, <1>2, <1>5, CallDoes, EnterDoes
  <2>2. OtherJobs(w) /\ sbx'[i] = "up" /\ (\A k \in Ws \ {i} : sbx'[k] = sbx[k]) /\ job'[w].pc = "loop"
    BY <1>0, <2>1 DEF Moved, Turned, Enters
  <2>3. Agrees(w)'
    BY <1>1, <1>4, <2>2 DEF Agrees, Ensuring
  <2>4. RowTells'
    BY <1>1, <1>4, <2>2 DEF RowTells
  <2>5. Kept'
    BY <1>0, <1>1, <1>3, <1>4, <2>2 DEF Kept, Live, At, Ensuring, Procs
  <2>. QED  BY <1>1, <1>2, <2>2, <2>3, <2>4, <2>5, OthersAgree
<1>6. CASE Raises(w, i) /\ Goto(w, "create") /\ UNCHANGED <<sbx, handles>>
  <2>1. Carries(w, "create")
    BY <1>0, <1>6, GotoDoes, Steps
  <2>2. ~Live(i)
    <3>1. ~Reaches(w, i)
      BY <1>0, <1>6 DEF Raises, Fault
    <3>2. sbx[i] # "paused"
      BY <1>0, <1>1, <1>3, <1>4 DEF RowTells, At
    <3>. QED  BY <3>1, <3>2 DEF Reaches, Live
  <2>3. Agrees(w)'
    BY <1>1, <1>4, <1>6, <2>1, <2>2, <1>0 DEF Agrees, Ensuring, Carries, Live
  <2>4. RowTells'
    BY <1>0, <1>1, <1>3, <1>4, <1>6, <2>1 DEF RowTells, At
  <2>5. Kept'
    BY <1>0, <1>1, <1>3, <1>4, <1>6, <2>1 DEF Kept, Live, At, Ensuring, Procs, Carries
  <2>. QED  BY <1>1, <1>2, <2>1, <2>3, <2>4, <2>5, OthersAgree DEF Carries
<1>. QED  BY <1>5, <1>6 DEF Reuse

\* A run that finds it paused.
LEMMA WakeKeeps ==
  ASSUME Core, Alone, Good, Found, NEW w \in Workers, Wake(w), faults' = 0
  PROVE  (\A p \in Procs : Agrees(p)') /\ RowTells' /\ Kept'
<1>. DEFINE i == job[w].seen.id
<1>0. /\ TypeOK /\ w \in Procs /\ (\A p \in Procs : Agrees(p)) /\ RowTells /\ Kept /\ Sees(w)
      /\ Ws \subseteq Ids /\ faults = 0
  BY Machines DEF Core, Found, Procs, Kinds, Good
<1>1. At(w, "ensure") /\ i # None /\ job[w].seen.status = "paused" /\ project' = project
  BY DEF Wake
<1>2. job[w].pc \in Ensuring /\ i \in Ws
  BY <1>0, <1>1 DEF At, Ensuring, Sees
<1>3. /\ \A q \in Procs \ {w} : job[q].pc \notin Ensuring
      /\ \A q \in Procs : job[q].pc \notin {"kill", "delete", "pause", "paused"}
  BY <1>2, Lonely
<1>4. project.exists /\ project.id = i /\ project.status = "paused"
  BY <1>0, <1>1, <1>2 DEF Agrees
<1>5. CASE Resume(w, i) /\ Goto(w, "resumed")
  <2>1. Moved(i, {"up", "paused"}, "up") /\ Carries(w, "resumed")
    BY <1>0, <1>2, <1>5, CallDoes, GotoDoes, Steps
  <2>2. OtherJobs(w) /\ sbx'[i] = "up" /\ (\A k \in Ws \ {i} : sbx'[k] = sbx[k]) /\ job'[w].pc = "resumed"
    BY <1>0, <2>1 DEF Moved, Turned, Carries
  <2>3. Agrees(w)'
    BY <1>0, <1>1, <1>2, <1>4, <2>1, <2>2 DEF Agrees, Ensuring, Carries
  <2>4. RowTells'
    BY <1>0, <1>1, <1>4, <2>2 DEF RowTells, At
  <2>5. Kept'
    BY <1>0, <1>1, <1>3, <1>4, <2>2 DEF Kept, Live, At, Ensuring, Procs
  <2>. QED  BY <1>1, <1>2, <2>2, <2>3, <2>4, <2>5, OthersAgree
<1>6. CASE sbx[i] = "gone" /\ Goto(w, "create") /\ UNCHANGED <<sbx, handles, faults>>
  <2>1. Carries(w, "create")
    BY <1>0, <1>6, GotoDoes, Steps
  <2>2. Agrees(w)'
    BY <1>0, <1>1, <1>2, <1>4, <1>6, <2>1 DEF Agrees, Ensuring, Carries, Live
  <2>3. RowTells'
    BY <1>1, <1>4, <1>6 DEF RowTells
  <2>4. Kept'
    BY <1>0, <1>1, <1>3, <1>4, <1>6, <2>1 DEF Kept, Live, At, Ensuring, Procs, Carries
  <2>. QED  BY <1>1, <1>2, <2>1, <2>2, <2>3, <2>4, OthersAgree DEF Carries
<1>7. ~Fault
  BY <1>0 DEF Fault
<1>. QED  BY <1>5, <1>6, <1>7 DEF Wake

LEMMA WokenKeeps ==
  ASSUME Core, Alone, Good, Found, NEW w \in Workers, Woken(w)
  PROVE  (\A p \in Procs : Agrees(p)') /\ RowTells' /\ Kept'
<1>. DEFINE i == job[w].seen.id
<1>0. /\ TypeOK /\ w \in Procs /\ (\A p \in Procs : Agrees(p)) /\ RowTells /\ Kept /\ Sees(w)
      /\ Passed(w)
  BY DEF Core, Found, Procs, Kinds
<1>1. At(w, "resumed") /\ sbx' = sbx /\ job[w].pc \in Ensuring
  BY DEF Woken, provider, At, Ensuring
<1>2. i \in Ws /\ i \in Ids /\ job[w].seen.status = "paused"
  BY <1>0, <1>1, Machines DEF Sees, Passed, At
<1>3. /\ \A q \in Procs \ {w} : job[q].pc \notin Ensuring
  BY <1>1, Lonely
<1>4. project.exists /\ project.id = i /\ sbx[i] # "paused"
  BY <1>0, <1>1 DEF Agrees, At
<1>5. Saves(w, i, "running") /\ Enters(w, i)
  BY <1>0, <1>2, EnterDoes, SaveStatusDoes DEF Woken
<1>6. /\ project'.exists /\ project'.id = i /\ project'.status = "running"
      /\ OtherJobs(w) /\ job'[w].pc = "loop"
  BY <1>2, <1>4, <1>5 DEF Saves, Enters
<1>7. Agrees(w)'
  BY <1>6 DEF Agrees, Ensuring
<1>8. RowTells'
  BY <1>1, <1>4, <1>6 DEF RowTells
<1>9. Kept'
  BY <1>0, <1>1, <1>3, <1>4, <1>6 DEF Kept, Live, At, Ensuring, Procs
<1>. QED  BY <1>1, <1>6, <1>7, <1>8, <1>9, OthersAgree

LEMMA CreateKeeps ==
  ASSUME Core, Alone, Good, Found, NEW w \in Workers, CreateMachine(w)
  PROVE  (\A p \in Procs : Agrees(p)') /\ RowTells' /\ Kept'
<1>. DEFINE i == job[w].seen.id
<1>0. /\ TypeOK /\ w \in Procs /\ (\A p \in Procs : Agrees(p)) /\ RowTells /\ Kept /\ Sees(w)
      /\ Ws \subseteq Ids /\ RowKind
  BY Machines DEF Core, Found, Procs, Kinds
<1>1. job[w].pc \in {"ensure", "create"} /\ job[w].pc \in Ensuring /\ project' = project
  BY DEF CreateMachine, NeedsMachine, At, Ensuring
<1>2. PICK k \in Ws : Takes(w, "bind", k) /\ Moved(k, {"unborn"}, "up")
  <2>1. PICK k \in Ids : k[1] = "ws" /\ Create(w, k) /\ job' = [job EXCEPT ![w].pc = "bind", ![w].id = k]
    BY DEF CreateMachine
  <2>2. k \in Ws /\ Takes(w, "bind", k) /\ Moved(k, {"unborn"}, "up")
    BY <1>0, <2>1, Machines, TakeDoes, CallDoes, Steps
  <2>. QED  BY <2>2
<1>3. /\ \A q \in Procs \ {w} : job[q].pc \notin Ensuring
      /\ \A q \in Procs : job[q].pc \notin {"kill", "delete", "pause", "paused"}
  BY <1>1, Lonely
<1>4. project.exists /\ project.id = i /\ project.status = job[w].seen.status
  BY <1>0, <1>1 DEF Agrees
<1>5. i # None => i \in Ws /\ ~Live(i) /\ i # k
  <2>1. CASE At(w, "create")
    BY <1>0, <1>2, <2>1 DEF Agrees, Sees, At, Moved
  <2>2. CASE At(w, "ensure") /\ (i = None \/ job[w].seen.status \in {"none", "error"})
    BY <1>0, <1>4, <2>2 DEF RowTells
  <2>. QED  BY <2>1, <2>2 DEF CreateMachine, NeedsMachine
<1>6. /\ OtherJobs(w) /\ job'[w].pc = "bind" /\ job'[w].id = k /\ job'[w].seen = job[w].seen
      /\ sbx'[k] = "up" /\ sbx[k] = "unborn" /\ (\A h \in Ws \ {k} : sbx'[h] = sbx[h])
  BY <1>0, <1>2 DEF Takes, Moved, Turned
<1>7. Agrees(w)'
  BY <1>0, <1>1, <1>2, <1>4, <1>5, <1>6, NoneAssumption DEF Agrees, Ensuring, Live
<1>8. RowTells'
  <2>1. project.id # None => sbx'[project.id] = sbx[project.id]
    BY <1>4, <1>5, <1>6
  <2>. QED  BY <1>0, <1>1, <1>3, <1>4, <1>5, <2>1 DEF RowTells, Live
<1>9. Kept'
  BY <1>0, <1>1, <1>3, <1>4, <1>6 DEF Kept, Live, At, Ensuring, Procs
<1>. QED  BY <1>1, <1>6, <1>7, <1>8, <1>9, OthersAgree

LEMMA BindKeeps ==
  ASSUME Core, Alone, Good, Found, NEW w \in Workers, Bind(w)
  PROVE  (\A p \in Procs : Agrees(p)') /\ RowTells' /\ Kept'
<1>. DEFINE i == job[w].seen.id
            k == job[w].id
<1>0. /\ TypeOK /\ w \in Procs /\ (\A p \in Procs : Agrees(p)) /\ RowTells /\ Kept /\ Sees(w)
      /\ Holds(w) /\ Ws \subseteq Ids
  BY Machines DEF Core, Found, Procs, Kinds
<1>1. At(w, "bind") /\ sbx' = sbx /\ job[w].pc \in Ensuring
  BY DEF Bind, provider, At, Ensuring
<1>2. k \in Ws /\ k \in Ids /\ k # i /\ sbx[k] # "paused" /\ (i # None => ~Live(i))
  BY <1>0, <1>1 DEF Holds, Agrees, At
<1>3. /\ \A q \in Procs \ {w} : job[q].pc \notin Ensuring
  BY <1>1, Lonely
<1>4. project.exists /\ project.id = i /\ project.status = job[w].seen.status
  BY <1>0, <1>1 DEF Agrees
<1>5. Saves(w, k, "running") /\ Enters(w, k)
  BY <1>0, <1>2, EnterDoes, SaveDoes DEF Bind
<1>6. /\ project'.exists /\ project'.id = k /\ project'.status = "running"
      /\ OtherJobs(w) /\ job'[w].pc = "loop"
  BY <1>2, <1>4, <1>5 DEF Saves, Enters
<1>7. Agrees(w)'
  BY <1>6 DEF Agrees, Ensuring
<1>8. RowTells'
  BY <1>1, <1>2, <1>6 DEF RowTells
<1>9. Kept'
  <2>1. ASSUME NEW h \in Ws, Live(h)'
        PROVE  h = k
    <3>1. Live(h)
      BY <1>1, <2>1 DEF Live
    <3>2. h # i
      BY <1>2, <3>1, Machines, NoneAssumption
    <3>. QED  BY <1>0, <1>3, <1>4, <3>1, <3>2 DEF Kept, At, Ensuring, Procs
  <2>. QED  BY <1>6, <2>1 DEF Kept
<1>. QED  BY <1>1, <1>6, <1>7, <1>8, <1>9, OthersAgree

LEMMA PauseKeeps ==
  ASSUME Core, Alone, Good, Found, NEW w \in Workers, PauseMachine(w), faults' = 0
  PROVE  (\A p \in Procs : Agrees(p)') /\ RowTells' /\ Kept'
<1>. DEFINE i == job[w].seen.id
<1>0. /\ TypeOK /\ w \in Procs /\ (\A p \in Procs : Agrees(p)) /\ RowTells /\ Kept /\ RowKind
      /\ Ws \subseteq Ids /\ faults = 0
      /\ \A p \in Procs : Sees(p) /\ Passed(p)
  BY Machines DEF Core, Found, Procs, Kinds, Good
<1>1. At(w, "pause") /\ project' = project /\ i \in Ws
  BY <1>0 DEF PauseMachine, Passed, Sees, At
<1>2. \A q \in Procs : job[q].pc \notin RunSteps
  BY <1>0, <1>1 DEF Alone, PausesAlone, Good, At
<1>3. CASE Pause(w, i) /\ Goto(w, "paused")
  <2>1. Moved(i, {"up", "paused"}, "paused") /\ Carries(w, "paused")
    BY <1>0, <1>1, <1>3, CallDoes, GotoDoes, Steps
  <2>2. /\ Live(i) /\ sbx'[i] = "paused" /\ (\A k \in Ws \ {i} : sbx'[k] = sbx[k])
        /\ OtherJobs(w) /\ job'[w].pc = "paused" /\ job'[w].seen = job[w].seen
    BY <1>0, <2>1 DEF Moved, Turned, Carries, Live
  <2>3. project.exists /\ project.id = i
    BY <1>0, <1>1, <1>2, <2>2 DEF Kept, At, RunSteps, Procs
  <2>4. ASSUME NEW q \in Procs \ {w}
        PROVE  Agrees(q)'
    <3>1. /\ job'[q] = job[q] /\ Agrees(q) /\ Sees(q) /\ Passed(q)
          /\ job[q].pc \notin Ensuring \cup {"loop"}
      BY <1>0, <1>2, <2>2 DEF OtherJobs, Ensuring, RunSteps
    <3>2. job[q].pc = "delete" => (job[q].seen.id # None => sbx'[job[q].seen.id] \notin {"up", "paused"})
      BY <2>2, <3>1 DEF Agrees, Sees, Live
    <3>3. job[q].pc = "paused" => sbx'[job[q].seen.id] # "up"
      BY <2>2, <3>1 DEF Agrees, Sees, Passed
    <3>. QED  BY <1>1, <3>1, <3>2, <3>3 DEF Agrees, Ensuring, Live
  <2>5. Agrees(w)'
    BY <1>1, <2>2, <2>3 DEF Agrees, Ensuring
  <2>6. RowTells'
    BY <1>0, <1>1, <2>2, <2>3 DEF RowTells, At
  <2>7. Kept'
    BY <1>0, <1>1, <1>2, <2>2, <2>3 DEF Kept, Live, At, RunSteps, Procs
  <2>. QED  BY <2>4, <2>5, <2>6, <2>7
<1>4. CASE Fails(i) /\ Leave(w) /\ UNCHANGED <<sbx, handles>>
  <2>1. Plain
    BY <1>0, <1>1, <1>4, LeaveDoes DEF Plain, SameRow, Turns, OtherJobs, At, Ensuring
  <2>. QED  BY <2>1, PlainKeeps
<1>. QED  BY <1>3, <1>4 DEF PauseMachine

LEMMA PauseCommitKeeps ==
  ASSUME Core, Alone, Good, Found, NEW w \in Workers, PauseCommit(w)
  PROVE  (\A p \in Procs : Agrees(p)') /\ RowTells' /\ Kept'
<1>. DEFINE i == job[w].seen.id
<1>0. /\ TypeOK /\ w \in Procs /\ (\A p \in Procs : Agrees(p)) /\ RowTells /\ Kept /\ RowKind
      /\ Sees(w) /\ Passed(w)
  BY DEF Core, Found, Procs, Kinds
<1>1. /\ At(w, "paused") /\ i \in Ws /\ i \in Ids /\ job[w].seen.status = "running"
      /\ sbx' = sbx /\ sbx[i] # "up"
  BY <1>0, Machines DEF PauseCommit, Passed, Sees, At, provider, Agrees
<1>2. \A q \in Procs : job[q].pc \notin RunSteps
  BY <1>0, <1>1 DEF Alone, PausesAlone, Good, At
<1>3. Saves(w, i, "paused") /\ Turns(w, "idle")
  BY <1>0, <1>1, SaveStatusDoes, LeaveDoes DEF PauseCommit
<1>4. /\ project.exists /\ project.id = i /\ project'.exists /\ project'.id = i /\ project'.status = "paused"
  BY <1>0, <1>1, <1>3 DEF Saves, Agrees, At
<1>5. ASSUME NEW q \in Procs \ {w}
      PROVE  Agrees(q)'
  <2>1. job'[q] = job[q] /\ Agrees(q) /\ job[q].pc \notin Ensuring \cup {"loop"}
    BY <1>0, <1>2, <1>3 DEF Turns, OtherJobs, Ensuring, RunSteps
  <2>. QED  BY <1>1, <1>4, <2>1 DEF Agrees, Live, Ensuring
<1>6. Agrees(w)'
  BY <1>3 DEF Turns, Agrees, Ensuring
<1>7. RowTells'
  BY <1>1, <1>4 DEF RowTells
<1>8. Kept'
  BY <1>0, <1>1, <1>2, <1>4 DEF Kept, Live, At, RunSteps, Procs
<1>. QED  BY <1>5, <1>6, <1>7, <1>8

LEMMA DeletionKeeps ==
  ASSUME Core, Alone, Good, Found, NEW p \in Apis, Deletion(p), faults' = 0
  PROVE  (\A q \in Procs : Agrees(q)') /\ RowTells' /\ Kept'
<1>0. /\ TypeOK /\ p \in Procs /\ (\A q \in Procs : Agrees(q) /\ Sees(q) /\ Passed(q))
      /\ RowTells /\ Kept /\ RowKind /\ faults = 0 /\ Ws \subseteq Ids
  BY Machines DEF Core, Found, Procs, Kinds, Good
<1>1. CASE DeleteProject(p)
  <2>1. Request(p, "kill", project, 0) /\ project' = project /\ sbx' = sbx
    BY <1>1 DEF DeleteProject, provider
  <2>2. Loads(p, "kill", project) /\ At(p, "idle")
    <3>1. "kill" \in Pcs /\ 0 \in 0..MaxVersions /\ project \in Rows
      BY <1>0, Columns, Steps, Bounds
    <3>2. Loads(p, "kill", project)
      BY <1>0, <2>1, <3>1, RequestDoes
    <3>. QED  BY <2>1, <3>2 DEF Request
  <2>3. Agrees(p)'
    BY <2>1, <2>2 DEF Loads, Agrees, Ensuring
  <2>4. \A q \in Procs \ {p} : job'[q] = job[q] /\ Agrees(q)'
    BY <1>0, <2>1, <2>2 DEF Loads, OtherJobs, Agrees, Live
  <2>5. RowTells' /\ Kept'
    BY <1>0, <2>1, <2>2, <2>4 DEF RowTells, Kept, Live, At, Procs
  <2>. QED  BY <2>3, <2>4, <2>5
<1>2. ASSUME job[p].pc \in {"kill", "delete"}
      PROVE  \A q \in Procs : job[q].pc \notin Ensuring
  BY <1>0, <1>2 DEF Alone, OneEnsures, Good
<1>3. CASE Kill(p)
  <2>. DEFINE i == job[p].seen.id
  <2>1. Carries(p, "delete") /\ project' = project /\ At(p, "kill")
    BY <1>0, <1>3, GotoDoes, Steps DEF Kill
  <2>2. \A q \in Procs : job[q].pc \notin Ensuring
    BY <1>2, <2>1 DEF At
  <2>3. /\ \A k \in Ws : sbx'[k] = sbx[k] \/ sbx'[k] = "gone"
        /\ i # None => sbx'[i] = "gone"
    <3>1. PICK missed \in SUBSET {job[p].seen.id, job[p].seen.pvId} :
            /\ IF missed \subseteq {None} THEN UNCHANGED faults ELSE Fault
            /\ sbx' = [k \in Ids |-> IF k \in {job[p].seen.id, job[p].seen.pvId} \ missed
                                     THEN "gone" ELSE sbx[k]]
      BY <1>3 DEF Kill
    <3>2. missed \subseteq {None}
      BY <1>0, <3>1 DEF Fault
    <3>3. i # None => i \in Ids
      BY <1>0 DEF Sees
    <3>. QED  BY <1>0, <3>1, <3>2, <3>3
  <2>4. \A q \in Procs \ {p} : job'[q] = job[q]
    BY <2>1 DEF Carries, OtherJobs
  <2>5. Agrees(p)'
    BY <1>0, <2>1, <2>3 DEF Carries, Agrees, Ensuring, Live, At
  <2>6. ASSUME NEW q \in Procs \ {p}
        PROVE  Agrees(q)'
    <3>1. Agrees(q) /\ Sees(q) /\ Passed(q) /\ job'[q] = job[q] /\ job[q].pc \notin Ensuring
      BY <1>0, <2>2, <2>4
    <3>2. job[q].pc = "delete" => (job[q].seen.id # None => sbx'[job[q].seen.id] \notin {"up", "paused"})
      BY <2>3, <3>1 DEF Agrees, Sees, Live
    <3>3. job[q].pc = "paused" => sbx'[job[q].seen.id] # "up"
      BY <2>3, <3>1 DEF Agrees, Sees, Passed
    <3>. QED  BY <2>1, <3>1, <3>2, <3>3 DEF Agrees, Ensuring, Live
  <2>7. RowTells'
    BY <1>0, <2>1, <2>3, <2>4 DEF RowTells, RowKind, At
  <2>8. Kept'
    BY <1>0, <2>1, <2>2, <2>3 DEF Kept, Live, At, Ensuring, Procs
  <2>. QED  BY <2>5, <2>6, <2>7, <2>8
<1>4. CASE Delete(p)
  <2>1. /\ Turns(p, "idle") /\ At(p, "delete") /\ sbx' = sbx
        /\ ~project'.exists /\ project'.id = None
    BY <1>0, <1>4, LeaveDoes DEF Delete, provider, NewRow
  <2>2. \A q \in Procs : job[q].pc \notin Ensuring
    BY <1>2, <2>1 DEF At
  <2>3. Agrees(p)'
    BY <2>1 DEF Turns, Agrees, Ensuring
  <2>4. ASSUME NEW q \in Procs \ {p}
        PROVE  Agrees(q)'
    <3>1. job'[q] = job[q] /\ Agrees(q)
      BY <1>0, <2>1 DEF Turns, OtherJobs
    <3>. QED  BY <2>1, <2>2, <3>1 DEF Agrees, Ensuring, Live
  <2>5. RowTells'
    BY <2>1 DEF RowTells
  <2>6. Kept'
    <3>1. ASSUME NEW i \in Ws, Live(i)
          PROVE  FALSE
      <4>1. project.exists /\ project.id = i
        BY <1>0, <2>2, <3>1 DEF Kept, At, Ensuring, Procs
      <4>2. job[p].seen.id = i
        BY <1>0, <2>1, <4>1 DEF Agrees, At
      <4>. QED  BY <1>0, <2>1, <3>1, <4>2, NoneAssumption DEF Agrees, At
    <3>. QED  BY <2>1, <3>1 DEF Kept, Live
  <2>. QED  BY <2>3, <2>4, <2>5, <2>6
<1>. QED  BY <1>1, <1>3, <1>4 DEF Deletion

LEMMA FoundKept ==
  ASSUME Core, Alone, Found, [Next]_vars
  PROVE  Found'
<1>. SUFFICES ASSUME Good'
              PROVE  (\A p \in Procs : Agrees(p)') /\ RowTells' /\ Kept'
  BY DEF Found
<1>1. Good /\ faults' = 0
  BY NextFlags DEF Good, Flags, Core
<1>2. CASE \E w \in Workers : Matters(w)
  BY <1>1, <1>2, BeginKeeps, ReuseKeeps, WakeKeeps, WokenKeeps, CreateKeeps, BindKeeps, PauseKeeps,
     PauseCommitKeeps DEF Matters
<1>. QED  BY <1>1, <1>2, NextPlain, PlainKeeps, DeletionKeeps

LEMMA FoundInit ==
  ASSUME Init
  PROVE  Alone /\ Found
<1>1. (\A p \in Procs : job[p].pc = "idle") /\ project.id = None /\ (\A i \in Ids : sbx[i] = "unborn")
  BY DEF Init, Idle, NewRow
<1>2. Alone
  BY <1>1 DEF Alone, OneEnsures, PausesAlone, Ensuring
<1>3. \A p \in Procs : Agrees(p)
  BY <1>1 DEF Agrees, Ensuring
<1>4. RowTells /\ Kept
  BY <1>1, Machines DEF RowTells, Kept, Live
<1>. QED  BY <1>2, <1>3, <1>4 DEF Found

LEMMA FoundHolds == Spec => [](Alone /\ Found)
<1>1. Core /\ (Alone /\ Found) /\ [Next]_vars => (Alone /\ Found)'
  BY OneKept, PausesKept, FoundKept DEF Alone
<1>. QED  BY FoundInit, <1>1, CoreHolds, PTL DEF Spec

\* No workspace machine is lost: one that runs or sleeps is the one in the row, or on its
\* way there, and a deleted project leaves none; unless two runs began at once, or a
\* pause or a call of the provider went wrong.
THEOREM NoneIsLost == Spec => []NoLostMachine
<1>1. Found => NoLostMachine
  <2>. SUFFICES ASSUME Found, Good, NEW i \in Ids, i[1] = "ws", sbx[i] \in {"up", "paused"}
                PROVE  \/ project.exists /\ project.id = i
                       \/ \E w \in Workers : At(w, "bind") /\ job[w].id = i
    BY DEF NoLostMachine, Good
  <2>. QED  BY Machines DEF Found, Kept, Live
<1>. QED  BY FoundHolds, <1>1, PTL

-----------------------------------------------------------------------------
(* BillingStops.                                                           *)

\* Somebody who will still look at the machine of the workspace: a run, or a worker on
\* its way to pause_if_idle or in it.
Responsible(p) ==
  \/ job[p].pc \in RunSteps \cup {"finished", "idlecheck", "pvsynced"}
  \/ /\ job[p].pc \in {"pvsync", "busycheck", "pause"}
     /\ job[p].seen.id = project.id /\ job[p].seen.status = "running"

\* A task that works has a run, and a machine that is up has somebody who looks at it.
Watched ==
  Good /\ ~skipped /\ project.exists =>
    /\ \A t \in Tasks : task[t] = "working" => \E w \in Workers : job[w].task = t
    /\ project.id # None /\ sbx[project.id] = "up" =>
         (\E t \in Tasks : Active(t)) \/ \E p \in Procs : Responsible(p)

\* A run goes on with its task, or ends it and winds up.
LEMMA RunEnds ==
  ASSUME Core, [Next]_vars, faults' = 0, ~skipped', project.exists,
         NEW w \in Workers, job[w].pc \in RunSteps
  PROVE  \/ job'[w].pc \in RunSteps /\ job'[w].task = job[w].task
         \/ job'[w].pc \in {"idlecheck", "finished"} /\ task'[job[w].task] = "ended"
<1>0. /\ TypeOK /\ w \in Procs /\ w \notin Apis /\ ~Fault
      /\ job[w].task \in Tasks /\ task \in [Tasks -> {"unborn", "queued", "working", "ended"}]
  <2>1. TypeOK /\ w \in Procs /\ w \notin Apis
    BY SandboxesAssumption DEF Core, Procs, SandboxesAssumption
  <2>2. ~Fault
    BY <2>1, Counters DEF Fault
  <2>3. job[w].task \in Tasks
    BY <2>1 DEF Core, Kinds, Tasked
  <2>. QED  BY <2>1, <2>2, <2>3 DEF TypeOK
<1>1. CASE job'[w] = job[w]
  BY <1>1
<1>2. CASE job'[w] # job[w]
  <2>1. CASE Ensure(w)
    <3>1. RunMove(w)
      BY <1>0, <2>1, EnsureMoves
    <3>2. ~At(w, "idle")
      BY DEF At, RunSteps
    <3>. QED  BY <3>1, <3>2 DEF RunMove, Enters, Carries, Takes, RunSteps
  <2>2. CASE Run(w)
    <3>1. CASE UseMachine(w)
      BY <1>2, <3>1 DEF UseMachine
    <3>2. CASE RunRaises(w)
      BY <3>2 DEF RunRaises
    <3>3. CASE EndUnfinished(w) \/ EndStopped(w)
      <4>1. Turns(w, "idlecheck")
        BY <1>0, <3>3, ThenDoes, Steps DEF EndUnfinished, EndStopped
      <4>. QED  BY <1>0, <3>3, <4>1 DEF EndUnfinished, EndStopped, Turns
    <3>4. CASE EndDone(w)
      <4>1. Turns(w, "finished")
        BY <1>0, <3>4, ThenDoes, Steps DEF EndDone
      <4>. QED  BY <1>0, <3>4, <4>1 DEF EndDone, Turns
    <3>. QED  BY <2>2, <3>1, <3>2, <3>3, <3>4 DEF Run
  <2>3. ~Wind(w)
    BY DEF Wind, Refresh, SyncWrite, SyncCommit, IdleCheck, BusyCheck, PauseMachine, PauseCommit, At, RunSteps
  <2>4. ASSUME NEW v \in Workers, v # w
        PROVE  ~Ensure(v) /\ ~Run(v) /\ ~Wind(v) /\ \A t \in Tasks : ~BeginRun(v, t)
    <3>1. v \in Procs
      BY <2>4 DEF Procs
    <3>2. ~OtherJobs(v)
      BY <1>0, <1>2, <2>4 DEF OtherJobs
    <3>. QED
      BY <1>0, <1>2, <2>4, <3>1, <3>2, EnsureMoves, RunMoves, WindMoves, BeginDoes
         DEF RunMove, WindMove, Turns, Begins, Enters, Carries, Takes, Loads, Syncs, Tests
  <2>5. ASSUME NEW p \in Apis
        PROVE  ~Preview(p) /\ ~Deletion(p)
    <3>1. ~OtherJobs(p)
      BY <1>0, <1>2, <2>5 DEF OtherJobs
    <3>. QED
      BY <1>0, <1>2, <2>5, <3>1, PreviewMoves, DeletionMoves
         DEF PreviewMove, DeleteMove, Turns, Loads, Sets, Reloads, Carries, Takes
  <2>6. \A t \in Tasks : ~BeginRun(w, t)
    BY DEF BeginRun, At, RunSteps
  <2>7. \A p \in Procs : ~Lost(p) /\ ~Crash(p)
    BY <1>0 DEF Lost, Crash
  <2>8. /\ \A t \in Tasks : ~QueueTask(t) /\ ~StopTask(t) /\ ~Reap(t)
        /\ \A i \in Ids : ~Expire(i)
        /\ ~UNCHANGED vars
    BY <1>2 DEF QueueTask, StopTask, Reap, Expire, vars
  <2>. QED  BY <2>1, <2>2, <2>3, <2>4, <2>5, <2>6, <2>7, <2>8 DEF Next
<1>. QED  BY <1>1, <1>2

LEMMA TasksWatched ==
  ASSUME Core, Watched, [Next]_vars, Good', ~skipped', project'.exists,
         NEW t \in Tasks, task'[t] = "working"
  PROVE  \E w \in Workers : job'[w].task = t
<1>0. /\ TypeOK /\ Good /\ ~skipped /\ faults' = 0 /\ project.exists
      /\ task \in [Tasks -> {"unborn", "queued", "working", "ended"}]
  BY NextFlags, RowsKept DEF Core, TypeOK, Good, Flags
<1>1. CASE task[t] = "working"
  <2>1. PICK w \in Workers : job[w].task = t
    BY <1>0, <1>1 DEF Watched
  <2>2. job[w].pc \in RunSteps
    BY <2>1, SandboxesAssumption DEF Core, Kinds, Tasked, Procs, SandboxesAssumption
  <2>. QED  BY <1>0, <2>1, <2>2, RunEnds
<1>2. CASE task[t] # "working"
  <2>1. PICK w \in Workers : BeginRun(w, t)
    BY <1>0, <1>2, NextTasks DEF TaskMove, BeginRun, QueueTask
  <2>2. Begins(w, t)
    BY <1>0, <2>1, BeginDoes
  <2>. QED  BY <2>2 DEF Begins
<1>. QED  BY <1>1, <1>2

\* A step that is no run's, nor makes one.
LEMMA NoRunSteps ==
  ASSUME Core, [Next]_vars, \A p \in Procs : job[p].pc \notin RunSteps,
         \A p \in Procs : job'[p].pc \notin RunSteps, project'.exists, project.exists, faults' = 0
  PROVE  \/ \E w \in Workers : Wind(w)
         \/ \E p \in Apis : Preview(p) \/ DeleteProject(p) \/ Kill(p)
         \/ \E t \in Tasks : QueueTask(t) \/ StopTask(t) \/ Reap(t)
         \/ \E i \in Ids : Expire(i)
         \/ UNCHANGED vars
<1>0. TypeOK /\ ~Fault /\ Workers \subseteq Procs
  <2>1. TypeOK /\ Workers \subseteq Procs
    BY DEF Core, Procs
  <2>. QED  BY <2>1, Counters DEF Fault
<1>1. \A w \in Workers : ~Ensure(w) /\ ~Run(w)
  BY <1>0 DEF Ensure, Reuse, Wake, Woken, CreateMachine, NeedsMachine, Bind, BootFails,
              Run, UseMachine, RunRaises, EndUnfinished, EndDone, EndStopped, At, RunSteps
<1>2. \A w \in Workers, t \in Tasks : ~BeginRun(w, t)
  BY <1>0, BeginDoes DEF Begins, RunSteps
<1>3. \A p \in Procs : ~Lost(p) /\ ~Crash(p)
  BY <1>0 DEF Lost, Crash
<1>4. \A p \in Apis : ~Delete(p)
  BY DEF Delete, NewRow
<1>. QED  BY <1>1, <1>2, <1>3, <1>4 DEF Next, Deletion

\* The machine of the row was up before, and is the same.
LEMMA StaysUp ==
  ASSUME Core, [Next]_vars, \A p \in Procs : job[p].pc \notin RunSteps,
         project'.exists, project'.id # None, sbx'[project'.id] = "up"
  PROVE  project'.id = project.id /\ project.id \in Ws /\ sbx[project.id] = "up"
<1>0. TypeOK /\ RowKind /\ Ws \subseteq Ids /\ Ws \cap Pv = {} /\ None \notin Ids
  BY Machines, NoneAssumption DEF Core, Kinds
<1>1. project'.id = project.id
  BY <1>0, RowsKept DEF At, RunSteps
<1>2. project.id \in Ws
  BY <1>0, <1>1 DEF RowKind
<1>3. ASSUME NEW p \in Procs, Wakes(p) \/ Births(p)
      PROVE  \E i \in Pv : Turned(i, "up")
  BY <1>3 DEF Wakes, Births, Moved, At, RunSteps
<1>4. ASSUME NEW i, NEW s \in {"paused", "gone"}, Turned(i, s)
      PROVE  sbx[project.id] = "up"
  BY <1>0, <1>1, <1>2, <1>4 DEF Turned
<1>5. sbx[project.id] = "up"
  <2>1. CASE Same
    BY <1>1, <2>1 DEF Same
  <2>2. CASE \E p \in Procs : Wakes(p) \/ Births(p)
    BY <1>0, <1>1, <1>2, <1>3, <2>2 DEF Turned
  <2>3. CASE \E p \in Procs : Sleep(p)
    BY <1>4, <2>3 DEF Sleep, Moved
  <2>4. CASE \E p \in Procs : Kills(p)
    BY <1>0, <1>1, <1>2, <2>4 DEF Kills
  <2>5. CASE \E i \in Ids : Moved(i, {"up"}, "gone")
    BY <1>4, <2>5 DEF Moved
  <2>. QED  BY <2>1, <2>2, <2>3, <2>4, <2>5, NextMachines DEF MachineMove
<1>. QED  BY <1>1, <1>2, <1>5

\* Who is on the way to pause_if_idle goes on, finds a task that is active, or pauses.
LEMMA WindWatches ==
  ASSUME Core, Found, Good, NEW w \in Workers, Wind(w), faults' = 0, project.exists,
         \A p \in Procs : job[p].pc \notin RunSteps, Responsible(w),
         project'.id = project.id, project.id \in Ws, sbx[project.id] = "up",
         sbx'[project.id] = "up"
  PROVE  Responsible(w)' \/ \E t \in Tasks : Active(t)'
<1>0. /\ TypeOK /\ w \in Procs /\ RowTells /\ ~Fault /\ None \notin Ws /\ Ws \subseteq Ids
      /\ sbx \in [Ids -> {"unborn", "up", "paused", "gone"}]
  <2>1. TypeOK /\ w \in Procs /\ RowTells /\ None \notin Ws /\ Ws \subseteq Ids
    BY Machines, NoneAssumption DEF Core, Found, Procs
  <2>. QED  BY <2>1, Counters DEF Fault, TypeOK
<1>1. project.status = "running" /\ project.id # None
  BY <1>0 DEF RowTells, RunSteps, At
<1>2. ASSUME NEW row, Tests(w, row), row.id = project.id, row.status = "running"
      PROVE  Responsible(w)'
  BY <1>1, <1>2 DEF Tests, Loads, Responsible
<1>3. CASE Refresh(w)
  <2>1. CASE Syncs(w)
    BY <1>1, <2>1 DEF Syncs, Responsible
  <2>2. CASE Tests(w, WorkspaceColumns)
    BY <1>0, <1>1, <1>2, <2>2, Columns
  <2>. QED  BY <1>0, <1>3, <2>1, <2>2, RefreshDoes
<1>4. CASE SyncWrite(w)
  <2>1. CASE Goto(w, "pvsynced")
    BY <1>0, <2>1, GotoDoes, Steps DEF Carries, Responsible
  <2>2. CASE TestRow(w, job[w].seen)
    <3>1. job[w].seen.id = project.id /\ job[w].seen.status = "running"
      BY <1>4 DEF SyncWrite, Responsible, At, RunSteps
    <3>. QED  BY <1>0, <1>2, <2>2, <3>1, JobTyped, TestDoes
  <2>. QED  BY <1>4, <2>1, <2>2 DEF SyncWrite
<1>5. CASE SyncCommit(w)
  <2>1. Turns(w, "idlecheck")
    BY <1>0, <1>5, ThenDoes, Steps DEF SyncCommit
  <2>. QED  BY <2>1 DEF Turns, Responsible
<1>6. CASE IdleCheck(w)
  BY <1>0, <1>1, <1>2, <1>6, Columns, TestDoes DEF IdleCheck
<1>7. CASE BusyCheck(w)
  <2>1. CASE HasActiveDevTask
    BY <1>7, <2>1 DEF BusyCheck, HasActiveDevTask, Active
  <2>2. CASE ~HasActiveDevTask
    <3>1. Carries(w, "pause") /\ At(w, "busycheck")
      BY <1>0, <1>7, <2>2, GotoDoes, Steps DEF BusyCheck
    <3>. QED  BY <3>1 DEF Carries, At, Responsible, RunSteps
  <2>. QED  BY <2>1, <2>2
<1>8. CASE PauseMachine(w)
  <2>1. job[w].seen.id = project.id
    BY <1>8 DEF PauseMachine, Responsible, At, RunSteps
  <2>2. CASE Pause(w, job[w].seen.id)
    BY <1>0, <2>1, <2>2, CallDoes DEF Moved, Turned
  <2>3. CASE Fails(job[w].seen.id)
    BY <1>0, <2>1, <2>3 DEF Fails
  <2>. QED  BY <1>8, <2>2, <2>3 DEF PauseMachine
<1>9. ~PauseCommit(w)
  BY DEF PauseCommit, Responsible, At, RunSteps
<1>. QED  BY <1>3, <1>4, <1>5, <1>6, <1>7, <1>8, <1>9 DEF Wind

LEMMA UpWatched ==
  ASSUME Core, Found, Watched, [Next]_vars, Good', ~skipped', project'.exists,
         project'.id # None, sbx'[project'.id] = "up"
  PROVE  (\E t \in Tasks : Active(t)') \/ \E p \in Procs : Responsible(p)'
<1>0. /\ TypeOK /\ Good /\ ~skipped /\ faults' = 0 /\ project.exists
      /\ task \in [Tasks -> {"unborn", "queued", "working", "ended"}]
      /\ \A p \in Procs : Place(p) /\ Tasked(p)
  BY NextFlags, RowsKept DEF Core, TypeOK, Good, Flags, Kinds
<1>1. CASE \E p \in Procs : job'[p].pc \in RunSteps
  BY <1>1 DEF Responsible
<1>2. CASE \E p \in Procs : job[p].pc \in RunSteps
  <2>1. PICK w \in Procs : job[w].pc \in RunSteps
    BY <1>2
  <2>2. w \in Workers
    BY <1>0, <2>1 DEF Place
  <2>. QED  BY <1>0, <2>1, <2>2, RunEnds DEF Responsible
<1>3. CASE /\ \A p \in Procs : job[p].pc \notin RunSteps
           /\ \A p \in Procs : job'[p].pc \notin RunSteps
  <2>1. project'.id = project.id /\ project.id \in Ws /\ sbx[project.id] = "up"
    BY <1>3, StaysUp
  <2>2. (\E t \in Tasks : Active(t)) \/ \E p \in Procs : Responsible(p)
    BY <1>0, <2>1, NoneAssumption, Machines DEF Watched
  <2>3. ASSUME job' = job
        PROVE  \A p \in Procs : Responsible(p) => Responsible(p)'
    BY <2>1, <2>3 DEF Responsible
  <2>4. CASE \E w \in Workers : Wind(w)
    <3>1. PICK w \in Workers : Wind(w)
      BY <2>4
    <3>2. task' = task
      BY <3>1 DEF Wind, Refresh, SyncWrite, SyncCommit, IdleCheck, BusyCheck, PauseMachine, PauseCommit
    <3>3. OtherJobs(w) /\ w \in Procs
      BY <1>0, <3>1, WindMoves DEF WindMove, Turns, Loads, Syncs, Tests, Carries, Procs
    <3>4. \A p \in Procs \ {w} : Responsible(p) => Responsible(p)'
      BY <2>1, <3>3 DEF OtherJobs, Responsible
    <3>5. Responsible(w) => Responsible(w)' \/ \E t \in Tasks : Active(t)'
      BY <1>0, <1>3, <2>1, <3>1, WindWatches
    <3>. QED  BY <2>2, <3>2, <3>3, <3>4, <3>5 DEF Active
  <2>5. CASE \E p \in Apis : Preview(p) \/ DeleteProject(p) \/ Kill(p)
    <3>1. PICK p \in Apis : Preview(p) \/ DeleteProject(p) \/ Kill(p)
      BY <2>5
    <3>2. task' = task
      BY <3>1 DEF Preview, StartPreview, PvStarting, PvLoad, PvProbe, PvCreate, PvServe, PvFinish,
                  StopPreview, PvPause, PvPaused, GetPreview, DeleteProject, Kill
    <3>3. p \in Procs /\ p \notin Workers /\ (OtherJobs(p) \/ job' = job)
      <4>1. p \in Procs /\ p \notin Workers
        BY SandboxesAssumption DEF Procs, SandboxesAssumption
      <4>2. CASE Preview(p)
        BY <1>0, <4>1, <4>2, PreviewMoves DEF PreviewMove, Turns, Loads, Sets, Reloads, Carries, Takes
      <4>3. CASE DeleteProject(p) \/ Kill(p)
        BY <1>0, <4>1, <4>3, DeletionMoves DEF Deletion, DeleteMove, Turns, Loads, Carries
      <4>. QED  BY <3>1, <4>1, <4>2, <4>3
    <3>4. ~Responsible(p)
      BY <1>0, <3>3 DEF Place, Responsible, Winding, Syncing
    <3>5. \A q \in Procs : Responsible(q) => Responsible(q)'
      BY <2>1, <3>3, <3>4 DEF OtherJobs, Responsible
    <3>. QED  BY <2>2, <3>2, <3>5 DEF Active
  <2>6. CASE \E t \in Tasks : QueueTask(t) \/ StopTask(t) \/ Reap(t)
    <3>1. PICK t \in Tasks : QueueTask(t) \/ StopTask(t) \/ Reap(t)
      BY <2>6
    <3>2. job' = job
      BY <3>1 DEF QueueTask, StopTask, Reap
    <3>3. \A w \in Workers : job[w].task # t
      BY <1>0, <1>3, SandboxesAssumption DEF Tasked, Procs, SandboxesAssumption
    <3>4. QueueTask(t)
      <4>1. ~StopTask(t)
        BY <1>0, <3>3 DEF StopTask
      <4>2. ~Reap(t)
        BY <1>0, <3>3 DEF Reap, Watched
      <4>. QED  BY <3>1, <4>1, <4>2
    <3>5. \A s \in Tasks : Active(s) => Active(s)'
      BY <1>0, <3>4 DEF QueueTask, Active
    <3>. QED  BY <2>2, <2>3, <3>2, <3>5
  <2>7. CASE (\E i \in Ids : Expire(i)) \/ UNCHANGED vars
    <3>1. task' = task /\ job' = job
      BY <2>7 DEF Expire, vars
    <3>. QED  BY <2>2, <2>3, <3>1 DEF Active
  <2>. QED  BY <1>0, <1>3, <2>4, <2>5, <2>6, <2>7, NoRunSteps
<1>. QED  BY <1>1, <1>2, <1>3

LEMMA WatchedHolds == Spec => []Watched
<1>1. Init => Watched
  BY DEF Init, Watched, NewRow
<1>2. Core /\ Found /\ Watched /\ [Next]_vars => Watched'
  <2>. SUFFICES ASSUME Core, Found, Watched, [Next]_vars, Good', ~skipped', project'.exists
                PROVE  /\ \A t \in Tasks : task'[t] = "working" => \E w \in Workers : job'[w].task = t
                       /\ project'.id # None /\ sbx'[project'.id] = "up" =>
                            (\E t \in Tasks : Active(t)') \/ \E p \in Procs : Responsible(p)'
    BY DEF Watched
  <2>. QED  BY TasksWatched, UpWatched
<1>. QED  BY <1>1, <1>2, CoreHolds, FoundHolds, PTL DEF Spec

\* Billing stops: when nothing of the project runs or waits, its workspace is not up,
\* however many runs ended at the same time and whichever of them ended last; unless two
\* runs began at once, a task ended without pause_if_idle after it, or a pause failed or
\* hit a run.
THEOREM IdleIsNotBilled == Spec => []BillingStops
<1>1. Core /\ Watched => BillingStops
  <2>. SUFFICES ASSUME Core, Watched, project.exists, project.id # None, ~HasActiveDevTask,
                       \A w \in Workers : At(w, "idle"), ~skipped, ~clash, faults = 0, raced = {}
                PROVE  sbx[project.id] # "up"
    BY DEF BillingStops
  <2>1. \A t \in Tasks : ~Active(t)
    BY DEF HasActiveDevTask, Active
  <2>2. \A p \in Procs : ~Responsible(p)
    <3>1. \A p \in Procs : Place(p)
      BY DEF Core, Kinds
    <3>. QED  BY <3>1 DEF Place, Responsible, Winding, Syncing, At, RunSteps
  <2>. QED  BY <2>1, <2>2 DEF Watched, Good
<1>. QED  BY CoreHolds, WatchedHolds, <1>1, PTL

-----------------------------------------------------------------------------
(* ReadyIsTrue.                                                            *)

Shows(i, v) == i \in Pv /\ sbx[i] # "paused" /\ served[i] = v

\* What an operation on the preview knows is true as long as it is the only one.
Fits(p) ==
  /\ job[p].pc \in PreviewSteps \ {"pvload"} =>
       /\ job[p].seen.pvId = project.pvId /\ job[p].seen.pvStatus = project.pvStatus
       /\ job[p].seen.pvVer = project.pvVer
  /\ job[p].pc \in Building \cup {"pvload"} =>
       /\ project.pvStatus = "starting" /\ project.pvVer = job[p].ver
       /\ job[p].ver = job[p].files
  /\ job[p].pc \in {"pvversion", "pvsync", "pvsynced"} => job[p].files = latest
  /\ job[p].pc = "pvready" => Shows(job[p].id, job[p].files)
  /\ job[p].pc = "pvsync" => Shows(job[p].seen.pvId, job[p].seen.pvVer)
  /\ job[p].pc = "pvsynced" => Shows(job[p].seen.pvId, job[p].files)

OnePreview ==
  \A p, q \in Procs : job[p].pc \in PreviewSteps /\ job[q].pc \in PreviewSteps => p = q

ReadyShows ==
  project.pvStatus = "ready" /\ (\A p \in Procs : job[p].pc \notin PreviewSteps)
  => Shows(project.pvId, project.pvVer)

Truthful ==
  ~crossed => OnePreview /\ (project.exists => \A p \in Procs : Fits(p)) /\ ReadyShows

\* A step that leaves the preview aside.
Aside ==
  /\ project'.exists =>
       /\ project'.pvId = project.pvId /\ project'.pvStatus = project.pvStatus
       /\ project'.pvVer = project.pvVer
  /\ served' = served /\ \A i \in Pv : sbx'[i] = "paused" => sbx[i] = "paused"
  /\ \A p \in Procs :
       job'[p] = job[p] \/ (job[p].pc \notin PreviewSteps /\ job'[p].pc \notin PreviewSteps)
  /\ latest' = latest \/ crossed' \/ \A p \in Procs : job[p].pc \notin PreviewSteps

LEMMA AsideKeeps ==
  ASSUME Core, Truthful, [Next]_vars, Aside
  PROVE  Truthful'
<1>. SUFFICES ASSUME ~crossed'
              PROVE  OnePreview' /\ (project'.exists => \A p \in Procs : Fits(p)') /\ ReadyShows'
  BY DEF Truthful
<1>0. /\ OnePreview /\ (project.exists => \A p \in Procs : Fits(p)) /\ ReadyShows
      /\ (project'.exists => project.exists)
      /\ (~project'.exists => project'.pvStatus = "none")
  BY NextFlags, RowsKept DEF Truthful, Core, Flags
<1>1. OnePreview'
  BY <1>0 DEF OnePreview, Aside
<1>2. ASSUME NEW p \in Procs, project'.exists
      PROVE  Fits(p)'
  <2>1. CASE job'[p].pc \notin PreviewSteps
    BY <2>1 DEF Fits, PreviewSteps, Building
  <2>2. CASE job'[p] = job[p] /\ job[p].pc \in PreviewSteps
    <3>1. Fits(p) /\ latest' = latest
      BY <1>0, <1>2, <2>2 DEF Aside
    <3>2. \A i, v : Shows(i, v) => i \in Pv /\ sbx'[i] # "paused" /\ served'[i] = v
      BY DEF Aside, Shows
    <3>. QED  BY <1>2, <2>2, <3>1, <3>2 DEF Fits, Aside, Shows
  <2>. QED  BY <2>1, <2>2 DEF Aside
<1>3. ReadyShows'
  <2>. SUFFICES ASSUME project'.pvStatus = "ready", \A p \in Procs : job'[p].pc \notin PreviewSteps
                PROVE  project'.pvId \in Pv /\ sbx'[project'.pvId] # "paused" /\ served'[project'.pvId] = project'.pvVer
    BY DEF ReadyShows, Shows
  <2>1. Shows(project.pvId, project.pvVer)
    BY <1>0 DEF ReadyShows, Aside
  <2>. QED  BY <1>0, <2>1 DEF Aside, Shows
<1>. QED  BY <1>1, <1>2, <1>3

\* A step of the only operation.
LEMMA PvStep ==
  ASSUME Core, NEW p \in Procs, OtherJobs(p), \A q \in Procs \ {p} : job[q].pc \notin PreviewSteps,
         project'.exists => Fits(p)', ReadyShows'
  PROVE  Truthful'
<1>1. \A q \in Procs \ {p} : job'[q].pc \notin PreviewSteps
  BY DEF OtherJobs
<1>2. OnePreview'
  BY <1>1 DEF OnePreview
<1>3. \A q \in Procs \ {p} : Fits(q)'
  BY <1>1 DEF Fits, PreviewSteps, Building
<1>. QED  BY <1>2, <1>3 DEF Truthful

LEMMA OnlyOne ==
  ASSUME OnePreview, NEW p \in Procs, job[p].pc \in PreviewSteps
  PROVE  \A q \in Procs \ {p} : job[q].pc \notin PreviewSteps
  BY DEF OnePreview

\* While it goes on there is nothing to show.
LEMMA NotYet ==
  ASSUME NEW p \in Procs, job'[p].pc \in PreviewSteps
  PROVE  ReadyShows'
  BY DEF ReadyShows

LEMMA WorkerAside ==
  ASSUME Core, NEW w \in Workers,
         Ensure(w) \/ Run(w) \/ IdleCheck(w) \/ BusyCheck(w) \/ PauseMachine(w) \/ PauseCommit(w)
  PROVE  Aside
<1>0. /\ TypeOK /\ w \in Procs /\ Ws \cap Pv = {} /\ Pv \subseteq Ids /\ Ws \subseteq Ids
      /\ Sees(w) /\ Holds(w) /\ Passed(w)
  BY Machines DEF Core, Procs, Kinds
<1>1. job[w].pc \in RunSteps \cup {"idlecheck", "busycheck", "pause", "paused"}
  BY DEF Ensure, Reuse, Wake, Woken, CreateMachine, NeedsMachine, Bind, BootFails,
         Run, UseMachine, RunRaises, EndUnfinished, EndDone, EndStopped, IdleCheck, BusyCheck,
         PauseMachine, PauseCommit, At, RunSteps
<1>2. /\ project'.exists =>
           /\ project'.pvId = project.pvId /\ project'.pvStatus = project.pvStatus
           /\ project'.pvVer = project.pvVer
  <2>1. project' = project \/ RowMove(w)
    BY <1>0, WorkerRows DEF Wind
  <2>. QED  BY <1>1, <2>1 DEF RowMove, Saves, At, RunSteps
<1>3. served' = served
  BY DEF Ensure, Reuse, Wake, Woken, CreateMachine, Bind, BootFails,
         Run, UseMachine, RunRaises, EndUnfinished, EndDone, EndStopped, IdleCheck, BusyCheck,
         PauseMachine, PauseCommit, provider
<1>4. ASSUME NEW i \in Pv, sbx'[i] = "paused"
      PROVE  sbx[i] = "paused"
  <2>1. Same \/ Wakes(w) \/ Births(w) \/ Sleep(w)
    BY EnsureMachines, RunMachines, WindMachines DEF Wind
  <2>2. ASSUME NEW k, NEW from, Moved(k, from, "up")
        PROVE  sbx[i] = "paused"
    BY <1>0, <1>4, <2>2 DEF Moved, Turned
  <2>3. CASE Sleep(w)
    BY <1>0, <1>1, <1>4, <2>3, Machines DEF Sleep, Moved, Turned, At, RunSteps, Passed, Sees
  <2>. QED  BY <1>4, <2>1, <2>2, <2>3 DEF Same, Wakes, Births
<1>5. \A p \in Procs : job'[p] = job[p] \/ (p = w /\ job'[p].pc \notin PreviewSteps)
  <2>1. RunMove(w) \/ WindMove(w) \/ Turns(w, "idle") \/ job' = job
    BY <1>0, EnsureMoves, RunMoves, WindMoves DEF Wind
  <2>2. CASE RunMove(w)
    BY <2>2 DEF RunMove, Begins, Enters, Carries, Takes, OtherJobs, PreviewSteps
  <2>3. CASE WindMove(w)
    BY <1>1, <2>3 DEF WindMove, Turns, Tests, Loads, Carries, OtherJobs, PreviewSteps, At, RunSteps
  <2>4. CASE Turns(w, "idle")
    BY <2>4 DEF Turns, OtherJobs, PreviewSteps
  <2>. QED  BY <2>1, <2>2, <2>3, <2>4
<1>6. latest' = latest \/ crossed' \/ \A p \in Procs : job[p].pc \notin PreviewSteps
  <2>1. CASE EndDone(w) \/ EndStopped(w)
    <3>1. crossed' = (crossed \/ (latest' # latest /\ OthersPreview(w)))
      BY <2>1 DEF EndDone, EndStopped, CutVersion
    <3>2. job[w].pc \notin PreviewSteps
      BY <1>1 DEF RunSteps, PreviewSteps
    <3>. QED  BY <3>1, <3>2 DEF OthersPreview
  <2>2. CASE ~EndDone(w) /\ ~EndStopped(w)
    BY <2>2 DEF Ensure, Reuse, Wake, Woken, CreateMachine, Bind, BootFails,
         Run, UseMachine, RunRaises, EndUnfinished, IdleCheck, BusyCheck, PauseMachine, PauseCommit
  <2>. QED  BY <2>1, <2>2
<1>7. job[w].pc \notin PreviewSteps
  BY <1>1 DEF RunSteps, PreviewSteps
<1>. QED  BY <1>2, <1>3, <1>4, <1>5, <1>6, <1>7 DEF Aside

LEMMA OtherAside ==
  ASSUME Core,
         \/ \E w \in Workers, t \in Tasks : BeginRun(w, t)
         \/ \E p \in Apis : GetPreview(p) \/ Deletion(p)
         \/ \E p \in Procs : job[p].pc \notin PreviewSteps /\ (Lost(p) \/ Crash(p))
         \/ \E t \in Tasks : QueueTask(t) \/ StopTask(t) \/ Reap(t)
         \/ \E i \in Ids : Expire(i)
         \/ UNCHANGED vars
  PROVE  Aside
<1>0. TypeOK /\ Workers \subseteq Procs /\ Apis \subseteq Procs /\ Pv \subseteq Ids
  BY Machines DEF Core, Procs
<1>1. ASSUME NEW w \in Workers, NEW t \in Tasks, BeginRun(w, t)
      PROVE  Aside
  <2>1. Begins(w, t)
    BY <1>0, <1>1, BeginDoes
  <2>. QED  BY <1>0, <1>1, <2>1 DEF Aside, Begins, OtherJobs, BeginRun, provider, At, PreviewSteps
<1>2. ASSUME NEW p \in Apis, GetPreview(p)
      PROVE  Aside
  BY <1>0, <1>2 DEF Aside, GetPreview, Call, TypeOK
<1>3. ASSUME NEW p \in Apis, DeleteProject(p)
      PROVE  Aside
  <2>1. project \in Rows /\ "kill" \in Pcs /\ 0 \in 0..MaxVersions
    BY <1>0, Columns, Steps, Bounds
  <2>2. Loads(p, "kill", project)
    BY <1>0, <1>3, <2>1, RequestDoes DEF DeleteProject
  <2>. QED  BY <1>0, <1>3, <2>2
       DEF Aside, DeleteProject, Loads, OtherJobs, Request, provider, At, PreviewSteps
<1>4. ASSUME NEW p \in Apis, Kill(p)
      PROVE  Aside
  <2>1. Kills(p) /\ served' = served
    BY <1>0, <1>4, KillDoes
  <2>2. Carries(p, "delete")
    BY <1>0, <1>4, Steps, GotoDoes DEF Kill
  <2>. QED  BY <1>0, <1>4, <2>1, <2>2
       DEF Aside, Kills, Kill, Carries, OtherJobs, At, PreviewSteps
<1>5. ASSUME NEW p \in Apis, Delete(p)
      PROVE  Aside
  <2>1. Turns(p, "idle")
    BY <1>0, <1>5, LeaveDoes DEF Delete
  <2>2. ~project'.exists
    BY <1>5 DEF Delete, NewRow
  <2>. QED  BY <1>0, <1>5, <2>1, <2>2
       DEF Aside, Delete, Turns, OtherJobs, provider, At, PreviewSteps
<1>6. ASSUME NEW p \in Procs, job[p].pc \notin PreviewSteps, Lost(p) \/ Crash(p)
      PROVE  Aside
  <2>1. Turns(p, "idle")
    BY <1>0, <1>6, LeaveDoes DEF Lost, Crash
  <2>. QED  BY <1>0, <1>6, <2>1
       DEF Aside, Lost, Crash, Turns, OtherJobs, provider, PreviewSteps
<1>7. ASSUME \/ \E t \in Tasks : QueueTask(t) \/ StopTask(t) \/ Reap(t)
             \/ UNCHANGED vars
      PROVE  Aside
  BY <1>7 DEF Aside, QueueTask, StopTask, Reap, vars, provider
<1>8. ASSUME NEW i \in Ids, Expire(i)
      PROVE  Aside
  BY <1>0, <1>8 DEF Aside, Expire, TypeOK
<1>. QED  BY <1>1, <1>2, <1>3, <1>4, <1>5, <1>6, <1>7, <1>8 DEF Deletion

\* An operation on the preview that the loss of its process ends.
LEMMA EndKeeps ==
  ASSUME Core, Truthful, NEW p \in Procs, job[p].pc \in PreviewSteps, Lost(p) \/ Crash(p)
  PROVE  Truthful'
<1>1. CASE Crash(p)
  BY <1>1 DEF Crash, Truthful
<1>2. CASE Lost(p)
  <2>. SUFFICES ASSUME ~crossed'
                PROVE  Truthful'
    BY DEF Truthful
  <2>1. ~crossed /\ ~project'.exists /\ project'.pvStatus = "none"
    BY <1>2 DEF Lost, history, Core, Kinds, RowKind
  <2>2. Turns(p, "idle")
    BY <1>2, LeaveDoes DEF Lost, Core
  <2>3. \A q \in Procs \ {p} : job[q].pc \notin PreviewSteps
    BY <2>1, OnlyOne DEF Truthful
  <2>. QED  BY <2>1, <2>2, <2>3, PvStep DEF Turns, ReadyShows
<1>. QED  BY <1>1, <1>2

LEMMA SyncKeeps ==
  ASSUME Core, Truthful, [Next]_vars, ~crossed', NEW w \in Workers,
         Refresh(w) \/ SyncWrite(w) \/ SyncCommit(w)
  PROVE  Truthful'
<1>0. /\ TypeOK /\ w \in Procs /\ Pv \subseteq Ids /\ Sees(w) /\ Passed(w) /\ ~crossed
      /\ OnePreview /\ (project.exists => Fits(w)) /\ ReadyShows
      /\ (~project.exists => project.pvStatus = "none")
  BY Machines, NextFlags DEF Core, Procs, Kinds, RowKind, Truthful, Flags
<1>1. CASE Refresh(w) /\ project.pvStatus = "ready"
  <2>1. Syncs(w) /\ Cross(w)
    BY <1>0, <1>1, RefreshDoes
  <2>2. \A q \in Procs \ {w} : job[q].pc \notin PreviewSteps
    BY <2>1 DEF Cross, OthersPreview
  <2>3. job[w].pc \notin PreviewSteps
    BY <1>1 DEF Refresh, At, PreviewSteps
  <2>4. Shows(project.pvId, project.pvVer)
    BY <1>0, <1>1, <2>2, <2>3 DEF ReadyShows
  <2>5. UNCHANGED <<sbx, served, project, latest>>
    BY <1>1 DEF Refresh, provider
  <2>6. Fits(w)' /\ job'[w].pc \in PreviewSteps
    BY <2>1, <2>4, <2>5 DEF Fits, Syncs, Shows, Building, PreviewSteps
  <2>. QED  BY <1>0, <2>1, <2>2, <2>6, PvStep, NotYet DEF Syncs
<1>2. CASE Refresh(w) /\ project.pvStatus # "ready"
  <2>1. Tests(w, WorkspaceColumns)
    BY <1>0, <1>2, RefreshDoes
  <2>2. Aside
    BY <1>2, <2>1 DEF Aside, Refresh, Tests, Loads, Turns, OtherJobs, At, PreviewSteps, provider
  <2>. QED  BY <2>2, AsideKeeps
<1>3. ASSUME job[w].pc \in PreviewSteps
      PROVE  \A q \in Procs \ {w} : job[q].pc \notin PreviewSteps
  BY <1>0, <1>3, OnlyOne
<1>4. CASE SyncWrite(w)
  <2>0. /\ job[w].pc \in PreviewSteps /\ job[w].pc = "pvsync" /\ job[w].seen.pvId \in Pv
        /\ job[w].seen \in Rows /\ UNCHANGED <<project, latest>>
    BY <1>0, <1>4, JobTyped DEF SyncWrite, At, PreviewSteps, Passed, Sees, Syncing
  <2>. DEFINE i == job[w].seen.pvId
  <2>1. CASE /\ Call(w, i) /\ served' = [served EXCEPT ![i] = job[w].files]
             /\ Goto(w, "pvsynced")
    <3>1. Carries(w, "pvsynced") /\ sbx'[i] = "up"
      BY <1>0, <2>0, <2>1, Steps, GotoDoes, CallDoes DEF Moved, Turned
    <3>2. served'[i] = job[w].files
      BY <1>0, <2>0, <2>1 DEF TypeOK
    <3>3. project'.exists => Fits(w)'
      BY <1>0, <2>0, <3>1, <3>2 DEF Fits, Carries, Shows, Building, PreviewSteps
    <3>4. job'[w].pc \in PreviewSteps
      BY <3>1 DEF Carries, PreviewSteps
    <3>. QED  BY <1>0, <1>3, <2>0, <3>1, <3>3, <3>4, PvStep, NotYet DEF Carries
  <2>2. CASE TestRow(w, job[w].seen) /\ UNCHANGED provider
    <3>1. Tests(w, job[w].seen)
      BY <1>0, <2>0, <2>2, TestDoes
    <3>2. OtherJobs(w) /\ job'[w].pc \notin PreviewSteps
      BY <3>1 DEF Tests, Loads, Turns, PreviewSteps
    <3>3. Fits(w)'
      BY <3>2 DEF Fits, PreviewSteps, Building
    <3>4. project.exists => Shows(project.pvId, project.pvVer)
      BY <1>0, <2>0 DEF Fits
    <3>5. ReadyShows'
      BY <1>0, <2>0, <2>2, <3>4 DEF ReadyShows, Shows, provider
    <3>. QED  BY <1>0, <1>3, <2>0, <3>2, <3>3, <3>5, PvStep
  <2>. QED  BY <1>4, <2>1, <2>2 DEF SyncWrite
<1>5. CASE SyncCommit(w)
  <2>0. /\ job[w].pc \in PreviewSteps /\ job[w].pc = "pvsynced" /\ latest \in 0..MaxVersions
        /\ UNCHANGED <<sbx, served, latest>>
    BY <1>0, <1>5, Counters DEF SyncCommit, At, PreviewSteps, provider
  <2>1. SavesPv(w, job[w].seen.pvId, "ready", latest)
    BY <1>0, <1>5, <2>0, SavePvStatusDoes DEF SyncCommit
  <2>2. Turns(w, "idlecheck")
    BY <1>0, <1>5, Steps, ThenDoes DEF SyncCommit
  <2>3. OtherJobs(w) /\ job'[w].pc \notin PreviewSteps
    BY <2>2 DEF Turns, PreviewSteps
  <2>4. Fits(w)'
    BY <2>3 DEF Fits, PreviewSteps, Building
  <2>5. Fits(w)
    BY <1>0, <2>1 DEF SavesPv
  <2>6. project'.pvId = job[w].seen.pvId /\ project'.pvVer = latest
    BY <2>0, <2>1, <2>5 DEF SavesPv, Fits
  <2>7. Shows(job[w].seen.pvId, latest)
    BY <2>0, <2>5 DEF Fits
  <2>8. ReadyShows'
    BY <2>0, <2>6, <2>7 DEF ReadyShows, Shows
  <2>. QED  BY <1>0, <1>3, <2>0, <2>3, <2>4, <2>8, PvStep
<1>. QED  BY <1>1, <1>2, <1>4, <1>5

LEMMA PreviewKeeps ==
  ASSUME Core, Truthful, [Next]_vars, ~crossed', NEW p \in Apis,
         StartPreview(p) \/ StopPreview(p) \/ PvLoad(p) \/ PvProbe(p) \/ PvCreate(p) \/ PvServe(p)
         \/ PvPause(p)
  PROVE  Truthful'
<1>0. /\ TypeOK /\ p \in Procs /\ Pv \subseteq Ids /\ Holds(p) /\ ~crossed
      /\ OnePreview /\ (project.exists => Fits(p)) /\ project' = project /\ latest' = latest
  BY Machines, NextFlags
  DEF Core, Procs, Kinds, Truthful, Flags, StartPreview, StopPreview, PvLoad, PvProbe, PvCreate,
      PvServe, PvPause
<1>. SUFFICES /\ OtherJobs(p) /\ job'[p].pc \in PreviewSteps
              /\ project.exists => Fits(p)'
              /\ \A q \in Procs \ {p} : job[q].pc \notin PreviewSteps
  BY <1>0, PvStep, NotYet
<1>1. CASE StartPreview(p) \/ StopPreview(p)
  <2>1. PreviewColumns \in Rows /\ latest \in 0..MaxVersions /\ 0 \in 0..MaxVersions
    BY <1>0, Columns, Counters, Bounds
  <2>2. \/ Loads(p, "pvversion", PreviewColumns) /\ job'[p].files = latest
        \/ Loads(p, "pvpause", PreviewColumns)
    BY <1>0, <1>1, <2>1, Steps, RequestDoes DEF StartPreview, StopPreview
  <2>3. \A q \in Procs \ {p} : job[q].pc \notin PreviewSteps
    BY <1>1 DEF StartPreview, StopPreview, Cross, OthersPreview
  <2>4. Fits(p)'
    BY <1>0, <2>2, Columns DEF Fits, Loads, Building, PreviewSteps
  <2>. QED  BY <2>2, <2>3, <2>4 DEF Loads, PreviewSteps
<1>2. CASE PvLoad(p)
  <2>1. Reloads(p) /\ job[p].pc = "pvload" /\ job[p].pc \in PreviewSteps
    BY <1>0, <1>2, PvLoadDoes DEF PvLoad, At, PreviewSteps
  <2>2. \A q \in Procs \ {p} : job[q].pc \notin PreviewSteps
    BY <1>0, <2>1, OnlyOne
  <2>3. project.exists => Fits(p)'
    BY <1>0, <2>1, Columns DEF Fits, Reloads, Building, PreviewSteps
  <2>. QED  BY <2>1, <2>2, <2>3 DEF Reloads, PreviewSteps
<1>3. CASE PvProbe(p) \/ PvCreate(p)
  <2>1. job[p].pc \in {"pvprobe", "pvcreate"} /\ job[p].pc \in PreviewSteps
    BY <1>3 DEF PvProbe, PvCreate, At, PreviewSteps
  <2>2. /\ OtherJobs(p) /\ job'[p].pc \in {"pvcreate", "pvserve", "pverror"}
        /\ job'[p].seen = job[p].seen /\ job'[p].files = job[p].files /\ job'[p].ver = job[p].ver
    <3>1. CASE PvProbe(p)
      <4>1. Goto(p, "pvcreate") \/ Goto(p, "pvserve")
        BY <3>1 DEF PvProbe
      <4>. QED  BY <1>0, <4>1, Steps, GotoDoes DEF Carries
    <3>2. CASE PvCreate(p)
      <4>1. \/ Goto(p, "pverror")
            \/ \E i \in Ids : job' = [job EXCEPT ![p].pc = "pvserve", ![p].id = i]
        BY <3>2 DEF PvCreate
      <4>2. CASE Goto(p, "pverror")
        BY <1>0, <4>2, Steps, GotoDoes DEF Carries
      <4>3. ASSUME NEW i \in Ids, job' = [job EXCEPT ![p].pc = "pvserve", ![p].id = i]
            PROVE  Takes(p, "pvserve", i)
        BY <1>0, <4>3, Steps, TakeDoes
      <4>. QED  BY <4>1, <4>2, <4>3 DEF Takes
    <3>. QED  BY <1>3, <3>1, <3>2
  <2>3. \A q \in Procs \ {p} : job[q].pc \notin PreviewSteps
    BY <1>0, <2>1, OnlyOne
  <2>4. project.exists => Fits(p)'
    BY <1>0, <2>1, <2>2 DEF Fits, Building, PreviewSteps
  <2>. QED  BY <2>2, <2>3, <2>4 DEF PreviewSteps
<1>4. CASE PvServe(p)
  <2>1. job[p].pc = "pvserve" /\ job[p].pc \in PreviewSteps /\ job[p].id \in Pv
    BY <1>0, <1>4 DEF PvServe, At, PreviewSteps, Holds
  <2>2. \A q \in Procs \ {p} : job[q].pc \notin PreviewSteps
    BY <1>0, <2>1, OnlyOne
  <2>3. \/ Carries(p, "pverror")
        \/ /\ Carries(p, "pvready") /\ sbx'[job[p].id] = "up"
           /\ served'[job[p].id] = job[p].files
    <3>1. CASE Goto(p, "pverror")
      BY <1>0, <3>1, Steps, GotoDoes
    <3>2. CASE /\ Call(p, job[p].id) /\ served' = [served EXCEPT ![job[p].id] = job[p].files]
               /\ Goto(p, "pvready")
      BY <1>0, <2>1, <3>2, Steps, GotoDoes, CallDoes DEF Moved, Turned, TypeOK
    <3>. QED  BY <1>4, <3>1, <3>2 DEF PvServe
  <2>4. project.exists => Fits(p)'
    BY <1>0, <2>1, <2>3 DEF Fits, Carries, Shows, Building, PreviewSteps
  <2>. QED  BY <2>2, <2>3, <2>4 DEF Carries, PreviewSteps
<1>5. CASE PvPause(p)
  <2>1. job[p].pc = "pvpause" /\ job[p].pc \in PreviewSteps /\ Carries(p, "pvpaused")
    BY <1>0, <1>5, Steps, GotoDoes DEF PvPause, At, PreviewSteps
  <2>2. \A q \in Procs \ {p} : job[q].pc \notin PreviewSteps
    BY <1>0, <2>1, OnlyOne
  <2>3. project.exists => Fits(p)'
    BY <1>0, <2>1 DEF Fits, Carries, Building, PreviewSteps
  <2>. QED  BY <2>1, <2>2, <2>3 DEF Carries, PreviewSteps
<1>. QED  BY <1>1, <1>2, <1>3, <1>4, <1>5

\* The steps that write the row.
LEMMA CommitKeeps ==
  ASSUME Core, Truthful, [Next]_vars, ~crossed', NEW p \in Apis,
         PvStarting(p) \/ PvFinish(p) \/ PvPaused(p)
  PROVE  Truthful'
<1>0. /\ TypeOK /\ p \in Procs /\ Holds(p) /\ ~crossed /\ job[p].pc \in PreviewSteps
      /\ OnePreview /\ project.exists /\ Fits(p)
      /\ UNCHANGED <<sbx, served, latest>>
  BY NextFlags
  DEF Core, Procs, Kinds, Truthful, Flags, PvStarting, PvFinish, PvPaused, Commit, provider, At,
      PreviewSteps
<1>1. \A q \in Procs \ {p} : job[q].pc \notin PreviewSteps
  BY <1>0, OnlyOne
<1>2. \/ /\ Sets(p) /\ job[p].pc = "pvversion"
         /\ SavesPv(p, job[p].seen.pvId, "starting", latest)
      \/ /\ Turns(p, "idle")
         /\ \/ job[p].pc = "pvversion" /\ SavesPv(p, job[p].seen.pvId, "none", job[p].seen.pvVer)
            \/ job[p].pc = "pvready" /\ SavesPv(p, job[p].id, "ready", job[p].ver)
            \/ job[p].pc = "pverror" /\ SavesPv(p, job[p].id, "error", job[p].ver)
            \/ job[p].pc = "pvpaused" /\ SavesPv(p, job[p].seen.pvId, "paused", job[p].seen.pvVer)
  <2>1. /\ job[p].ver \in 0..MaxVersions /\ job[p].id \in Ids \cup {None}
        /\ latest \in 0..MaxVersions
        /\ job[p].seen.pvVer \in 0..MaxVersions
    BY <1>0, JobTyped, SeenTyped, Counters
  <2>2. CASE PvStarting(p)
    BY <1>0, <2>1, <2>2, PvStartingDoes, SavePvStatusDoes DEF PvStarting, At
  <2>3. CASE PvFinish(p)
    <3>1. Turns(p, "idle")
      BY <1>0, <2>3, LeaveDoes DEF PvFinish
    <3>2. CASE job[p].pc = "pvready"
      BY <1>0, <2>1, <2>3, <3>1, <3>2, SavePvDoes DEF PvFinish, At
    <3>3. CASE job[p].pc = "pverror"
      BY <1>0, <2>1, <2>3, <3>1, <3>3, SavePvDoes DEF PvFinish, At
    <3>. QED  BY <2>3, <3>2, <3>3 DEF PvFinish
  <2>4. CASE PvPaused(p)
    BY <1>0, <2>1, <2>4, LeaveDoes, SavePvStatusDoes DEF PvPaused, At
  <2>. QED  BY <2>2, <2>3, <2>4
<1>3. CASE Sets(p) /\ job[p].pc = "pvversion" /\ SavesPv(p, job[p].seen.pvId, "starting", latest)
  <2>1. Fits(p)'
    BY <1>0, <1>3 DEF Fits, Sets, SavesPv, Building, PreviewSteps
  <2>2. job'[p].pc \in PreviewSteps /\ OtherJobs(p)
    BY <1>3 DEF Sets, PreviewSteps
  <2>. QED  BY <1>0, <1>1, <2>1, <2>2, PvStep, NotYet
<1>4. ASSUME Turns(p, "idle"), ReadyShows'
      PROVE  Truthful'
  <2>1. Fits(p)'
    BY <1>4 DEF Turns, Fits, PreviewSteps, Building
  <2>. QED  BY <1>0, <1>1, <1>4, <2>1, PvStep DEF Turns
<1>5. CASE job[p].pc = "pvready" /\ SavesPv(p, job[p].id, "ready", job[p].ver)
  <2>1. project'.pvId = job[p].id /\ project'.pvVer = job[p].ver
    BY <1>0, <1>5 DEF Fits, SavesPv
  <2>2. Shows(job[p].id, job[p].ver)
    BY <1>0, <1>5 DEF Fits, Building
  <2>3. ReadyShows'
    BY <1>0, <2>1, <2>2 DEF ReadyShows, Shows
  <2>. QED  BY <1>2, <1>4, <1>5, <2>3
<1>6. CASE \/ job[p].pc = "pvversion" /\ SavesPv(p, job[p].seen.pvId, "none", job[p].seen.pvVer)
           \/ job[p].pc = "pverror" /\ SavesPv(p, job[p].id, "error", job[p].ver)
           \/ job[p].pc = "pvpaused" /\ SavesPv(p, job[p].seen.pvId, "paused", job[p].seen.pvVer)
  <2>1. project'.pvStatus # "ready"
    BY <1>0, <1>6 DEF Fits, SavesPv, PreviewSteps
  <2>2. ReadyShows'
    BY <2>1 DEF ReadyShows
  <2>. QED  BY <1>2, <1>3, <1>4, <1>6, <2>2
<1>. QED  BY <1>2, <1>3, <1>5, <1>6

LEMMA TruthfulKept ==
  ASSUME Core, Truthful, [Next]_vars
  PROVE  Truthful'
<1>. SUFFICES ASSUME ~crossed'
              PROVE  Truthful'
  BY DEF Truthful
<1>0. Workers \subseteq Procs /\ Apis \subseteq Procs
  BY DEF Procs
<1>1. ASSUME NEW w \in Workers, Ensure(w) \/ Run(w) \/ Wind(w)
      PROVE  Truthful'
  BY <1>1, WorkerAside, AsideKeeps, SyncKeeps DEF Wind
<1>2. ASSUME NEW p \in Apis, Preview(p)
      PROVE  Truthful'
  BY <1>2, OtherAside, AsideKeeps, PreviewKeeps, CommitKeeps DEF Preview
<1>3. ASSUME NEW p \in Procs, Lost(p) \/ Crash(p)
      PROVE  Truthful'
  BY <1>3, OtherAside, AsideKeeps, EndKeeps
<1>4. CASE \/ \E w \in Workers, t \in Tasks : BeginRun(w, t)
           \/ \E p \in Apis : Deletion(p)
           \/ \E t \in Tasks : QueueTask(t) \/ StopTask(t) \/ Reap(t)
           \/ \E i \in Ids : Expire(i)
           \/ UNCHANGED vars
  BY <1>4, OtherAside, AsideKeeps
<1>. QED  BY <1>1, <1>2, <1>3, <1>4 DEF Next

LEMMA TruthfulHolds == Spec => []Truthful
<1>1. Init => Truthful
  <2>. SUFFICES ASSUME Init
                PROVE  Truthful
    OBVIOUS
  <2>1. \A p \in Procs : job[p].pc = "idle"
    BY DEF Init, Idle
  <2>2. project.pvStatus = "none"
    BY DEF Init, NewRow
  <2>3. \A p \in Procs : Fits(p)
    BY <2>1 DEF Fits, PreviewSteps, Building
  <2>. QED  BY <2>1, <2>2, <2>3 DEF Truthful, OnePreview, ReadyShows, PreviewSteps
<1>2. Core /\ Truthful /\ [Next]_vars => Truthful'
  BY TruthfulKept
<1>. QED  BY <1>1, <1>2, CoreHolds, PTL DEF Spec

\* A preview that claims to be ready is one, as start, refresh_if_active, stop and the
\* beat leave it: when nobody is in the middle of an operation on it, its machine is not
\* paused and serves the version the row names; unless two operations overlapped, a
\* version came in between, or a process died inside one.  The invariant, Truthful, is
\* what the only operation knows at each of its steps: the row still says what it has
\* loaded, the files are the newest, and the machine it is about to name serves them.
THEOREM ReadyStaysTrue == Spec => []ReadyIsTrue
<1>1. Truthful => ReadyIsTrue
  BY DEF Truthful, ReadyShows, ReadyIsTrue, Shows
<1>. QED  BY <1>1, TruthfulHolds, PTL
=============================================================================
