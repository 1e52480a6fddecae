----------------------------- MODULE Sandboxes -----------------------------
(***************************************************************************)
(* The two sandboxes of one project: the workspace its coding tasks share  *)
(* (services/workspace.py) and the preview (services/preview.py), both on  *)
(* machines of a provider that bills them while they run                   *)
(* (services/sandbox.py).  Processes work on them at the same time: Celery *)
(* slots that run coding tasks and pause the workspace behind them, API    *)
(* requests that start and stop the preview or delete the project, and the *)
(* beat that pauses an idle preview.  Nothing is locked: a process loads   *)
(* the project row, talks to the provider for seconds or minutes and then  *)
(* writes the columns it has changed.                                      *)
(***************************************************************************)
EXTENDS Naturals, FiniteSets

CONSTANTS
  Workers,     \* worker processes, each running one coding task at a time
  Apis,        \* processes that serve preview requests or the beat
  Tasks,       \* coding tasks of the project
  MaxVersions, \* bound: versions the tasks cut
  Runnable,    \* the versions whose files a preview can serve
  MaxBuilds,   \* bound: workspace machines created
  MaxPreviews, \* bound: preview machines created
  MaxRequests, \* bound: requests and beats that reach the preview or the project
  MaxFaults,   \* bound: calls of the provider that fail, and lost processes
  None

ASSUME SandboxesAssumption ==
  /\ Workers \cap Apis = {}
  /\ {MaxVersions, MaxBuilds, MaxPreviews, MaxRequests, MaxFaults} \subseteq Nat
  /\ Runnable \subseteq 1..MaxVersions
  /\ None \notin Tasks

VARIABLES
  sbx,      \* sbx[id]: the state of a machine at the provider
  served,   \* served[id]: the version of the files in a preview machine
  handles,  \* handles[p]: the machines process p holds a connection to; one to a
            \* machine that is gone is as good as none
  project,  \* the committed project row
  task,     \* task[t]: what pause_if_idle sees of a task row
  latest,   \* the newest version
  job,      \* job[p]: what process p is doing
  requests, faults,
  raced,    \* history: tasks queued after a pause had been decided, or stopped
            \* ones whose run was still inside when it was
  clash,    \* history: two runs began at once, or one beside a deletion
  crossed,  \* history: a preview operation overlapped another or a new version, or
            \* was cut short by a crash
  skipped   \* history: a task ended, and no pause_if_idle came after it

provider == <<sbx, served, handles>>
history == <<raced, clash, crossed, skipped>>
vars == <<provider, project, task, latest, job, requests, faults, history>>

-----------------------------------------------------------------------------
(* Machines, rows and processes.                                           *)

Procs == Workers \cup Apis
Ids == ({"ws"} \X (1..MaxBuilds)) \cup ({"pv"} \X (1..MaxPreviews))

ASSUME NoneAssumption == None \notin Ids

\* The sandbox columns of the project row; a row that is deleted does not exist.
Rows ==
  [exists: BOOLEAN,
   id: Ids \cup {None}, status: {"none", "running", "paused", "error"},
   pvId: Ids \cup {None}, pvStatus: {"none", "starting", "ready", "paused", "error"},
   pvVer: 0..MaxVersions]

NewRow ==
  [exists |-> TRUE, id |-> None, status |-> "none",
   pvId |-> None, pvStatus |-> "none", pvVer |-> 0]

RunSteps == {"ensure", "resumed", "create", "bind", "loop"}
WorkspaceSteps == RunSteps \cup {"finished", "idlecheck", "busycheck", "pause", "paused"}
PreviewSteps == {"pvversion", "pvload", "pvprobe", "pvcreate", "pvserve", "pvready",
                 "pverror", "pvpause", "pvpaused", "pvsync", "pvsynced"}

\* seen is the row as the session has loaded it, of which an operation keeps the
\* columns it uses.
Jobs ==
  [pc: {"idle", "kill", "delete"} \cup WorkspaceSteps \cup PreviewSteps,
   task: Tasks \cup {None}, seen: Rows, id: Ids \cup {None},
   files: 0..MaxVersions, ver: 0..MaxVersions]

WorkspaceColumns == [NewRow EXCEPT !.id = project.id, !.status = project.status]
PreviewColumns == [project EXCEPT !.id = None, !.status = "none"]

Idle == [pc |-> "idle", task |-> None, seen |-> NewRow, id |-> None, files |-> 0, ver |-> 0]

\* Types; a run that is at work knows its task, and a row that claims a machine
\* names it.
TypeOK ==
  /\ sbx \in [Ids -> {"unborn", "up", "paused", "gone"}]
  /\ served \in [Ids -> 0..MaxVersions]
  /\ handles \in [Procs -> SUBSET Ids]
  /\ project \in Rows
  /\ task \in [Tasks -> {"unborn", "queued", "working", "ended"}]
  /\ latest \in 0..MaxVersions
  /\ job \in [Procs -> Jobs]
  /\ \A p \in Procs : job[p].pc \in {"ensure", "loop"} => p \in Workers /\ job[p].task \in Tasks
  /\ project.status \in {"running", "paused"} => project.id \in Ids
  /\ project.pvStatus = "ready" => project.pvId \in Ids
  /\ requests \in 0..MaxRequests
  /\ faults \in 0..MaxFaults
  /\ raced \in SUBSET Tasks
  /\ {clash, crossed, skipped} \subseteq BOOLEAN

Init ==
  /\ sbx = [i \in Ids |-> "unborn"]
  /\ served = [i \in Ids |-> 0]
  /\ handles = [p \in Procs |-> {}]
  /\ project = NewRow
  /\ task = [t \in Tasks |-> "unborn"]
  /\ latest = 0
  /\ job = [p \in Procs |-> Idle]
  /\ requests = 0 /\ faults = 0
  /\ raced = {} /\ clash = FALSE /\ crossed = FALSE /\ skipped = FALSE

At(p, pc) == job[p].pc = pc
Goto(p, pc) == job' = [job EXCEPT ![p].pc = pc]
Leave(p) == job' = [job EXCEPT ![p] = Idle]
Then(p, pc) == job' = [job EXCEPT ![p] = [Idle EXCEPT !.pc = pc]]
Fault == faults < MaxFaults /\ faults' = faults + 1

\* Somebody else is in the middle of an operation on the preview.
OthersPreview(p) == \E q \in Procs \ {p} : job[q].pc \in PreviewSteps
Cross(p) == crossed' = (crossed \/ OthersPreview(p))

\* Somebody else is on the way to a machine for the workspace.
OthersEnsure(p) ==
  \E q \in Procs \ {p} : job[q].pc \in {"ensure", "resumed", "create", "bind"}

-----------------------------------------------------------------------------
(* The provider.  A call goes through the handle a process holds, or       *)
(* connects, and to connect wakes a paused machine; a handle on a machine  *)
(* that somebody else has paused is dead.                                  *)

Reaches(p, i) == sbx[i] = "up" \/ (sbx[i] = "paused" /\ i \notin handles[p])

\* A call that reaches machine i: a connection, and the machine is up.
Call(p, i) ==
  /\ Reaches(p, i)
  /\ sbx' = [sbx EXCEPT ![i] = "up"]
  /\ handles' = [handles EXCEPT ![p] = @ \cup {i}]

\* resume connects anew, whatever the process holds.
Resume(p, i) ==
  /\ sbx[i] \in {"up", "paused"}
  /\ sbx' = [sbx EXCEPT ![i] = "up"]
  /\ handles' = [handles EXCEPT ![p] = @ \cup {i}]

Pause(p, i) ==
  /\ sbx[i] \in {"up", "paused"}
  /\ sbx' = [sbx EXCEPT ![i] = "paused"]
  /\ handles' = [handles EXCEPT ![p] = @ \ {i}]

Create(p, i) ==
  /\ sbx[i] = "unborn"
  /\ \A k \in Ids : k[1] = i[1] /\ k[2] < i[2] => sbx[k] # "unborn"
  /\ sbx' = [sbx EXCEPT ![i] = "up"]
  /\ handles' = [handles EXCEPT ![p] = @ \cup {i}]

\* A call to machine i that raises: it is out of reach, or the call fails.
Raises(p, i) == \/ ~Reaches(p, i) /\ UNCHANGED faults
                \/ Fault

\* A pause or a resume of machine i that raises.
Fails(i) == \/ sbx[i] = "gone" /\ UNCHANGED faults
            \/ Fault

\* The lifetime of a machine ends unless the run inside has prolonged it, which may
\* fail; a preview is never prolonged, a paused machine is kept.
Expire(i) ==
  /\ sbx[i] = "up"
  /\ \/ (\A w \in Workers : At(w, "loop") => job[w].id # i) /\ UNCHANGED faults
     \/ Fault
  /\ sbx' = [sbx EXCEPT ![i] = "gone"]
  /\ handles' = [p \in Procs |-> handles[p] \ {i}]
  /\ UNCHANGED <<served, project, task, latest, job, requests, history>>

-----------------------------------------------------------------------------
(* Commits.                                                                *)

\* A commit writes the columns the session has set to another value than it loaded.
Written(p, want) ==
  [c \in DOMAIN project |-> IF want[c] # job[p].seen[c] THEN want[c] ELSE project[c]]

\* Without the row the UPDATE finds nothing and raises.
Commit(p, want) == project.exists /\ project' = Written(p, want)

\* A process that finds the project deleted raises out of its operation.
Lost(p) ==
  /\ ~project.exists
  /\ job[p].pc \in {"resumed", "bind", "loop", "finished", "idlecheck", "pvsynced", "paused",
                    "pvversion", "pvload", "pvready", "pverror", "pvpaused"}
  /\ Leave(p)
  /\ UNCHANGED <<provider, project, task, latest, requests, faults, history>>

-----------------------------------------------------------------------------
(* ensure_running.                                                         *)

\* The worker has committed the task as working and loads the project.
BeginRun(w, t) ==
  /\ At(w, "idle") /\ task[t] = "queued" /\ project.exists
  /\ task' = [task EXCEPT ![t] = "working"]
  /\ job' = [job EXCEPT ![w] = [Idle EXCEPT !.pc = "ensure", !.task = t, !.seen = WorkspaceColumns]]
  /\ clash' = (clash \/ OthersEnsure(w) \/ \E q \in Procs : job[q].pc \in {"kill", "delete"})
  /\ UNCHANGED <<provider, project, latest, requests, faults, raced, crossed, skipped>>

Enter(w, i) == job' = [job EXCEPT ![w].pc = "loop", ![w].id = i, ![w].seen = NewRow]

\* A running machine that answers is used as it is.
Reuse(w) ==
  LET i == job[w].seen.id IN
  /\ At(w, "ensure") /\ i # None /\ job[w].seen.status = "running"
  /\ \/ Call(w, i) /\ Enter(w, i) /\ UNCHANGED faults
     \/ Raises(w, i) /\ Goto(w, "create") /\ UNCHANGED <<sbx, handles>>
  /\ UNCHANGED <<served, project, task, latest, requests, history>>

\* Mutant of Wake: a paused machine is not resumed but replaced.
WakeNever(w) ==
  /\ At(w, "ensure") /\ job[w].seen.id # None /\ job[w].seen.status = "paused"
  /\ Goto(w, "create")
  /\ UNCHANGED <<provider, project, task, latest, requests, faults, history>>

\* A paused one is resumed; if that fails a new one is created.
Wake(w) ==
  LET i == job[w].seen.id IN
  /\ At(w, "ensure") /\ i # None /\ job[w].seen.status = "paused"
  /\ \/ Resume(w, i) /\ Goto(w, "resumed") /\ UNCHANGED faults
     \/ sbx[i] = "gone" /\ Goto(w, "create") /\ UNCHANGED <<sbx, handles, faults>>
     \/ Fault /\ Goto(w, "create") /\ (Resume(w, i) \/ UNCHANGED <<sbx, handles>>)
  /\ UNCHANGED <<served, project, task, latest, requests, history>>

Woken(w) ==
  /\ At(w, "resumed")
  /\ Commit(w, [job[w].seen EXCEPT !.status = "running"])
  /\ Enter(w, job[w].seen.id)
  /\ UNCHANGED <<provider, task, latest, requests, faults, history>>

\* Nothing to reuse: neither running nor paused, or the attempt has failed.
NeedsMachine(w) ==
  \/ At(w, "create")
  \/ At(w, "ensure") /\ (job[w].seen.id = None \/ job[w].seen.status \in {"none", "error"})

CreateMachine(w) ==
  /\ NeedsMachine(w)
  /\ \E i \in Ids :
       /\ i[1] = "ws" /\ Create(w, i)
       /\ job' = [job EXCEPT ![w].pc = "bind", ![w].id = i]
  /\ UNCHANGED <<served, project, task, latest, requests, faults, history>>

\* Mutant of Bind: the number of the machine is not saved.
BindStatusOnly(w) ==
  /\ At(w, "bind")
  /\ Commit(w, [job[w].seen EXCEPT !.status = "running"])
  /\ Enter(w, job[w].id)
  /\ UNCHANGED <<provider, task, latest, requests, faults, history>>

\* The new machine takes the place of the old one, which nobody destroys.
Bind(w) ==
  /\ At(w, "bind")
  /\ Commit(w, [job[w].seen EXCEPT !.id = job[w].id, !.status = "running"])
  /\ Enter(w, job[w].id)
  /\ UNCHANGED <<provider, task, latest, requests, faults, history>>

\* WorkspaceError: the run fails, and nothing is paused.
BootFails(w) ==
  /\ NeedsMachine(w) /\ Fault
  /\ Commit(w, [job[w].seen EXCEPT !.status = "error"])
  /\ task' = [task EXCEPT ![job[w].task] = "ended"]
  /\ Leave(w)
  /\ UNCHANGED <<provider, latest, requests, history>>

-----------------------------------------------------------------------------
(* The run inside the workspace and what follows it.                       *)

\* A tool of the run; after a broken connection it connects again.
UseMachine(w) ==
  /\ At(w, "loop")
  /\ \/ Call(w, job[w].id) /\ UNCHANGED faults
     \/ Fault /\ Resume(w, job[w].id)
  /\ UNCHANGED <<served, project, task, latest, job, requests, history>>

\* A tool raises: the run dies with its task still marked as working.
RunRaises(w) ==
  /\ At(w, "loop") /\ Raises(w, job[w].id)
  /\ Leave(w)
  /\ skipped' = (skipped \/ faults' = 0)
  /\ UNCHANGED <<provider, project, task, latest, requests, raced, clash, crossed>>

\* Outputs are collected and a version is cut, if the run has changed a file.
CutVersion(w) ==
  /\ latest' \in {latest, latest + 1} /\ latest' <= MaxVersions
  /\ crossed' = (crossed \/ (latest' # latest /\ OthersPreview(w)))

\* Mutant of EndUnfinished: the workspace is not paused behind it.
EndUnfinishedAwake(w) ==
  /\ At(w, "loop") /\ project.exists /\ task[job[w].task] = "working"
  /\ task' = [task EXCEPT ![job[w].task] = "ended"]
  /\ Leave(w)
  /\ UNCHANGED <<provider, project, latest, requests, faults, history>>

\* needs-input or failed.
EndUnfinished(w) ==
  /\ At(w, "loop") /\ project.exists /\ task[job[w].task] = "working"
  /\ task' = [task EXCEPT ![job[w].task] = "ended"]
  /\ Then(w, "idlecheck")
  /\ UNCHANGED <<provider, project, latest, requests, faults, history>>

EndDone(w) ==
  /\ At(w, "loop") /\ project.exists /\ task[job[w].task] = "working"
  /\ Call(w, job[w].id)
  /\ CutVersion(w)
  /\ task' = [task EXCEPT ![job[w].task] = "ended"]
  /\ Then(w, "finished")
  /\ UNCHANGED <<served, project, requests, faults, raced, clash, skipped>>

\* The task was stopped: what it has made is kept.
EndStopped(w) ==
  /\ At(w, "loop") /\ project.exists /\ task[job[w].task] = "ended"
  /\ Call(w, job[w].id)
  /\ CutVersion(w)
  /\ Then(w, "idlecheck")
  /\ UNCHANGED <<served, project, task, requests, faults, raced, clash, skipped>>

\* The first test of pause_if_idle, on the row as it is loaded.
TestRow(w, row) ==
  job' = [job EXCEPT ![w] = IF row.id # None /\ row.status = "running"
                            THEN [Idle EXCEPT !.pc = "busycheck", !.seen = row]
                            ELSE Idle]

\* refresh_if_active: a preview that is ready is brought up to date.
Refresh(w) ==
  /\ At(w, "finished") /\ project.exists
  /\ IF project.pvStatus = "ready"
     THEN /\ job' = [job EXCEPT ![w].pc = "pvsync", ![w].seen = project, ![w].files = latest]
          /\ Cross(w)
     ELSE TestRow(w, WorkspaceColumns) /\ UNCHANGED crossed
  /\ UNCHANGED <<provider, project, task, latest, requests, faults, raced, clash, skipped>>

SyncWrite(w) ==
  LET i == job[w].seen.pvId IN
  /\ At(w, "pvsync")
  /\ \/ /\ Call(w, i) /\ served' = [served EXCEPT ![i] = job[w].files]
        /\ Goto(w, "pvsynced") /\ UNCHANGED faults
     \/ Raises(w, i) /\ TestRow(w, job[w].seen) /\ UNCHANGED provider
  /\ UNCHANGED <<project, task, latest, requests, history>>

SyncCommit(w) ==
  /\ At(w, "pvsynced")
  /\ Commit(w, [job[w].seen EXCEPT !.pvStatus = "ready", !.pvVer = latest])
  /\ Then(w, "idlecheck")
  /\ UNCHANGED <<provider, task, latest, requests, faults, history>>

-----------------------------------------------------------------------------
(* pause_if_idle.                                                          *)

IdleCheck(w) ==
  /\ At(w, "idlecheck") /\ project.exists
  /\ TestRow(w, WorkspaceColumns)
  /\ UNCHANGED <<provider, project, task, latest, requests, faults, history>>

\* Mutant of HasActiveDevTask: only waiting tasks count.
HasWaitingDevTask == \E t \in Tasks : task[t] = "queued"

HasActiveDevTask == \E t \in Tasks : task[t] \in {"queued", "working"}

\* The stopped tasks whose runs are still inside: they do not count as active.
StoppedInside(w) ==
  {t \in Tasks : task[t] = "ended"
                 /\ \E q \in Workers \ {w} : job[q].pc \in RunSteps /\ job[q].task = t}

BusyCheck(w) ==
  /\ At(w, "busycheck")
  /\ IF HasActiveDevTask
     THEN Leave(w) /\ UNCHANGED raced
     ELSE Goto(w, "pause") /\ raced' = raced \cup StoppedInside(w)
  /\ UNCHANGED <<provider, project, task, latest, requests, faults, clash, crossed, skipped>>

PauseMachine(w) ==
  LET i == job[w].seen.id IN
  /\ At(w, "pause")
  /\ \/ Pause(w, i) /\ Goto(w, "paused") /\ UNCHANGED faults
     \/ Fails(i) /\ Leave(w) /\ UNCHANGED <<sbx, handles>>
  /\ UNCHANGED <<served, project, task, latest, requests, history>>

PauseCommit(w) ==
  /\ At(w, "paused")
  /\ Commit(w, [job[w].seen EXCEPT !.status = "paused"])
  /\ Leave(w)
  /\ UNCHANGED <<provider, task, latest, requests, faults, history>>

-----------------------------------------------------------------------------
(* Tasks come and go.                                                      *)

QueueTask(t) ==
  /\ task[t] = "unborn" /\ project.exists
  /\ task' = [task EXCEPT ![t] = "queued"]
  /\ raced' = IF \E w \in Workers : job[w].pc \in {"pause", "paused"} THEN raced \cup {t} ELSE raced
  /\ UNCHANGED <<provider, project, latest, job, requests, faults, clash, crossed, skipped>>

\* The stop route: the run inside finds out at its next step.
StopTask(t) ==
  /\ task[t] \in {"queued", "working"} /\ project.exists
  /\ task' = [task EXCEPT ![t] = "ended"]
  /\ skipped' = (skipped \/ \A w \in Workers : job[w].task # t)
  /\ UNCHANGED <<provider, project, latest, job, requests, faults, raced, clash, crossed>>

\* The reaper fails a task whose run is dead.
Reap(t) ==
  /\ task[t] = "working" /\ \A w \in Workers : job[w].task # t
  /\ task' = [task EXCEPT ![t] = "ended"]
  /\ UNCHANGED <<provider, project, latest, job, requests, faults, history>>

\* A process dies, whatever it is doing.
Crash(p) ==
  /\ job[p].pc # "idle" /\ Fault
  /\ Leave(p)
  /\ handles' = [handles EXCEPT ![p] = {}]
  /\ crossed' = (crossed \/ job[p].pc \in PreviewSteps)
  /\ UNCHANGED <<sbx, served, project, task, latest, requests, raced, clash, skipped>>

-----------------------------------------------------------------------------
(* The preview.                                                            *)

\* A request or a beat loads the project.
Request(p, pc, row, files) ==
  /\ At(p, "idle") /\ p \in Apis /\ project.exists
  /\ requests < MaxRequests /\ requests' = requests + 1
  /\ job' = [job EXCEPT ![p] = [Idle EXCEPT !.pc = pc, !.seen = row, !.files = files]]

\* start reads the files first.
StartPreview(p) ==
  /\ Request(p, "pvversion", PreviewColumns, latest)
  /\ Cross(p)
  /\ UNCHANGED <<provider, project, task, latest, faults, raced, clash, skipped>>

\* A program with a dev script, or a page to show: the files decide.
Servable(version) == version \in Runnable

\* Without files to serve the preview is none; otherwise it is starting, and
\* carries the number of a version that is read only now.
PvStarting(p) ==
  /\ At(p, "pvversion")
  /\ IF Servable(job[p].files)
     THEN /\ Commit(p, [job[p].seen EXCEPT !.pvStatus = "starting", !.pvVer = latest])
          /\ job' = [job EXCEPT ![p].pc = "pvload", ![p].ver = latest]
     ELSE /\ Commit(p, [job[p].seen EXCEPT !.pvStatus = "none"])
          /\ Leave(p)
  /\ UNCHANGED <<provider, task, latest, requests, faults, history>>

\* The commit has expired the row, which is loaded anew.
PvLoad(p) ==
  /\ At(p, "pvload") /\ project.exists
  /\ job' = [job EXCEPT ![p].pc = "pvprobe", ![p].seen = PreviewColumns, ![p].id = project.pvId]
  /\ UNCHANGED <<provider, project, task, latest, requests, faults, history>>

\* _ensure_sandbox: a machine that answers is used again; as start has just written
\* starting, the resume of a paused one is reached only when somebody else has
\* paused the preview since.
PvProbe(p) ==
  LET i == job[p].seen.pvId IN
  /\ At(p, "pvprobe")
  /\ \/ /\ i = None \/ job[p].seen.pvStatus \notin {"starting", "ready", "paused"}
        /\ Goto(p, "pvcreate") /\ UNCHANGED <<sbx, handles, faults>>
     \/ /\ i # None /\ job[p].seen.pvStatus \in {"starting", "ready"}
        /\ \/ Call(p, i) /\ Goto(p, "pvserve") /\ UNCHANGED faults
           \/ Raises(p, i) /\ Goto(p, "pvcreate") /\ UNCHANGED <<sbx, handles>>
     \/ /\ i # None /\ job[p].seen.pvStatus = "paused"
        /\ \/ Resume(p, i) /\ Goto(p, "pvserve") /\ UNCHANGED faults
           \/ Fails(i) /\ Goto(p, "pvcreate") /\ UNCHANGED <<sbx, handles>>
  /\ UNCHANGED <<served, project, task, latest, requests, history>>

PvCreate(p) ==
  /\ At(p, "pvcreate")
  /\ \/ /\ \E i \in Ids : /\ i[1] = "pv" /\ Create(p, i)
                          /\ job' = [job EXCEPT ![p].pc = "pvserve", ![p].id = i]
        /\ UNCHANGED faults
     \/ Fault /\ Goto(p, "pverror") /\ UNCHANGED <<sbx, handles>>
  /\ UNCHANGED <<served, project, task, latest, requests, history>>

\* The files are written and the server is started; the project's own scripts may fail.
PvServe(p) ==
  LET i == job[p].id IN
  /\ At(p, "pvserve")
  /\ \/ Call(p, i) /\ served' = [served EXCEPT ![i] = job[p].files] /\ Goto(p, "pvready")
     \/ Goto(p, "pverror") /\ UNCHANGED provider
  /\ UNCHANGED <<project, task, latest, requests, faults, history>>

PvFinish(p) ==
  /\ job[p].pc \in {"pvready", "pverror"}
  /\ Commit(p, [job[p].seen EXCEPT !.pvId = job[p].id, !.pvVer = job[p].ver,
                                   !.pvStatus = IF At(p, "pvready") THEN "ready" ELSE "error"])
  /\ Leave(p)
  /\ UNCHANGED <<provider, task, latest, requests, faults, history>>

\* stop, by the user or, when the preview was ready and idle for long, by the beat.
StopPreview(p) ==
  /\ Request(p, "pvpause", PreviewColumns, 0)
  /\ Cross(p)
  /\ UNCHANGED <<provider, project, task, latest, faults, raced, clash, skipped>>

PvPause(p) ==
  LET i == job[p].seen.pvId IN
  /\ At(p, "pvpause") /\ Goto(p, "pvpaused")
  /\ IF i # None /\ job[p].seen.pvStatus \in {"starting", "ready"}
     THEN \/ Pause(p, i) /\ UNCHANGED faults
          \/ Fails(i) /\ UNCHANGED <<sbx, handles>>
     ELSE UNCHANGED <<sbx, handles, faults>>
  /\ UNCHANGED <<served, project, task, latest, requests, history>>

\* Mutant of PvPaused: the row still says ready.
PvPausedUnsaid(p) ==
  /\ At(p, "pvpaused") /\ Leave(p)
  /\ UNCHANGED <<provider, project, task, latest, requests, faults, history>>

PvPaused(p) ==
  /\ At(p, "pvpaused")
  /\ Commit(p, [job[p].seen EXCEPT !.pvStatus = "paused"])
  /\ Leave(p)
  /\ UNCHANGED <<provider, task, latest, requests, faults, history>>

\* Asking for the preview asks the provider for its host, which connects.
GetPreview(p) ==
  /\ At(p, "idle") /\ p \in Apis /\ project.exists /\ project.pvStatus = "ready"
  /\ Call(p, project.pvId)
  /\ UNCHANGED <<served, project, task, latest, job, requests, faults, history>>

-----------------------------------------------------------------------------
(* The project is deleted with both machines.                              *)

DeleteProject(p) ==
  /\ Request(p, "kill", project, 0)
  /\ clash' = (clash \/ OthersEnsure(p))
  /\ UNCHANGED <<provider, project, task, latest, faults, raced, crossed, skipped>>

Kill(p) ==
  /\ At(p, "kill") /\ Goto(p, "delete")
  /\ \E missed \in SUBSET {job[p].seen.id, job[p].seen.pvId} :
       /\ IF missed \subseteq {None} THEN UNCHANGED faults ELSE Fault
       /\ sbx' = [i \in Ids |-> IF i \in {job[p].seen.id, job[p].seen.pvId} \ missed
                                THEN "gone" ELSE sbx[i]]
       /\ handles' = [q \in Procs |-> handles[q] \ {i \in Ids : sbx'[i] = "gone"}]
  /\ UNCHANGED <<served, project, task, latest, requests, history>>

Delete(p) ==
  /\ At(p, "delete") /\ Leave(p)
  /\ project' = [NewRow EXCEPT !.exists = FALSE]
  /\ task' = [t \in Tasks |-> "ended"]
  /\ UNCHANGED <<provider, latest, requests, faults, history>>

-----------------------------------------------------------------------------
(* Specification.                                                          *)

Ensure(w) ==
  \/ Reuse(w) \/ Wake(w) \/ Woken(w) \/ CreateMachine(w) \/ Bind(w) \/ BootFails(w)
Run(w) ==
  \/ UseMachine(w) \/ RunRaises(w) \/ EndUnfinished(w) \/ EndDone(w) \/ EndStopped(w)
Wind(w) ==
  \/ Refresh(w) \/ SyncWrite(w) \/ SyncCommit(w)
  \/ IdleCheck(w) \/ BusyCheck(w) \/ PauseMachine(w) \/ PauseCommit(w)
Preview(p) ==
  \/ StartPreview(p) \/ PvStarting(p) \/ PvLoad(p) \/ PvProbe(p) \/ PvCreate(p) \/ PvServe(p)
  \/ PvFinish(p) \/ StopPreview(p) \/ PvPause(p) \/ PvPaused(p) \/ GetPreview(p)
Deletion(p) == DeleteProject(p) \/ Kill(p) \/ Delete(p)

Next ==
  \/ \E w \in Workers, t \in Tasks : BeginRun(w, t)
  \/ \E w \in Workers : Ensure(w) \/ Run(w) \/ Wind(w)
  \/ \E p \in Apis : Preview(p) \/ Deletion(p)
  \/ \E p \in Procs : Lost(p) \/ Crash(p)
  \/ \E t \in Tasks : QueueTask(t) \/ StopTask(t) \/ Reap(t)
  \/ \E i \in Ids : Expire(i)

Spec == Init /\ [][Next]_vars

-----------------------------------------------------------------------------
(* Properties.                                                             *)

\* A task that works never finds its machine paused: pause_if_idle counts waiting
\* and working tasks, and only a task queued after it has counted comes too late.
MachineAwake ==
  \A w \in Workers :
    /\ At(w, "loop") /\ task[job[w].task] = "working" /\ sbx[job[w].id] = "paused"
    => job[w].task \in raced

\* Billing stops: when nothing of the project runs or waits, its workspace is not
\* up, however many runs ended at the same time and whichever of them ended last;
\* unless two runs began at once, a task ended without pause_if_idle after it, or a
\* pause failed or hit a run.
BillingStops ==
  /\ project.exists /\ project.id # None
  /\ ~HasActiveDevTask
  /\ \A w \in Workers : At(w, "idle")
  /\ ~skipped /\ ~clash /\ faults = 0 /\ raced = {}
  => sbx[project.id] # "up"

\* No workspace machine is lost: one that runs or sleeps is the one in the row, or
\* on its way there, and a deleted project leaves none; unless two runs began
\* at once, or a pause or a call of the provider went wrong.
NoLostMachine ==
  faults = 0 /\ ~clash /\ raced = {}
  => \A i \in Ids :
       i[1] = "ws" /\ sbx[i] \in {"up", "paused"}
       => \/ project.exists /\ project.id = i
          \/ \E w \in Workers : At(w, "bind") /\ job[w].id = i

\* A preview that claims to be ready is one: its machine is not paused, and shows
\* the version the row names; unless operations on it overlapped one another or a
\* new version, or one was cut short.
ReadyIsTrue ==
  /\ project.pvStatus = "ready" /\ ~crossed
  /\ \A p \in Procs : job[p].pc \notin PreviewSteps
  => /\ sbx[project.pvId] # "paused"
     /\ served[project.pvId] = project.pvVer
=============================================================================
