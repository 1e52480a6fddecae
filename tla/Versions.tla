------------------------------ MODULE Versions ------------------------------
(***************************************************************************)
(* The files of one project: what its coding tasks leave on the disk of    *)
(* the workspace is collected (verification.py), becomes the current files *)
(* and a numbered version (versioning.py), is pushed to the user's         *)
(* repository by Celery jobs or by a backfill, can be restored             *)
(* (github_service.py) and deployed (deploy_service.py).                   *)
(*                                                                         *)
(* A cut of a version is one database transaction with several statements  *)
(* at READ COMMITTED: each sees what others have committed, waits for the  *)
(* rows others hold, and relies on two unique constraints, one row per     *)
(* path and one per version number.  A file is identified with the task    *)
(* that wrote it.                                                          *)
(***************************************************************************)
EXTENDS Naturals, Sequences, SequencesExt

CONSTANTS
  Tasks,       \* coding tasks of the project
  Paths,
  Apis,        \* API processes
  Pushers,     \* Celery slots that run github_push
  MaxRequests, \* bound: restore and deploy requests
  MaxRetries,  \* retries of a push (max_retries, 5 in the code)
  MaxFaults,   \* bound: processes lost, calls of GitHub or of the host that fail
  None

ASSUME VersionsAssumption ==
  /\ {MaxRequests, MaxRetries, MaxFaults} \subseteq Nat
  /\ None \notin Tasks \cup (1..MaxRequests)
  /\ Tasks \cap Apis = {} /\ Apis \cap Pushers = {}
  /\ Tasks \cap (1..MaxRequests) = {} \* tasks and restores are told apart

VARIABLES
  disk,     \* disk[p]: the task that wrote the file p in the workspace
  recent,   \* paths written since the newest version was cut
  files,    \* the project_files rows
  versions, \* the workspace_versions rows, by number
  tx,       \* tx[x]: the run of a task, or the cut a process is making
  linked,   \* the user has connected GitHub, or the project has a repository
  branch,   \* the default branch of the repository: its commits and its tree
  jobs,     \* the pushes in the queue
  push,     \* push[q]: the push a process is making
  site, deployed, \* the version the host serves, and deployed_version_no
  requests, faults,
  overlapped, \* history: two cuts, or two deployments, were open at once
  behind,     \* history: paths whose change time a cut has moved past unread
  failed,     \* history: versions whose push was given up
  dropped,    \* history: versions whose push came too early, or that a backfill missed
  late        \* history: a version landed after a newer one, one of them by a job

cutting == <<files, versions, tx>>
workspace == <<disk, recent>>
github == <<linked, branch, jobs, push>>
hosting == <<site, deployed>>
history == <<overlapped, behind, failed, dropped, late>>
vars == <<workspace, cutting, github, hosting, requests, faults, history>>

-----------------------------------------------------------------------------
(* Rows, transactions and pushes.                                          *)

Cutters == Tasks \cup Apis
Content == Tasks \cup {None}
Manifests == [Paths -> Content]
Empty == [p \in Paths |-> None]
Over(base, own) == [p \in Paths |-> IF own[p] # None THEN own[p] ELSE base[p]]
Held(m) == {p \in Paths : m[p] # None}

\* A version is cut by a task, or by the n-th restore.
Cuts == Tasks \cup (1..MaxRequests)
Version(id, m) == [id |-> id, manifest |-> m, pushed |-> FALSE]

\* Steps in which a transaction holds rows, and in which it has its version inserted.
Writing == {"manifest", "number", "insert", "label", "commit"}
Inserted == {"label", "commit"}
Transacting == {"read", "insertfiles"} \cup Writing

\* mine: paths written on the disk since the task began; put: the rows it writes; erased: those it
\* deletes; seen: the paths it found to have a row; since: paths written on the disk
\* since the transaction began; missed: those written after the disk was listed and
\* before that.
NewTx ==
  [pc |-> "idle", id |-> None, mine |-> {}, put |-> Empty, erased |-> {}, seen |-> {},
   manifest |-> Empty, no |-> 0, since |-> {}, missed |-> {}]

Txs ==
  [pc: {"idle", "running", "collected", "announce", "over"} \cup Transacting,
   id: Cuts \cup {None}, mine: SUBSET Paths, put: Manifests, erased: SUBSET Paths, seen: SUBSET Paths,
   manifest: Manifests, no: Nat, since: SUBSET Paths, missed: SUBSET Paths]

NoPush == [pc |-> "idle", id |-> None, parent |-> 0, tries |-> 0, rest |-> <<>>]

Pushes ==
  [pc: {"idle", "repo", "list", "start", "land", "mark", "deploy", "deployed"},
   id: Cuts \cup {None}, parent: Nat, tries: 0..MaxRetries, rest: Seq(Cuts)]

\* Types; a version number is the place of the version in the sequence, and only one
\* open transaction holds it.
TypeOK ==
  /\ disk \in Manifests /\ files \in Manifests
  /\ recent \subseteq Paths
  /\ versions \in Seq([id: Cuts, manifest: Manifests, pushed: BOOLEAN])
  /\ tx \in [Cutters -> Txs]
  /\ \A c, d \in Cutters :
       /\ tx[c].pc \in Inserted => tx[c].no = Len(versions) + 1
       /\ c # d /\ tx[c].pc \in Inserted => tx[d].pc \notin Inserted
  /\ linked \in {"no", "connected", "repo"}
  /\ branch \in [commits: Seq([id: Cuts, job: BOOLEAN]), tree: Manifests]
  /\ jobs \subseteq [id: Cuts, tries: 0..MaxRetries]
  /\ push \in [Apis \cup Pushers -> Pushes]
  /\ {site, deployed} \subseteq 0..Len(versions)
  /\ requests \in 0..MaxRequests /\ faults \in 0..MaxFaults
  /\ overlapped \in BOOLEAN /\ late \in BOOLEAN
  /\ behind \subseteq Paths /\ failed \cup dropped \subseteq Cuts

Init ==
  /\ disk = Empty /\ recent = {}
  /\ files = Empty /\ versions = <<>>
  /\ tx = [x \in Cutters |-> NewTx]
  /\ linked = "no"
  /\ branch = [commits |-> <<>>, tree |-> Empty]
  /\ jobs = {}
  /\ push = [q \in Apis \cup Pushers |-> NoPush]
  /\ site = 0 /\ deployed = 0
  /\ requests = 0 /\ faults = 0
  /\ overlapped = FALSE /\ behind = {} /\ failed = {} /\ dropped = {} /\ late = FALSE

At(x, pc) == tx[x].pc = pc
Goto(x, pc) == tx' = [tx EXCEPT ![x].pc = pc]
Fault == faults < MaxFaults /\ faults' = faults + 1
Free(a) == a \in Apis /\ At(a, "idle") /\ push[a].pc = "idle"
HasRepo == linked = "repo"
Committed(id) == \E n \in 1..Len(versions) : versions[n].id = id
No(id) == CHOOSE n \in 1..Len(versions) : versions[n].id = id

\* Paths whose rows other transactions hold.
Locked(x) ==
  UNION {Held(tx[y].put) \cup tx[y].erased : y \in {z \in Cutters \ {x} : tx[z].pc \in Writing}}

Overlap(x) ==
  overlapped' = (overlapped \/ \E y \in Cutters \ {x} : tx[y].pc \in Transacting)

\* A transaction that fails leaves nothing; the run of a task is over with it.
Rollback(x) == tx' = [tx EXCEPT ![x] = [NewTx EXCEPT !.pc = IF x \in Tasks THEN "over" ELSE "idle"]]

-----------------------------------------------------------------------------
(* The runs and what is collected of them.                                 *)

Begin(t) ==
  /\ At(t, "idle") /\ Goto(t, "running")
  /\ UNCHANGED <<workspace, files, versions, github, hosting, requests, faults, history>>

Write(t, p) ==
  /\ At(t, "running") /\ disk[p] # t
  /\ disk' = [disk EXCEPT ![p] = t]
  /\ recent' = recent \cup {p}
  /\ tx' = [x \in Cutters |->
              IF At(x, "running") THEN [tx[x] EXCEPT !.mine = @ \cup {p}]
              ELSE IF At(x, "collected") THEN [tx[x] EXCEPT !.missed = @ \cup {p}]
              ELSE IF tx[x].pc \in Transacting THEN [tx[x] EXCEPT !.since = @ \cup {p}]
              ELSE tx[x]]
  /\ UNCHANGED <<files, versions, github, hosting, requests, faults, history>>

\* The run fails or its process is lost: nothing is collected.
Fail(t) ==
  /\ At(t, "running") /\ Rollback(t)
  /\ UNCHANGED <<workspace, files, versions, github, hosting, requests, faults, history>>

\* Mutant of Collectable: what changed since the task began.
CollectSinceStart(t) == {p \in Held(disk) : p \in tx[t].mine}

\* Files changed since the newest version, or since the task began if that is
\* earlier; all of them when there is no version.
Collectable(t) == {p \in Held(disk) : versions = <<>> \/ p \in recent \cup tx[t].mine}

\* collect_outputs commits the outputs; without any no version is cut.
Collect(t) ==
  /\ At(t, "running")
  /\ tx' = [tx EXCEPT ![t] =
       IF Collectable(t) = {} THEN [NewTx EXCEPT !.pc = "over"]
       ELSE [NewTx EXCEPT !.pc = "collected", !.id = t,
              !.put = [p \in Paths |-> IF p \in Collectable(t) THEN disk[p] ELSE None]]]
  /\ UNCHANGED <<workspace, files, versions, github, hosting, requests, faults, history>>

-----------------------------------------------------------------------------
(* A cut by a task.                                                        *)

\* For each path: is there a row?
ReadFiles(t) ==
  /\ At(t, "collected")
  /\ tx' = [tx EXCEPT ![t].pc = "read", ![t].seen = Held(files) \cap Held(tx[t].put)]
  /\ Overlap(t)
  /\ UNCHANGED <<workspace, files, versions, github, hosting, requests, faults, behind, failed, dropped, late>>

\* The flush waits for rows others hold; a row to insert may have appeared since,
\* and a row to update may have been deleted: the snapshot fails.
FlushFiles(t) ==
  LET own == Held(tx[t].put) IN
  /\ At(t, "read") /\ own \cap Locked(t) = {}
  /\ IF Held(files) \cap own = tx[t].seen
     THEN tx' = [tx EXCEPT ![t].pc = "manifest", ![t].seen = {}]
     ELSE Rollback(t)
  /\ UNCHANGED <<workspace, files, versions, github, hosting, requests, faults, history>>

\* What a transaction sees: committed rows and its own.
View(x) == Over([p \in Paths |-> IF p \in tx[x].erased THEN None ELSE files[p]], tx[x].put)

ReadManifest(t) ==
  /\ At(t, "manifest")
  /\ tx' = [tx EXCEPT ![t].pc = "number", ![t].manifest = View(t)]
  /\ UNCHANGED <<workspace, files, versions, github, hosting, requests, faults, history>>

\* max + 1.
Number(x) ==
  /\ At(x, "number")
  /\ tx' = [tx EXCEPT ![x].pc = "insert", ![x].no = Len(versions) + 1]
  /\ UNCHANGED <<workspace, files, versions, github, hosting, requests, faults, history>>

\* Mutant of InsertVersion: numbers are not unique.
InsertUnchecked(x) ==
  /\ At(x, "insert")
  /\ Goto(x, IF x \in Tasks THEN "label" ELSE "commit")
  /\ UNCHANGED <<workspace, files, versions, github, hosting, requests, faults, history>>

\* The insert waits for another one of the same number and fails if that stays.
InsertVersion(x) ==
  /\ At(x, "insert")
  /\ \A y \in Cutters \ {x} : tx[y].pc \in Inserted => tx[y].no # tx[x].no
  /\ IF tx[x].no = Len(versions) + 1
     THEN Goto(x, IF x \in Tasks THEN "label" ELSE "commit")
     ELSE Rollback(x)
  /\ UNCHANGED <<workspace, files, versions, github, hosting, requests, faults, history>>

\* The label is written and the push enqueued, before the commit.
Enqueue(t) ==
  /\ At(t, "label") /\ Goto(t, "commit")
  /\ \/ HasRepo /\ jobs' = jobs \cup {[id |-> tx[t].id, tries |-> 0]} /\ UNCHANGED <<faults, failed>>
     \/ ~HasRepo /\ UNCHANGED <<jobs, faults, failed>>
     \/ HasRepo /\ Fault /\ failed' = failed \cup {tx[t].id} /\ UNCHANGED jobs
  /\ UNCHANGED <<workspace, files, versions, linked, branch, push, hosting, requests,
                 overlapped, behind, dropped, late>>

\* Somebody will still push version id: a job, a backfill or a restore that goes on.
Pending(id) ==
  \/ \E j \in jobs : j.id = id
  \/ \E q \in Apis \cup Pushers : push[q].pc = "list" \/ id \in Range(push[q].rest)
  \/ \E a \in Apis : At(a, "announce") /\ tx[a].id = id

\* A version that is committed when a backfill has listed the others, without a job.
Unannounced(x) ==
  IF HasRepo /\ x \in Tasks /\ ~Pending(tx[x].id) THEN {tx[x].id} ELSE {}

\* _finalize_done or the restore route commits.
Commit(x) ==
  /\ At(x, "commit")
  /\ files' = View(x)
  /\ versions' = Append(versions, Version(tx[x].id, tx[x].manifest))
  /\ recent' = tx[x].since
  /\ behind' = behind \cup tx[x].missed
                      \cup IF x \in Tasks THEN {} ELSE recent \ tx[x].since
  /\ dropped' = dropped \cup Unannounced(x)
  /\ IF x \in Tasks THEN Rollback(x)
     ELSE tx' = [tx EXCEPT ![x] = [NewTx EXCEPT !.pc = "announce", !.id = tx[x].id]]
  /\ UNCHANGED <<disk, github, hosting, requests, faults, overlapped, failed, late>>

\* The process is lost, or what follows the snapshot rolls it back.
Abort(x) ==
  /\ tx[x].pc \in Transacting \cup {"collected"} /\ Fault
  /\ Rollback(x)
  /\ UNCHANGED <<workspace, files, versions, github, hosting, requests, history>>

-----------------------------------------------------------------------------
(* restore_version.                                                        *)

\* Mutant of RestoreDelete: the rows stay, those of the version are added.
RestoreKeep(a, n) ==
  /\ Free(a) /\ requests < MaxRequests /\ Locked(a) \cap Held(files) = {}
  /\ requests' = requests + 1
  /\ tx' = [tx EXCEPT ![a] = [NewTx EXCEPT !.pc = "insertfiles", !.id = requests + 1,
                               !.put = versions[n].manifest, !.manifest = versions[n].manifest,
                               !.erased = Held(versions[n].manifest)]]
  /\ Overlap(a)
  /\ UNCHANGED <<workspace, files, versions, github, hosting, faults, behind, failed, dropped, late>>

\* The rows that are committed now are deleted.
RestoreDelete(a, n) ==
  /\ Free(a) /\ requests < MaxRequests /\ Locked(a) \cap Held(files) = {}
  /\ requests' = requests + 1
  /\ tx' = [tx EXCEPT ![a] = [NewTx EXCEPT !.pc = "insertfiles", !.id = requests + 1,
                               !.put = versions[n].manifest, !.manifest = versions[n].manifest,
                               !.erased = Held(files)]]
  /\ Overlap(a)
  /\ UNCHANGED <<workspace, files, versions, github, hosting, faults, behind, failed, dropped, late>>

\* Those of the version are inserted; one that has appeared since makes it fail.
RestoreInsert(a) ==
  LET own == Held(tx[a].put) IN
  /\ At(a, "insertfiles") /\ own \cap Locked(a) = {}
  /\ IF own \cap Held(files) \subseteq tx[a].erased THEN Goto(a, "number") ELSE Rollback(a)
  /\ UNCHANGED <<workspace, files, versions, github, hosting, requests, faults, history>>

\* Committed, and then the push is enqueued.
RestoreAnnounce(a) ==
  /\ At(a, "announce") /\ Rollback(a)
  /\ \/ HasRepo /\ jobs' = jobs \cup {[id |-> tx[a].id, tries |-> 0]} /\ UNCHANGED <<faults, failed>>
     \/ ~HasRepo /\ UNCHANGED <<jobs, faults, failed>>
     \/ HasRepo /\ Fault /\ failed' = failed \cup {tx[a].id} /\ UNCHANGED jobs
  /\ UNCHANGED <<workspace, files, versions, linked, branch, push, hosting, requests,
                 overlapped, behind, dropped, late>>

-----------------------------------------------------------------------------
(* Pushes.                                                                 *)

\* The numbers of the versions that are not pushed, in their order.
Unpushed ==
  LET upto[n \in 0..Len(versions)] ==
        IF n = 0 THEN <<>>
        ELSE IF versions[n].pushed THEN upto[n - 1]
        ELSE Append(upto[n - 1], n)
  IN upto[Len(versions)]

\* The user installs the app and lets it act for him.
Connect ==
  /\ linked = "no" /\ linked' = "connected"
  /\ UNCHANGED <<workspace, cutting, branch, jobs, push, hosting, requests, faults, history>>

\* A second such request at once, which creates a second repository, is left out.
RequestRepo(a) ==
  /\ Free(a) /\ linked = "connected"
  /\ \A b \in Apis : push[b].pc # "repo"
  /\ push' = [push EXCEPT ![a].pc = "repo"]
  /\ UNCHANGED <<workspace, cutting, linked, branch, jobs, hosting, requests, faults, history>>

\* The user's token has run out and is not renewed, or GitHub refuses.
TokenFails(a) ==
  /\ push[a].pc = "repo" /\ Fault
  /\ push' = [push EXCEPT ![a] = NoPush]
  /\ UNCHANGED <<workspace, cutting, linked, branch, jobs, hosting, requests, history>>

\* The repository is created and its name saved; then comes the backfill.
CreateRepo(a) ==
  /\ push[a].pc = "repo"
  /\ linked' = "repo"
  /\ push' = [push EXCEPT ![a].pc = "list"]
  /\ UNCHANGED <<workspace, cutting, branch, jobs, hosting, requests, faults, history>>

\* Mutant of BackfillOrder: the newest first.
BackfillNewestFirst == Reverse(Unpushed)

BackfillOrder == Unpushed

Backfill(a) ==
  /\ push[a].pc = "list"
  /\ push' = [push EXCEPT ![a] =
       IF Unpushed = <<>> THEN NoPush
       ELSE [NoPush EXCEPT !.pc = "start",
              !.rest = [k \in 1..Len(Unpushed) |-> versions[BackfillOrder[k]].id]]]
  /\ UNCHANGED <<workspace, cutting, linked, branch, jobs, hosting, requests, faults, history>>

\* A slot takes a job from the queue.
TakeJob(q) ==
  /\ q \in Pushers /\ push[q].pc = "idle"
  /\ \E j \in jobs :
       /\ jobs' = jobs \ {j}
       /\ push' = [push EXCEPT ![q] = [NoPush EXCEPT !.pc = "start", !.tries = j.tries,
                                        !.rest = <<j.id>>]]
  /\ UNCHANGED <<workspace, cutting, linked, branch, hosting, requests, faults, history>>

\* Mutant of Following: a backfill ends with its first push.
FollowingNothing(q) == NoPush

\* What a push leaves behind it: the next one of a backfill, or nothing.
Following(q) ==
  IF Len(push[q].rest) > 1 THEN [push[q] EXCEPT !.pc = "start", !.rest = Tail(@)] ELSE NoPush

\* A version that is not committed is skipped, for good; so is one that is pushed.
Skip(q) ==
  LET id == push[q].rest[1] IN
  /\ push[q].pc = "start"
  /\ \/ ~Committed(id) /\ dropped' = dropped \cup {id}
     \/ Committed(id) /\ versions[No(id)].pushed /\ UNCHANGED dropped
  /\ push' = [push EXCEPT ![q] = Following(q)]
  /\ UNCHANGED <<workspace, cutting, linked, branch, jobs, hosting, requests, faults,
                 overlapped, behind, failed, late>>

\* The head of the branch is read.
StartPush(q) ==
  LET id == push[q].rest[1] IN
  /\ push[q].pc = "start" /\ Committed(id) /\ ~versions[No(id)].pushed
  /\ push' = [push EXCEPT ![q].pc = "land", ![q].id = id, ![q].parent = Len(branch.commits)]
  /\ UNCHANGED <<workspace, cutting, linked, branch, jobs, hosting, requests, faults, history>>

Upload(q, commits) ==
  LET n == No(push[q].id) IN
  /\ branch' = [commits |-> Append(commits, [id |-> push[q].id, job |-> q \in Pushers]),
                tree |-> Over(branch.tree, versions[n].manifest)]
  /\ push' = [push EXCEPT ![q].pc = "mark"]
  /\ late' = (late \/ \E k \in 1..Len(commits) :
                        No(commits[k].id) > n /\ (commits[k].job \/ q \in Pushers))

\* Mutant of Land: the reference is forced.
LandForced(q) ==
  /\ push[q].pc = "land"
  /\ Upload(q, SubSeq(branch.commits, 1, push[q].parent))
  /\ UNCHANGED <<workspace, cutting, linked, jobs, hosting, requests, faults,
                 overlapped, behind, failed, dropped>>

\* One commit on top of the head that was read; the branch is moved only forward.
Land(q) ==
  /\ push[q].pc = "land" /\ Len(branch.commits) = push[q].parent
  /\ Upload(q, branch.commits)
  /\ UNCHANGED <<workspace, cutting, linked, jobs, hosting, requests, faults,
                 overlapped, behind, failed, dropped>>

Mark(q) ==
  /\ push[q].pc = "mark"
  /\ versions' = [versions EXCEPT ![No(push[q].id)].pushed = TRUE]
  /\ push' = [push EXCEPT ![q] = Following(q)]
  /\ UNCHANGED <<workspace, files, tx, linked, branch, jobs, hosting, requests, faults, history>>

\* GitHub refuses, or the head has moved.  A job is retried with a delay, at most
\* MaxRetries times; a backfill ends with the request.
PushRaises(q) ==
  /\ push[q].pc = "land"
  /\ \/ Len(branch.commits) # push[q].parent /\ UNCHANGED faults
     \/ Fault
  /\ IF q \in Pushers /\ push[q].tries < MaxRetries
     THEN /\ jobs' = jobs \cup {[id |-> push[q].id, tries |-> push[q].tries + 1]}
          /\ UNCHANGED failed
     ELSE /\ failed' = failed \cup Range(push[q].rest)
          /\ UNCHANGED jobs
  /\ push' = [push EXCEPT ![q] = NoPush]
  /\ UNCHANGED <<workspace, cutting, linked, branch, hosting, requests,
                 overlapped, behind, dropped, late>>

\* A slot is lost, at any point: its job is delivered again.
PusherLost(q) ==
  /\ q \in Pushers /\ push[q].pc # "idle" /\ Fault
  /\ jobs' = jobs \cup {[id |-> push[q].rest[1], tries |-> push[q].tries]}
  /\ push' = [push EXCEPT ![q] = NoPush]
  /\ UNCHANGED <<workspace, cutting, linked, branch, hosting, requests, history>>

-----------------------------------------------------------------------------
(* deploy_project.                                                         *)

\* The newest version is read with its files; without files there is nothing to do.
Deploy(a) ==
  /\ Free(a) /\ requests < MaxRequests /\ versions # <<>>
  /\ Held(Last(versions).manifest) # {}
  /\ requests' = requests + 1
  /\ push' = [push EXCEPT ![a] = [NoPush EXCEPT !.pc = "deploy", !.parent = Len(versions)]]
  /\ overlapped' = (overlapped \/ \E q \in Apis : push[q].pc \in {"deploy", "deployed"})
  /\ UNCHANGED <<workspace, cutting, linked, branch, jobs, site, deployed, faults,
                 behind, failed, dropped, late>>

\* The host takes them.
Ship(a) ==
  /\ push[a].pc = "deploy"
  /\ site' = push[a].parent /\ push' = [push EXCEPT ![a].pc = "deployed"]
  /\ UNCHANGED <<workspace, cutting, linked, branch, jobs, deployed, requests, faults, history>>

\* The host raises: the route commits that the status is error, and nothing else.
ShipFails(a) ==
  /\ push[a].pc = "deploy" /\ Fault
  /\ push' = [push EXCEPT ![a] = NoPush]
  /\ UNCHANGED <<workspace, cutting, linked, branch, jobs, hosting, requests, history>>

\* Mutant of Deployed: the number is read again when the host has answered.
DeployedNewest(a) ==
  /\ push[a].pc = "deployed"
  /\ deployed' = Len(versions)
  /\ push' = [push EXCEPT ![a] = NoPush]
  /\ UNCHANGED <<workspace, cutting, linked, branch, jobs, site, requests, faults, history>>

Deployed(a) ==
  /\ push[a].pc = "deployed"
  /\ deployed' = push[a].parent
  /\ push' = [push EXCEPT ![a] = NoPush]
  /\ UNCHANGED <<workspace, cutting, linked, branch, jobs, site, requests, faults, history>>

-----------------------------------------------------------------------------
(* Specification.                                                          *)

Run(t) == Begin(t) \/ (\E p \in Paths : Write(t, p)) \/ Fail(t) \/ Collect(t)
Cut(t) == ReadFiles(t) \/ FlushFiles(t) \/ ReadManifest(t) \/ Enqueue(t)
Restore(a) ==
  (\E n \in 1..Len(versions) : RestoreDelete(a, n)) \/ RestoreInsert(a) \/ RestoreAnnounce(a)
Finish(x) == Number(x) \/ InsertVersion(x) \/ Commit(x) \/ Abort(x)
Push(q) ==
  TakeJob(q) \/ Skip(q) \/ StartPush(q) \/ Land(q) \/ Mark(q) \/ PushRaises(q) \/ PusherLost(q)

Next ==
  \/ \E t \in Tasks : Run(t) \/ Cut(t)
  \/ \E x \in Cutters : Finish(x)
  \/ \E a \in Apis : Restore(a) \/ RequestRepo(a) \/ TokenFails(a) \/ CreateRepo(a) \/ Backfill(a)
       \/ Deploy(a) \/ Ship(a) \/ ShipFails(a) \/ Deployed(a)
  \/ Connect
  \/ \E q \in Apis \cup Pushers : Push(q)

Spec == Init /\ [][Next]_vars

\* What has begun goes on: transactions, requests and slots that take jobs.
FairSpec ==
  /\ Spec
  /\ \A t \in Tasks : WF_vars(Cut(t))
  /\ \A x \in Cutters : WF_vars(Number(x) \/ InsertVersion(x) \/ Commit(x))
  /\ \A a \in Apis : WF_vars(RestoreInsert(a) \/ RestoreAnnounce(a) \/ CreateRepo(a) \/ Backfill(a))
  /\ \A q \in Apis \cup Pushers : WF_vars(TakeJob(q) \/ Skip(q) \/ StartPush(q) \/ Land(q) \/ Mark(q))

-----------------------------------------------------------------------------
(* Properties.                                                             *)

NoCut == \A x \in Cutters : tx[x].pc \notin Transacting

\* The newest version is the whole project: its manifest is exactly the current
\* files, after any sequence of cuts, failed cuts and restores; unless two were open
\* at once, when each may miss the files of the other.
HeadIsFiles ==
  NoCut /\ ~overlapped
  => files = IF versions = <<>> THEN Empty ELSE Last(versions).manifest

\* No work is forgotten: a file on the disk is in some version or will be collected
\* by the next run, also when the run that wrote it failed; unless it was written
\* between a listing and its cut, or lay uncollected when an old version was restored.
NothingForgotten ==
  \A p \in Held(disk) \ behind :
    \/ versions = <<>> \/ p \in recent
    \/ \E n \in 1..Len(versions) : versions[n].manifest[p] = disk[p]

\* A version that counts as pushed is in the history of the branch, whatever pushes
\* ran at the same time or were repeated.
PushedIsInHistory ==
  \A n \in 1..Len(versions) :
    versions[n].pushed => \E k \in 1..Len(branch.commits) : branch.commits[k].id = versions[n].id

\* Once there is a repository every version is pushed or on its way; unless its job
\* could not be enqueued, ran before the version was committed or used up its retries.
NoneLeftBehind ==
  HasRepo => \A n \in 1..Len(versions) :
               versions[n].pushed \/ Pending(versions[n].id) \/ versions[n].id \in failed \cup dropped

\* When all versions are pushed the repository shows the newest one, as a backfill
\* goes by number; unless a job has put an older one on top of it.
RepoShowsHead ==
  /\ HasRepo /\ versions # <<>> /\ ~late
  /\ \A n \in 1..Len(versions) : versions[n].pushed
  => \A p \in Held(Last(versions).manifest) : branch.tree[p] = Last(versions).manifest[p]

\* deployed_version_no names what the host serves, unless two deployments overlapped.
SiteIsRecorded ==
  (\A a \in Apis : push[a].pc # "deployed") /\ ~overlapped => site = deployed

\* The docstring of github_push (celery_app.py:110-111) leaves a version whose push
\* has finally failed to the next connection or backfill.  No route backfills again
\* once the project has a repository.
BackfillCatchesUp ==
  \A id \in Cuts :
    id \in failed /\ Committed(id) ~> Committed(id) /\ versions[No(id)].pushed
=============================================================================
