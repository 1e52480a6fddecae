---------------------------- MODULE ManagedAgent ----------------------------
(***************************************************************************)
(* Coding tasks on managed agents (cma_engine.py, cma.py), the engine a    *)
(* development team has by default.  The provider keeps an environment for *)
(* everybody, a memory store per project, and an agent and a session per   *)
(* agent; each is created when a run first needs it and its id recorded in *)
(* a row.  A session outlives the task: the next one is another message in *)
(* it, and whoever reads its events reads all of them.  The loop runs at   *)
(* the provider; the worker sends the message and asks again and again     *)
(* whether the session has come to rest.                                   *)
(*                                                                         *)
(* What a message says is left out, except whether some answer in the      *)
(* session has been a question; so are the files, which become a version   *)
(* in Versions.  The request that creates a resource and the commit that   *)
(* records it are one step: a run that reads the row in between is one     *)
(* that read it before.  A task is dispatched when no other task of its    *)
(* agent works; that this gate is not locked is TaskRunner's.              *)
(***************************************************************************)
EXTENDS Naturals, Sequences, FiniteSetsExt

CONSTANTS
  Workers,   \* worker processes
  Agents,    \* development agents of one project
  Tasks,     \* their tasks
  AgentOf,   \* AgentOf[t]: the agent of task t
  MaxMade,   \* bound: stores of the project, and sessions of each agent
  MaxRuns,   \* bound: runs begun
  MaxWrong,  \* bound: requests that fail, sessions that die, lost processes
  None

ASSUME ManagedAssumption ==
  /\ AgentOf \in [Tasks -> Agents]
  /\ {MaxMade, MaxRuns, MaxWrong} \subseteq Nat
  /\ None \notin Agents

VARIABLES
  recorded,  \* recorded[r]: the id of resource r in its row; 0 is none
  stores,    \* memory stores the provider has created for the project
  session,   \* session[<<a, n>>]: the n-th session of agent a
  status,    \* status[t], with "stopped" for a task the user has stopped
  run,       \* run[w]: what worker w is doing
  runs, bad, \* runs begun, faults
  raced,     \* history: a run began while another was looking for the memory store
  left,      \* history: running sessions that no run waits for any more
  inherited  \* history: a task nobody had stopped failed without a failure of its own
             \* run, which had not begun beside another run of its agent

mvars == <<recorded, stores, session, status, run, runs, bad, raced, left, inherited>>
past == <<raced, left, inherited>>

-----------------------------------------------------------------------------
(* Resources, sessions and runs.                                           *)

\* The order in which a run makes sure of them.
Kinds == <<"environment", "store", "agent", "session">>

\* Environment and store have no agent.
Resource(kind, a) == IF kind \in {"environment", "store"} THEN <<kind, None>> ELSE <<kind, a>>
Resources == {Resource(Kinds[k], a) : k \in DOMAIN Kinds, a \in Agents}
Store == Resource("store", None)
SessionOf(a) == Resource("session", a)

Unborn == [state |-> "unborn", store |-> 0, asked |-> FALSE]

NoRun == [pc |-> "idle", task |-> None, seen |-> [k \in DOMAIN Kinds |-> 0],
          retried |-> FALSE, outcome |-> None, hurt |-> FALSE, beside |-> FALSE]

Owner(w) == AgentOf[run[w].task]

\* The session the run talks to.
Sid(w) == <<Owner(w), run[w].seen[4]>>

InitManaged ==
  /\ recorded = [r \in Resources |-> 0] /\ stores = 0
  /\ session = [s \in Agents \X (1..MaxMade) |-> Unborn]
  /\ status = [t \in Tasks |-> "queued"]
  /\ run = [w \in Workers |-> NoRun]
  /\ runs = 0 /\ bad = 0
  /\ raced = FALSE /\ left = {} /\ inherited = FALSE

In(w, pc) == run[w].pc = pc
Move(w, pc) == run' = [run EXCEPT ![w].pc = pc]
Wrong == bad < MaxWrong /\ bad' = bad + 1

\* The run fails for a reason of its own.
Fail(w) == run' = [run EXCEPT ![w].pc = "end", ![w].outcome = "failed", ![w].hurt = TRUE]

-----------------------------------------------------------------------------
(* A run makes sure of its resources.                                      *)

Missing(w) == {k \in DOMAIN Kinds : run[w].seen[k] = 0}

\* The row of the agent is loaded, with those of the project and the configuration.
BeginManaged(w, t) ==
  LET others == {v \in Workers \ {w} : ~In(v, "idle")} IN
  /\ In(w, "idle") /\ status[t] = "queued" /\ runs < MaxRuns
  /\ \A u \in Tasks : AgentOf[u] = AgentOf[t] => status[u] # "working"
  /\ status' = [status EXCEPT ![t] = "working"]
  /\ runs' = runs + 1
  /\ run' = [run EXCEPT ![w] = [NoRun EXCEPT
               !.pc = "ensure", !.task = t,
               !.seen = [k \in DOMAIN Kinds |-> recorded[Resource(Kinds[k], AgentOf[t])]],
               !.beside = \E v \in others : Owner(v) = AgentOf[t]]]
  /\ raced' = (raced \/ \E v \in others : recorded[Store] = 0 /\ run[v].seen[2] = 0)
  /\ UNCHANGED <<recorded, stores, session, bad, left, inherited>>

Ready(w) == In(w, "ensure") /\ Missing(w) = {}

\* Which environment and which agent it is makes no difference here.
EnsureOther(w) ==
  LET k == Min(Missing(w)) IN
  /\ In(w, "ensure") /\ Missing(w) # {} /\ k \in {1, 3}
  /\ recorded' = [recorded EXCEPT ![Resource(Kinds[k], Owner(w))] = 1]
  /\ run' = [run EXCEPT ![w].seen[k] = 1]
  /\ UNCHANGED <<stores, session, status, runs, bad, past>>

\* Mutant of EnsureStore: the id is used, but not saved.
EnsureStoreUnsaved(w) ==
  /\ In(w, "ensure") /\ Missing(w) # {} /\ Min(Missing(w)) = 2 /\ stores < MaxMade
  /\ stores' = stores + 1
  /\ run' = [run EXCEPT ![w].seen[2] = stores + 1]
  /\ UNCHANGED <<recorded, session, status, runs, bad, past>>

\* The row takes the id of the new store whatever it says by now.
EnsureStore(w) ==
  /\ In(w, "ensure") /\ Missing(w) # {} /\ Min(Missing(w)) = 2 /\ stores < MaxMade
  /\ stores' = stores + 1
  /\ recorded' = [recorded EXCEPT ![Store] = stores + 1]
  /\ run' = [run EXCEPT ![w].seen[2] = stores + 1]
  /\ UNCHANGED <<session, status, runs, bad, past>>

\* A session is created with the store this run has found.
EnsureSession(w) ==
  LET a == Owner(w)
      unborn == {n \in 1..MaxMade : session[<<a, n>>].state = "unborn"} IN
  /\ In(w, "ensure") /\ Missing(w) = {4} /\ unborn # {}
  /\ session' = [session EXCEPT ![<<a, Min(unborn)>>] =
                   [Unborn EXCEPT !.state = "idle", !.store = run[w].seen[2]]]
  /\ recorded' = [recorded EXCEPT ![SessionOf(a)] = Min(unborn)]
  /\ run' = [run EXCEPT ![w].seen[4] = Min(unborn)]
  /\ UNCHANGED <<stores, status, runs, bad, past>>

EnsureFails(w) ==
  /\ In(w, "ensure") /\ Missing(w) # {} /\ Wrong
  /\ Fail(w)
  /\ UNCHANGED <<recorded, stores, session, status, runs, past>>

-----------------------------------------------------------------------------
(* The message, and the wait for the answer.                               *)

\* The session works on the message; one that is still at work takes it in turn.
Send(w) ==
  /\ Ready(w) /\ session[Sid(w)].state \in {"idle", "running"}
  /\ session' = [session EXCEPT ![Sid(w)].state = "running"]
  /\ left' = left \ {Sid(w)}
  /\ Move(w, "poll")
  /\ UNCHANGED <<recorded, stores, status, runs, bad, raced, inherited>>

\* Mutant of Retry: a session that refuses the message is not replaced.
RetryNever(r) == [r EXCEPT !.pc = "end", !.outcome = "failed"]

\* The run after a refused message: once more, with a new session.
Retry(r) ==
  IF r.retried THEN [r EXCEPT !.pc = "end", !.outcome = "failed"]
  ELSE [r EXCEPT !.pc = "ensure", !.seen[4] = 0, !.retried = TRUE]

\* The session is dead, or the request fails; the first time its id is taken out of the
\* row.  The session of the second time the run has made itself.
SendFails(w) ==
  /\ Ready(w)
  /\ \/ session[Sid(w)].state \in {"terminated", "deleted"} /\ UNCHANGED bad
     \/ Wrong
  /\ recorded' = IF run[w].retried THEN recorded ELSE [recorded EXCEPT ![SessionOf(Owner(w))] = 0]
  /\ run' = [run EXCEPT ![w] = Retry([run[w] EXCEPT !.hurt =
               \/ run[w].hurt \/ bad' # bad
               \/ run[w].retried /\ session[Sid(w)].state = "terminated"])]
  /\ UNCHANGED <<stores, session, status, runs, past>>

Reads(w) == In(w, "poll") /\ session[Sid(w)].state # "deleted"

\* The flag of the task is asked for after the events were read and before they count.
PollStopped(w) ==
  /\ Reads(w) /\ status[run[w].task] = "stopped"
  /\ Move(w, "delete")
  /\ UNCHANGED <<recorded, stores, session, status, runs, bad, past>>

\* Not stopped, or the database does not answer, which counts the same.
GoesOn(w) ==
  \/ status[run[w].task] # "stopped" /\ UNCHANGED bad
  \/ Wrong

\* At rest: a question anywhere in the session makes it needs-input, done otherwise.
PollIdle(w) ==
  /\ Reads(w) /\ GoesOn(w) /\ session[Sid(w)].state = "idle"
  /\ run' = [run EXCEPT ![w].pc = "end",
                        ![w].outcome = IF session[Sid(w)].asked THEN "needs-input" ELSE "done"]
  /\ UNCHANGED <<recorded, stores, session, status, runs, past>>

\* Nobody waits for what is still running.
Leaves(w) ==
  left' = IF session[Sid(w)].state = "running"
             /\ ~ \E v \in Workers \ {w} : In(v, "poll") /\ Sid(v) = Sid(w)
          THEN left \cup {Sid(w)} ELSE left

\* The session has died, has made MAX_MODEL_REQUESTS calls of the model in its
\* life, or the time is over.
GivesUp(w) ==
  /\ Reads(w) /\ GoesOn(w)
  /\ session[Sid(w)].state \in {"terminated", "running"}
  /\ Fail(w) /\ Leaves(w)
  /\ UNCHANGED <<recorded, stores, session, status, runs, raced, inherited>>

\* The events cannot be read, for once or because the session is gone.
PollFails(w) ==
  /\ In(w, "poll")
  /\ \/ Wrong /\ Fail(w)
     \/ /\ session[Sid(w)].state = "deleted" /\ UNCHANGED bad
        /\ run' = [run EXCEPT ![w].pc = "end", ![w].outcome = "failed"]
  /\ Leaves(w)
  /\ UNCHANGED <<recorded, stores, session, status, runs, raced, inherited>>

\* A stop between the last look and the commit is overwritten, or is noticed and the
\* run dies of the transition, whichever the database session has loaded.
End(w) ==
  LET t == run[w].task IN
  /\ In(w, "end")
  /\ \/ status' = [status EXCEPT ![t] = run[w].outcome]
     \/ status[t] = "stopped" /\ UNCHANGED status
  /\ inherited' = (inherited \/ (/\ run[w].outcome = "failed" /\ status[t] # "stopped"
                                 /\ ~run[w].hurt /\ ~run[w].beside))
  /\ run' = [run EXCEPT ![w] = NoRun]
  /\ UNCHANGED <<recorded, stores, session, runs, bad, raced, left>>

-----------------------------------------------------------------------------
(* A stopped run winds up: the session, then the row.                      *)

\* Mutant of Deleted: the session is forgotten, but goes on.
DeletedNot(s) == session' = session

\* So that the loop at the provider ends, and its bill.
Deleted(s) == session' = [session EXCEPT ![s].state = "deleted"]

\* A failure to delete is ignored.
DeleteSession(w) ==
  /\ In(w, "delete")
  /\ \/ Deleted(Sid(w)) /\ left' = left \ {Sid(w)} /\ UNCHANGED bad
     \/ Wrong /\ Leaves(w) /\ UNCHANGED session
  /\ Move(w, "clear")
  /\ UNCHANGED <<recorded, stores, status, runs, raced, inherited>>

\* The next task begins a new session.
ClearSession(w) ==
  /\ In(w, "clear")
  /\ recorded' = [recorded EXCEPT ![SessionOf(Owner(w))] = 0]
  /\ run' = [run EXCEPT ![w] = NoRun]
  /\ UNCHANGED <<stores, session, status, runs, bad, past>>

-----------------------------------------------------------------------------
(* The provider, the user, and what goes wrong.                            *)

Rest(s) ==
  /\ session[s].state = "running"
  /\ \E asks \in BOOLEAN :
       session' = [session EXCEPT ![s].state = "idle", ![s].asked = @ \/ asks]
  /\ left' = left \ {s}
  /\ UNCHANGED <<recorded, stores, status, run, runs, bad, raced, inherited>>

Dies(s) ==
  /\ session[s].state \in {"idle", "running"} /\ Wrong
  /\ session' = [session EXCEPT ![s].state = "terminated"]
  /\ left' = left \ {s}
  /\ UNCHANGED <<recorded, stores, status, run, runs, raced, inherited>>

\* An answer to a task that waits.
ContinueManaged(t) ==
  /\ status[t] = "needs-input"
  /\ status' = [status EXCEPT ![t] = "queued"]
  /\ UNCHANGED <<recorded, stores, session, run, runs, bad, past>>

StopManaged(t) ==
  /\ status[t] = "working"
  /\ status' = [status EXCEPT ![t] = "stopped"]
  /\ UNCHANGED <<recorded, stores, session, run, runs, bad, past>>

\* The worker dies; the reaper fails its task.
WorkerDies(w) ==
  /\ ~In(w, "idle") /\ Wrong
  /\ status' = [status EXCEPT ![run[w].task] = IF @ = "working" THEN "failed" ELSE @]
  /\ IF run[w].seen[4] = 0 THEN UNCHANGED left ELSE Leaves(w)
  /\ run' = [run EXCEPT ![w] = NoRun]
  /\ UNCHANGED <<recorded, stores, session, runs, raced, inherited>>

RunManaged(w) ==
  \/ EnsureOther(w) \/ EnsureStore(w) \/ EnsureSession(w) \/ EnsureFails(w)
  \/ Send(w) \/ SendFails(w)
  \/ PollStopped(w) \/ PollIdle(w) \/ GivesUp(w) \/ PollFails(w) \/ End(w)
  \/ DeleteSession(w) \/ ClearSession(w)

NextManaged ==
  \/ \E w \in Workers, t \in Tasks : BeginManaged(w, t)
  \/ \E w \in Workers : RunManaged(w) \/ WorkerDies(w)
  \/ \E s \in DOMAIN session : Rest(s) \/ Dies(s)
  \/ \E t \in Tasks : ContinueManaged(t) \/ StopManaged(t)

-----------------------------------------------------------------------------
(* Properties.                                                             *)

\* The agents of a project share one memory: every session in use is attached to the
\* store the project has recorded, unless two runs looked for it at once.
OneMemory ==
  ~raced => \A a \in Agents :
    LET n == recorded[SessionOf(a)] IN n # 0 => session[<<a, n>>].store = recorded[Store]

\* A stopped run ends the loop at the provider: whatever still works there has a run
\* waiting for it or about to delete it; unless a request failed, a process died, or
\* a run gave the session up at its time or turn limit, which only stops asking.
StopEndsLoop ==
  \A s \in DOMAIN session : session[s].state = "running" /\ s \notin left
    => \E w \in Workers : run[w].pc \in {"poll", "delete"} /\ Sid(w) = s

\* A run nobody stops fails only of what it meets itself, never of what an earlier one
\* has left: a session that has died or was deleted is replaced; unless it began while
\* a stopped run of its agent was still winding up, which deletes the session under it.
FailsByItself == ~inherited
=============================================================================
