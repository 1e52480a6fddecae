--------------------------- MODULE TaskLifecycle ---------------------------
(***************************************************************************)
(* What a user may rely on about the life of tasks, without workers,       *)
(* messages, sessions or the database: the table of transitions, the Stop  *)
(* button, the reaper and the creation of the next task of a chain.        *)
(*                                                                         *)
(* One weakness is part of the promise, because the program has it: a Stop *)
(* is final only when no worker slot holds the task.  A slot that loaded   *)
(* the task before the Stop may still write what it decided on.            *)
(***************************************************************************)
EXTENDS TaskStates

CONSTANTS Tasks, NoTask

VARIABLES
  status,   \* status of each task; "none" before it is created
  stopped,  \* tasks the user has stopped
  held,     \* tasks a worker slot has taken and not let go of
  parent    \* the task whose completion created a task

lvars == <<status, stopped, held, parent>>

LInit ==
  /\ status = [t \in Tasks |-> "none"]
  /\ stopped = {}
  /\ held = {}
  /\ parent = [t \in Tasks |-> NoTask]

\* The statuses a slot that holds t may overwrite with its own outcome.
Yields(t, expected) ==
  \/ status[t] = expected
  \/ status[t] = "failed" /\ t \in stopped

CreateRoot(t) ==
  /\ status[t] = "none"
  /\ status' = [status EXCEPT ![t] = "queued"]
  /\ UNCHANGED <<stopped, held, parent>>

\* A slot takes a queued task.
Take(t) ==
  /\ status[t] = "queued"
  /\ t \notin held
  /\ held' = held \cup {t}
  /\ UNCHANGED <<status, stopped, parent>>

\* A slot lets go of a task without an outcome: gate closed, stopped, crashed.
LetGo(t) ==
  /\ t \in held
  /\ held' = held \ {t}
  /\ UNCHANGED <<status, stopped, parent>>

Start(t) ==
  /\ t \in held
  /\ Yields(t, "queued")
  /\ status' = [status EXCEPT ![t] = "working"]
  /\ UNCHANGED <<stopped, held, parent>>

\* A run ends other than well; the slot is free again.
End(t, s) ==
  /\ t \in held
  /\ Yields(t, "working")
  /\ s \in Waiting \cup {"failed"}
  /\ status' = [status EXCEPT ![t] = s]
  /\ held' = held \ {t}
  /\ UNCHANGED <<stopped, parent>>

\* The completion of t creates the task k, or none.
Child(t, k, base) ==
  \/ k = NoTask /\ status' = base /\ UNCHANGED parent
  \/ /\ k \in Tasks /\ status[k] = "none"
     /\ status' = [base EXCEPT ![k] = "queued"]
     /\ parent' = [parent EXCEPT ![k] = t]

\* A run of a text team ends well: the next task exists in the same instant.
Complete(t, k) ==
  /\ t \in held
  /\ Yields(t, "working")
  /\ Child(t, k, [status EXCEPT ![t] = "done"])
  /\ held' = held \ {t}
  /\ UNCHANGED stopped

\* A run of a coding team ends well first and creates the next task later.
Collect(t) ==
  /\ t \in held
  /\ Yields(t, "working")
  /\ status' = [status EXCEPT ![t] = "done"]
  /\ UNCHANGED <<stopped, held, parent>>

HandOver(t, k) ==
  /\ t \in held
  /\ status[t] = "done"
  /\ Child(t, k, status)
  /\ held' = held \ {t}
  /\ UNCHANGED stopped

\* The reaper gives up on working tasks that no slot holds.
Reap(S) ==
  /\ S # {}
  /\ \A t \in S : t \notin held /\ Yields(t, "working")
  /\ status' = [t \in Tasks |-> IF t \in S THEN "failed" ELSE status[t]]
  /\ UNCHANGED <<stopped, held, parent>>

ContinueTask(t) ==
  /\ status[t] \in Waiting
  /\ status' = [status EXCEPT ![t] = "queued"]
  /\ UNCHANGED <<stopped, held, parent>>

StopTask(t) ==
  /\ status[t] \in Active
  /\ status' = [status EXCEPT ![t] = "failed"]
  /\ stopped' = stopped \cup {t}
  /\ UNCHANGED <<held, parent>>

LNext ==
  \/ \E t \in Tasks :
       \/ CreateRoot(t) \/ Take(t) \/ LetGo(t) \/ Start(t) \/ Collect(t)
       \/ ContinueTask(t) \/ StopTask(t)
       \/ \E s \in Statuses : End(t, s)
       \/ \E k \in Tasks \cup {NoTask} : Complete(t, k) \/ HandOver(t, k)
  \/ \E S \in SUBSET Tasks : Reap(S)

LSpec == LInit /\ [][LNext]_lvars
=============================================================================
