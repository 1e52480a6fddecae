----------------------------- MODULE TaskStates -----------------------------
(***************************************************************************)
(* The task machine of services/task_service.py: the statuses a task row   *)
(* can hold and the table of transitions a status write has to respect.    *)
(* "idle" is derived by the API and never stored.                          *)
(***************************************************************************)

Statuses == {"queued", "working", "blocked", "needs-input", "done", "failed"}

\* Statuses in which the task waits for an answer of the user.
Waiting == {"blocked", "needs-input"}

Terminal == {"done", "failed"}

Active == Statuses \ Terminal

\* _LEGAL, as the set of <<old, new>> pairs.
Legal ==
  ({"queued"} \X {"working", "failed"})
    \cup ({"working"} \X (Terminal \cup Waiting))
    \cup (Waiting \X {"queued"})

IsLegal(old, new) == <<old, new>> \in Legal
=============================================================================
