----------------------------- MODULE DevRunner -----------------------------
(***************************************************************************)
(* The tool loop of one coding task (run_dev_task in dev_runner.py): it    *)
(* calls the model, carries out the tools the model asks for, and calls    *)
(* again, within a step cap, a token budget and a time budget.  The        *)
(* conversation grows with every step; once a prompt was too long, the     *)
(* middle of it is replaced by a summary.  The user may stop the task at   *)
(* any time, through another process; the loop looks at each step.         *)
(*                                                                         *)
(* What a message says is left out: a message is its role and its place in *)
(* the conversation.  A summary stands for all it was made from.           *)
(***************************************************************************)
EXTENDS Integers, Sequences, FiniteSetsExt

CONSTANTS
  StepCap,     \* HARD_STEP_CAP
  TokenBudget, \* token_budget; 0 is no budget
  Retries,     \* _LLM_RETRIES
  Fan,         \* numbers of tools the model may ask for in one answer
  Spend,       \* tokens a call of the model may cost
  MaxFaults    \* bound: failures of the model, of the tools and of the stop check

ASSUME DevRunnerAssumption ==
  /\ {StepCap, TokenBudget, Retries, MaxFaults} \subseteq Nat
  /\ Fan \subseteq Nat \ {0} /\ Spend \subseteq Nat

HEAD == 2        \* the messages compaction keeps: the rules and the task
TAIL == 8        \* the messages it keeps at the end
MinMiddle == 4   \* the fewest it replaces

VARIABLES
  pc,        \* where the loop is
  messages,  \* the conversation sent to the model
  step, attempt,
  tokens,    \* tokens_in + tokens_out
  long,      \* last_ctx > compact_threshold
  todo,      \* tools of the current answer not yet carried out
  stopped,   \* the stopped column of the task, as committed
  faults,
  said,      \* history: messages the loop has added
  begun,     \* history: calls begun since the stop
  missed     \* history: stop checks since the stop that failed

loop == <<pc, step, attempt, todo>>
vars == <<loop, messages, tokens, long, stopped, faults, said, begun, missed>>

-----------------------------------------------------------------------------
(* The conversation.                                                       *)

\* at: the place of the message among those the loop added, calls: the tools
\* an assistant message asks for.  A summary is at the last place it covers.
Message(role, at, calls) == [role |-> role, at |-> at, calls |-> calls]

Opening == <<Message("system", 0, 0), Message("user", 0, 0)>>

\* Mutant of TailStart: the tail may start inside the answers to a message.
TailAnywhere(ms) == Len(ms) - TAIL

\* The messages before the tail.  An answer stays with the message that asked
\* for it: the tail starts at a message that is not a tool's.
TailStart(ms) ==
  Max({HEAD} \cup {k \in HEAD..(Len(ms) - TAIL) : ms[k + 1].role # "tool"})

\* Mutant of Summarised: the slice starts one message late and leaves a message
\* of the middle in front of the summary.
SummarisedLate(ms) ==
  SubSeq(ms, 1, HEAD + 1) \o <<Message("summary", ms[TailStart(ms)].at, 0)>>
    \o SubSeq(ms, TailStart(ms) + 1, Len(ms))

Summarised(ms) ==
  SubSeq(ms, 1, HEAD) \o <<Message("summary", ms[TailStart(ms)].at, 0)>>
    \o SubSeq(ms, TailStart(ms) + 1, Len(ms))

Compactable(ms) ==
  /\ Len(ms) > HEAD + TAIL + 4
  /\ TailStart(ms) - HEAD >= MinMiddle

-----------------------------------------------------------------------------
(* One step of the loop.                                                   *)

Init ==
  /\ pc = "top" /\ step = 0 /\ attempt = 0 /\ todo = 0
  /\ messages = Opening
  /\ tokens = 0 /\ long = FALSE
  /\ stopped = FALSE /\ faults = 0
  /\ said = 0 /\ begun = 0 /\ missed = 0

Goto(next) == pc' = next
Fault == faults < MaxFaults /\ faults' = faults + 1

OverCap(n) == n > StepCap
OverBudget == TokenBudget > 0 /\ tokens >= TokenBudget

\* The budgets end the run as needs-input: the user may have it go on.
Top ==
  /\ pc = "top"
  /\ step' = step + 1
  /\ Goto(IF OverCap(step') \/ OverBudget THEN "ended"
          ELSE IF long THEN "compact" ELSE "check")
  /\ UNCHANGED <<messages, attempt, todo, tokens, long, stopped, faults, said, begun, missed>>

\* The model summarises the middle.  A conversation too short for it costs nothing.
Compact ==
  /\ pc = "compact"
  /\ IF Compactable(messages)
     THEN \E cost \in Spend : messages' = Summarised(messages) /\ tokens' = tokens + cost
     ELSE UNCHANGED <<messages, tokens>>
  /\ long' = FALSE
  /\ Goto("check")
  /\ UNCHANGED <<step, attempt, todo, stopped, faults, said, begun, missed>>

\* The model fails, or answers with nothing: the conversation stays as it is.
CompactFails ==
  /\ pc = "compact" /\ Compactable(messages)
  /\ Fault
  /\ long' = FALSE
  /\ Goto("check")
  /\ UNCHANGED <<messages, step, attempt, todo, tokens, stopped, said, begun, missed>>

\* Mutant of SeesStop: the stop is looked up once, before the first step.
SeesStopOnce == stopped /\ step = 1

SeesStop == stopped

\* should_stop, and then the time budget.
CheckStop ==
  /\ pc = "check"
  /\ \/ SeesStop /\ Goto("ended")
     \/ ~SeesStop /\ pc' \in {"call", "ended"}
  /\ attempt' = 0
  /\ UNCHANGED <<messages, step, todo, tokens, long, stopped, faults, said, begun, missed>>

\* The database does not answer: the run goes on as if nobody had stopped it.
CheckFails ==
  /\ pc = "check"
  /\ Fault
  /\ missed' = IF stopped THEN missed + 1 ELSE missed
  /\ pc' \in {"call", "ended"}
  /\ attempt' = 0
  /\ UNCHANGED <<messages, step, todo, tokens, long, stopped, said, begun>>

Began == begun' = IF stopped /\ attempt = 0 THEN begun + 1 ELSE begun

\* The calls that are left of n: an answer cut off at its limit loses the last one,
\* and one that is left with none counts as a failed call.
Complete(n) == {n, n - 1} \ {0}

\* The model asks for tools.
AsksForTools ==
  /\ pc = "call"
  /\ \E n \in UNION {Complete(f) : f \in Fan} :
       /\ messages' = Append(messages, Message("assistant", said + 1, n))
       /\ todo' = n
  /\ said' = said + 1
  /\ Began
  /\ \E cost \in Spend : tokens' = tokens + cost
  /\ long' \in BOOLEAN
  /\ Goto("tools")
  /\ UNCHANGED <<step, attempt, stopped, faults, missed>>

\* The model answers: done, or needs-input when the answer is a question.
Answers ==
  /\ pc = "call"
  /\ Began
  /\ \E cost \in Spend : tokens' = tokens + cost
  /\ Goto("ended")
  /\ UNCHANGED <<messages, step, attempt, todo, long, stopped, faults, said, missed>>

\* A call fails: it is tried again after a pause, at last the run is failed.
CallFails ==
  /\ pc = "call"
  /\ Fault
  /\ Began
  /\ attempt' = attempt + 1
  /\ Goto(IF attempt' > Retries THEN "ended" ELSE "call")
  /\ UNCHANGED <<messages, step, todo, tokens, long, stopped, said, missed>>

\* _exec_tool or update_plan.  What a command, a missing file or a bad edit
\* reports is an answer like another.
Tool ==
  /\ pc = "tools" /\ todo > 0
  /\ messages' = Append(messages, Message("tool", said + 1, 0))
  /\ said' = said + 1
  /\ todo' = todo - 1
  /\ Goto(IF todo' = 0 THEN "top" ELSE "tools")
  /\ UNCHANGED <<step, attempt, tokens, long, stopped, faults, begun, missed>>

\* The sandbox fails under a tool (only a timeout and a failed read are
\* answers): the exception leaves the loop.
ToolRaises ==
  /\ pc = "tools"
  /\ Fault
  /\ Goto("raised")
  /\ UNCHANGED <<messages, step, attempt, todo, tokens, long, stopped, said, begun, missed>>

\* The user stops the task: the route commits it in a session of its own.
Stop ==
  /\ ~stopped /\ pc \notin {"ended", "raised"}
  /\ stopped' = TRUE
  /\ UNCHANGED <<loop, messages, tokens, long, faults, said, begun, missed>>

Run ==
  \/ Top \/ Compact \/ CompactFails \/ CheckStop \/ CheckFails
  \/ AsksForTools \/ Answers \/ CallFails \/ Tool \/ ToolRaises

Next == Run \/ Stop

Spec == Init /\ [][Next]_vars

-----------------------------------------------------------------------------
(* Properties.                                                             *)

Places == 0..said

\* Types; no step is counted beyond the one that meets the cap, and no call or
\* check is put down to a stop that has not come.
TypeOK ==
  /\ pc \in {"top", "compact", "check", "call", "tools", "ended", "raised"}
  /\ messages \in Seq([role : {"system", "user", "summary", "assistant", "tool"},
                       at : Places, calls : Nat])
  /\ step \in 0..(StepCap + 1) /\ attempt \in 0..(Retries + 1) /\ todo \in Nat
  /\ tokens \in Nat /\ faults \in Nat /\ said \in Nat
  /\ begun \in Nat /\ missed \in Nat
  /\ long \in BOOLEAN /\ stopped \in BOOLEAN
  /\ ~stopped => begun = 0 /\ missed = 0

\* Whenever the model is called, the conversation is one it accepts: right after
\* a message that asks for tools come the answers to all its calls, and there is
\* no answer to anything else (dev_runner.py:266-267).  A cut through the
\* middle of the answers would have the model refuse the run for good.
AnswersTo(k) == {i \in 1..messages[k].calls : k + i <= Len(messages)
                                              /\ messages[k + i].role = "tool"}
Asked == {k \in DOMAIN messages : messages[k].role = "assistant"}
Paired ==
  pc = "call" =>
    /\ \A k \in Asked : AnswersTo(k) = 1..messages[k].calls
    /\ \A j \in DOMAIN messages : messages[j].role = "tool" =>
         \E k \in Asked : j \in (k + 1)..(k + messages[k].calls)

\* Nothing the run has said is lost, told twice or told out of order, however often
\* the conversation was compacted: after the rules and the task come at most one
\* summary and then every message since, and the newest TAIL are always there.
Remembered ==
  LET body == SubSeq(messages, HEAD + 1, Len(messages))
      covered == IF body # <<>> /\ body[1].role = "summary" THEN body[1].at ELSE 0
      rest == IF covered > 0 THEN Tail(body) ELSE body
  IN /\ SubSeq(messages, 1, HEAD) = Opening
     /\ [i \in DOMAIN rest |-> rest[i].at] = [i \in 1..(said - covered) |-> covered + i]
     /\ covered > 0 => Len(rest) >= TAIL

\* A stop is obeyed at the next step: after it at most the call that was already
\* decided on is made, and one for every check the database did not answer
\* (dev_runner.py:381-383 reports runs that went on for minutes).
StopObeyed == begun <= missed + 1
=============================================================================
