---------------------------- MODULE EnginesProofs ----------------------------
(***************************************************************************)
(* Proofs about the two engines of a coding task: the tool loop of our     *)
(* own, for every step cap, budget and number of retries, and the managed  *)
(* agents, for every set of workers, agents and tasks.                     *)
(***************************************************************************)
EXTENDS Engines, SequenceTheorems, WellFoundedInduction, TLAPS

Messages(n) == [role : {"system", "user", "summary", "assistant", "tool"},
                at : 0..n, calls : Nat]

\* A non-empty set of natural numbers below a bound has its maximum in it.
LEMMA MaxInSet ==
  ASSUME NEW n \in Nat, NEW S, S \subseteq 0..n, S # {}
  PROVE  Max(S) \in S
<1>. DEFINE T == {n - k : k \in S}
<1>1. T \subseteq Nat /\ T # {}
  <2>1. \A k \in S : k \in 0..n /\ n - k \in Nat
    OBVIOUS
  <2>. QED  BY <2>1
<1>2. PICK x \in T : \A y \in T : <<y, x>> \notin OpToRel(<, Nat)
  <2>. HIDE DEF T
  <2>. QED  BY <1>1, NatLessThanWellFounded, WFMin
<1>3. \A y \in T : ~(y < x)
  BY <1>1, <1>2 DEF OpToRel
<1>4. PICK k \in S : x = n - k
  BY <1>2
<1>5. \A j \in S : k >= j
  BY <1>3, <1>4
<1>. QED  BY <1>5 DEF Max

\* The tail starts after the messages that are kept and leaves TAIL of them.
LEMMA TailStartInside ==
  ASSUME NEW M, NEW ms \in Seq(M), Compactable(ms)
  PROVE  TailStart(ms) \in HEAD..(Len(ms) - TAIL)
<1>. DEFINE S == {HEAD} \cup {k \in HEAD..(Len(ms) - TAIL) : ms[k + 1].role # "tool"}
<1>1. Len(ms) \in Nat /\ S \subseteq HEAD..(Len(ms) - TAIL) /\ S # {}
  BY DEF Compactable, HEAD, TAIL
<1>2. S \subseteq 0..Len(ms)
  BY <1>1 DEF HEAD, TAIL
<1>3. Max(S) \in S
  <2>. HIDE DEF S
  <2>. QED  BY <1>1, <1>2, MaxInSet
<1>. QED  BY <1>1, <1>3 DEF TailStart

LEMMA SummarisedType ==
  ASSUME NEW n \in Nat, NEW ms \in Seq(Messages(n)), Compactable(ms)
  PROVE  Summarised(ms) \in Seq(Messages(n))
<1>1. TailStart(ms) \in HEAD..(Len(ms) - TAIL) /\ Len(ms) \in Nat
  BY TailStartInside
<1>2. TailStart(ms) \in 1..Len(ms) /\ TailStart(ms) + 1 \in 1..Len(ms)
  BY <1>1 DEF HEAD, TAIL
<1>3. ms[TailStart(ms)] \in Messages(n)
  BY <1>2
<1>4. Message("summary", ms[TailStart(ms)].at, 0) \in Messages(n)
  BY <1>3 DEF Message, Messages
<1>5. <<Message("summary", ms[TailStart(ms)].at, 0)>> \in Seq(Messages(n))
  BY <1>4
<1>6. SubSeq(ms, 1, HEAD) \in Seq(Messages(n))
  BY <1>1 DEF HEAD, TAIL
<1>7. SubSeq(ms, TailStart(ms) + 1, Len(ms)) \in Seq(Messages(n))
  BY <1>1, <1>2
<1>. QED  BY <1>5, <1>6, <1>7 DEF Summarised

LEMMA Widens ==
  ASSUME NEW n \in Nat, NEW ms \in Seq(Messages(n)), NEW m \in Messages(n + 1)
  PROVE  Append(ms, m) \in Seq(Messages(n + 1))
<1>1. Messages(n) \subseteq Messages(n + 1)
  BY DEF Messages
<1>2. ms \in Seq(Messages(n + 1))
  BY <1>1
<1>. QED  BY <1>2

-----------------------------------------------------------------------------
(* Types.                                                                  *)

\* A loop that is not over is within its cap and its retries.
Within == pc \notin {"ended", "raised"} => step <= StepCap /\ attempt <= Retries

LoopOK == TypeOK /\ Within

LEMMA InitTypes == Init => LoopOK
<1>. SUFFICES ASSUME Init PROVE LoopOK
  OBVIOUS
<1>1. StepCap \in Nat /\ Retries \in Nat
  BY DevRunnerAssumption
<1>2. Opening \in Seq(Messages(0))
  BY DEF Opening, Message, Messages
<1>3. messages \in Seq(Messages(said))
  BY <1>2 DEF Init
<1>4. step \in 0..(StepCap + 1) /\ attempt \in 0..(Retries + 1)
  BY <1>1 DEF Init
<1>5. long \in BOOLEAN /\ stopped \in BOOLEAN
  BY DEF Init
<1>6. TypeOK
  BY <1>3, <1>4, <1>5 DEF Init, TypeOK, Places, Messages
<1>7. Within
  BY <1>1 DEF Init, Within
<1>. QED  BY <1>6, <1>7 DEF LoopOK

LEMMA TypeStep == LoopOK /\ [Next]_vars => LoopOK'
<1>. SUFFICES ASSUME LoopOK, [Next]_vars PROVE LoopOK'
  OBVIOUS
<1>. USE DevRunnerAssumption DEF LoopOK, Within
<1>1. messages \in Seq(Messages(said)) /\ said \in Nat
  BY DEF TypeOK, Places, Messages
<1>2. \A cost \in Spend : tokens + cost \in Nat
  BY DEF TypeOK
<1>3. CASE Top
  BY <1>3 DEF Top, Goto, TypeOK, Places, OverCap
<1>4. CASE Compact
  <2>1. messages' \in Seq(Messages(said)) /\ tokens' \in Nat
    BY <1>1, <1>2, <1>4, SummarisedType DEF Compact, TypeOK
  <2>. QED  BY <1>4, <2>1 DEF Compact, Goto, TypeOK, Places, Messages
<1>5. CASE CompactFails
  <2>1. /\ pc = "compact" /\ pc' = "check" /\ faults' = faults + 1 /\ long' = FALSE
        /\ UNCHANGED <<messages, step, attempt, todo, tokens, stopped, said, begun, missed>>
    BY <1>5 DEF CompactFails, Fault, Goto
  <2>2. messages' \in Seq(Messages(said')) /\ faults' \in Nat
    BY <1>1, <2>1 DEF TypeOK
  <2>3. long' \in BOOLEAN /\ stopped' \in BOOLEAN
    BY <2>1 DEF TypeOK
  <2>. QED  BY <2>1, <2>2, <2>3 DEF TypeOK, Places, Messages
<1>5a. CASE ToolRaises
  BY <1>5a DEF ToolRaises, Fault, Goto, TypeOK, Places
<1>6. CASE CheckStop
  BY <1>6 DEF CheckStop, Goto, TypeOK, Places
<1>7. CASE CheckFails
  BY <1>7 DEF CheckFails, Fault, TypeOK, Places
<1>8. CASE AsksForTools
  <2>1. PICK n \in UNION {Complete(f) : f \in Fan} :
           messages' = Append(messages, Message("assistant", said + 1, n)) /\ todo' = n
    BY <1>8 DEF AsksForTools
  <2>2. n \in Nat
    BY <2>1 DEF Complete
  <2>3. Message("assistant", said + 1, n) \in Messages(said + 1)
    BY <1>1, <2>2 DEF Message, Messages
  <2>4. messages' \in Seq(Messages(said'))
    BY <1>1, <1>8, <2>1, <2>3, Widens DEF AsksForTools
  <2>. QED  BY <1>2, <1>8, <2>1, <2>2, <2>4
            DEF AsksForTools, Began, Goto, TypeOK, Places, Messages
<1>9. CASE Answers
  BY <1>2, <1>9 DEF Answers, Began, Goto, TypeOK, Places
<1>10. CASE CallFails
  BY <1>10 DEF CallFails, Fault, Began, Goto, TypeOK, Places
<1>11. CASE Tool
  <2>1. Message("tool", said + 1, 0) \in Messages(said + 1)
    BY <1>1 DEF Message, Messages
  <2>2. messages' \in Seq(Messages(said'))
    BY <1>1, <1>11, <2>1, Widens DEF Tool
  <2>. QED  BY <1>11, <2>2 DEF Tool, Goto, TypeOK, Places, Messages
<1>12. CASE Stop
  BY <1>12 DEF Stop, loop, TypeOK, Places
<1>13. CASE UNCHANGED vars
  BY <1>13 DEF vars, loop, TypeOK, Places
<1>. QED  BY <1>3, <1>4, <1>5, <1>5a, <1>6, <1>7, <1>8, <1>9, <1>10, <1>11, <1>12, <1>13
          DEF Next, Run

\* Every variable of the loop keeps its type, whatever is summarised, and no
\* step is counted beyond the one that meets the cap (run_dev_task).
THEOREM TypeCorrect == Spec => []TypeOK
<1>. QED  BY InitTypes, TypeStep, PTL DEF Spec, LoopOK
-----------------------------------------------------------------------------
(* A stop is obeyed.                                                       *)

\* A call that is about to begin after the stop is not counted yet: it was decided
\* on before, or a check has failed.
Uncounted ==
  stopped => begun + (IF pc = "call" /\ attempt = 0 THEN 1 ELSE 0) <= missed + 1

LEMMA ObeyStep == LoopOK /\ Uncounted /\ [Next]_vars => Uncounted'
<1>. SUFFICES ASSUME LoopOK, Uncounted, [Next]_vars PROVE Uncounted'
  OBVIOUS
<1>. USE DEF Uncounted, Goto
<1>1. /\ begun \in Nat /\ missed \in Nat /\ attempt \in Nat
      /\ ~stopped => begun = 0 /\ missed = 0
  BY DEF LoopOK, TypeOK
<1>2. CASE Top \/ Compact \/ CompactFails \/ Tool \/ ToolRaises
  BY <1>1, <1>2 DEF Top, Compact, CompactFails, Tool, ToolRaises
<1>3. CASE CheckStop
  BY <1>1, <1>3 DEF CheckStop, SeesStop
<1>4. CASE CheckFails
  BY <1>1, <1>4 DEF CheckFails
<1>5. CASE AsksForTools \/ Answers
  <2>1. pc = "call" /\ Began /\ pc' # "call" /\ UNCHANGED <<attempt, stopped, missed>>
    BY <1>5 DEF AsksForTools, Answers
  <2>. QED  BY <1>1, <2>1 DEF Began
<1>6. CASE CallFails
  BY <1>1, <1>6 DEF CallFails, Began
<1>7. CASE Stop
  BY <1>1, <1>7 DEF Stop, loop
<1>8. CASE UNCHANGED vars
  BY <1>8 DEF vars, loop
<1>. QED  BY <1>2, <1>3, <1>4, <1>5, <1>6, <1>7, <1>8 DEF Next, Run

\* However long the run, after a stop at most the call already decided on begins,
\* and one for every stop check the database did not answer (dev_runner.py, the
\* check before each call).
THEOREM StopIsObeyed == Spec => []StopObeyed
<1>1. Init => Uncounted
  BY DEF Init, Uncounted
<1>2. LoopOK /\ Uncounted => StopObeyed
  BY DEF LoopOK, TypeOK, Uncounted, StopObeyed
<1>. QED  BY <1>1, <1>2, InitTypes, TypeStep, ObeyStep, PTL DEF Spec

-----------------------------------------------------------------------------
(* What compaction leaves.                                                 *)

LEMMA TailStartsAtNoAnswer ==
  ASSUME NEW n \in Nat, NEW ms \in Seq(Messages(n)), Compactable(ms)
  PROVE  ms[TailStart(ms) + 1].role # "tool"
<1>. DEFINE S == {HEAD} \cup {k \in HEAD..(Len(ms) - TAIL) : ms[k + 1].role # "tool"}
<1>1. Len(ms) \in Nat /\ S \subseteq HEAD..(Len(ms) - TAIL) /\ S # {}
  BY DEF Compactable, HEAD, TAIL
<1>2. S \subseteq 0..Len(ms)
  BY <1>1 DEF HEAD, TAIL
<1>3. Max(S) \in S
  <2>. HIDE DEF S
  <2>. QED  BY <1>1, <1>2, MaxInSet
<1>4. TailStart(ms) \in S /\ TailStart(ms) # HEAD
  BY <1>1, <1>3 DEF TailStart, Compactable, MinMiddle, HEAD
<1>. QED  BY <1>4

LEMMA Joined ==
  ASSUME NEW S, NEW a \in Seq(S), NEW b \in Seq(S), NEW c, c = a \o b
  PROVE  /\ c \in Seq(S) /\ Len(c) = Len(a) + Len(b)
         /\ \A i \in 1..Len(a) : c[i] = a[i]
         /\ \A i \in 1..Len(b) : c[Len(a) + i] = b[i]
OBVIOUS

\* The rules and the task, the summary, and the tail.
LEMMA SummarisedIs ==
  ASSUME NEW n \in Nat, NEW ms \in Seq(Messages(n)), Compactable(ms)
  PROVE  LET t == TailStart(ms) new == Summarised(ms) IN
         /\ t \in 6..(Len(ms) - TAIL) /\ Len(ms) \in Nat /\ ms[t + 1].role # "tool"
         /\ Len(new) = 3 + Len(ms) - t
         /\ new[1] = ms[1] /\ new[2] = ms[2]
         /\ new[3] = Message("summary", ms[t].at, 0)
         /\ \A i \in 4..Len(new) : new[i] = ms[t + i - 3]
<1>. DEFINE t == TailStart(ms)
            new == Summarised(ms)
            mid == <<Message("summary", ms[t].at, 0)>>
            tail == SubSeq(ms, t + 1, Len(ms))
<1>1. t \in 2..(Len(ms) - 8) /\ t >= 6 /\ Len(ms) \in Nat
  BY TailStartInside DEF Compactable, HEAD, TAIL, MinMiddle
<1>2. new = SubSeq(ms, 1, 2) \o mid \o tail
  BY DEF Summarised, HEAD
<1>. HIDE DEF t, new
<1>3. /\ SubSeq(ms, 1, 2) \in Seq(Messages(n)) /\ Len(SubSeq(ms, 1, 2)) = 2
      /\ \A i \in 1..2 : SubSeq(ms, 1, 2)[i] = ms[i]
  BY <1>1
<1>4. /\ tail \in Seq(Messages(n)) /\ Len(tail) = Len(ms) - t
      /\ \A i \in 1..(Len(ms) - t) : tail[i] = ms[t + i]
  BY <1>1
<1>5. ms[t].at \in 0..n /\ Message("summary", ms[t].at, 0) \in Messages(n)
  <2>1. ms[t] \in Messages(n)
    BY <1>1
  <2>. QED  BY <2>1 DEF Messages, Message
<1>6. mid \in Seq(Messages(n)) /\ Len(mid) = 1 /\ mid[1] = Message("summary", ms[t].at, 0)
  BY <1>5
<1>. DEFINE head == SubSeq(ms, 1, 2)
            front == head \o mid
<1>. HIDE DEF mid, tail, head
<1>7. /\ front \in Seq(Messages(n)) /\ Len(front) = 3
      /\ front[1] = ms[1] /\ front[2] = ms[2] /\ front[3] = Message("summary", ms[t].at, 0)
  <2>1. head \in Seq(Messages(n)) /\ mid \in Seq(Messages(n)) /\ front = head \o mid
    BY <1>3, <1>6 DEF head
  <2>. HIDE DEF front
  <2>2. /\ front \in Seq(Messages(n)) /\ Len(front) = Len(head) + Len(mid)
        /\ \A i \in 1..Len(head) : front[i] = head[i]
        /\ \A i \in 1..Len(mid) : front[Len(head) + i] = mid[i]
    BY <2>1, Joined
  <2>3. Len(head) = 2 /\ Len(mid) = 1
    BY <1>3, <1>6 DEF head
  <2>4. front[1] = head[1] /\ front[2] = head[2] /\ front[3] = mid[1] /\ Len(front) = 3
    BY <2>2, <2>3
  <2>5. head[1] = ms[1] /\ head[2] = ms[2]
    BY <1>3 DEF head
  <2>. QED  BY <1>6, <2>2, <2>4, <2>5
<1>8. /\ Len(new) = 3 + (Len(ms) - t)
      /\ \A i \in 1..3 : new[i] = front[i]
      /\ \A i \in 4..Len(new) : new[i] = tail[i - 3]
  <2>1. front \in Seq(Messages(n)) /\ tail \in Seq(Messages(n)) /\ new = front \o tail
    BY <1>2, <1>4, <1>7 DEF head
  <2>. HIDE DEF front
  <2>2. /\ new \in Seq(Messages(n)) /\ Len(new) = Len(front) + Len(tail)
        /\ \A i \in 1..Len(front) : new[i] = front[i]
        /\ \A i \in 1..Len(tail) : new[Len(front) + i] = tail[i]
    BY <2>1, Joined
  <2>3. Len(front) = 3 /\ Len(tail) = Len(ms) - t /\ Len(ms) - t \in Nat
    BY <1>1, <1>4, <1>7
  <2>4. Len(new) = 3 + (Len(ms) - t) /\ \A i \in 1..3 : new[i] = front[i]
    BY <2>2, <2>3
  <2>5. \A i \in 1..Len(tail) : new[3 + i] = tail[i]
    BY <2>2, <2>3
  <2>6. ASSUME NEW i \in 4..Len(new)
        PROVE  new[i] = tail[i - 3]
    <3>1. i - 3 \in 1..Len(tail) /\ 3 + (i - 3) = i
      BY <2>3, <2>4
    <3>. QED  BY <2>5, <3>1
  <2>. QED  BY <2>4, <2>6
<1>. HIDE DEF front
<1>9. Len(new) = 3 + Len(ms) - t /\ new[1] = front[1] /\ new[2] = front[2] /\ new[3] = front[3]
  BY <1>1, <1>8
<1>10. \A i \in 4..Len(new) : new[i] = ms[t + i - 3]
  <2>. SUFFICES ASSUME NEW i \in 4..Len(new) PROVE new[i] = ms[t + i - 3]
    OBVIOUS
  <2>1. i \in 1..Len(new) /\ i - 3 \in 1..(Len(ms) - t)
    BY <1>1, <1>9
  <2>2. new[i] = tail[i - 3] /\ tail[i - 3] = ms[t + (i - 3)]
    BY <1>4, <1>8, <2>1
  <2>. QED  BY <1>1, <2>1, <2>2
<1>. QED  BY <1>1, <1>7, <1>9, <1>10, TailStartsAtNoAnswer DEF t, new, TAIL

-----------------------------------------------------------------------------
(* What the conversation tells.                                            *)

\* Where the summary is, or the task if there is none, and what it covers.
Fore(ms) == IF Len(ms) > HEAD /\ ms[3].role = "summary" THEN 3 ELSE 2
Covered(ms) == IF Fore(ms) = 3 THEN ms[3].at ELSE 0

\* After it come all the messages since, in their order.
Tells(ms, n) ==
  /\ Len(ms) >= Fore(ms) /\ ms[1] = Opening[1] /\ ms[2] = Opening[2]
  /\ Fore(ms) = 3 => ms[3].at > 0 /\ Len(ms) >= 3 + TAIL
  /\ Len(ms) - Fore(ms) = n - Covered(ms)
  /\ \A i \in (Fore(ms) + 1)..Len(ms) :
       ms[i].at = Covered(ms) + i - Fore(ms) /\ ms[i].role \in {"assistant", "tool"}

LEMMA SummarisedTells ==
  ASSUME NEW n \in Nat, NEW ms \in Seq(Messages(n)), Compactable(ms), Tells(ms, n)
  PROVE  Tells(Summarised(ms), n)
<1>. DEFINE t == TailStart(ms)
            new == Summarised(ms)
<1>1. /\ t \in 6..(Len(ms) - 8) /\ Len(ms) \in Nat
      /\ Len(new) = 3 + Len(ms) - t
      /\ new[1] = ms[1] /\ new[2] = ms[2]
      /\ new[3] = Message("summary", ms[t].at, 0)
      /\ \A i \in 4..Len(new) : new[i] = ms[t + i - 3]
  BY SummarisedIs DEF TAIL
<1>. HIDE DEF t, new
<1>2. Fore(ms) \in 2..3 /\ Covered(ms) \in Nat
  <2>1. Fore(ms) = 3 => ms[3] \in Messages(n)
    BY <1>1
  <2>. QED  BY <2>1 DEF Fore, Covered, Messages
<1>3. ms[t].at = Covered(ms) + t - Fore(ms) /\ t \in Nat /\ t - Fore(ms) \in Nat \ {0}
  <2>1. t \in Nat /\ t - Fore(ms) \in Nat \ {0} /\ t \in (Fore(ms) + 1)..Len(ms)
    BY <1>1, <1>2
  <2>. QED  BY <2>1 DEF Tells
<1>4. Fore(new) = 3 /\ Covered(new) = Covered(ms) + t - Fore(ms)
  BY <1>1, <1>3 DEF Fore, Covered, Message, HEAD
<1>5. /\ Len(new) >= 3 + TAIL /\ new[3].at > 0
      /\ Len(new) - 3 = n - Covered(new)
  <2>1. new[3].at = Covered(ms) + t - Fore(ms)
    BY <1>1, <1>3 DEF Message
  <2>2. Len(ms) - Fore(ms) = n - Covered(ms)
    BY DEF Tells
  <2>3. Len(new) >= 3 + TAIL
    BY <1>1 DEF TAIL
  <2>4. new[3].at > 0
    BY <1>2, <1>3, <2>1
  <2>5. Len(new) - 3 = n - Covered(new)
    <3>. DEFINE f == Fore(ms)
                c == Covered(ms)
                l == Len(ms)
    <3>1. l \in Nat /\ f \in Nat /\ c \in Nat /\ t \in Nat /\ l - f = n - c
      BY <1>1, <1>2, <1>3, <2>2
    <3>2. Len(new) = 3 + l - t /\ Covered(new) = c + t - f
      BY <1>1, <1>4
    <3>. HIDE DEF f, c, l
    <3>. QED  BY <3>1, <3>2
  <2>. QED  BY <2>3, <2>4, <2>5
<1>6. \A i \in 4..Len(new) :
        new[i].at = Covered(new) + i - 3 /\ new[i].role \in {"assistant", "tool"}
  <2>. SUFFICES ASSUME NEW i \in 4..Len(new)
                PROVE  new[i].at = Covered(new) + i - 3 /\ new[i].role \in {"assistant", "tool"}
    OBVIOUS
  <2>. DEFINE j == t + i - 3
  <2>1. j \in (Fore(ms) + 1)..Len(ms) /\ new[i] = ms[j]
    BY <1>1, <1>2
  <2>2. ms[j].at = Covered(ms) + j - Fore(ms) /\ ms[j].role \in {"assistant", "tool"}
    BY <2>1 DEF Tells
  <2>. DEFINE f == Fore(ms)
              c == Covered(ms)
  <2>3. /\ new[i].at = c + j - f /\ new[i].role \in {"assistant", "tool"}
        /\ Covered(new) = c + t - f
    BY <1>4, <2>1, <2>2
  <2>4. c \in Nat /\ f \in Nat /\ t \in Nat /\ i \in Nat
    BY <1>1, <1>2
  <2>. HIDE DEF c, f
  <2>. QED  BY <2>3, <2>4
<1>7. new[1] = Opening[1] /\ new[2] = Opening[2] /\ Len(new) >= 3
  BY <1>1, <1>5 DEF Tells, TAIL
<1>. QED  BY <1>4, <1>5, <1>6, <1>7 DEF Tells, new

LEMMA AppendTells ==
  ASSUME NEW n \in Nat, NEW ms \in Seq(Messages(n)), Tells(ms, n),
         NEW m \in Messages(n + 1), m.at = n + 1, m.role \in {"assistant", "tool"}
  PROVE  Tells(Append(ms, m), n + 1)
<1>. DEFINE new == Append(ms, m)
<1>1. /\ Len(ms) \in Nat /\ Len(new) = Len(ms) + 1
      /\ \A i \in 1..Len(ms) : new[i] = ms[i]
      /\ new[Len(ms) + 1] = m
  OBVIOUS
<1>. HIDE DEF new
<1>2. Fore(ms) \in 2..3 /\ Covered(ms) \in Nat /\ Len(ms) >= Fore(ms)
  <2>1. Fore(ms) = 3 => ms[3] \in Messages(n)
    BY <1>1 DEF Fore, HEAD
  <2>. QED  BY <2>1 DEF Fore, Covered, Messages, Tells
<1>3. Fore(new) = Fore(ms) /\ Covered(new) = Covered(ms)
  <2>1. CASE Len(ms) = 2
    <3>1. new[3] = m /\ m.role # "summary"
      BY <1>1, <2>1
    <3>. QED  BY <1>1, <2>1, <3>1 DEF Fore, Covered, HEAD
  <2>2. CASE Len(ms) > 2
    <3>1. new[3] = ms[3]
      BY <1>1, <2>2
    <3>. QED  BY <1>1, <2>2, <3>1 DEF Fore, Covered, HEAD
  <2>3. Len(ms) = 2 \/ Len(ms) > 2
    <3>. DEFINE l == Len(ms)
                f == Fore(ms)
    <3>1. l \in Nat /\ f \in 2..3 /\ l >= f
      BY <1>1, <1>2
    <3>. HIDE DEF l, f
    <3>2. l = 2 \/ l > 2
      BY <3>1
    <3>. QED  BY <3>2 DEF l
  <2>. QED  BY <2>1, <2>2, <2>3
<1>4. \A i \in (Fore(ms) + 1)..Len(new) :
        new[i].at = Covered(ms) + i - Fore(ms) /\ new[i].role \in {"assistant", "tool"}
  <2>1. \A i \in (Fore(ms) + 1)..Len(ms) :
          ms[i].at = Covered(ms) + i - Fore(ms) /\ ms[i].role \in {"assistant", "tool"}
    BY DEF Tells
  <2>2. Len(ms) + 1 - Fore(ms) = (n + 1) - Covered(ms)
    BY <1>1, <1>2 DEF Tells
  <2>3. m.at = Covered(ms) + (Len(ms) + 1) - Fore(ms)
    BY <1>1, <1>2, <2>2
  <2>. QED
    <3>. DEFINE f == Fore(ms)
                l == Len(ms)
    <3>1. f \in Nat /\ l \in Nat /\ Len(new) = l + 1 /\ \A i \in (f + 1)..l : i \in 1..l
      BY <1>1, <1>2
    <3>. SUFFICES ASSUME NEW i \in (f + 1)..(l + 1)
                  PROVE  /\ new[i].at = Covered(ms) + i - f
                         /\ new[i].role \in {"assistant", "tool"}
      BY <3>1
    <3>2. CASE i = l + 1
      BY <1>1, <2>3, <3>2
    <3>3. CASE i # l + 1
      <4>1. i \in (f + 1)..l
        BY <3>1, <3>3
      <4>. QED  BY <1>1, <2>1, <3>1, <4>1
    <3>. QED  BY <3>2, <3>3
<1>5. new[1] = Opening[1] /\ new[2] = Opening[2]
  BY <1>1, <1>2 DEF Tells
<1>6. Fore(ms) = 3 => new[3].at > 0 /\ Len(new) >= 3 + TAIL
  BY <1>1, <1>2 DEF Tells, TAIL
<1>7. Len(new) - Fore(ms) = (n + 1) - Covered(ms)
  BY <1>1, <1>2 DEF Tells
<1>8. Len(new) >= Fore(ms)
  BY <1>1, <1>2
<1>9. Tells(new, n + 1)
  <2>1. Len(new) >= Fore(new) /\ Len(new) - Fore(new) = (n + 1) - Covered(new)
    BY <1>3, <1>7, <1>8
  <2>2. Fore(new) = 3 => new[3].at > 0 /\ Len(new) >= 3 + TAIL
    BY <1>3, <1>6
  <2>3. \A i \in (Fore(new) + 1)..Len(new) :
          new[i].at = Covered(new) + i - Fore(new) /\ new[i].role \in {"assistant", "tool"}
    BY <1>3, <1>4
  <2>. QED  BY <1>5, <2>1, <2>2, <2>3 DEF Tells
<1>. QED  BY <1>9 DEF new

LEMMA TellsStep == LoopOK /\ Tells(messages, said) /\ [Next]_vars => Tells(messages, said)'
<1>. SUFFICES ASSUME LoopOK, Tells(messages, said), [Next]_vars PROVE Tells(messages, said)'
  OBVIOUS
<1>1. messages \in Seq(Messages(said)) /\ said \in Nat
  BY DEF LoopOK, TypeOK, Places, Messages
<1>2. CASE UNCHANGED <<messages, said>>
  BY <1>2 DEF Tells, Fore, Covered
<1>3. CASE Compact
  <2>1. said' = said /\ (messages' = messages \/ (Compactable(messages) /\ messages' = Summarised(messages)))
    BY <1>3 DEF Compact
  <2>. QED  BY <1>1, <1>2, <2>1, SummarisedTells
<1>4. CASE AsksForTools
  <2>1. PICK n \in UNION {Complete(f) : f \in Fan} :
           messages' = Append(messages, Message("assistant", said + 1, n))
    BY <1>4 DEF AsksForTools
  <2>2. n \in Nat
    BY <2>1, DevRunnerAssumption DEF Complete
  <2>3. Message("assistant", said + 1, n) \in Messages(said + 1)
    BY <1>1, <2>2 DEF Message, Messages
  <2>4. Tells(Append(messages, Message("assistant", said + 1, n)), said + 1)
    <3>1. Message("assistant", said + 1, n).at = said + 1 /\ Message("assistant", said + 1, n).role = "assistant"
      BY DEF Message
    <3>. QED  BY <1>1, <2>3, <3>1, AppendTells
  <2>. QED  BY <1>4, <2>1, <2>4 DEF AsksForTools
<1>5. CASE Tool
  <2>1. Message("tool", said + 1, 0) \in Messages(said + 1)
    BY <1>1 DEF Message, Messages
  <2>2. Message("tool", said + 1, 0).at = said + 1 /\ Message("tool", said + 1, 0).role = "tool"
    BY DEF Message
  <2>3. Tells(Append(messages, Message("tool", said + 1, 0)), said + 1)
    BY <1>1, <2>1, <2>2, AppendTells
  <2>. QED  BY <1>5, <2>3 DEF Tool
<1>. QED  BY <1>2, <1>3, <1>4, <1>5
          DEF Next, Run, Top, CompactFails, CheckStop, CheckFails, Answers, CallFails, ToolRaises,
              Stop, vars

LEMMA TellsAll ==
  ASSUME messages \in Seq(Messages(said)), said \in Nat, Tells(messages, said)
  PROVE  Remembered
<1>. DEFINE f == Fore(messages)
            c == Covered(messages)
            n == Len(messages)
            head == SubSeq(messages, 1, 2)
            body == SubSeq(messages, HEAD + 1, Len(messages))
            covered == IF body # <<>> /\ body[1].role = "summary" THEN body[1].at ELSE 0
            rest == IF covered > 0 THEN Tail(body) ELSE body
<1>1. n \in Nat /\ n >= f /\ f \in 2..3 /\ c \in Nat
  <2>1. Fore(messages) = 3 => messages[3] \in Messages(said)
    BY DEF Fore, HEAD
  <2>. QED  BY <2>1 DEF Fore, Covered, Messages, Tells
<1>2. /\ body \in Seq(Messages(said)) /\ Len(body) = n - 2
      /\ \A i \in 1..(n - 2) : body[i] = messages[i + 2]
  <2>1. 3 \in Int /\ n \in Int /\ \A i \in 3..n : messages[i] \in Messages(said)
    BY <1>1
  <2>2. /\ body \in Seq(Messages(said)) /\ Len(body) = IF 3 <= n THEN n - 3 + 1 ELSE 0
        /\ \A i \in 1..(n - 3 + 1) : body[i] = messages[3 + i - 1]
    <3>1. body = SubSeq(messages, 3, n)
      BY DEF HEAD
    <3>. HIDE DEF body, n
    <3>. QED  BY <2>1, <3>1, SubSeqProperties
  <2>3. n \in Nat /\ n >= 2
    BY <1>1
  <2>. HIDE DEF body, n
  <2>4. Len(body) = n - 2
    BY <2>2, <2>3
  <2>5. ASSUME NEW i \in 1..(n - 2)
        PROVE  body[i] = messages[i + 2]
    <3>1. i \in 1..(n - 3 + 1) /\ 3 + i - 1 = i + 2
      BY <2>3
    <3>. QED  BY <2>2, <3>1
  <2>. QED  BY <2>2, <2>4, <2>5
<1>3. /\ head \in Seq(Messages(said)) /\ Len(head) = 2
      /\ \A i \in 1..2 : head[i] = messages[i]
  <2>1. n >= 2
    BY <1>1
  <2>. QED  BY <1>1, <2>1
<1>. HIDE DEF head
<1>4. head = Opening
  <2>1. head[1] = Opening[1] /\ head[2] = Opening[2]
    BY <1>3 DEF Tells
  <2>2. Opening \in Seq(Messages(said)) /\ Len(Opening) = 2
    BY DEF Opening, Message, Messages
  <2>3. Len(head) = Len(Opening) /\ \A i \in 1..Len(head) : head[i] = Opening[i]
    BY <1>3, <2>1, <2>2
  <2>. QED  BY <1>3, <2>2, <2>3, SeqEqual
<1>. HIDE DEF body
<1>5. covered = c
  <2>1. CASE n = 2
    <3>1. body = <<>>
      <4>1. Len(body) = 0
        BY <1>2, <2>1
      <4>. QED  BY <1>2, <4>1, EmptySeq
    <3>. QED  BY <2>1, <3>1 DEF Covered, Fore, HEAD
  <2>2. CASE n > 2
    <3>1. body # <<>> /\ body[1] = messages[3]
      BY <1>1, <1>2, <2>2
    <3>. QED  BY <2>2, <3>1 DEF Covered, Fore, HEAD
  <2>3. n \in Nat /\ n >= 2
    BY <1>1
  <2>. HIDE DEF n
  <2>. QED  BY <2>1, <2>2, <2>3
<1>6. covered > 0 <=> f = 3
  BY <1>1, <1>5 DEF Covered, Tells
<1>. HIDE DEF covered
<1>7. /\ rest \in Seq(Messages(said)) /\ Len(rest) = n - f
      /\ \A i \in 1..(n - f) : rest[i] = messages[i + f]
  <2>1. CASE f = 2
    BY <1>1, <1>2, <1>6, <2>1
  <2>2. CASE f = 3
    <3>1. rest = Tail(body) /\ body # <<>>
      BY <1>1, <1>2, <1>6, <2>2
    <3>2. /\ rest \in Seq(Messages(said)) /\ Len(rest) = n - 3
          /\ \A i \in 1..(n - 3) : rest[i] = body[i + 1]
      BY <1>1, <1>2, <2>2, <3>1
    <3>. QED  BY <1>1, <1>2, <2>2, <3>2
  <2>. QED  BY <1>1, <2>1, <2>2
<1>. HIDE DEF rest
<1>8. n - f = said - covered
  BY <1>5 DEF Tells
<1>9. \A i \in 1..(n - f) : rest[i].at = covered + i
  <2>. SUFFICES ASSUME NEW i \in 1..(n - f) PROVE messages[i + f].at = c + i
    BY <1>5, <1>7
  <2>1. i + f \in (f + 1)..n
    BY <1>1
  <2>2. \A j \in (f + 1)..n : messages[j].at = c + j - f
    BY DEF Tells
  <2>. HIDE DEF f, c, n
  <2>3. messages[i + f].at = c + (i + f) - f
    BY <2>1, <2>2
  <2>. QED  BY <1>1, <2>3
<1>10. [i \in DOMAIN rest |-> rest[i].at] = [i \in 1..(said - covered) |-> covered + i]
  <2>1. DOMAIN rest = 1..(n - f)
    <3>1. n - f \in Nat
      BY <1>1
    <3>. QED  BY <1>7, <3>1
  <2>. HIDE DEF n, f
  <2>. QED  BY <1>8, <1>9, <2>1
<1>11. covered > 0 => Len(rest) >= TAIL
  BY <1>1, <1>6, <1>7 DEF Tells, TAIL
<1>. QED  BY <1>4, <1>10, <1>11 DEF Remembered, head, body, covered, rest, HEAD

\* However often the middle was replaced by a summary, the conversation the model is
\* sent tells everything the run has said, in order and once (compaction in
\* dev_runner.py).
THEOREM AllIsRemembered == Spec => []Remembered
<1>1. Init => Tells(messages, said)
  BY DEF Init, Tells, Fore, Covered, Opening, Message, HEAD
<1>2. LoopOK /\ Tells(messages, said) => Remembered
  BY TellsAll DEF LoopOK, TypeOK, Places, Messages
<1>. QED  BY <1>1, <1>2, InitTypes, TypeStep, TellsStep, PTL DEF Spec

-----------------------------------------------------------------------------
(* The answers to a message.                                               *)

AskedIn(ms) == {k \in 1..Len(ms) : ms[k].role = "assistant"}

\* The tools a message asks for follow it, but for n of the last one; nothing else is
\* an answer.
Answered(ms, n) ==
  /\ \A k \in AskedIn(ms) : k + ms[k].calls <= Len(ms) + n
  /\ \A k \in AskedIn(ms) : \A j \in (k + 1)..(k + ms[k].calls) :
       j <= Len(ms) => ms[j].role = "tool"
  /\ \A j \in 1..Len(ms) : ms[j].role = "tool" =>
       \E k \in AskedIn(ms) : j \in (k + 1)..(k + ms[k].calls)
  /\ n > 0 => \E k \in AskedIn(ms) : k + ms[k].calls = Len(ms) + n

LEMMA CallsAre ==
  ASSUME NEW n \in Nat, NEW ms \in Seq(Messages(n))
  PROVE  Len(ms) \in Nat /\ \A k \in 1..Len(ms) : ms[k].calls \in Nat
<1>1. \A k \in 1..Len(ms) : ms[k] \in Messages(n)
  OBVIOUS
<1>. QED  BY <1>1 DEF Messages

LEMMA SummarisedAnswered ==
  ASSUME NEW n \in Nat, NEW ms \in Seq(Messages(n)), Compactable(ms), Tells(ms, n),
         Answered(ms, 0)
  PROVE  Answered(Summarised(ms), 0)
<1>. DEFINE t == TailStart(ms)
            new == Summarised(ms)
            l == Len(ms)
            m == Len(new)
<1>1. /\ t \in 6..(l - 8) /\ l \in Nat /\ ms[t + 1].role # "tool"
      /\ m = 3 + l - t
      /\ new[1] = ms[1] /\ new[2] = ms[2]
      /\ new[3] = Message("summary", ms[t].at, 0)
      /\ \A i \in 4..m : new[i] = ms[t + i - 3]
  BY SummarisedIs DEF TAIL
<1>2. \A k \in 1..l : ms[k].calls \in Nat
  BY CallsAre
<1>3. /\ \A k \in AskedIn(ms) : k \in 1..l /\ ms[k].role = "assistant"
      /\ \A k \in 1..l : ms[k].role = "assistant" => k \in AskedIn(ms)
      /\ \A k \in AskedIn(new) : k \in 1..m /\ new[k].role = "assistant"
      /\ \A k \in 1..m : new[k].role = "assistant" => k \in AskedIn(new)
  BY DEF AskedIn
<1>4. \A k \in AskedIn(ms) : /\ k + ms[k].calls <= l
                             /\ \A j \in (k + 1)..(k + ms[k].calls) : j <= l => ms[j].role = "tool"
  <2>1. \A k \in AskedIn(ms) : k + ms[k].calls <= l + 0
    BY DEF Answered
  <2>. QED  BY <1>1, <2>1 DEF Answered
<1>5. \A j \in 1..l : ms[j].role = "tool" => \E k \in AskedIn(ms) : j \in (k + 1)..(k + ms[k].calls)
  BY DEF Answered
<1>6. \A i \in 1..3 : new[i].role \notin {"assistant", "tool"}
  <2>1. /\ ms[1].role \notin {"assistant", "tool"} /\ ms[2].role \notin {"assistant", "tool"}
    BY DEF Tells, Opening, Message
  <2>. QED  BY <1>1, <2>1 DEF Message
<1>. HIDE DEF t, new, l, m
<1>7. /\ t \in Nat /\ m \in Nat /\ l \in Nat /\ m = 3 + l - t /\ t >= 6 /\ t <= l
  BY <1>1
<1>8. \A i \in 4..m : t + i - 3 \in (t + 1)..l /\ t + i - 3 \in 1..l
  BY <1>7
<1>9. \A i \in 1..m : new[i].role \in {"assistant", "tool"} => i \in 4..m
  BY <1>6, <1>7
<1>10. ASSUME NEW k \in AskedIn(new)
       PROVE  /\ k \in 4..m /\ t + k - 3 \in AskedIn(ms) /\ new[k] = ms[t + k - 3]
              /\ k + new[k].calls <= m
  <2>1. k \in 4..m
    BY <1>3, <1>9
  <2>2. new[k] = ms[t + k - 3] /\ t + k - 3 \in AskedIn(ms)
    BY <1>1, <1>3, <1>8, <2>1
  <2>3. t + k - 3 + ms[t + k - 3].calls <= l /\ ms[t + k - 3].calls \in Nat
    BY <1>2, <1>3, <1>4, <2>2
  <2>. QED  BY <1>7, <2>1, <2>2, <2>3
<1>11. ASSUME NEW k \in AskedIn(new), NEW j \in (k + 1)..(k + new[k].calls), j <= m
       PROVE  new[j].role = "tool"
  <2>. DEFINE k0 == t + k - 3
              j0 == t + j - 3
  <2>1. k \in 4..m /\ k0 \in AskedIn(ms) /\ new[k] = ms[k0] /\ ms[k0].calls \in Nat
    BY <1>2, <1>3, <1>10
  <2>2. j \in 4..m /\ j0 \in (k0 + 1)..(k0 + ms[k0].calls) /\ j0 <= l
    <3>. DEFINE c == ms[k0].calls
    <3>1. c \in Nat /\ k \in Nat /\ j \in (k + 1)..(k + c) /\ k >= 4
      BY <1>11, <2>1
    <3>. HIDE DEF c
    <3>2. j \in 4..m /\ j0 \in (k0 + 1)..(k0 + c) /\ j0 <= l
      BY <1>7, <1>11, <3>1
    <3>. QED  BY <3>2 DEF c
  <2>3. ms[j0].role = "tool"
    BY <1>4, <2>1, <2>2
  <2>. QED  BY <1>1, <2>2, <2>3
<1>12. ASSUME NEW j \in 1..m, new[j].role = "tool"
       PROVE  \E k \in AskedIn(new) : j \in (k + 1)..(k + new[k].calls)
  <2>. DEFINE j0 == t + j - 3
  <2>1. j \in 4..m /\ new[j] = ms[j0] /\ j0 \in (t + 1)..l /\ j0 \in 1..l
    BY <1>1, <1>8, <1>9, <1>12
  <2>2. PICK k0 \in AskedIn(ms) : j0 \in (k0 + 1)..(k0 + ms[k0].calls)
    BY <1>5, <1>12, <2>1
  <2>3. k0 \in 1..l /\ ms[k0].calls \in Nat
    BY <1>2, <1>3
  <2>4. k0 > t
    <3>. SUFFICES ASSUME k0 <= t PROVE FALSE
      BY <1>7, <2>3
    <3>1. t + 1 \in (k0 + 1)..(k0 + ms[k0].calls) /\ t + 1 <= l
      BY <1>7, <2>1, <2>2, <2>3
    <3>. QED  BY <1>1, <1>4, <3>1
  <2>5. PICK k \in 4..m : k0 = t + k - 3
    <3>1. k0 - t + 3 \in 4..m /\ k0 = t + (k0 - t + 3) - 3
      BY <1>7, <2>3, <2>4
    <3>. QED  BY <3>1
  <2>6. new[k] = ms[k0] /\ k \in AskedIn(new)
    BY <1>1, <1>3, <1>7, <2>5
  <2>7. j \in (k + 1)..(k + new[k].calls)
    BY <1>7, <2>1, <2>2, <2>3, <2>5, <2>6
  <2>. QED  BY <2>6, <2>7
<1>13. \A k \in AskedIn(new) : k + new[k].calls <= Len(new) + 0
  BY <1>7, <1>10 DEF m
<1>14. Answered(new, 0)
  BY <1>11, <1>12, <1>13 DEF Answered, m
<1>. QED  BY <1>14 DEF new

\* A message asks for tools.
LEMMA AssistantAnswered ==
  ASSUME NEW n \in Nat, NEW ms \in Seq(Messages(n)), Answered(ms, 0),
         NEW m \in Messages(n + 1), m.role = "assistant"
  PROVE  Answered(Append(ms, m), m.calls)
<1>. DEFINE new == Append(ms, m)
            l == Len(ms)
            c == m.calls
<1>1. /\ l \in Nat /\ Len(new) = l + 1
      /\ \A i \in 1..l : new[i] = ms[i]
      /\ new[l + 1] = m
  OBVIOUS
<1>2. c \in Nat /\ \A k \in 1..l : ms[k].calls \in Nat
  BY CallsAre DEF Messages
<1>3. /\ \A k \in AskedIn(ms) : k \in 1..l /\ k + ms[k].calls <= l
      /\ \A k \in AskedIn(ms) : \A j \in (k + 1)..(k + ms[k].calls) : j <= l => ms[j].role = "tool"
      /\ \A j \in 1..l : ms[j].role = "tool" =>
           \E k \in AskedIn(ms) : j \in (k + 1)..(k + ms[k].calls)
  <2>1. \A k \in AskedIn(ms) : k + ms[k].calls <= l + 0
    BY DEF Answered
  <2>. QED  BY <1>1, <2>1 DEF Answered, AskedIn
<1>. HIDE DEF new
<1>4. AskedIn(new) = AskedIn(ms) \cup {l + 1}
  BY <1>1 DEF AskedIn
<1>. HIDE DEF l, c
<1>5. \A k \in AskedIn(ms) : new[k] = ms[k] /\ ms[k].calls \in Nat /\ k \in Nat
  BY <1>1, <1>2, <1>3
<1>6. \A k \in AskedIn(new) : k + new[k].calls <= Len(new) + c
  <2>1. l + 1 + new[l + 1].calls <= Len(new) + c
    BY <1>1, <1>2 DEF c
  <2>2. ASSUME NEW k \in AskedIn(ms) PROVE k + new[k].calls <= Len(new) + c
    BY <1>1, <1>2, <1>3, <1>5
  <2>. QED  BY <1>4, <2>1, <2>2
<1>7. \A k \in AskedIn(new) : \A j \in (k + 1)..(k + new[k].calls) :
        j <= Len(new) => new[j].role = "tool"
  <2>1. ASSUME NEW j \in (l + 1 + 1)..(l + 1 + new[l + 1].calls), j <= Len(new)
        PROVE  FALSE
    BY <1>1, <1>2, <2>1 DEF c
  <2>2. ASSUME NEW k \in AskedIn(ms), NEW j \in (k + 1)..(k + new[k].calls)
        PROVE  new[j].role = "tool"
    <3>1. j \in (k + 1)..(k + ms[k].calls) /\ j <= l /\ j \in 1..l
      BY <1>1, <1>3, <1>5
    <3>. QED  BY <1>1, <1>3, <3>1
  <2>. QED  BY <1>4, <2>1, <2>2
<1>8. ASSUME NEW j \in 1..Len(new), new[j].role = "tool"
      PROVE  \E k \in AskedIn(new) : j \in (k + 1)..(k + new[k].calls)
  <2>1. j \in 1..l
    BY <1>1, <1>8
  <2>2. PICK k \in AskedIn(ms) : j \in (k + 1)..(k + ms[k].calls)
    BY <1>1, <1>3, <1>8, <2>1
  <2>. QED  BY <1>4, <1>5, <2>2
<1>9. l + 1 \in AskedIn(new) /\ l + 1 + new[l + 1].calls = Len(new) + c
  BY <1>1, <1>2, <1>4 DEF c
<1>10. Answered(new, c)
  BY <1>6, <1>7, <1>8, <1>9 DEF Answered
<1>. QED  BY <1>10 DEF new, c

\* The answer of the next tool.
LEMMA ToolAnswered ==
  ASSUME NEW n \in Nat, NEW ms \in Seq(Messages(n)), NEW c \in Nat, Answered(ms, c + 1),
         NEW m \in Messages(n + 1), m.role = "tool"
  PROVE  Answered(Append(ms, m), c)
<1>. DEFINE new == Append(ms, m)
            l == Len(ms)
<1>1. /\ l \in Nat /\ Len(new) = l + 1
      /\ \A i \in 1..l : new[i] = ms[i]
      /\ new[l + 1] = m
  OBVIOUS
<1>2. \A k \in 1..l : ms[k].calls \in Nat
  BY CallsAre
<1>3. /\ \A k \in AskedIn(ms) : k \in 1..l /\ k + ms[k].calls <= l + (c + 1)
      /\ \A k \in AskedIn(ms) : \A j \in (k + 1)..(k + ms[k].calls) : j <= l => ms[j].role = "tool"
      /\ \A j \in 1..l : ms[j].role = "tool" =>
           \E k \in AskedIn(ms) : j \in (k + 1)..(k + ms[k].calls)
  BY DEF Answered, AskedIn
<1>4. PICK k1 \in AskedIn(ms) : k1 + ms[k1].calls = l + (c + 1)
  <2>1. c + 1 > 0
    OBVIOUS
  <2>. QED  BY <2>1 DEF Answered
<1>. HIDE DEF new
<1>5. AskedIn(new) = AskedIn(ms)
  BY <1>1 DEF AskedIn
<1>. HIDE DEF l
<1>6. \A k \in AskedIn(ms) : new[k] = ms[k] /\ ms[k].calls \in Nat /\ k \in 1..l
  BY <1>1, <1>2, <1>3
<1>7. \A k \in AskedIn(new) : k + new[k].calls <= Len(new) + c
  BY <1>1, <1>3, <1>5, <1>6
<1>8. ASSUME NEW k \in AskedIn(new), NEW j \in (k + 1)..(k + new[k].calls), j <= Len(new)
      PROVE  new[j].role = "tool"
  <2>1. CASE j = l + 1
    BY <1>1, <2>1
  <2>2. CASE j # l + 1
    <3>1. j \in (k + 1)..(k + ms[k].calls) /\ j <= l /\ j \in 1..l
      BY <1>1, <1>5, <1>6, <1>8, <2>2
    <3>. QED  BY <1>1, <1>3, <1>5, <3>1
  <2>. QED  BY <2>1, <2>2
<1>9. ASSUME NEW j \in 1..Len(new), new[j].role = "tool"
      PROVE  \E k \in AskedIn(new) : j \in (k + 1)..(k + new[k].calls)
  <2>1. CASE j = l + 1
    <3>1. new[k1] = ms[k1] /\ k1 \in 1..l /\ ms[k1].calls \in Nat
      BY <1>6
    <3>2. l + 1 \in (k1 + 1)..(k1 + ms[k1].calls)
      BY <1>1, <1>4, <3>1
    <3>. QED  BY <1>5, <2>1, <3>1, <3>2
  <2>2. CASE j # l + 1
    <3>1. j \in 1..l
      BY <1>1, <2>2
    <3>2. PICK k \in AskedIn(ms) : j \in (k + 1)..(k + ms[k].calls)
      BY <1>1, <1>3, <1>9, <3>1
    <3>. QED  BY <1>5, <1>6, <3>2
  <2>. QED  BY <2>1, <2>2
<1>10. k1 \in AskedIn(new) /\ k1 + new[k1].calls = Len(new) + c
  <2>1. new[k1] = ms[k1] /\ k1 \in 1..l /\ ms[k1].calls \in Nat
    BY <1>6
  <2>. QED  BY <1>1, <1>4, <1>5, <2>1
<1>11. Answered(new, c)
  BY <1>7, <1>8, <1>9, <1>10 DEF Answered
<1>. QED  BY <1>11 DEF new

\* Tools are left only while they are carried out.
Waiting == Answered(messages, todo) /\ (pc \notin {"tools", "raised"} => todo = 0)

LEMMA WaitingStep ==
  LoopOK /\ Tells(messages, said) /\ Waiting /\ [Next]_vars => Waiting'
<1>. SUFFICES ASSUME LoopOK, Tells(messages, said), Waiting, [Next]_vars PROVE Waiting'
  OBVIOUS
<1>1. messages \in Seq(Messages(said)) /\ said \in Nat /\ todo \in Nat
  BY DEF LoopOK, TypeOK, Places, Messages
<1>2. CASE UNCHANGED <<messages, todo>> /\ (pc' \in {"tools", "raised"} \/ pc \notin {"tools", "raised"})
  BY <1>2 DEF Waiting, Answered, AskedIn
<1>3. CASE Compact
  <2>1. /\ pc = "compact" /\ pc' = "check" /\ todo' = todo
        /\ messages' = messages \/ (Compactable(messages) /\ messages' = Summarised(messages))
    BY <1>3 DEF Compact, Goto
  <2>2. todo = 0 /\ Answered(messages, 0)
    BY <2>1 DEF Waiting
  <2>. QED  BY <1>1, <2>1, <2>2, SummarisedAnswered DEF Waiting
<1>4. CASE AsksForTools
  <2>1. PICK n \in UNION {Complete(f) : f \in Fan} :
           messages' = Append(messages, Message("assistant", said + 1, n)) /\ todo' = n
    BY <1>4 DEF AsksForTools
  <2>. DEFINE m == Message("assistant", said + 1, n)
  <2>2. n \in Nat
    BY <2>1, DevRunnerAssumption DEF Complete
  <2>3. m \in Messages(said + 1) /\ m.role = "assistant" /\ m.calls = n
    BY <1>1, <2>2 DEF Message, Messages
  <2>4. pc = "call" /\ pc' = "tools"
    BY <1>4 DEF AsksForTools, Goto
  <2>5. Answered(messages, 0)
    BY <2>4 DEF Waiting
  <2>. HIDE DEF m
  <2>6. Answered(Append(messages, m), m.calls)
    BY <1>1, <2>3, <2>5, AssistantAnswered
  <2>. QED  BY <2>1, <2>3, <2>4, <2>6 DEF Waiting, m
<1>5. CASE Tool
  <2>. DEFINE m == Message("tool", said + 1, 0)
              c == todo - 1
  <2>1. /\ todo > 0 /\ todo' = c /\ messages' = Append(messages, m)
        /\ pc' = IF c = 0 THEN "top" ELSE "tools"
    BY <1>5 DEF Tool, Goto
  <2>2. m \in Messages(said + 1) /\ m.role = "tool"
    BY <1>1 DEF Message, Messages
  <2>3. c \in Nat /\ c + 1 = todo
    BY <1>1, <2>1
  <2>. HIDE DEF m, c
  <2>4. Answered(messages, c + 1)
    BY <2>3 DEF Waiting
  <2>5. Answered(Append(messages, m), c)
    BY <1>1, <2>2, <2>3, <2>4, ToolAnswered
  <2>. QED  BY <2>1, <2>5 DEF Waiting
<1>6. CASE Top \/ CompactFails \/ CheckStop \/ CheckFails \/ Answers \/ CallFails \/ ToolRaises
  <2>1. UNCHANGED <<messages, todo>> /\ (pc' = "raised" \/ pc \notin {"tools", "raised"})
    BY <1>6 DEF Top, CompactFails, CheckStop, CheckFails, Answers, CallFails, ToolRaises, Goto
  <2>. QED  BY <1>2, <2>1
<1>7. CASE Stop \/ UNCHANGED vars
  <2>1. UNCHANGED <<messages, todo, pc>>
    BY <1>7 DEF Stop, vars, loop
  <2>. QED  BY <1>2, <2>1
<1>. QED  BY <1>3, <1>4, <1>5, <1>6, <1>7 DEF Next, Run

LEMMA WaitingPaired ==
  ASSUME messages \in Seq(Messages(said)), said \in Nat, Waiting
  PROVE  Paired
<1>. SUFFICES ASSUME pc = "call"
              PROVE  /\ \A k \in Asked : AnswersTo(k) = 1..messages[k].calls
                     /\ \A j \in DOMAIN messages : messages[j].role = "tool" =>
                          \E k \in Asked : j \in (k + 1)..(k + messages[k].calls)
  BY DEF Paired
<1>1. todo = 0 /\ Answered(messages, 0)
  BY DEF Waiting
<1>2. /\ Asked = AskedIn(messages) /\ DOMAIN messages = 1..Len(messages) /\ Len(messages) \in Nat
      /\ \A k \in Asked : messages[k].calls \in Nat /\ k \in 1..Len(messages)
  BY CallsAre DEF Asked, AskedIn
<1>3. ASSUME NEW k \in Asked
      PROVE  AnswersTo(k) = 1..messages[k].calls
  <2>. DEFINE c == messages[k].calls
              l == Len(messages)
  <2>1. c \in Nat /\ l \in Nat /\ k \in 1..l /\ k + c <= l + 0
    BY <1>1, <1>2 DEF Answered
  <2>2. \A j \in (k + 1)..(k + c) : j <= l => messages[j].role = "tool"
    BY <1>1, <1>2 DEF Answered
  <2>. HIDE DEF c, l
  <2>3. ASSUME NEW i \in 1..c
        PROVE  k + i <= l /\ messages[k + i].role = "tool"
    <3>1. k + i \in (k + 1)..(k + c) /\ k + i <= l
      BY <2>1
    <3>. QED  BY <2>2, <3>1
  <2>. QED  BY <2>3 DEF AnswersTo, c, l
<1>. QED  BY <1>1, <1>2, <1>3 DEF Answered

\* Whenever the model is called, every message that asks for tools is followed by the
\* answers to all its calls, and nothing else is an answer, however often the middle was
\* cut out (the tail of compaction in dev_runner.py).
THEOREM CallsArePaired == Spec => []Paired
<1>1. Init => Tells(messages, said) /\ Waiting
  <2>. SUFFICES ASSUME Init PROVE Tells(messages, said) /\ Waiting
    OBVIOUS
  <2>1. /\ Len(messages) = 2 /\ \A k \in 1..2 : messages[k].role \notin {"assistant", "tool"}
        /\ todo = 0
    BY DEF Init, Opening, Message
  <2>. QED  BY <2>1 DEF Init, Tells, Fore, Covered, Opening, Message, HEAD,
                      Waiting, Answered, AskedIn
<1>2. LoopOK /\ Waiting => Paired
  BY WaitingPaired DEF LoopOK, TypeOK, Places, Messages
<1>. QED  BY <1>1, <1>2, InitTypes, TypeStep, TellsStep, WaitingStep, PTL DEF Spec

-----------------------------------------------------------------------------
\* A non-empty set of natural numbers has its minimum in it.
LEMMA MinInSet ==
  ASSUME NEW S, S \subseteq Nat, S # {}
  PROVE  Min(S) \in S
<1>1. PICK x \in S : \A y \in S : <<y, x>> \notin OpToRel(<, Nat)
  BY NatLessThanWellFounded, WFMin
<1>2. \A y \in S : ~(y < x)
  BY <1>1 DEF OpToRel
<1>3. \A y \in S : x <= y
  BY <1>2
<1>. QED  BY <1>3 DEF Min

-----------------------------------------------------------------------------
(* The managed agents: types.                                              *)

Runs ==
  [pc : {"idle", "ensure", "poll", "delete", "clear", "end"}, task : Tasks \cup {None},
   seen : [1..4 -> Nat], retried : BOOLEAN,
   outcome : {"done", "needs-input", "failed", None}, hurt : BOOLEAN, beside : BOOLEAN]

Sessions ==
  [state : {"unborn", "idle", "running", "terminated", "deleted"}, store : Nat, asked : BOOLEAN]

Busy(w) == run[w].pc # "idle"

Managed ==
  /\ recorded \in [Resources -> Nat] /\ stores \in Nat /\ bad \in Nat
  /\ \A a \in Agents : recorded[SessionOf(a)] \in 0..MaxMade
  /\ session \in [Agents \X (1..MaxMade) -> Sessions]
  /\ status \in [Tasks -> {"queued", "working", "done", "needs-input", "failed", "stopped", None}]
  /\ run \in [Workers -> Runs]
  /\ \A w \in Workers : Busy(w) => run[w].task \in Tasks
  /\ \A w \in Workers : run[w].seen[4] \in 0..MaxMade
  /\ raced \in BOOLEAN

LEMMA KindsAre ==
  /\ DOMAIN Kinds = 1..4
  /\ Kinds[1] = "environment" /\ Kinds[2] = "store" /\ Kinds[3] = "agent" /\ Kinds[4] = "session"
BY DEF Kinds

LEMMA ResourcesAre ==
  ASSUME NEW a \in Agents
  PROVE  /\ Store \in Resources /\ SessionOf(a) \in Resources
         /\ Resource(Kinds[1], a) \in Resources /\ Resource(Kinds[3], a) \in Resources
         /\ Resource(Kinds[2], a) = Store /\ Resource(Kinds[4], a) = SessionOf(a)
         /\ \A b \in Agents :
              /\ SessionOf(b) # Store
              /\ Resource(Kinds[1], a) \notin {Store, SessionOf(b)}
              /\ Resource(Kinds[3], a) \notin {Store, SessionOf(b)}
              /\ a # b => SessionOf(a) # SessionOf(b)
<1>1. \A k \in 1..4 : Resource(Kinds[k], a) \in Resources
  BY KindsAre DEF Resources
<1>2. /\ Resource(Kinds[1], a) = <<"environment", None>> /\ Resource(Kinds[2], a) = <<"store", None>>
      /\ Resource(Kinds[3], a) = <<"agent", a>> /\ Resource(Kinds[4], a) = <<"session", a>>
  BY KindsAre DEF Resource
<1>3. Store = <<"store", None>> /\ \A b : SessionOf(b) = <<"session", b>>
  BY DEF Store, SessionOf, Resource
<1>. QED  BY <1>1, <1>2, <1>3

LEMMA NoRunType == NoRun \in Runs /\ NoRun.pc = "idle" /\ NoRun.seen[4] = 0
<1>1. [k \in DOMAIN Kinds |-> 0] \in [1..4 -> Nat]
  BY KindsAre
<1>2. NoRun.seen = [k \in DOMAIN Kinds |-> 0]
  BY DEF NoRun
<1>. QED  BY <1>1, <1>2, KindsAre DEF NoRun, Runs

LEMMA InitManagedTypes == InitManaged => Managed
<1>. SUFFICES ASSUME InitManaged PROVE Managed
  OBVIOUS
<1>1. \A w \in Workers : run[w] = NoRun
  BY DEF InitManaged
<1>2. run \in [Workers -> Runs]
  BY NoRunType DEF InitManaged
<1>3. MaxMade \in Nat
  BY ManagedAssumption
<1>4. \A a \in Agents : recorded[SessionOf(a)] = 0
  BY ResourcesAre DEF InitManaged
<1>5. Unborn \in Sessions
  BY DEF Unborn, Sessions
<1>6. recorded \in [Resources -> Nat] /\ stores \in Nat /\ bad \in Nat
  BY DEF InitManaged
<1>7. session \in [Agents \X (1..MaxMade) -> Sessions]
  BY <1>5 DEF InitManaged
<1>8. status \in [Tasks -> {"queued", "working", "done", "needs-input", "failed", "stopped", None}]
      /\ raced \in BOOLEAN
  BY DEF InitManaged
<1>. QED  BY <1>1, <1>2, <1>3, <1>4, <1>6, <1>7, <1>8, NoRunType DEF Managed, Busy

\* The worker w goes on with r; the others do not move.
Goes(w, r) == r \in Runs /\ run' = [run EXCEPT ![w] = r]

LEMMA GoesIs ==
  ASSUME Managed, NEW w \in Workers, NEW r, Goes(w, r)
  PROVE  /\ run' \in [Workers -> Runs]
         /\ run'[w] = r
         /\ \A v \in Workers \ {w} : run'[v] = run[v]
BY DEF Managed, Goes

\* What a step of a run that only moves it on leaves as it was.
Steady(w) ==
  /\ run'[w].task = run[w].task /\ run'[w].seen = run[w].seen
  /\ run'[w].retried = run[w].retried /\ run'[w].beside = run[w].beside
  /\ run[w].hurt => run'[w].hurt

Others(w) == \A v \in Workers \ {w} : run'[v] = run[v]

LEMMA MoveDoes ==
  ASSUME Managed, NEW w \in Workers, NEW at \in {"ensure", "poll", "delete", "clear", "end"},
         Move(w, at)
  PROVE  /\ run' \in [Workers -> Runs]
         /\ run'[w].pc = at /\ run'[w].outcome = run[w].outcome /\ run'[w].hurt = run[w].hurt
         /\ Steady(w) /\ Others(w)
BY DEF Managed, Runs, Others, Steady, Move

LEMMA FailDoes ==
  ASSUME Managed, NEW w \in Workers, Fail(w)
  PROVE  /\ run' \in [Workers -> Runs]
         /\ run'[w].pc = "end" /\ run'[w].outcome = "failed" /\ run'[w].hurt
         /\ Steady(w) /\ Others(w)
BY DEF Managed, Runs, Others, Steady, Fail

LEMMA EndsDoes ==
  ASSUME Managed, NEW w \in Workers, NEW outcome \in {"done", "needs-input", "failed"},
         run' = [run EXCEPT ![w].pc = "end", ![w].outcome = outcome]
  PROVE  /\ run' \in [Workers -> Runs]
         /\ run'[w].pc = "end" /\ run'[w].outcome = outcome /\ run'[w].hurt = run[w].hurt
         /\ Steady(w) /\ Others(w)
BY DEF Managed, Runs, Others, Steady

LEMMA StopsDoes ==
  ASSUME Managed, NEW w \in Workers, run' = [run EXCEPT ![w] = NoRun]
  PROVE  /\ run' \in [Workers -> Runs]
         /\ run'[w] = NoRun /\ run'[w].pc = "idle" /\ run'[w].seen[4] = 0
         /\ Others(w)
BY NoRunType DEF Managed, Others

LEMMA SeesDoes ==
  ASSUME Managed, NEW w \in Workers, NEW k \in 1..4, NEW n \in Nat,
         run' = [run EXCEPT ![w].seen[k] = n]
  PROVE  /\ run' \in [Workers -> Runs]
         /\ run'[w].seen = [run[w].seen EXCEPT ![k] = n]
         /\ run'[w].seen[k] = n /\ \A j \in (1..4) \ {k} : run'[w].seen[j] = run[w].seen[j]
         /\ run'[w].pc = run[w].pc /\ run'[w].task = run[w].task
         /\ run'[w].outcome = run[w].outcome /\ run'[w].hurt = run[w].hurt
         /\ run'[w].retried = run[w].retried /\ run'[w].beside = run[w].beside
         /\ Others(w)
<1>1. run[w] \in Runs /\ run[w].seen \in [1..4 -> Nat]
  BY DEF Managed, Runs
<1>. DEFINE seen == [run[w].seen EXCEPT ![k] = n]
            r == [run[w] EXCEPT !.seen = seen]
<1>2. run' = [run EXCEPT ![w] = r]
  BY DEF Managed
<1>3. seen \in [1..4 -> Nat] /\ seen[k] = n /\ \A j \in (1..4) \ {k} : seen[j] = run[w].seen[j]
  BY <1>1
<1>. HIDE DEF seen
<1>4. /\ r \in Runs /\ r.seen = seen
      /\ r.pc = run[w].pc /\ r.task = run[w].task
      /\ r.outcome = run[w].outcome /\ r.hurt = run[w].hurt
      /\ r.retried = run[w].retried /\ r.beside = run[w].beside
  BY <1>1, <1>3 DEF Runs
<1>. HIDE DEF r
<1>5. run'[w] = r /\ run' \in [Workers -> Runs] /\ Others(w)
  BY <1>2, <1>4, GoesIs DEF Goes, Others
<1>. QED  BY <1>3, <1>4, <1>5 DEF seen

-----------------------------------------------------------------------------
(* What each step does to the row of the store and to those of the         *)
(* sessions, to the sessions, the tasks and the run, types included.       *)

LEMMA OwnerIs ==
  ASSUME Managed, NEW w \in Workers, Busy(w)
  PROVE  run[w].task \in Tasks /\ Owner(w) \in Agents
BY ManagedAssumption DEF Managed, Owner

Typing ==
  /\ recorded' \in [Resources -> Nat] /\ stores' \in Nat /\ bad' \in Nat
  /\ \A a \in Agents : recorded'[SessionOf(a)] \in 0..MaxMade
  /\ session' \in [Agents \X (1..MaxMade) -> Sessions]
  /\ status' \in [Tasks -> {"queued", "working", "done", "needs-input", "failed", "stopped", None}]
  /\ raced' \in BOOLEAN

\* A run that is steady, or over, keeps its type.
LEMMA SteadyTypes ==
  ASSUME Managed, NEW w \in Workers, Busy(w), run' \in [Workers -> Runs], Others(w),
         Steady(w) \/ run'[w] = NoRun, Typing
  PROVE  Managed'
<1>1. run'[w].seen[4] \in 0..MaxMade
  <2>1. MaxMade \in Nat
    BY ManagedAssumption
  <2>. QED  BY <2>1, NoRunType DEF Managed, Steady
<1>2. \A v \in Workers : run'[v].seen[4] \in 0..MaxMade
  BY <1>1 DEF Managed, Others
<1>3. Busy(w)' => run'[w].task \in Tasks
  BY OwnerIs, NoRunType DEF Steady, Busy
<1>4. \A v \in Workers : Busy(v)' => run'[v].task \in Tasks
  BY <1>3 DEF Managed, Others, Busy
<1>. QED  BY <1>2, <1>4 DEF Managed, Typing

LEMMA BeginDoes ==
  ASSUME Managed, NEW w \in Workers, NEW t \in Tasks, BeginManaged(w, t)
  PROVE  /\ Managed' /\ ~Busy(w) /\ status[t] = "queued"
         /\ \A u \in Tasks : AgentOf[u] = AgentOf[t] => status[u] # "working"
         /\ status' = [status EXCEPT ![t] = "working"]
         /\ run'[w].pc = "ensure" /\ run'[w].task = t
         /\ run'[w].seen[2] = recorded[Store] /\ run'[w].seen[4] = recorded[SessionOf(AgentOf[t])]
         /\ ~run'[w].retried /\ ~run'[w].hurt
         /\ \A v \in Workers \ {w} : Busy(v) /\ Owner(v) = AgentOf[t] => run'[w].beside
         /\ raced' = (raced \/ \E v \in Workers \ {w} :
                                 Busy(v) /\ recorded[Store] = 0 /\ run[v].seen[2] = 0)
         /\ Others(w)
         /\ UNCHANGED <<recorded, session, left, inherited>>
<1>. DEFINE a == AgentOf[t]
            seen == [k \in DOMAIN Kinds |-> recorded[Resource(Kinds[k], a)]]
            beside == \E v \in {v \in Workers \ {w} : ~In(v, "idle")} : Owner(v) = AgentOf[t]
            r == [NoRun EXCEPT !.pc = "ensure", !.task = t, !.seen = seen, !.beside = beside]
<1>1. a \in Agents
  BY ManagedAssumption
<1>2. /\ seen \in [1..4 -> Nat]
      /\ seen[2] = recorded[Store] /\ seen[4] = recorded[SessionOf(a)]
  <2>1. seen = [k \in 1..4 |-> recorded[Resource(Kinds[k], a)]]
    BY KindsAre
  <2>2. \A k \in 1..4 : Resource(Kinds[k], a) \in Resources
    BY <1>1, KindsAre DEF Resources
  <2>. QED  BY <1>1, <2>1, <2>2, ResourcesAre DEF Managed
<1>3. run' = [run EXCEPT ![w] = r]
  BY DEF BeginManaged
<1>. HIDE DEF seen
<1>4. beside \in BOOLEAN
  OBVIOUS
<1>5. beside <=> \E v \in Workers \ {w} : Busy(v) /\ Owner(v) = AgentOf[t]
  BY DEF Busy, In
<1>. HIDE DEF beside
<1>6. /\ r \in Runs /\ r.pc = "ensure" /\ r.task = t /\ r.seen = seen
      /\ ~r.retried /\ ~r.hurt /\ r.beside = beside
  BY <1>2, <1>4, NoRunType DEF NoRun, Runs
<1>. HIDE DEF r
<1>7. run' \in [Workers -> Runs] /\ run'[w] = r /\ Others(w)
  BY <1>3, <1>6, GoesIs DEF Goes, Others
<1>8. /\ ~Busy(w) /\ status[t] = "queued"
      /\ \A u \in Tasks : AgentOf[u] = AgentOf[t] => status[u] # "working"
      /\ status' = [status EXCEPT ![t] = "working"]
      /\ UNCHANGED <<recorded, stores, session, bad, left, inherited>>
  BY DEF BeginManaged, Busy, In
<1>9. raced' = (raced \/ \E v \in Workers \ {w} :
                           Busy(v) /\ recorded[Store] = 0 /\ run[v].seen[2] = 0)
  BY DEF BeginManaged, Busy, In
<1>10. Managed'
  <2>1. \A v \in Workers : run'[v].seen[4] \in 0..MaxMade /\ (Busy(v)' => run'[v].task \in Tasks)
    BY <1>1, <1>2, <1>6, <1>7 DEF Managed, Others, Busy
  <2>2. status' \in [Tasks -> {"queued", "working", "done", "needs-input", "failed", "stopped", None}]
    BY <1>8 DEF Managed
  <2>3. raced' \in BOOLEAN
    BY <1>9 DEF Managed
  <2>. QED  BY <1>7, <1>8, <2>1, <2>2, <2>3 DEF Managed
<1>. QED  BY <1>2, <1>5, <1>6, <1>7, <1>8, <1>9, <1>10

LEMMA MissingIs ==
  ASSUME Managed, NEW w \in Workers, Missing(w) # {}
  PROVE  Min(Missing(w)) \in 1..4 /\ run[w].seen[Min(Missing(w))] = 0
<1>1. Missing(w) \subseteq 1..4
  BY KindsAre DEF Missing
<1>2. Min(Missing(w)) \in Missing(w)
  BY <1>1, MinInSet
<1>. QED  BY <1>1, <1>2 DEF Missing

\* A run that has learnt an id, and what else it leaves as it was.
Learns(w, k) ==
  /\ run'[w].pc = "ensure" /\ run[w].pc = "ensure" /\ run'[w].task = run[w].task
  /\ \A j \in (1..4) \ {k} : run'[w].seen[j] = run[w].seen[j]
  /\ run'[w].retried = run[w].retried /\ run'[w].beside = run[w].beside
  /\ run'[w].hurt = run[w].hurt
  /\ Others(w)
  /\ UNCHANGED <<status, raced, left, inherited>>

LEMMA EnsureOtherDoes ==
  ASSUME Managed, NEW w \in Workers, EnsureOther(w)
  PROVE  /\ Managed' /\ (Learns(w, 1) \/ Learns(w, 3))
         /\ recorded'[Store] = recorded[Store]
         /\ \A a \in Agents : recorded'[SessionOf(a)] = recorded[SessionOf(a)]
         /\ UNCHANGED session
<1>. DEFINE k == Min(Missing(w))
            a == Owner(w)
<1>1. /\ run[w].pc = "ensure" /\ k \in {1, 3}
      /\ recorded' = [recorded EXCEPT ![Resource(Kinds[k], a)] = 1]
      /\ run' = [run EXCEPT ![w].seen[k] = 1]
      /\ UNCHANGED <<stores, session, status, bad, raced, left, inherited>>
  BY DEF EnsureOther, In, past
<1>. HIDE DEF k
<1>2. run[w].task \in Tasks /\ a \in Agents
  BY <1>1, OwnerIs DEF Busy
<1>3. /\ recorded' \in [Resources -> Nat]
      /\ recorded'[Store] = recorded[Store]
      /\ \A b \in Agents : recorded'[SessionOf(b)] = recorded[SessionOf(b)]
  BY <1>1, <1>2, ResourcesAre DEF Managed
<1>4. /\ run' \in [Workers -> Runs] /\ Learns(w, k)
  <2>1. k \in 1..4 /\ 1 \in Nat
    BY <1>1
  <2>2. /\ run' \in [Workers -> Runs]
        /\ \A j \in (1..4) \ {k} : run'[w].seen[j] = run[w].seen[j]
        /\ run'[w].pc = run[w].pc /\ run'[w].task = run[w].task /\ run'[w].hurt = run[w].hurt
        /\ run'[w].retried = run[w].retried /\ run'[w].beside = run[w].beside
        /\ Others(w)
    BY <1>1, <2>1, SeesDoes
  <2>. QED  BY <1>1, <2>2 DEF Learns
<1>5. Managed'
  <2>1. run'[w].seen[4] = run[w].seen[4]
    BY <1>1, <1>4 DEF Learns
  <2>2. \A v \in Workers : run'[v].seen[4] \in 0..MaxMade /\ (Busy(v)' => run'[v].task \in Tasks)
    BY <1>2, <1>4, <2>1 DEF Learns, Managed, Others, Busy
  <2>. QED  BY <1>1, <1>3, <1>4, <2>2 DEF Managed
<1>. QED  BY <1>1, <1>3, <1>4, <1>5

LEMMA EnsureStoreDoes ==
  ASSUME Managed, NEW w \in Workers, EnsureStore(w)
  PROVE  /\ Managed' /\ Learns(w, 2)
         /\ run[w].seen[2] = 0 /\ run'[w].seen[2] = recorded'[Store] /\ recorded'[Store] # 0
         /\ \A a \in Agents : recorded'[SessionOf(a)] = recorded[SessionOf(a)]
         /\ UNCHANGED session
<1>1. /\ run[w].pc = "ensure" /\ Missing(w) # {} /\ Min(Missing(w)) = 2
      /\ stores' = stores + 1
      /\ recorded' = [recorded EXCEPT ![Store] = stores + 1]
      /\ run' = [run EXCEPT ![w].seen[2] = stores + 1]
      /\ UNCHANGED <<session, status, bad, raced, left, inherited>>
  BY DEF EnsureStore, In, past
<1>2. run[w].task \in Tasks /\ Owner(w) \in Agents
  BY <1>1, OwnerIs DEF Busy
<1>3. run[w].seen[2] = 0
  BY <1>1, MissingIs
<1>4. stores + 1 \in Nat /\ stores + 1 # 0
  BY DEF Managed
<1>5. /\ recorded' \in [Resources -> Nat]
      /\ recorded'[Store] = stores + 1
      /\ \A b \in Agents : recorded'[SessionOf(b)] = recorded[SessionOf(b)]
  BY <1>1, <1>2, <1>4, ResourcesAre DEF Managed
<1>6. run' \in [Workers -> Runs] /\ Learns(w, 2) /\ run'[w].seen[2] = stores + 1
  <2>1. /\ run' \in [Workers -> Runs] /\ run'[w].seen[2] = stores + 1
        /\ \A j \in (1..4) \ {2} : run'[w].seen[j] = run[w].seen[j]
        /\ run'[w].pc = run[w].pc /\ run'[w].task = run[w].task /\ run'[w].hurt = run[w].hurt
        /\ run'[w].retried = run[w].retried /\ run'[w].beside = run[w].beside
        /\ Others(w)
    <3>1. PICK k \in 1..4, n \in Nat : k = 2 /\ n = stores + 1
      BY <1>4
    <3>2. run' = [run EXCEPT ![w].seen[k] = n]
      BY <1>1, <3>1
    <3>3. /\ run' \in [Workers -> Runs] /\ run'[w].seen[k] = n
          /\ \A j \in (1..4) \ {k} : run'[w].seen[j] = run[w].seen[j]
          /\ run'[w].pc = run[w].pc /\ run'[w].task = run[w].task /\ run'[w].hurt = run[w].hurt
          /\ run'[w].retried = run[w].retried /\ run'[w].beside = run[w].beside
          /\ Others(w)
      BY <3>2, SeesDoes
    <3>. QED  BY <3>1, <3>3
  <2>. QED  BY <1>1, <2>1 DEF Learns
<1>7. Managed'
  <2>1. run'[w].seen[4] = run[w].seen[4]
    BY <1>6 DEF Learns
  <2>2. \A v \in Workers : run'[v].seen[4] \in 0..MaxMade /\ (Busy(v)' => run'[v].task \in Tasks)
    BY <1>2, <1>6, <2>1 DEF Learns, Managed, Others, Busy
  <2>. QED  BY <1>1, <1>4, <1>5, <1>6, <2>2 DEF Managed
<1>. QED  BY <1>1, <1>3, <1>4, <1>5, <1>6, <1>7

LEMMA EnsureSessionDoes ==
  ASSUME Managed, NEW w \in Workers, EnsureSession(w)
  PROVE  /\ Managed' /\ Learns(w, 4)
         /\ run[w].seen[4] = 0 /\ run[w].seen[2] # 0
         /\ recorded'[Store] = recorded[Store]
         /\ \A a \in Agents \ {Owner(w)} : recorded'[SessionOf(a)] = recorded[SessionOf(a)]
         /\ LET n == run'[w].seen[4] IN
            /\ n \in 1..MaxMade /\ recorded'[SessionOf(Owner(w))] = n
            /\ session[<<Owner(w), n>>].state = "unborn"
            /\ session'[<<Owner(w), n>>].state = "idle"
            /\ session'[<<Owner(w), n>>].store = run[w].seen[2]
            /\ \A s \in DOMAIN session \ {<<Owner(w), n>>} : session'[s] = session[s]
<1>. DEFINE a == Owner(w)
            unborn == {n \in 1..MaxMade : session[<<a, n>>].state = "unborn"}
            n == Min(unborn)
            new == [Unborn EXCEPT !.state = "idle", !.store = run[w].seen[2]]
<1>1. /\ run[w].pc = "ensure" /\ Missing(w) = {4} /\ unborn # {}
      /\ session' = [session EXCEPT ![<<a, n>>] = new]
      /\ recorded' = [recorded EXCEPT ![SessionOf(a)] = n]
      /\ run' = [run EXCEPT ![w].seen[4] = n]
      /\ UNCHANGED <<stores, status, bad, raced, left, inherited>>
  BY DEF EnsureSession, In, past
<1>2. run[w].task \in Tasks /\ a \in Agents
  BY <1>1, OwnerIs DEF Busy
<1>3. run[w].seen[4] = 0 /\ run[w].seen[2] # 0 /\ run[w].seen[2] \in Nat
  BY <1>1, KindsAre DEF Missing, Managed, Runs
<1>4. n \in unborn
  <2>1. unborn \subseteq Nat
    OBVIOUS
  <2>. QED  BY <1>1, <2>1, MinInSet
<1>5. n \in 1..MaxMade /\ session[<<a, n>>].state = "unborn"
  BY <1>4
<1>6. new \in Sessions /\ new.state = "idle" /\ new.store = run[w].seen[2]
  BY <1>3 DEF Unborn, Sessions
<1>. HIDE DEF n, unborn, new, a
<1>7. /\ session' \in [Agents \X (1..MaxMade) -> Sessions]
      /\ session'[<<a, n>>] = new /\ \A s \in DOMAIN session \ {<<a, n>>} : session'[s] = session[s]
  BY <1>1, <1>2, <1>5, <1>6 DEF Managed
<1>8. n \in Nat /\ n \in 0..MaxMade
  BY <1>5
<1>9. /\ recorded' \in [Resources -> Nat]
      /\ recorded'[Store] = recorded[Store]
      /\ recorded'[SessionOf(a)] = n
      /\ \A b \in Agents \ {a} : recorded'[SessionOf(b)] = recorded[SessionOf(b)]
  BY <1>1, <1>2, <1>8, ResourcesAre DEF Managed
<1>10. run' \in [Workers -> Runs] /\ Learns(w, 4) /\ run'[w].seen[4] = n
  <2>1. /\ run' \in [Workers -> Runs] /\ run'[w].seen[4] = n
        /\ \A j \in (1..4) \ {4} : run'[w].seen[j] = run[w].seen[j]
        /\ run'[w].pc = run[w].pc /\ run'[w].task = run[w].task /\ run'[w].hurt = run[w].hurt
        /\ run'[w].retried = run[w].retried /\ run'[w].beside = run[w].beside
        /\ Others(w)
    <3>1. PICK k \in 1..4 : k = 4
      OBVIOUS
    <3>2. run' = [run EXCEPT ![w].seen[k] = n]
      BY <1>1, <3>1
    <3>3. /\ run' \in [Workers -> Runs] /\ run'[w].seen[k] = n
          /\ \A j \in (1..4) \ {k} : run'[w].seen[j] = run[w].seen[j]
          /\ run'[w].pc = run[w].pc /\ run'[w].task = run[w].task /\ run'[w].hurt = run[w].hurt
          /\ run'[w].retried = run[w].retried /\ run'[w].beside = run[w].beside
          /\ Others(w)
      BY <1>8, <3>2, SeesDoes
    <3>. QED  BY <3>1, <3>3
  <2>. QED  BY <1>1, <2>1 DEF Learns
<1>11. Managed'
  <2>1. \A v \in Workers : run'[v].seen[4] \in 0..MaxMade /\ (Busy(v)' => run'[v].task \in Tasks)
    BY <1>2, <1>8, <1>10 DEF Learns, Managed, Others, Busy
  <2>2. \A b \in Agents : recorded'[SessionOf(b)] \in 0..MaxMade
    BY <1>8, <1>9 DEF Managed
  <2>. QED  BY <1>1, <1>7, <1>9, <1>10, <2>1, <2>2 DEF Managed
<1>. QED  BY <1>3, <1>5, <1>6, <1>7, <1>9, <1>10, <1>11 DEF a

\* The other steps look for no store and attach no session to one.
KeepsStore ==
  /\ \A v \in Workers : Busy(v)' => Busy(v) /\ run'[v].seen[2] = run[v].seen[2]
  /\ recorded'[Store] = recorded[Store]
  /\ \A a \in Agents : recorded'[SessionOf(a)] \in {0, recorded[SessionOf(a)]}
  /\ \A s \in DOMAIN session : session'[s].store = session[s].store
  /\ raced' = raced

LEMMA SteadyKeepsStore ==
  ASSUME Managed, NEW w \in Workers, Busy(w), Steady(w) \/ run'[w] = NoRun, Others(w),
         UNCHANGED <<recorded, raced>>,
         \A s \in DOMAIN session : session'[s].store = session[s].store
  PROVE  KeepsStore
BY NoRunType DEF Steady, Others, KeepsStore, Busy

LEMMA SessionUpdate ==
  ASSUME Managed, NEW s \in DOMAIN session,
         NEW state \in {"unborn", "idle", "running", "terminated", "deleted"},
         session' = [session EXCEPT ![s].state = state]
  PROVE  /\ session' \in [Agents \X (1..MaxMade) -> Sessions]
         /\ session'[s].state = state
         /\ \A u \in DOMAIN session : session'[u].store = session[u].store
         /\ \A u \in DOMAIN session \ {s} : session'[u] = session[u]
BY DEF Managed, Sessions

LEMMA SidInside ==
  ASSUME Managed, NEW w \in Workers, Busy(w), run[w].seen[4] # 0
  PROVE  Sid(w) \in DOMAIN session
<1>1. run[w].seen[4] \in 1..MaxMade /\ Owner(w) \in Agents
  <2>1. MaxMade \in Nat
    BY ManagedAssumption
  <2>. QED  BY <2>1, OwnerIs DEF Managed
<1>. QED  BY <1>1 DEF Sid, Managed

LEMMA EnsureFailsDoes ==
  ASSUME Managed, NEW w \in Workers, EnsureFails(w)
  PROVE  /\ Managed' /\ KeepsStore /\ Steady(w) /\ Others(w)
         /\ run[w].pc = "ensure" /\ run'[w].pc = "end" /\ run'[w].hurt
         /\ UNCHANGED <<session, status, left, inherited>>
<1>1. /\ run[w].pc = "ensure" /\ Fail(w)
      /\ bad' = bad + 1
      /\ UNCHANGED <<recorded, stores, session, status, raced, left, inherited>>
  BY DEF EnsureFails, In, Wrong, past
<1>2. Busy(w)
  BY <1>1 DEF Busy
<1>3. Typing
  BY <1>1 DEF Managed, Typing
<1>. QED  BY <1>1, <1>2, <1>3, FailDoes, SteadyTypes, SteadyKeepsStore

LEMMA SendDoes ==
  ASSUME Managed, NEW w \in Workers, Send(w)
  PROVE  /\ Managed' /\ KeepsStore /\ Steady(w) /\ Others(w)
         /\ run[w].pc = "ensure" /\ run'[w].pc = "poll" /\ run'[w].hurt = run[w].hurt
         /\ Sid(w) \in DOMAIN session /\ session'[Sid(w)].state = "running"
         /\ \A s \in DOMAIN session \ {Sid(w)} : session'[s] = session[s]
         /\ left' = left \ {Sid(w)}
         /\ UNCHANGED <<status, inherited>>
<1>1. /\ run[w].pc = "ensure" /\ Missing(w) = {} /\ Move(w, "poll")
      /\ session' = [session EXCEPT ![Sid(w)].state = "running"]
      /\ left' = left \ {Sid(w)}
      /\ UNCHANGED <<recorded, stores, status, bad, raced, inherited>>
  BY DEF Send, Ready, In
<1>2. Busy(w)
  BY <1>1 DEF Busy
<1>3. Sid(w) \in DOMAIN session
  BY <1>1, <1>2, KindsAre, SidInside DEF Missing
<1>4. /\ session' \in [Agents \X (1..MaxMade) -> Sessions]
      /\ session'[Sid(w)].state = "running"
      /\ \A u \in DOMAIN session : session'[u].store = session[u].store
      /\ \A u \in DOMAIN session \ {Sid(w)} : session'[u] = session[u]
  BY <1>1, <1>3, SessionUpdate
<1>5. Typing
  BY <1>1, <1>4 DEF Managed, Typing
<1>6. /\ run' \in [Workers -> Runs] /\ run'[w].pc = "poll" /\ run'[w].hurt = run[w].hurt
      /\ Steady(w) /\ Others(w)
  BY <1>1, MoveDoes
<1>. QED  BY <1>1, <1>2, <1>3, <1>4, <1>5, <1>6, SteadyTypes, SteadyKeepsStore

\* A refused message: the run looks for a new session, or is over.  The second time it
\* is the run's own failure, unless somebody has deleted the session.
LEMMA SendFailsDoes ==
  ASSUME Managed, NEW w \in Workers, SendFails(w)
  PROVE  /\ Managed' /\ KeepsStore /\ Others(w)
         /\ run[w].pc = "ensure" /\ run'[w].pc \in {"ensure", "end"}
         /\ run[w].seen[4] # 0
         /\ run'[w].task = run[w].task /\ run'[w].beside = run[w].beside
         /\ run[w].hurt => run'[w].hurt
         /\ run'[w].pc = "ensure" => run'[w].seen[4] = 0
         /\ run'[w].pc = "end" =>
              run'[w].hurt \/ (run[w].retried /\ session[Sid(w)].state = "deleted")
         /\ UNCHANGED <<session, status, left, inherited>>
<1>. DEFINE hurt == \/ run[w].hurt \/ bad' # bad
                    \/ run[w].retried /\ session[Sid(w)].state = "terminated"
            q == [run[w] EXCEPT !.hurt = hurt]
            r == Retry(q)
<1>1. /\ run[w].pc = "ensure" /\ Missing(w) = {}
      /\ \/ session[Sid(w)].state \in {"terminated", "deleted"} /\ bad' = bad
         \/ bad' = bad + 1
      /\ recorded' = IF run[w].retried THEN recorded
                     ELSE [recorded EXCEPT ![SessionOf(Owner(w))] = 0]
      /\ run' = [run EXCEPT ![w] = r]
      /\ UNCHANGED <<stores, session, status, raced, left, inherited>>
  BY DEF SendFails, Ready, In, Wrong, past
<1>2. Busy(w) /\ run[w] \in Runs /\ Owner(w) \in Agents
  BY <1>1, OwnerIs DEF Busy, Managed
<1>3. run[w].seen[4] # 0
  BY <1>1, KindsAre DEF Missing
<1>4. hurt \in BOOLEAN
  BY <1>2 DEF Runs
<1>. HIDE DEF hurt
<1>5. /\ q \in Runs /\ q.hurt = hurt /\ q.task = run[w].task /\ q.beside = run[w].beside
      /\ q.retried = run[w].retried /\ q.seen = run[w].seen /\ q.pc = run[w].pc
  BY <1>2, <1>4 DEF Runs
<1>. HIDE DEF q
<1>6. /\ r \in Runs /\ r.pc \in {"ensure", "end"}
      /\ r.task = q.task /\ r.beside = q.beside /\ r.hurt = q.hurt
      /\ r.seen[2] = q.seen[2] /\ r.seen[4] \in {0, q.seen[4]}
      /\ r.pc = "ensure" => r.seen[4] = 0
      /\ r.pc = "end" => q.retried
  <2>1. CASE q.retried
    BY <1>5, <2>1 DEF Retry, Runs
  <2>2. CASE ~q.retried
    <3>. DEFINE seen == [q.seen EXCEPT ![4] = 0]
    <3>1. seen \in [1..4 -> Nat] /\ seen[2] = q.seen[2] /\ seen[4] = 0
      BY <1>5 DEF Runs
    <3>2. r = [q EXCEPT !.pc = "ensure", !.seen = seen, !.retried = TRUE]
      BY <1>5, <2>2 DEF Retry, Runs
    <3>. HIDE DEF seen
    <3>. QED  BY <1>5, <3>1, <3>2 DEF Runs
  <2>. QED  BY <2>1, <2>2
<1>. HIDE DEF r
<1>7. run' \in [Workers -> Runs] /\ run'[w] = r /\ Others(w)
  BY <1>1, <1>6, GoesIs DEF Goes, Others
<1>8. /\ recorded' \in [Resources -> Nat]
      /\ recorded'[Store] = recorded[Store]
      /\ \A a \in Agents : recorded'[SessionOf(a)] \in {0, recorded[SessionOf(a)]}
  BY <1>1, <1>2, ResourcesAre DEF Managed
<1>9. MaxMade \in Nat
  BY ManagedAssumption
<1>10. Managed'
  <2>1. \A v \in Workers : run'[v].seen[4] \in 0..MaxMade
    BY <1>5, <1>6, <1>7, <1>9 DEF Managed, Others
  <2>2. \A v \in Workers : Busy(v)' => run'[v].task \in Tasks
    BY <1>2, <1>5, <1>6, <1>7 DEF Managed, Others, Busy
  <2>3. \A a \in Agents : recorded'[SessionOf(a)] \in 0..MaxMade
    BY <1>8, <1>9 DEF Managed
  <2>. QED  BY <1>1, <1>7, <1>8, <2>1, <2>2, <2>3 DEF Managed
<1>11. KeepsStore
  BY <1>1, <1>2, <1>5, <1>6, <1>7, <1>8 DEF KeepsStore, Others, Busy
<1>12. r.pc = "end" => r.hurt \/ (run[w].retried /\ session[Sid(w)].state = "deleted")
  <2>1. bad' = bad + 1 => bad' # bad
    <3>1. bad \in Nat
      BY DEF Managed
    <3>. QED  BY <3>1
  <2>. QED  BY <1>1, <1>5, <1>6, <2>1 DEF hurt
<1>. QED  BY <1>1, <1>3, <1>5, <1>6, <1>7, <1>10, <1>11, <1>12 DEF hurt

\* A run that stops asking: its session is at rest, counted as left, or somebody else's.
LetsGo(w) ==
  /\ left \subseteq left'
  /\ session[Sid(w)].state = "running" =>
       Sid(w) \in left' \/ \E v \in Workers \ {w} : run[v].pc = "poll" /\ Sid(v) = Sid(w)

LEMMA LeavesDoes == ASSUME NEW w \in Workers, Leaves(w) PROVE LetsGo(w)
BY DEF Leaves, LetsGo, In

LEMMA PollStoppedDoes ==
  ASSUME Managed, NEW w \in Workers, PollStopped(w)
  PROVE  /\ Managed' /\ KeepsStore /\ Steady(w) /\ Others(w)
         /\ run[w].pc = "poll" /\ run'[w].pc = "delete" /\ status[run[w].task] = "stopped"
         /\ UNCHANGED <<session, status, left, inherited>>
<1>1. /\ run[w].pc = "poll" /\ Move(w, "delete") /\ status[run[w].task] = "stopped"
      /\ UNCHANGED <<recorded, stores, session, status, bad, raced, left, inherited>>
  BY DEF PollStopped, Reads, In, past
<1>2. Busy(w)
  BY <1>1 DEF Busy
<1>3. Typing
  BY <1>1 DEF Managed, Typing
<1>4. /\ run' \in [Workers -> Runs] /\ run'[w].pc = "delete" /\ Steady(w) /\ Others(w)
  BY <1>1, MoveDoes
<1>. QED  BY <1>1, <1>2, <1>3, <1>4, SteadyTypes, SteadyKeepsStore

\* The answer, or the end of a run that could not wait for it.
LEMMA PollEndsDoes ==
  ASSUME Managed, NEW w \in Workers, PollIdle(w) \/ GivesUp(w) \/ PollFails(w)
  PROVE  /\ Managed' /\ KeepsStore /\ Steady(w) /\ Others(w) /\ LetsGo(w)
         /\ run[w].pc = "poll" /\ run'[w].pc = "end"
         /\ \/ run'[w].outcome # "failed" \/ run'[w].hurt
            \/ session[Sid(w)].state = "deleted"
         /\ UNCHANGED <<session, status, inherited>>
<1>1. /\ run[w].pc = "poll"
      /\ bad' = bad \/ bad' = bad + 1
      /\ UNCHANGED <<recorded, stores, session, status, raced, inherited>>
  BY DEF PollIdle, GivesUp, PollFails, GoesOn, Reads, In, Wrong, past
<1>2. Busy(w)
  BY <1>1 DEF Busy
<1>3. Typing
  BY <1>1 DEF Managed, Typing
<1>4. /\ run' \in [Workers -> Runs] /\ run'[w].pc = "end" /\ Steady(w) /\ Others(w) /\ LetsGo(w)
      /\ \/ run'[w].outcome # "failed" \/ run'[w].hurt
         \/ session[Sid(w)].state = "deleted"
  <2>1. CASE PollIdle(w)
    <3>1. PICK outcome \in {"done", "needs-input"} :
             run' = [run EXCEPT ![w].pc = "end", ![w].outcome = outcome]
      BY <2>1 DEF PollIdle
    <3>2. session[Sid(w)].state # "running" /\ left' = left
      BY <2>1 DEF PollIdle, past
    <3>. QED  BY <3>1, <3>2, EndsDoes DEF LetsGo
  <2>2. CASE GivesUp(w)
    BY <2>2, FailDoes, LeavesDoes DEF GivesUp
  <2>3. CASE PollFails(w)
    <3>1. Leaves(w)
      BY <2>3 DEF PollFails
    <3>2. CASE Fail(w)
      BY <3>1, <3>2, FailDoes, LeavesDoes
    <3>3. CASE session[Sid(w)].state = "deleted"
               /\ run' = [run EXCEPT ![w].pc = "end", ![w].outcome = "failed"]
      BY <3>1, <3>3, EndsDoes, LeavesDoes
    <3>. QED  BY <2>3, <3>2, <3>3 DEF PollFails
  <2>. QED  BY <2>1, <2>2, <2>3
<1>. QED  BY <1>1, <1>2, <1>3, <1>4, SteadyTypes, SteadyKeepsStore

LEMMA EndDoes ==
  ASSUME Managed, NEW w \in Workers, End(w)
  PROVE  /\ Managed' /\ KeepsStore /\ Others(w)
         /\ run[w].pc = "end" /\ run'[w].pc = "idle"
         /\ \A t \in Tasks : t # run[w].task => status'[t] = status[t]
         /\ inherited' = (inherited \/ (/\ run[w].outcome = "failed"
                                        /\ status[run[w].task] # "stopped"
                                        /\ ~run[w].hurt /\ ~run[w].beside))
         /\ UNCHANGED <<session, left>>
<1>. DEFINE t == run[w].task
<1>1. /\ run[w].pc = "end" /\ run' = [run EXCEPT ![w] = NoRun]
      /\ status' = [status EXCEPT ![t] = run[w].outcome] \/ status' = status
      /\ inherited' = (inherited \/ (/\ run[w].outcome = "failed" /\ status[t] # "stopped"
                                     /\ ~run[w].hurt /\ ~run[w].beside))
      /\ UNCHANGED <<recorded, stores, session, bad, raced, left>>
  BY DEF End, In
<1>2. Busy(w) /\ t \in Tasks /\ run[w] \in Runs
  BY <1>1, OwnerIs DEF Busy, Managed
<1>3. run[w].outcome \in {"done", "needs-input", "failed", None}
  BY <1>2 DEF Runs
<1>4. /\ status' \in [Tasks -> {"queued", "working", "done", "needs-input", "failed", "stopped", None}]
      /\ \A u \in Tasks : u # t => status'[u] = status[u]
  BY <1>1, <1>2, <1>3 DEF Managed
<1>5. Typing
  BY <1>1, <1>4 DEF Managed, Typing
<1>6. /\ run' \in [Workers -> Runs] /\ run'[w] = NoRun /\ run'[w].pc = "idle" /\ Others(w)
  BY <1>1, StopsDoes
<1>. QED  BY <1>1, <1>2, <1>4, <1>5, <1>6, SteadyTypes, SteadyKeepsStore

LEMMA DeleteSessionDoes ==
  ASSUME Managed, NEW w \in Workers, DeleteSession(w)
  PROVE  /\ Managed' /\ KeepsStore /\ Steady(w) /\ Others(w)
         /\ run[w].pc = "delete" /\ run'[w].pc = "clear"
         /\ \/ /\ \A s \in DOMAIN session \ {Sid(w)} : session'[s] = session[s]
               /\ Sid(w) \in DOMAIN session => session'[Sid(w)].state = "deleted"
               /\ left' = left \ {Sid(w)}
            \/ session' = session /\ LetsGo(w)
         /\ UNCHANGED <<status, inherited>>
<1>1. /\ run[w].pc = "delete" /\ Move(w, "clear")
      /\ UNCHANGED <<recorded, stores, status, raced, inherited>>
      /\ bad' \in Nat
  BY DEF DeleteSession, In, Wrong, Managed
<1>2. Busy(w)
  BY <1>1 DEF Busy
<1>3. /\ session' \in [Agents \X (1..MaxMade) -> Sessions]
      /\ \A s \in DOMAIN session : session'[s].store = session[s].store
      /\ \/ /\ \A s \in DOMAIN session \ {Sid(w)} : session'[s] = session[s]
            /\ Sid(w) \in DOMAIN session => session'[Sid(w)].state = "deleted"
            /\ left' = left \ {Sid(w)}
         \/ session' = session /\ LetsGo(w)
  <2>1. CASE session' = [session EXCEPT ![Sid(w)].state = "deleted"] /\ left' = left \ {Sid(w)}
    <3>1. CASE Sid(w) \in DOMAIN session
      BY <2>1, <3>1, SessionUpdate
    <3>2. CASE Sid(w) \notin DOMAIN session
      <4>1. session' = session
        BY <2>1, <3>2 DEF Managed
      <4>. QED  BY <2>1, <3>2, <4>1 DEF Managed
    <3>. QED  BY <3>1, <3>2
  <2>2. CASE session' = session /\ Leaves(w)
    BY <2>2, LeavesDoes DEF Managed
  <2>. QED  BY <2>1, <2>2 DEF DeleteSession, Deleted
<1>4. Typing
  BY <1>1, <1>3 DEF Managed, Typing
<1>5. run' \in [Workers -> Runs] /\ run'[w].pc = "clear" /\ Steady(w) /\ Others(w)
  BY <1>1, MoveDoes
<1>. QED  BY <1>1, <1>2, <1>3, <1>4, <1>5, SteadyTypes, SteadyKeepsStore

LEMMA ClearSessionDoes ==
  ASSUME Managed, NEW w \in Workers, ClearSession(w)
  PROVE  /\ Managed' /\ KeepsStore /\ Others(w)
         /\ run[w].pc = "clear" /\ run'[w].pc = "idle"
         /\ UNCHANGED <<session, status, left, inherited>>
<1>1. /\ run[w].pc = "clear" /\ run' = [run EXCEPT ![w] = NoRun]
      /\ recorded' = [recorded EXCEPT ![SessionOf(Owner(w))] = 0]
      /\ UNCHANGED <<stores, session, status, bad, raced, left, inherited>>
  BY DEF ClearSession, In, past
<1>2. Busy(w) /\ Owner(w) \in Agents
  BY <1>1, OwnerIs DEF Busy
<1>3. /\ recorded' \in [Resources -> Nat]
      /\ recorded'[Store] = recorded[Store]
      /\ \A a \in Agents : recorded'[SessionOf(a)] \in {0, recorded[SessionOf(a)]}
  BY <1>1, <1>2, ResourcesAre DEF Managed
<1>4. Typing
  <2>1. MaxMade \in Nat
    BY ManagedAssumption
  <2>. QED  BY <1>1, <1>3, <2>1 DEF Managed, Typing
<1>5. /\ run' \in [Workers -> Runs] /\ run'[w] = NoRun /\ run'[w].pc = "idle" /\ Others(w)
  BY <1>1, StopsDoes
<1>6. KeepsStore
  BY <1>1, <1>3, <1>5 DEF KeepsStore, Others, Busy
<1>. QED  BY <1>1, <1>2, <1>4, <1>5, <1>6, SteadyTypes

\* A session comes to rest or dies.
LEMMA SessionDoes ==
  ASSUME Managed, NEW s \in DOMAIN session, Rest(s) \/ Dies(s)
  PROVE  /\ Managed' /\ KeepsStore
         /\ session[s].state \in {"idle", "running"}
         /\ session'[s].state \in {"idle", "terminated"}
         /\ \A u \in DOMAIN session \ {s} : session'[u] = session[u]
         /\ left' = left \ {s}
         /\ UNCHANGED <<status, run, inherited>>
<1>1. /\ session[s].state \in {"idle", "running"}
      /\ left' = left \ {s}
      /\ bad' \in Nat
      /\ UNCHANGED <<recorded, stores, status, run, raced, inherited>>
  <2>1. bad' = bad \/ bad' = bad + 1
    BY DEF Rest, Dies, Wrong
  <2>2. bad' \in Nat
    BY <2>1 DEF Managed
  <2>. QED  BY <2>2 DEF Rest, Dies
<1>2. /\ session' \in [Agents \X (1..MaxMade) -> Sessions]
      /\ session'[s].state \in {"idle", "terminated"}
      /\ \A u \in DOMAIN session : session'[u].store = session[u].store
      /\ \A u \in DOMAIN session \ {s} : session'[u] = session[u]
  <2>1. CASE Rest(s)
    <3>1. PICK asks \in BOOLEAN :
             session' = [session EXCEPT ![s].state = "idle", ![s].asked = @ \/ asks]
      BY <2>1 DEF Rest
    <3>2. session[s] \in Sessions
      BY DEF Managed
    <3>. DEFINE asked == session[s].asked \/ asks
                new == [session[s] EXCEPT !.state = "idle", !.asked = asked]
    <3>3. asked \in BOOLEAN
      BY <3>2 DEF Sessions
    <3>4. session' = [session EXCEPT ![s] = new]
      BY <3>1 DEF Managed
    <3>. HIDE DEF asked
    <3>5. new \in Sessions /\ new.state = "idle" /\ new.store = session[s].store
      BY <3>2, <3>3 DEF Sessions
    <3>. HIDE DEF new
    <3>. QED  BY <3>4, <3>5 DEF Managed
  <2>2. CASE Dies(s)
    BY <2>2, SessionUpdate DEF Dies
  <2>. QED  BY <2>1, <2>2
<1>3. Managed'
  BY <1>1, <1>2 DEF Managed, Busy
<1>4. KeepsStore
  BY <1>1, <1>2 DEF KeepsStore, Busy
<1>. QED  BY <1>1, <1>2, <1>3, <1>4

\* The user answers a task that waits, or stops one that works.
LEMMA UserDoes ==
  ASSUME Managed, NEW t \in Tasks, ContinueManaged(t) \/ StopManaged(t)
  PROVE  /\ Managed' /\ KeepsStore
         /\ \/ status[t] = "needs-input"
            \/ status[t] = "working" /\ status'[t] = "stopped"
         /\ \A u \in Tasks \ {t} : status'[u] = status[u]
         /\ UNCHANGED <<session, run, left, inherited>>
<1>1. /\ UNCHANGED <<recorded, stores, session, run, bad, raced, left, inherited>>
      /\ \/ status[t] = "needs-input" /\ status' = [status EXCEPT ![t] = "queued"]
         \/ status[t] = "working" /\ status' = [status EXCEPT ![t] = "stopped"]
  BY DEF ContinueManaged, StopManaged, past
<1>2. /\ status' \in [Tasks -> {"queued", "working", "done", "needs-input", "failed", "stopped", None}]
      /\ \A u \in Tasks \ {t} : status'[u] = status[u]
      /\ \/ status[t] = "needs-input"
         \/ status[t] = "working" /\ status'[t] = "stopped"
  BY <1>1 DEF Managed
<1>3. Managed' /\ KeepsStore
  BY <1>1, <1>2 DEF Managed, Busy, KeepsStore
<1>. QED  BY <1>1, <1>2, <1>3

LEMMA WorkerDiesDoes ==
  ASSUME Managed, NEW w \in Workers, WorkerDies(w)
  PROVE  /\ Managed' /\ KeepsStore /\ Others(w) /\ Busy(w) /\ run'[w].pc = "idle"
         /\ \A t \in Tasks : t # run[w].task => status'[t] = status[t]
         /\ LetsGo(w) \/ (run[w].seen[4] = 0 /\ left' = left)
         /\ UNCHANGED <<session, inherited>>
<1>1. /\ Busy(w) /\ run' = [run EXCEPT ![w] = NoRun]
      /\ status' = [status EXCEPT ![run[w].task] = IF @ = "working" THEN "failed" ELSE @]
      /\ IF run[w].seen[4] = 0 THEN UNCHANGED left ELSE Leaves(w)
      /\ bad' = bad + 1
      /\ UNCHANGED <<recorded, stores, session, raced, inherited>>
  BY DEF WorkerDies, In, Busy, Wrong
<1>2. /\ status' \in [Tasks -> {"queued", "working", "done", "needs-input", "failed", "stopped", None}]
      /\ \A t \in Tasks : t # run[w].task => status'[t] = status[t]
  BY <1>1 DEF Managed
<1>3. Typing
  BY <1>1, <1>2 DEF Managed, Typing
<1>4. /\ run' \in [Workers -> Runs] /\ run'[w] = NoRun /\ run'[w].pc = "idle" /\ Others(w)
  BY <1>1, StopsDoes
<1>5. LetsGo(w) \/ (run[w].seen[4] = 0 /\ left' = left)
  BY <1>1, LeavesDoes
<1>. QED  BY <1>1, <1>2, <1>3, <1>4, <1>5, SteadyTypes, SteadyKeepsStore

-----------------------------------------------------------------------------
(* One memory.                                                             *)

\* Without a race a run that still looks for the store is alone and there is none
\* yet; one that has found it has found the one recorded.
Memory ==
  /\ OneMemory
  /\ ~raced =>
       /\ recorded[Store] = 0 => \A a \in Agents : recorded[SessionOf(a)] = 0
       /\ \A w \in Workers : Busy(w) =>
            IF run[w].seen[2] = 0 THEN recorded[Store] = 0 /\ \A v \in Workers \ {w} : ~Busy(v)
            ELSE run[w].seen[2] = recorded[Store]

LEMMA KeepsMemory == ASSUME Managed, Memory, Managed', KeepsStore PROVE Memory'
<1>1. DOMAIN session = Agents \X (1..MaxMade)
  BY DEF Managed
<1>2. \A a \in Agents : recorded[SessionOf(a)] # 0 => <<a, recorded[SessionOf(a)]>> \in DOMAIN session
  <2>1. MaxMade \in Nat
    BY ManagedAssumption
  <2>. QED  BY <1>1, <2>1 DEF Managed
<1>3. OneMemory'
  BY <1>2 DEF Memory, OneMemory, KeepsStore
<1>. QED  BY <1>3 DEF Memory, KeepsStore

LEMMA BeginMemory ==
  ASSUME Managed, Memory, NEW w \in Workers, NEW t \in Tasks, BeginManaged(w, t)
  PROVE  Memory'
<1>1. /\ run'[w].seen[2] = recorded[Store]
      /\ raced' = (raced \/ \E v \in Workers \ {w} :
                              Busy(v) /\ recorded[Store] = 0 /\ run[v].seen[2] = 0)
      /\ Others(w) /\ UNCHANGED <<recorded, session>>
  BY BeginDoes
<1>2. OneMemory'
  BY <1>1 DEF Memory, OneMemory
<1>3. SUFFICES ASSUME ~raced', NEW v \in Workers, Busy(v)'
               PROVE  IF run'[v].seen[2] = 0
                      THEN recorded'[Store] = 0 /\ \A u \in Workers \ {v} : ~Busy(u)'
                      ELSE run'[v].seen[2] = recorded'[Store]
  BY <1>1, <1>2 DEF Memory
<1>4. ~raced /\ \A u \in Workers \ {w} : Busy(u) => run[u].seen[2] = recorded[Store] /\ recorded[Store] # 0
  BY <1>1, <1>3 DEF Memory
<1>. QED  BY <1>1, <1>3, <1>4 DEF Others, Busy

LEMMA LearnsMemory ==
  ASSUME Managed, Memory, Managed', NEW w \in Workers, NEW k \in {1, 3}, Learns(w, k),
         recorded'[Store] = recorded[Store],
         \A a \in Agents : recorded'[SessionOf(a)] = recorded[SessionOf(a)],
         session' = session
  PROVE  Memory'
<1>1. KeepsStore
  BY DEF Learns, Others, KeepsStore, Busy
<1>. QED  BY <1>1, KeepsMemory

LEMMA StoreMemory ==
  ASSUME Managed, Memory, NEW w \in Workers, EnsureStore(w)
  PROVE  Memory'
<1>1. /\ Learns(w, 2)
      /\ run[w].seen[2] = 0 /\ run'[w].seen[2] = recorded'[Store] /\ recorded'[Store] # 0
      /\ \A a \in Agents : recorded'[SessionOf(a)] = recorded[SessionOf(a)]
      /\ UNCHANGED session
  BY EnsureStoreDoes
<1>2. Busy(w) /\ raced' = raced
  BY <1>1 DEF Learns, Busy
<1>3. ~raced => /\ \A a \in Agents : recorded[SessionOf(a)] = 0
                /\ \A v \in Workers \ {w} : ~Busy(v)
  BY <1>1, <1>2 DEF Memory
<1>4. OneMemory'
  BY <1>1, <1>2, <1>3 DEF OneMemory
<1>. QED  BY <1>1, <1>2, <1>3, <1>4 DEF Memory, Learns, Others, Busy

LEMMA SessionMemory ==
  ASSUME Managed, Memory, NEW w \in Workers, EnsureSession(w)
  PROVE  Memory'
<1>. DEFINE a == Owner(w)
            n == run'[w].seen[4]
<1>1. /\ Learns(w, 4) /\ run[w].seen[2] # 0
      /\ recorded'[Store] = recorded[Store]
      /\ \A b \in Agents \ {a} : recorded'[SessionOf(b)] = recorded[SessionOf(b)]
      /\ recorded'[SessionOf(a)] = n
      /\ session'[<<a, n>>].store = run[w].seen[2]
      /\ \A s \in DOMAIN session \ {<<a, n>>} : session'[s] = session[s]
  BY EnsureSessionDoes
<1>2. Busy(w) /\ raced' = raced /\ a \in Agents
  BY <1>1, OwnerIs DEF Learns, Busy
<1>3. ~raced => recorded[Store] # 0 /\ run[w].seen[2] = recorded[Store]
  BY <1>1, <1>2 DEF Memory
<1>4. \A b \in Agents : recorded[SessionOf(b)] # 0 => <<b, recorded[SessionOf(b)]>> \in DOMAIN session
  <2>1. MaxMade \in Nat
    BY ManagedAssumption
  <2>. QED  BY <2>1 DEF Managed
<1>. HIDE DEF n, a
<1>5. OneMemory'
  BY <1>1, <1>2, <1>3, <1>4 DEF Memory, OneMemory
<1>6. \A v \in Workers : run'[v].seen[2] = run[v].seen[2] /\ (Busy(v)' <=> Busy(v))
  BY <1>1 DEF Learns, Others, Busy
<1>. QED  BY <1>1, <1>2, <1>3, <1>5, <1>6 DEF Memory

LEMMA InitMemory == ASSUME InitManaged PROVE Memory
<1>1. \A w \in Workers : ~Busy(w)
  BY NoRunType DEF InitManaged, Busy
<1>2. \A a \in Agents : recorded[SessionOf(a)] = 0
  BY ResourcesAre DEF InitManaged
<1>. QED  BY <1>1, <1>2 DEF Memory, OneMemory

\* A step of a run, but for the three that create something.
Wait(w) ==
  \/ EnsureFails(w) \/ Send(w) \/ SendFails(w)
  \/ PollStopped(w) \/ PollIdle(w) \/ GivesUp(w) \/ PollFails(w) \/ End(w)
  \/ DeleteSession(w) \/ ClearSession(w) \/ WorkerDies(w)

LEMMA WaitKeepsStore ==
  ASSUME Managed, NEW w \in Workers, Wait(w)
  PROVE  Managed' /\ KeepsStore
BY EnsureFailsDoes, SendDoes, SendFailsDoes, PollStoppedDoes, PollEndsDoes, EndDoes,
   DeleteSessionDoes, ClearSessionDoes, WorkerDiesDoes DEF Wait

LEMMA NextCases ==
  ASSUME NextManaged
  PROVE  \/ \E w \in Workers, t \in Tasks : BeginManaged(w, t)
         \/ \E w \in Workers : EnsureOther(w) \/ EnsureStore(w) \/ EnsureSession(w) \/ Wait(w)
         \/ \E s \in DOMAIN session : Rest(s) \/ Dies(s)
         \/ \E t \in Tasks : ContinueManaged(t) \/ StopManaged(t)
BY DEF NextManaged, RunManaged, Wait

LEMMA ManagedTypesStep == ASSUME Managed, NextManaged PROVE Managed'
<1>1. CASE \E w \in Workers, t \in Tasks : BeginManaged(w, t)
  BY <1>1, BeginDoes
<1>2. CASE \E w \in Workers : EnsureOther(w) \/ EnsureStore(w) \/ EnsureSession(w) \/ Wait(w)
  BY <1>2, EnsureOtherDoes, EnsureStoreDoes, EnsureSessionDoes, WaitKeepsStore
<1>3. CASE \E s \in DOMAIN session : Rest(s) \/ Dies(s)
  BY <1>3, SessionDoes
<1>4. CASE \E t \in Tasks : ContinueManaged(t) \/ StopManaged(t)
  BY <1>4, UserDoes
<1>. QED  BY <1>1, <1>2, <1>3, <1>4, NextCases

LEMMA MemoryStep == ASSUME Managed, Memory, NextManaged PROVE Memory'
<1>0. Managed'
  BY ManagedTypesStep
<1>1. CASE \E w \in Workers, t \in Tasks : BeginManaged(w, t)
  BY <1>1, BeginMemory
<1>2. ASSUME NEW w \in Workers, EnsureOther(w)
      PROVE  Memory'
  <2>1. /\ Learns(w, 1) \/ Learns(w, 3)
        /\ recorded'[Store] = recorded[Store] /\ session' = session
        /\ \A a \in Agents : recorded'[SessionOf(a)] = recorded[SessionOf(a)]
    BY <1>2, EnsureOtherDoes
  <2>2. PICK k \in {1, 3} : Learns(w, k)
    BY <2>1
  <2>. QED  BY <1>0, <2>1, <2>2, LearnsMemory
<1>3. CASE \E w \in Workers : EnsureStore(w) \/ EnsureSession(w)
  BY <1>3, StoreMemory, SessionMemory
<1>4. CASE \E w \in Workers : Wait(w)
  BY <1>0, <1>4, WaitKeepsStore, KeepsMemory
<1>5. CASE \E s \in DOMAIN session : Rest(s) \/ Dies(s)
  BY <1>0, <1>5, SessionDoes, KeepsMemory
<1>6. CASE \E t \in Tasks : ContinueManaged(t) \/ StopManaged(t)
  BY <1>0, <1>6, UserDoes, KeepsMemory
<1>. QED  BY <1>1, <1>2, <1>3, <1>4, <1>5, <1>6, NextCases

-----------------------------------------------------------------------------
(* The loop at the provider ends.                                          *)

Watches(w, s) == run[w].pc \in {"poll", "delete"} /\ Sid(w) = s

\* A step of a run that watches nothing, or goes on watching what it has watched.
LEMMA KeepsLoop ==
  ASSUME Managed, Managed', StopEndsLoop, NEW w \in Workers, Others(w),
         \A s \in DOMAIN session : session'[s].state = "running" => session[s].state = "running",
         left' = left,
         run[w].pc \in {"poll", "delete"} => run'[w].pc \in {"poll", "delete"} /\ Steady(w)
  PROVE  StopEndsLoop'
<1>1. DOMAIN session' = DOMAIN session
  BY DEF Managed
<1>2. \A v \in Workers \ {w} : run'[v].pc = run[v].pc /\ Sid(v)' = Sid(v)
  BY DEF Others, Sid, Owner
<1>3. run[w].pc \in {"poll", "delete"} => run'[w].pc \in {"poll", "delete"} /\ Sid(w)' = Sid(w)
  BY DEF Steady, Sid, Owner
<1>. QED  BY <1>1, <1>2, <1>3 DEF StopEndsLoop

\* A step of a run that stops watching and accounts for its session.
LEMMA LetsGoLoop ==
  ASSUME Managed, StopEndsLoop, NEW w \in Workers, Others(w), LetsGo(w), session' = session
  PROVE  StopEndsLoop'
<1>1. \A v \in Workers \ {w} : run'[v].pc = run[v].pc /\ Sid(v)' = Sid(v)
  BY DEF Others, Sid, Owner
<1>. QED  BY <1>1 DEF StopEndsLoop, LetsGo

LEMMA InitLoop == ASSUME InitManaged PROVE StopEndsLoop
BY DEF InitManaged, StopEndsLoop, Unborn

LEMMA WaitLoop ==
  ASSUME Managed, StopEndsLoop, NEW w \in Workers, Wait(w)
  PROVE  StopEndsLoop'
<1>0. Managed' /\ DOMAIN session' = DOMAIN session
  BY WaitKeepsStore DEF Managed
<1>1. CASE EnsureFails(w)
  BY <1>0, <1>1, EnsureFailsDoes, KeepsLoop
<1>2. CASE Send(w)
  <2>1. /\ run[w].pc = "ensure" /\ run'[w].pc = "poll" /\ Steady(w) /\ Others(w)
        /\ \A s \in DOMAIN session \ {Sid(w)} : session'[s] = session[s]
        /\ left' = left \ {Sid(w)}
    BY <1>2, SendDoes
  <2>2. \A v \in Workers : Sid(v)' = Sid(v)
    BY <2>1 DEF Others, Steady, Sid, Owner
  <2>. QED  BY <1>0, <2>1, <2>2 DEF StopEndsLoop, Others
<1>3. CASE SendFails(w)
  BY <1>0, <1>3, SendFailsDoes, KeepsLoop
<1>4. CASE PollStopped(w)
  BY <1>0, <1>4, PollStoppedDoes, KeepsLoop
<1>5. CASE PollIdle(w) \/ GivesUp(w) \/ PollFails(w)
  BY <1>5, PollEndsDoes, LetsGoLoop
<1>6. CASE End(w)
  BY <1>0, <1>6, EndDoes, KeepsLoop
<1>7. CASE DeleteSession(w)
  <2>1. /\ Others(w)
        /\ \/ /\ \A s \in DOMAIN session \ {Sid(w)} : session'[s] = session[s]
              /\ Sid(w) \in DOMAIN session => session'[Sid(w)].state = "deleted"
              /\ left' = left \ {Sid(w)}
           \/ session' = session /\ LetsGo(w)
    BY <1>7, DeleteSessionDoes
  <2>2. \A v \in Workers \ {w} : run'[v].pc = run[v].pc /\ Sid(v)' = Sid(v)
    BY <2>1 DEF Others, Sid, Owner
  <2>3. CASE session' = session /\ LetsGo(w)
    BY <2>1, <2>3, LetsGoLoop
  <2>4. CASE /\ \A s \in DOMAIN session \ {Sid(w)} : session'[s] = session[s]
             /\ Sid(w) \in DOMAIN session => session'[Sid(w)].state = "deleted"
             /\ left' = left \ {Sid(w)}
    BY <1>0, <2>2, <2>4 DEF StopEndsLoop
  <2>. QED  BY <2>1, <2>3, <2>4
<1>8. CASE ClearSession(w)
  BY <1>0, <1>8, ClearSessionDoes, KeepsLoop
<1>9. CASE WorkerDies(w)
  <2>1. /\ Others(w) /\ session' = session
        /\ LetsGo(w) \/ (run[w].seen[4] = 0 /\ left' = left)
    BY <1>9, WorkerDiesDoes
  <2>2. CASE LetsGo(w)
    BY <2>1, <2>2, LetsGoLoop
  <2>3. CASE run[w].seen[4] = 0 /\ left' = left
    <3>1. Sid(w) \notin DOMAIN session
      BY <2>3 DEF Managed, Sid
    <3>2. \A v \in Workers \ {w} : run'[v].pc = run[v].pc /\ Sid(v)' = Sid(v)
      BY <2>1 DEF Others, Sid, Owner
    <3>. QED  BY <2>1, <2>3, <3>1, <3>2 DEF StopEndsLoop
  <2>. QED  BY <2>1, <2>2, <2>3
<1>. QED  BY <1>1, <1>2, <1>3, <1>4, <1>5, <1>6, <1>7, <1>8, <1>9 DEF Wait

LEMMA LoopStep == ASSUME Managed, StopEndsLoop, NextManaged PROVE StopEndsLoop'
<1>0. Managed' /\ DOMAIN session' = DOMAIN session
  BY ManagedTypesStep DEF Managed
<1>1. ASSUME NEW w \in Workers, NEW t \in Tasks, BeginManaged(w, t)
      PROVE  StopEndsLoop'
  <2>1. ~Busy(w) /\ Others(w) /\ UNCHANGED <<session, left>>
    BY <1>1, BeginDoes
  <2>. QED  BY <1>0, <2>1, KeepsLoop DEF Busy
<1>2. ASSUME NEW w \in Workers, EnsureOther(w) \/ EnsureStore(w)
      PROVE  StopEndsLoop'
  <2>1. (\E k \in 1..3 : Learns(w, k)) /\ session' = session
    BY <1>2, EnsureOtherDoes, EnsureStoreDoes
  <2>2. run[w].pc = "ensure" /\ Others(w) /\ left' = left
    BY <2>1 DEF Learns
  <2>. QED  BY <1>0, <2>1, <2>2, KeepsLoop
<1>3. ASSUME NEW w \in Workers, EnsureSession(w)
      PROVE  StopEndsLoop'
  <2>. DEFINE new == <<Owner(w), run'[w].seen[4]>>
  <2>1. /\ Learns(w, 4) /\ session'[new].state = "idle"
        /\ \A s \in DOMAIN session \ {new} : session'[s] = session[s]
    BY <1>3, EnsureSessionDoes
  <2>2. run[w].pc = "ensure" /\ Others(w) /\ left' = left
    BY <2>1 DEF Learns
  <2>. HIDE DEF new
  <2>3. \A s \in DOMAIN session : session'[s].state = "running" => session[s].state = "running"
    BY <2>1
  <2>. QED  BY <1>0, <2>2, <2>3, KeepsLoop
<1>4. CASE \E w \in Workers : Wait(w)
  BY <1>4, WaitLoop
<1>5. ASSUME NEW s \in DOMAIN session, Rest(s) \/ Dies(s)
      PROVE  StopEndsLoop'
  <2>1. /\ session'[s].state # "running" /\ run' = run /\ left' = left \ {s}
        /\ \A u \in DOMAIN session \ {s} : session'[u] = session[u]
    BY <1>5, SessionDoes
  <2>2. \A v \in Workers : run'[v].pc = run[v].pc /\ Sid(v)' = Sid(v)
    BY <2>1 DEF Sid, Owner
  <2>. QED  BY <1>0, <2>1, <2>2 DEF StopEndsLoop
<1>6. ASSUME NEW t \in Tasks, ContinueManaged(t) \/ StopManaged(t)
      PROVE  StopEndsLoop'
  <2>1. UNCHANGED <<session, run, left>>
    BY <1>6, UserDoes
  <2>. QED  BY <2>1 DEF StopEndsLoop, Sid, Owner
<1>. QED  BY <1>1, <1>2, <1>3, <1>4, <1>5, <1>6, NextCases

-----------------------------------------------------------------------------
(* Whose failure it is.                                                    *)

\* Somebody else may have deleted the session of the run.
Excused(w) == run[w].beside \/ status[run[w].task] = "stopped"

\* A run that is not excused and has met nothing itself: its session is there, once
\* it has made it or sent the message, and it has not failed.
Sound(w) ==
  ~Excused(w) /\ ~run[w].hurt =>
    /\ run[w].pc = "poll" \/ (run[w].pc = "ensure" /\ run[w].retried /\ run[w].seen[4] # 0)
         => session[Sid(w)].state # "deleted"
    /\ run[w].pc = "end" => run[w].outcome # "failed"

\* Only a stopped run deletes a session, and two runs of one agent are both excused.
Claim(w) ==
  /\ status[run[w].task] \in {"working", "stopped"}
  /\ run[w].pc \in {"delete", "clear"} => status[run[w].task] = "stopped"
  /\ run[w].pc = "poll" => run[w].seen[4] # 0
  /\ Sound(w)

Apart(v, w) == run[v].task # run[w].task /\ (Owner(v) = Owner(w) => Excused(v) /\ Excused(w))

Blame ==
  /\ FailsByItself
  /\ \A w \in Workers : Busy(w) => Claim(w)
  /\ \A v, w \in Workers : v # w /\ Busy(v) /\ Busy(w) => Apart(v, w)

LEMMA InitBlame == ASSUME InitManaged PROVE Blame
<1>1. \A w \in Workers : ~Busy(w)
  BY NoRunType DEF InitManaged, Busy
<1>. QED  BY <1>1 DEF InitManaged, Blame, FailsByItself

\* A step of w that touches no other run or its task, and deletes no session, keeps the
\* claims of the others.
Harmless(w) ==
  /\ Others(w)
  /\ \A t \in Tasks : t # run[w].task => status'[t] = status[t]
  /\ \A s \in DOMAIN session : session'[s].state = "deleted" => session[s].state = "deleted"
  /\ ~inherited => ~inherited'

LEMMA OthersClaims ==
  ASSUME Managed, Blame, NEW w \in Workers, Busy(w), Harmless(w)
  PROVE  /\ \A v \in Workers \ {w} : Busy(v)' => Busy(v) /\ Claim(v)' /\ (Excused(v)' <=> Excused(v))
         /\ \A v, u \in Workers \ {w} : v # u /\ Busy(v)' /\ Busy(u)' => Apart(v, u)'
<1>1. \A v \in Workers \ {w} : Busy(v)' =>
        /\ Busy(v) /\ run'[v] = run[v] /\ Owner(v)' = Owner(v) /\ Sid(v)' = Sid(v)
        /\ status'[run'[v].task] = status[run[v].task]
        /\ Excused(v)' <=> Excused(v)
  <2>. SUFFICES ASSUME NEW v \in Workers \ {w}, Busy(v)'
                PROVE  /\ Busy(v) /\ run'[v] = run[v] /\ Owner(v)' = Owner(v) /\ Sid(v)' = Sid(v)
                       /\ status'[run'[v].task] = status[run[v].task]
                       /\ Excused(v)' <=> Excused(v)
    OBVIOUS
  <2>1. Busy(v) /\ run'[v] = run[v]
    BY DEF Harmless, Others, Busy
  <2>2. run[v].task # run[w].task /\ run[v].task \in Tasks
    BY <2>1, OwnerIs DEF Blame, Apart
  <2>. QED  BY <2>1, <2>2 DEF Harmless, Owner, Sid, Excused
<1>2. \A v \in Workers \ {w} : Busy(v)' => Claim(v)'
  <2>. SUFFICES ASSUME NEW v \in Workers \ {w}, Busy(v)'
                PROVE  Claim(v)'
    OBVIOUS
  <2>1. /\ Busy(v) /\ run'[v] = run[v] /\ Sid(v)' = Sid(v)
        /\ status'[run'[v].task] = status[run[v].task]
        /\ Excused(v)' <=> Excused(v)
    BY <1>1
  <2>2. Claim(v)
    BY <2>1 DEF Blame
  <2>3. run[v].seen[4] # 0 => Sid(v) \in DOMAIN session
    BY <2>1, SidInside
  <2>4. Sound(v)'
    BY <2>1, <2>2, <2>3 DEF Claim, Sound, Harmless
  <2>. QED  BY <2>1, <2>2, <2>4 DEF Claim
<1>. QED  BY <1>1, <1>2 DEF Blame, Apart

\* Such a step keeps the invariant if the claim of w is kept too, or w is done.
LEMMA KeepsBlame ==
  ASSUME Managed, Blame, NEW w \in Workers, Busy(w), Harmless(w),
         Busy(w)' => /\ Claim(w)' /\ run'[w].task = run[w].task
                     /\ Excused(w) => Excused(w)'
  PROVE  Blame'
<1>1. /\ \A v \in Workers \ {w} : Busy(v)' => Busy(v) /\ Claim(v)' /\ (Excused(v)' <=> Excused(v))
      /\ \A v, u \in Workers \ {w} : v # u /\ Busy(v)' /\ Busy(u)' => Apart(v, u)'
  BY OthersClaims
<1>2. \A v \in Workers \ {w} : Busy(v)' /\ Busy(w)' => Apart(v, w)' /\ Apart(w, v)'
  BY <1>1 DEF Blame, Apart, Harmless, Others, Owner
<1>3. FailsByItself'
  BY DEF Blame, FailsByItself, Harmless
<1>. QED  BY <1>1, <1>2, <1>3 DEF Blame

\* The claim of a run that only moves on, to its end or to the wind-up.
LEMMA SteadyClaim ==
  ASSUME Managed, Blame, NEW w \in Workers, Busy(w), Steady(w), status' = status,
         run'[w].pc \in {"delete", "clear"} => status[run[w].task] = "stopped",
         run'[w].pc = "end" => \/ run'[w].hurt \/ run'[w].outcome # "failed"
                               \/ run[w].pc = "poll" /\ session[Sid(w)].state = "deleted",
         run'[w].pc = "poll" => run[w].seen[4] # 0 /\ session'[Sid(w)].state # "deleted",
         run'[w].pc # "ensure"
  PROVE  Claim(w)' /\ run'[w].task = run[w].task /\ (Excused(w) <=> Excused(w)')
<1>1. Claim(w)
  BY DEF Blame
<1>2. Owner(w)' = Owner(w) /\ Sid(w)' = Sid(w) /\ (Excused(w) <=> Excused(w)')
  BY DEF Steady, Owner, Sid, Excused
<1>3. Sound(w)'
  BY <1>1, <1>2 DEF Claim, Sound, Steady
<1>. QED  BY <1>1, <1>2, <1>3 DEF Claim, Steady

LEMMA BeginBlame ==
  ASSUME Managed, Blame, NEW w \in Workers, NEW t \in Tasks, BeginManaged(w, t)
  PROVE  Blame'
<1>1. /\ ~Busy(w) /\ status[t] = "queued"
      /\ \A u \in Tasks : AgentOf[u] = AgentOf[t] => status[u] # "working"
      /\ status' = [status EXCEPT ![t] = "working"]
      /\ run'[w].pc = "ensure" /\ run'[w].task = t /\ ~run'[w].retried
      /\ \A v \in Workers \ {w} : Busy(v) /\ Owner(v) = AgentOf[t] => run'[w].beside
      /\ Others(w)
      /\ UNCHANGED <<session, inherited>>
  BY BeginDoes
<1>2. Owner(w)' = AgentOf[t]
  BY <1>1 DEF Owner
<1>3. status'[t] = "working"
  BY <1>1 DEF Managed
<1>4. Claim(w)'
  BY <1>1, <1>3 DEF Claim, Sound
<1>5. \A v \in Workers \ {w} : Busy(v)' =>
        /\ Busy(v) /\ run'[v] = run[v] /\ Claim(v)
        /\ run[v].task # t /\ status'[run[v].task] = status[run[v].task]
        /\ Owner(v)' = Owner(v) /\ Sid(v)' = Sid(v) /\ (Excused(v)' <=> Excused(v))
  <2>. SUFFICES ASSUME NEW v \in Workers \ {w}, Busy(v)'
                PROVE  /\ Busy(v) /\ run'[v] = run[v] /\ Claim(v)
                       /\ run[v].task # t /\ status'[run[v].task] = status[run[v].task]
                       /\ Owner(v)' = Owner(v) /\ Sid(v)' = Sid(v) /\ (Excused(v)' <=> Excused(v))
    OBVIOUS
  <2>1. Busy(v) /\ run'[v] = run[v] /\ Claim(v)
    BY <1>1 DEF Others, Busy, Blame
  <2>2. run[v].task # t /\ run[v].task \in Tasks
    BY <1>1, <2>1, OwnerIs DEF Claim
  <2>3. status'[run[v].task] = status[run[v].task]
    BY <1>1, <2>2 DEF Managed
  <2>. QED  BY <2>1, <2>2, <2>3 DEF Owner, Sid, Excused
<1>6. \A v \in Workers \ {w} : Busy(v)' => Claim(v)'
  BY <1>1, <1>5 DEF Claim, Sound
<1>7. \A v \in Workers \ {w} : Busy(v)' => Apart(v, w)' /\ Apart(w, v)'
  <2>. SUFFICES ASSUME NEW v \in Workers \ {w}, Busy(v)'
                PROVE  Apart(v, w)' /\ Apart(w, v)'
    OBVIOUS
  <2>1. run'[v].task # run'[w].task
    BY <1>1, <1>5
  <2>2. ASSUME Owner(v) = AgentOf[t]
        PROVE  Excused(v)' /\ Excused(w)'
    <3>1. status[run[v].task] # "working"
      BY <1>1, <1>5, <2>2, OwnerIs DEF Owner
    <3>2. Excused(v)'
      BY <1>5, <3>1 DEF Claim, Excused
    <3>. QED  BY <1>1, <1>5, <2>2, <3>2 DEF Excused
  <2>. QED  BY <1>2, <1>5, <2>1, <2>2 DEF Apart
<1>8. \A v, u \in Workers \ {w} : v # u /\ Busy(v)' /\ Busy(u)' => Apart(v, u)'
  BY <1>5 DEF Blame, Apart
<1>9. FailsByItself'
  BY <1>1 DEF Blame, FailsByItself
<1>. QED  BY <1>4, <1>6, <1>7, <1>8, <1>9 DEF Blame

LEMMA LearnsBlame ==
  ASSUME Managed, Blame, NEW w \in Workers, NEW k \in 1..4, Learns(w, k),
         \A s \in DOMAIN session : session'[s].state = "deleted" => session[s].state = "deleted",
         k = 4 => session'[Sid(w)'].state # "deleted"
  PROVE  Blame'
<1>1. Busy(w) /\ run'[w].pc = "ensure" /\ run'[w].task = run[w].task /\ UNCHANGED <<status, inherited>>
  BY DEF Learns, Busy
<1>2. Harmless(w)
  BY <1>1 DEF Learns, Harmless
<1>3. Owner(w)' = Owner(w) /\ (Excused(w)' <=> Excused(w))
  BY <1>1 DEF Learns, Owner, Excused
<1>4. k # 4 => Sid(w)' = Sid(w) /\ run'[w].seen[4] = run[w].seen[4]
  BY <1>3 DEF Learns, Sid
<1>5. run[w].seen[4] # 0 => Sid(w) \in DOMAIN session
  BY <1>1, SidInside
<1>6. Claim(w)
  BY <1>1 DEF Blame
<1>7. Sound(w)'
  BY <1>3, <1>4, <1>5, <1>6 DEF Learns, Claim, Sound
<1>8. Claim(w)'
  BY <1>1, <1>6, <1>7 DEF Claim
<1>. QED  BY <1>1, <1>2, <1>3, <1>8, KeepsBlame

LEMMA EnsureBlame ==
  ASSUME Managed, Blame, NEW w \in Workers, EnsureOther(w) \/ EnsureStore(w) \/ EnsureSession(w)
  PROVE  Blame'
<1>1. CASE EnsureOther(w) \/ EnsureStore(w)
  <2>1. session' = session /\ \E k \in 1..3 : Learns(w, k)
    BY <1>1, EnsureOtherDoes, EnsureStoreDoes
  <2>2. PICK k \in 1..4 : k # 4 /\ Learns(w, k)
    BY <2>1
  <2>. QED  BY <2>1, <2>2, LearnsBlame
<1>2. CASE EnsureSession(w)
  <2>. DEFINE new == <<Owner(w), run'[w].seen[4]>>
  <2>1. /\ Learns(w, 4) /\ session'[new].state = "idle"
        /\ \A s \in DOMAIN session \ {new} : session'[s] = session[s]
    BY <1>2, EnsureSessionDoes
  <2>2. Sid(w)' = new
    BY <2>1 DEF Learns, Sid, Owner
  <2>. HIDE DEF new
  <2>3. PICK k \in 1..4 : k = 4
    OBVIOUS
  <2>4. /\ Learns(w, k)
        /\ \A s \in DOMAIN session : session'[s].state = "deleted" => session[s].state = "deleted"
        /\ session'[Sid(w)'].state # "deleted"
    BY <2>1, <2>2, <2>3
  <2>. QED  BY <2>4, LearnsBlame
<1>. QED  BY <1>1, <1>2

LEMMA EndBlame ==
  ASSUME Managed, Blame, NEW w \in Workers, End(w)
  PROVE  Blame'
<1>1. /\ Others(w) /\ run[w].pc = "end" /\ run'[w].pc = "idle"
      /\ \A t \in Tasks : t # run[w].task => status'[t] = status[t]
      /\ inherited' = (inherited \/ (/\ run[w].outcome = "failed"
                                     /\ status[run[w].task] # "stopped"
                                     /\ ~run[w].hurt /\ ~run[w].beside))
      /\ UNCHANGED session
  BY EndDoes
<1>2. Busy(w) /\ ~Busy(w)'
  BY <1>1 DEF Busy
<1>3. Sound(w) /\ ~inherited
  BY <1>2 DEF Blame, Claim, FailsByItself
<1>4. ~inherited'
  BY <1>1, <1>3 DEF Sound, Excused
<1>5. Harmless(w)
  BY <1>1, <1>4 DEF Harmless
<1>. QED  BY <1>2, <1>5, KeepsBlame

LEMMA SendFailsBlame ==
  ASSUME Managed, Blame, NEW w \in Workers, SendFails(w)
  PROVE  Blame'
<1>1. /\ Others(w) /\ run[w].pc = "ensure" /\ run'[w].pc \in {"ensure", "end"}
      /\ run[w].seen[4] # 0
      /\ run'[w].task = run[w].task /\ run'[w].beside = run[w].beside
      /\ run[w].hurt => run'[w].hurt
      /\ run'[w].pc = "ensure" => run'[w].seen[4] = 0
      /\ run'[w].pc = "end" =>
           run'[w].hurt \/ (run[w].retried /\ session[Sid(w)].state = "deleted")
      /\ UNCHANGED <<session, status, inherited>>
  BY SendFailsDoes
<1>2. Busy(w) /\ Harmless(w)
  BY <1>1 DEF Busy, Harmless
<1>3. Claim(w) /\ (Excused(w)' <=> Excused(w))
  BY <1>1, <1>2 DEF Blame, Excused
<1>4. Claim(w)'
  BY <1>1, <1>3 DEF Claim, Sound
<1>. QED  BY <1>1, <1>2, <1>3, <1>4, KeepsBlame

LEMMA DeleteBlame ==
  ASSUME Managed, Blame, NEW w \in Workers, DeleteSession(w)
  PROVE  Blame'
<1>1. /\ Steady(w) /\ Others(w) /\ run[w].pc = "delete" /\ run'[w].pc = "clear"
      /\ \A s \in DOMAIN session \ {Sid(w)} : session'[s] = session[s]
      /\ UNCHANGED <<status, inherited>>
  BY DeleteSessionDoes
<1>2. Busy(w) /\ status[run[w].task] = "stopped"
  BY <1>1 DEF Busy, Blame, Claim
<1>3. Claim(w)' /\ run'[w].task = run[w].task /\ (Excused(w) <=> Excused(w)')
  BY <1>1, <1>2, SteadyClaim
<1>4. \A v \in Workers \ {w} : Busy(v)' =>
        /\ Busy(v) /\ run'[v] = run[v] /\ Claim(v) /\ (Sid(v) = Sid(w) => Excused(v))
        /\ Owner(v)' = Owner(v) /\ Sid(v)' = Sid(v) /\ (Excused(v)' <=> Excused(v))
  BY <1>1, <1>2 DEF Others, Busy, Blame, Apart, Sid, Owner, Excused
<1>5. \A v \in Workers \ {w} : Busy(v)' => Claim(v)'
  <2>. SUFFICES ASSUME NEW v \in Workers \ {w}, Busy(v)'
                PROVE  Claim(v)'
    OBVIOUS
  <2>1. run[v].seen[4] # 0 => Sid(v) \in DOMAIN session
    BY <1>4, SidInside
  <2>2. Sound(v)'
    BY <1>1, <1>4, <2>1 DEF Claim, Sound
  <2>. QED  BY <1>1, <1>4, <2>2 DEF Claim
<1>6. \A v, u \in Workers : v # u /\ Busy(v)' /\ Busy(u)' => Apart(v, u)'
  <2>1. \A v \in Workers : Busy(v)' =>
          /\ Busy(v) /\ run'[v].task = run[v].task /\ Owner(v)' = Owner(v)
          /\ Excused(v)' <=> Excused(v)
    BY <1>2, <1>3, <1>4 DEF Owner
  <2>. QED  BY <2>1 DEF Blame, Apart
<1>. QED  BY <1>1, <1>3, <1>5, <1>6 DEF Blame, FailsByItself

LEMMA WaitBlame ==
  ASSUME Managed, Blame, NEW w \in Workers, Wait(w)
  PROVE  Blame'
<1>1. CASE EnsureFails(w)
  <2>1. /\ Steady(w) /\ Others(w) /\ run[w].pc = "ensure" /\ run'[w].pc = "end" /\ run'[w].hurt
        /\ UNCHANGED <<session, status, inherited>>
    BY <1>1, EnsureFailsDoes
  <2>2. Busy(w) /\ Harmless(w)
    BY <2>1 DEF Busy, Harmless
  <2>. QED  BY <2>1, <2>2, SteadyClaim, KeepsBlame
<1>2. CASE Send(w)
  <2>1. /\ Steady(w) /\ Others(w) /\ run[w].pc = "ensure" /\ run'[w].pc = "poll"
        /\ Sid(w) \in DOMAIN session /\ session'[Sid(w)].state = "running"
        /\ \A s \in DOMAIN session \ {Sid(w)} : session'[s] = session[s]
        /\ UNCHANGED <<status, inherited>>
    BY <1>2, SendDoes
  <2>2. Busy(w) /\ Harmless(w)
    BY <2>1 DEF Busy, Harmless
  <2>3. run[w].seen[4] # 0
    BY <2>1 DEF Managed, Sid
  <2>. QED  BY <2>1, <2>2, <2>3, SteadyClaim, KeepsBlame
<1>3. CASE SendFails(w)
  BY <1>3, SendFailsBlame
<1>4. CASE PollStopped(w)
  <2>1. /\ Steady(w) /\ Others(w) /\ run[w].pc = "poll" /\ run'[w].pc = "delete"
        /\ status[run[w].task] = "stopped"
        /\ UNCHANGED <<session, status, inherited>>
    BY <1>4, PollStoppedDoes
  <2>2. Busy(w) /\ Harmless(w)
    BY <2>1 DEF Busy, Harmless
  <2>. QED  BY <2>1, <2>2, SteadyClaim, KeepsBlame
<1>5. CASE PollIdle(w) \/ GivesUp(w) \/ PollFails(w)
  <2>1. /\ Steady(w) /\ Others(w) /\ run[w].pc = "poll" /\ run'[w].pc = "end"
        /\ \/ run'[w].outcome # "failed" \/ run'[w].hurt
           \/ session[Sid(w)].state = "deleted"
        /\ UNCHANGED <<session, status, inherited>>
    BY <1>5, PollEndsDoes
  <2>2. Busy(w) /\ Harmless(w)
    BY <2>1 DEF Busy, Harmless
  <2>. QED  BY <2>1, <2>2, SteadyClaim, KeepsBlame
<1>6. CASE End(w)
  BY <1>6, EndBlame
<1>7. CASE DeleteSession(w)
  BY <1>7, DeleteBlame
<1>8. CASE ClearSession(w)
  <2>1. /\ Others(w) /\ run[w].pc = "clear" /\ run'[w].pc = "idle"
        /\ UNCHANGED <<session, status, inherited>>
    BY <1>8, ClearSessionDoes
  <2>2. Busy(w) /\ ~Busy(w)' /\ Harmless(w)
    BY <2>1 DEF Busy, Harmless
  <2>. QED  BY <2>2, KeepsBlame
<1>9. CASE WorkerDies(w)
  <2>1. /\ Others(w) /\ Busy(w) /\ run'[w].pc = "idle"
        /\ \A t \in Tasks : t # run[w].task => status'[t] = status[t]
        /\ UNCHANGED <<session, inherited>>
    BY <1>9, WorkerDiesDoes
  <2>2. ~Busy(w)' /\ Harmless(w)
    BY <2>1 DEF Busy, Harmless
  <2>. QED  BY <2>1, <2>2, KeepsBlame
<1>. QED  BY <1>1, <1>2, <1>3, <1>4, <1>5, <1>6, <1>7, <1>8, <1>9 DEF Wait

\* A step that is no run's: what a claim says of a task only gets weaker by a stop.
LEMMA OutsideBlame ==
  ASSUME Managed, Blame, run' = run, inherited' = inherited,
         \A s \in DOMAIN session : session'[s].state = "deleted" => session[s].state = "deleted",
         \A t \in Tasks : \/ status'[t] = status[t] \/ status[t] = "needs-input"
                          \/ status[t] = "working" /\ status'[t] = "stopped"
  PROVE  Blame'
<1>1. \A w \in Workers : Busy(w)' =>
        /\ Busy(w) /\ run'[w] = run[w] /\ Owner(w)' = Owner(w) /\ Sid(w)' = Sid(w) /\ Claim(w)
        /\ Excused(w) => Excused(w)'
        /\ status[run[w].task] = "stopped" => status'[run'[w].task] = "stopped"
        /\ status'[run'[w].task] \in {"working", "stopped"}
  BY OwnerIs DEF Blame, Claim, Busy, Owner, Sid, Excused
<1>2. \A w \in Workers : Busy(w)' => Claim(w)'
  <2>. SUFFICES ASSUME NEW w \in Workers, Busy(w)'
                PROVE  Claim(w)'
    OBVIOUS
  <2>1. run[w].seen[4] # 0 => Sid(w) \in DOMAIN session
    BY <1>1, SidInside
  <2>2. Sound(w)'
    BY <1>1, <2>1 DEF Claim, Sound
  <2>. QED  BY <1>1, <2>2 DEF Claim
<1>. QED  BY <1>1, <1>2 DEF Blame, Apart, FailsByItself

LEMMA BlameStep == ASSUME Managed, Blame, NextManaged PROVE Blame'
<1>1. CASE \E w \in Workers, t \in Tasks : BeginManaged(w, t)
  BY <1>1, BeginBlame
<1>2. CASE \E w \in Workers : EnsureOther(w) \/ EnsureStore(w) \/ EnsureSession(w) \/ Wait(w)
  BY <1>2, EnsureBlame, WaitBlame
<1>3. ASSUME NEW s \in DOMAIN session, Rest(s) \/ Dies(s)
      PROVE  Blame'
  <2>1. /\ session'[s].state \in {"idle", "terminated"}
        /\ \A u \in DOMAIN session \ {s} : session'[u] = session[u]
        /\ UNCHANGED <<status, run, inherited>>
    BY <1>3, SessionDoes
  <2>. QED  BY <2>1, OutsideBlame
<1>4. ASSUME NEW t \in Tasks, ContinueManaged(t) \/ StopManaged(t)
      PROVE  Blame'
  <2>1. /\ status[t] = "needs-input" \/ (status[t] = "working" /\ status'[t] = "stopped")
        /\ \A u \in Tasks \ {t} : status'[u] = status[u]
        /\ UNCHANGED <<session, run, inherited>>
    BY <1>4, UserDoes
  <2>. QED  BY <2>1, OutsideBlame
<1>. QED  BY <1>1, <1>2, <1>3, <1>4, NextCases

-----------------------------------------------------------------------------
(* The engines.                                                            *)

ManagedInv == Managed /\ Memory /\ StopEndsLoop /\ Blame

LEMMA ManagedInvariant == EngineSpec => []ManagedInv
<1>1. InitEngines => ManagedInv
  BY InitManagedTypes, InitMemory, InitLoop, InitBlame DEF InitEngines, ManagedInv
<1>2. ManagedInv /\ [NextEngines]_<<engine, vars, mvars>> => ManagedInv'
  <2>. SUFFICES ASSUME ManagedInv, [NextEngines]_<<engine, vars, mvars>> PROVE ManagedInv'
    OBVIOUS
  <2>1. CASE NextManaged
    BY <2>1, ManagedTypesStep, MemoryStep, LoopStep, BlameStep DEF ManagedInv
  <2>2. CASE UNCHANGED mvars
    <3>1. Managed' /\ Memory'
      BY <2>2 DEF mvars, ManagedInv, Managed, Memory, OneMemory, Busy
    <3>2. StopEndsLoop'
      BY <2>2 DEF mvars, ManagedInv, StopEndsLoop, Sid, Owner
    <3>3. Blame'
      BY <2>2 DEF mvars, ManagedInv, Blame, FailsByItself, Busy, Claim, Sound, Excused, Apart, Sid, Owner
    <3>. QED  BY <3>1, <3>2, <3>3 DEF ManagedInv
  <2>. QED  BY <2>1, <2>2 DEF NextEngines, OwnStep, ManagedStep
<1>. QED  BY <1>1, <1>2, PTL DEF EngineSpec

\* Every session in use is attached to the one store the project has recorded, unless
\* two runs looked for it at once (ensure_memory_store and ensure_session in
\* cma_engine.py).
THEOREM MemoryIsOne == EngineSpec => []OneMemory
BY ManagedInvariant, PTL DEF ManagedInv, Memory

\* Whatever still works at the provider has a run that waits for it or is about to
\* delete it, unless a failed request, a lost process or a run at its limit has left it
\* behind (the poll of run_cma_task).
THEOREM StoppedLoopEnds == EngineSpec => []StopEndsLoop
BY ManagedInvariant, PTL DEF ManagedInv

\* A run that is not stopped and did not begin beside another of its agent fails only of
\* what it has met itself (the retry of run_cma_task with a new session).
THEOREM FailureIsOwn == EngineSpec => []FailsByItself
BY ManagedInvariant, PTL DEF ManagedInv, Blame

\* The managed agents do not touch the loop: whichever engine the setting names, what is
\* proved of the loop holds (run_dev_task as process_task calls it).
THEOREM EngineKeepsLoop == EngineSpec => [](Paired /\ Remembered /\ StopObeyed)
<1>1. InitEngines => Init
  BY DEF InitEngines
<1>2. [NextEngines]_<<engine, vars, mvars>> => [Next]_vars
  BY DEF NextEngines, OwnStep, ManagedStep
<1>3. EngineSpec => Spec
  BY <1>1, <1>2, PTL DEF EngineSpec, Spec
<1>. QED  BY <1>3, CallsArePaired, AllIsRemembered, StopIsObeyed, PTL
=============================================================================
