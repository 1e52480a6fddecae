-------------------------- MODULE CreditLedgerProofs --------------------------
(***************************************************************************)
(* Proofs about CreditLedger, for any number of sessions, projects and     *)
(* Stripe events.                                                          *)
(***************************************************************************)
EXTENDS CreditLedger, TLAPS

-----------------------------------------------------------------------------
(* Types.                                                                  *)

LEMMA BegunType ==
  ASSUME NEW kind, NEW p \in Projects \cup {None}, NEW e \in Events \cup {None},
         kind \in {"idle", "charge", "refund", "signup", "topup", "refill", "cancel", "erase"}
  PROVE  Begun(kind, p, e) \in Txs
<1>1. NoWallet \in Wallets
  BY DEF NoWallet, Wallets, Plans
<1>. QED  BY <1>1 DEF Begun, Txs

LEMMA WalletTypes == NoWallet \in Wallets /\ NewWallet \in Wallets
BY DEF NoWallet, NewWallet, Wallets, Plans

\* Opening, updating and closing a session keep the type of tx.
TxOK(s, t) ==
  /\ t \in Txs
  /\ t.kind \in {"charge", "refund", "signup"} => t.project \in Projects
  /\ t.kind \in {"topup", "refill", "cancel"} => t.event \in Events /\ t.event.kind = t.kind

TxsOK == tx \in [Sessions -> Txs] /\ \A s \in Sessions : TxOK(s, tx[s])

LEMMA TxsType == TypeOK => TxsOK
BY DEF TypeOK, TxsOK, TxOK

LEMMA TxUpdate ==
  ASSUME TypeOK, NEW s \in Sessions, NEW t, TxOK(s, t), tx' = [tx EXCEPT ![s] = t]
  PROVE  TxsOK'
BY TxsType DEF TxsOK, TxOK

LEMMA CloseOK == ASSUME TypeOK, NEW s \in Sessions, Close(s) PROVE TxsOK'
<1>1. Idle \in Txs /\ Idle.kind = "idle"
  BY BegunType DEF Idle, Begun
<1>2. TxOK(s, Idle)
  BY <1>1 DEF TxOK
<1>. QED  BY <1>2, TxUpdate DEF Close

LEMMA OpenOK ==
  ASSUME TypeOK, NEW s \in Sessions, NEW kind, NEW p, NEW e,
         p \in Projects \cup {None}, e \in Events \cup {None},
         \/ kind \in {"charge", "refund", "signup"} /\ p \in Projects
         \/ kind \in {"topup", "refill", "cancel"} /\ e \in Events /\ e.kind = kind
         \/ kind = "erase",
         Open(s, kind, p, e)
  PROVE  TxsOK'
<1>. DEFINE t == Begun(kind, p, e)
<1>1. t.kind = kind /\ t.project = p /\ t.event = e
  BY DEF Begun
<1>2. t \in Txs
  BY BegunType
<1>3. TxOK(s, t)
  BY <1>1, <1>2 DEF TxOK
<1>. HIDE DEF t
<1>4. tx' = [tx EXCEPT ![s] = t]
  BY DEF Open, t
<1>. QED  BY <1>3, <1>4, TxUpdate

LEMMA TargetType ==
  ASSUME TypeOK, NEW s \in Sessions
  PROVE  Target(s) \in Wallets
BY WalletTypes DEF Target, TypeOK

LEMMA WithPlanType ==
  ASSUME TypeOK, NEW s \in Sessions, tx[s].kind \in {"topup", "refill", "cancel"}
  PROVE  WithPlan(s) \in Wallets /\ WithPlan(s).balance = Target(s).balance
<1>1. tx[s] \in Txs /\ tx[s].event \in Events /\ tx[s].event.kind = tx[s].kind
  BY DEF TypeOK
<1>2. PlanSet(s) \in Plans
  <2>1. tx[s].kind = "refill" => tx[s].event.plan \in Plans
    BY <1>1 DEF Plans
  <2>2. tx[s].seen.plan \in Plans
    BY <1>1 DEF Txs, Wallets
  <2>. QED  BY <2>1, <2>2 DEF PlanSet, Plans
<1>3. Target(s) \in Wallets
  BY TargetType
<1>. DEFINE u == Target(s)
<1>. HIDE DEF u
<1>4. u \in Wallets => /\ [u EXCEPT !.plan = PlanSet(s)] \in Wallets
                       /\ [u EXCEPT !.plan = PlanSet(s)].balance = u.balance
  BY <1>2 DEF Wallets
<1>. QED  BY <1>3, <1>4 DEF WithPlan, u

Refs == {e.ref : e \in Events} \cup {None}

LEMMA PostType ==
  ASSUME TypeOK, NEW s \in Sessions, NEW w \in Wallets, NEW delta \in Int,
         NEW ref \in Refs, NEW p \in Projects \cup {None}, Post(s, w, delta, ref, p)
  PROVE  wallet' \in Wallets /\ ledger' \subseteq Rows /\ posted' \in Nat
<1>1. Target(s).balance \in Int
  BY TargetType DEF Wallets
<1>2. NewBalance(s, delta) \in Int
  BY <1>1 DEF NewBalance
<1>3. wallet' \in Wallets
  BY <1>2 DEF Post, Wallets
<1>4. posted' \in Nat
  BY DEF Post, TypeOK
<1>5. [no |-> posted + 1, delta |-> delta, after |-> NewBalance(s, delta), ref |-> ref,
       project |-> p] \in Rows
  BY <1>2 DEF Rows, Refs, TypeOK
<1>6. ledger' \subseteq Rows
  BY <1>5 DEF Post, TypeOK
<1>. QED  BY <1>3, <1>4, <1>6

\* What an acknowledged or lost answer does.
LEMMA AcknowledgeType ==
  ASSUME TypeOK, NEW s \in Sessions, tx[s].event \in Events, Acknowledge(s)
  PROVE  /\ stripe' \in [Events -> {"unpaid", "pending", "acked"}]
         /\ faults' \in 0..MaxFaults
BY LedgerAssumption DEF Acknowledge, TypeOK, LedgerAssumption

LEMMA EventCredits ==
  ASSUME NEW e \in Events, e.kind \in {"topup", "refill"}
  PROVE  e.credits \in Nat /\ e.credits > 0 /\ e.ref \in Refs /\ e.ref # None
BY LedgerAssumption DEF LedgerAssumption, Refs

Quiet == UNCHANGED <<wallet, ledger, posted, project, stripe, ops, repeats, faults, deleted>>

LEMMA QuietType == TypeOK /\ TxsOK' /\ Quiet => TypeOK'
BY DEF TypeOK, TxsOK, TxOK, Quiet

LEMMA StartType ==
  ASSUME TypeOK, NEW s \in Sessions, Start(s)
  PROVE  TypeOK'
<1>. USE LedgerAssumption DEF LedgerAssumption
<1>1. ASSUME NEW p \in Projects, NEW kind \in {"charge", "refund"}, StartTaskOp(s, kind, p)
      PROVE  TypeOK'
  <2>1. TxsOK'
    BY <1>1, OpenOK DEF StartTaskOp
  <2>2. ops' \in 0..MaxOps
    BY <1>1 DEF StartTaskOp, TypeOK
  <2>. QED  BY <1>1, <2>1, <2>2 DEF StartTaskOp, TypeOK, TxsOK, TxOK
<1>2. ASSUME NEW p \in Projects, StartProject(s, p) PROVE TypeOK'
  <2>1. TxsOK' /\ Quiet
    BY <1>2, OpenOK DEF StartProject, Quiet
  <2>. QED  BY <2>1, QuietType
<1>3. ASSUME NEW e \in Events, Deliver(s, e) PROVE TypeOK'
  <2>1. TxsOK'
    BY <1>3, OpenOK DEF Deliver
  <2>2. repeats' \in 0..MaxRepeats
    BY <1>3 DEF Deliver, TypeOK
  <2>. QED  BY <1>3, <2>1, <2>2 DEF Deliver, TypeOK, TxsOK, TxOK
<1>4. CASE StartErase(s)
  <2>1. TxsOK' /\ Quiet
    BY <1>4, OpenOK DEF StartErase, Quiet
  <2>. QED  BY <2>1, QuietType
<1>. QED  BY <1>1, <1>2, <1>3, <1>4 DEF Start

\* A transaction that reads keeps its kind, project and event.
LEMMA ReadType ==
  ASSUME TypeOK, NEW s \in Sessions, ReadWallet(s) \/ ReadLedger(s) \/ EraseRows(s)
  PROVE  TypeOK'
<1>1. tx[s] \in Txs /\ wallet \in Wallets /\ ledger \subseteq Rows /\ Live \subseteq Projects
  BY DEF TypeOK, Live
<1>2. TxsOK' /\ Quiet
  <2>1. CASE ReadWallet(s)
    <3>. DEFINE t == [tx[s] EXCEPT !.read = @ \cup {"wallet"}, !.seen = wallet]
    <3>1. t \in Txs /\ t.kind = tx[s].kind /\ t.project = tx[s].project /\ t.event = tx[s].event
      BY <1>1 DEF Txs
    <3>2. TxOK(s, t)
      BY <3>1, TxsType DEF TxOK, TxsOK
    <3>3. tx' = [tx EXCEPT ![s] = t]
      BY <2>1 DEF ReadWallet
    <3>. HIDE DEF t
    <3>. QED  BY <2>1, <3>2, <3>3, TxUpdate DEF ReadWallet, Quiet
  <2>2. CASE ReadLedger(s)
    <3>. DEFINE t == [tx[s] EXCEPT !.read = @ \cup {"ledger"},
                                   !.credited = AlreadyPosted(tx[s].event.ref)]
    <3>0. AlreadyPosted(tx[s].event.ref) \in BOOLEAN
      BY DEF AlreadyPosted
    <3>1. t \in Txs /\ t.kind = tx[s].kind /\ t.project = tx[s].project /\ t.event = tx[s].event
      BY <1>1, <3>0 DEF Txs
    <3>2. TxOK(s, t)
      BY <3>1, TxsType DEF TxOK, TxsOK
    <3>3. tx' = [tx EXCEPT ![s] = t]
      BY <2>2 DEF ReadLedger
    <3>. HIDE DEF t
    <3>. QED  BY <2>2, <3>2, <3>3, TxUpdate DEF ReadLedger, Quiet
  <2>3. CASE EraseRows(s)
    <3>. DEFINE t == [tx[s] EXCEPT !.read = @ \cup {"ledger"}, !.rows = ledger, !.doomed = Live]
    <3>1. t \in Txs /\ t.kind = tx[s].kind /\ t.project = tx[s].project /\ t.event = tx[s].event
      BY <1>1 DEF Txs
    <3>2. TxOK(s, t)
      BY <3>1, TxsType DEF TxOK, TxsOK
    <3>3. tx' = [tx EXCEPT ![s] = t]
      BY <2>3 DEF EraseRows
    <3>. HIDE DEF t
    <3>. QED  BY <2>3, <3>2, <3>3, TxUpdate DEF EraseRows, Quiet
  <2>. QED  BY <2>1, <2>2, <2>3
<1>. QED  BY <1>2, QuietType

LEMMA TaskStepType ==
  ASSUME TypeOK, NEW s \in Sessions,
         Charge(s) \/ ChargeRefused(s) \/ Refund(s) \/ CreateProject(s)
  PROVE  TypeOK'
<1>. USE LedgerAssumption DEF LedgerAssumption
<1>1. tx[s] \in Txs /\ Target(s) \in Wallets /\ wallet \in Wallets
  BY TargetType DEF TypeOK
<1>2. tx[s].kind \in {"charge", "refund", "signup"} => tx[s].project \in Projects
  BY DEF TypeOK
<1>3. TxsOK'
  BY CloseOK DEF Charge, ChargeRefused, Refund, CreateProject
<1>4. wallet' \in Wallets /\ ledger' \subseteq Rows /\ posted' \in Nat
  <2>1. CASE Charge(s)
    BY <2>1, <1>1, <1>2, PostType DEF Charge, Ready, Refs
  <2>2. CASE ChargeRefused(s)
    BY <2>2, <1>1 DEF ChargeRefused, TypeOK
  <2>3. CASE Refund(s)
    <3>1. tx[s].project \in Projects /\ Cost \in Int /\ None \in Refs
      BY <2>3, <1>2 DEF Refund, Ready, Refs
    <3>2. \/ Post(s, wallet, Cost, None, tx[s].project)
          \/ UNCHANGED <<wallet, ledger, posted>>
      BY <2>3 DEF Refund
    <3>3. CASE Post(s, wallet, Cost, None, tx[s].project)
      BY <3>1, <3>3, <1>1, PostType
    <3>. QED  BY <3>2, <3>3 DEF TypeOK
  <2>4. CASE CreateProject(s)
    <3>. DEFINE u == Target(s)
    <3>. HIDE DEF u
    <3>1. u \in Wallets => [u EXCEPT !.granted = TRUE] \in Wallets
      BY DEF Wallets
    <3>2. [Target(s) EXCEPT !.granted = TRUE] \in Wallets
      BY <3>1, <1>1 DEF u
    <3>3. SignupCredits \in Int /\ None \in Refs
      BY DEF Refs
    <3>4. \/ Post(s, [Target(s) EXCEPT !.granted = TRUE], SignupCredits, None, None)
          \/ UNCHANGED <<wallet, ledger, posted>>
      BY <2>4 DEF CreateProject
    <3>5. CASE Post(s, [Target(s) EXCEPT !.granted = TRUE], SignupCredits, None, None)
      BY <3>2, <3>3, <3>5, PostType
    <3>. QED  BY <3>4, <3>5 DEF TypeOK
  <2>. QED  BY <2>1, <2>2, <2>3, <2>4
<1>5. project' \in [Projects -> {"unborn", "live", "gone"}]
  BY <1>2 DEF Charge, ChargeRefused, Refund, CreateProject, Ready, TypeOK
<1>6. UNCHANGED <<stripe, ops, repeats, faults, deleted>>
  BY DEF Charge, ChargeRefused, Refund, CreateProject
<1>. QED  BY <1>3, <1>4, <1>5, <1>6 DEF TypeOK, TxsOK, TxOK

LEMMA WebhookType ==
  ASSUME TypeOK, NEW s \in Sessions,
         \/ \E kind \in {"topup", "refill"} : AddCredits(s, kind) \/ RepeatCredits(s, kind)
         \/ Downgrade(s)
  PROVE  TypeOK'
<1>1. tx[s].kind \in {"topup", "refill", "cancel"}
  BY DEF AddCredits, RepeatCredits, Downgrade, Ready
<1>2. tx[s].event \in Events /\ tx[s].event.kind = tx[s].kind
  BY <1>1 DEF TypeOK
<1>3. WithPlan(s) \in Wallets /\ wallet \in Wallets
  BY <1>1, WithPlanType DEF TypeOK
<1>4. /\ Acknowledge(s) /\ Close(s)
      /\ UNCHANGED <<project, ops, repeats, deleted>>
  BY DEF AddCredits, RepeatCredits, Downgrade, CommitPlan
<1>5. TxsOK'
  BY <1>4, CloseOK
<1>6. /\ stripe' \in [Events -> {"unpaid", "pending", "acked"}]
      /\ faults' \in 0..MaxFaults
  BY <1>2, <1>4, AcknowledgeType
<1>7. wallet' \in Wallets /\ ledger' \subseteq Rows /\ posted' \in Nat
  <2>1. ASSUME NEW kind \in {"topup", "refill"}, AddCredits(s, kind)
        PROVE  wallet' \in Wallets /\ ledger' \subseteq Rows /\ posted' \in Nat
    <3>1. tx[s].event.credits \in Int /\ tx[s].event.ref \in Refs
      BY <1>2, <2>1, EventCredits DEF AddCredits, Ready
    <3>. QED  BY <2>1, <1>3, <3>1, PostType DEF AddCredits
  <2>2. ASSUME CommitPlan(s)
        PROVE  wallet' \in Wallets /\ ledger' \subseteq Rows /\ posted' \in Nat
    BY <2>2, <1>3 DEF CommitPlan, TypeOK
  <2>. QED  BY <2>1, <2>2 DEF RepeatCredits, Downgrade
<1>. QED  BY <1>4, <1>5, <1>6, <1>7 DEF TypeOK, TxsOK, TxOK

LEMMA EndType ==
  ASSUME TypeOK, NEW s \in Sessions, Erase(s) \/ RollBack(s) \/ Lost(s)
  PROVE  TypeOK'
<1>. USE LedgerAssumption DEF LedgerAssumption
<1>1. TxsOK'
  BY CloseOK DEF Erase, RollBack, Lost
<1>2. CASE Erase(s)
  <2>1. wallet' \in Wallets /\ ledger' \subseteq Rows
    BY <1>2, WalletTypes DEF Erase, TypeOK
  <2>2. project' \in [Projects -> {"unborn", "live", "gone"}]
    BY <1>2 DEF Erase, TypeOK
  <2>3. deleted' = TRUE /\ UNCHANGED <<posted, stripe, ops, repeats, faults>>
    BY <1>2 DEF Erase
  <2>. QED  BY <1>1, <2>1, <2>2, <2>3 DEF TypeOK, TxsOK, TxOK
<1>3. CASE RollBack(s)
  BY <1>1, <1>3, QuietType DEF RollBack, Quiet
<1>4. CASE Lost(s)
  <2>1. faults' \in 0..MaxFaults
    BY <1>4 DEF Lost, TypeOK
  <2>. QED  BY <1>1, <1>4, <2>1 DEF Lost, TypeOK, TxsOK, TxOK
<1>. QED  BY <1>2, <1>3, <1>4

LEMMA InitTypeOK == Init => TypeOK
<1>. SUFFICES ASSUME Init PROVE TypeOK
  OBVIOUS
<1>1. Idle \in Txs /\ Idle.kind = "idle"
  BY BegunType DEF Idle, Begun
<1>2. tx \in [Sessions -> Txs] /\ \A s \in Sessions : tx[s].kind = "idle"
  BY <1>1 DEF Init
<1>3. /\ wallet \in Wallets /\ ledger \subseteq Rows /\ posted \in Nat
      /\ project \in [Projects -> {"unborn", "live", "gone"}]
      /\ stripe \in [Events -> {"unpaid", "pending", "acked"}]
  BY WalletTypes DEF Init
<1>4. ops \in 0..MaxOps /\ repeats \in 0..MaxRepeats /\ faults \in 0..MaxFaults
  BY LedgerAssumption DEF Init, LedgerAssumption
<1>5. deleted \in BOOLEAN
  BY DEF Init
<1>. QED  BY <1>2, <1>3, <1>4, <1>5 DEF TypeOK

LEMMA TypeStep == TypeOK /\ [Next]_vars => TypeOK'
<1>. SUFFICES ASSUME TypeOK, [Next]_vars PROVE TypeOK'
  OBVIOUS
<1>1. ASSUME NEW s \in Sessions, Start(s) PROVE TypeOK'
  BY <1>1, StartType
<1>2. ASSUME NEW s \in Sessions, Step(s) PROVE TypeOK'
  BY <1>2, ReadType, TaskStepType, WebhookType, EndType DEF Step
<1>3. ASSUME NEW s \in Sessions, Lost(s) PROVE TypeOK'
  BY <1>3, EndType
<1>4. ASSUME NEW e \in Events, Pay(e) PROVE TypeOK'
  BY <1>4 DEF Pay, TypeOK
<1>5. ASSUME NEW p \in Projects, DeleteProject(p) PROVE TypeOK'
  BY <1>5 DEF DeleteProject, TypeOK
<1>6. CASE UNCHANGED vars
  BY <1>6 DEF vars, TypeOK
<1>. QED  BY <1>1, <1>2, <1>3, <1>4, <1>5, <1>6 DEF Next

\* Every variable of the ledger keeps its type, and an open transaction knows the
\* project or the event it is about.
THEOREM TypeCorrect == Spec => []TypeOK
<1>. QED  BY InitTypeOK, TypeStep, PTL DEF Spec

-----------------------------------------------------------------------------
(* Safety.  Every step does one of three things to the wallet and its      *)
(* ledger: it posts one new row, it leaves the balance alone, or it erases *)
(* the account.  The lemma StepCases says so, and the invariants follow    *)
(* from it.                                                                *)

\* A wallet that is not there has no balance.
NoWalletNoCredits == ~wallet.exists => wallet.balance = 0

\* The row a step posts.
NewRow(r) ==
  /\ ledger' = ledger \cup {r}
  /\ r.no = posted + 1 /\ posted' = posted + 1
  /\ r.after = wallet.balance + r.delta /\ wallet'.balance = r.after
  /\ wallet'.exists
  /\ r.delta > 0 \/ r.after >= 0
  /\ r.ref # None => r.project = None /\ \A q \in ledger : q.ref # r.ref
  /\ deleted' = deleted

PostStep == \E r \in Rows : NewRow(r)

\* Only rows of a project disappear.
KeepStep ==
  /\ posted' = posted
  /\ wallet'.balance = wallet.balance
  /\ wallet'.exists \/ wallet' = wallet
  /\ ledger' \subseteq ledger
  /\ \A r \in ledger \ ledger' : r.project # None
  /\ deleted' = deleted

EraseStep ==
  /\ posted' = posted
  /\ wallet' \in {wallet, NoWallet}
  /\ ledger' \subseteq ledger
  /\ deleted'

-----------------------------------------------------------------------------
\* Without a conflict the UPDATE finds the committed balance.
LEMMA TargetIsWallet ==
  ASSUME TypeOK, NoWalletNoCredits, NEW s \in Sessions, ~WalletConflict(s)
  PROVE  Target(s).exists /\ Target(s).balance = wallet.balance
<1>1. tx[s].seen.exists \in BOOLEAN /\ wallet.exists \in BOOLEAN
  BY DEF TypeOK, Txs, Wallets
<1>2. tx[s].seen.exists = wallet.exists
  BY DEF WalletConflict
<1>3. CASE tx[s].seen.exists
  BY <1>2, <1>3 DEF Target
<1>4. CASE ~tx[s].seen.exists
  BY <1>2, <1>4 DEF Target, NewWallet, NoWalletNoCredits
<1>. QED  BY <1>3, <1>4

LEMMA PostPosts ==
  ASSUME TypeOK, NoWalletNoCredits, NEW s \in Sessions, ~WalletConflict(s),
         NEW w \in Wallets, w.exists, NEW delta \in Int, NEW ref \in Refs,
         NEW p \in Projects \cup {None}, Post(s, w, delta, ref, p),
         delta > 0 \/ wallet.balance + delta >= 0,
         ref # None => p = None /\ ~RefTaken(ref),
         deleted' = deleted
  PROVE  PostStep
<1>1. NewBalance(s, delta) = wallet.balance + delta /\ wallet.balance \in Int
  BY TargetIsWallet DEF NewBalance, TypeOK, Wallets
<1>. DEFINE b == NewBalance(s, delta)
            r == [no |-> posted + 1, delta |-> delta, after |-> b, ref |-> ref, project |-> p]
<1>2. r \in Rows
  BY <1>1 DEF Rows, Refs, TypeOK
<1>3. /\ r.no = posted + 1 /\ r.delta = delta /\ r.after = b /\ r.ref = ref /\ r.project = p
  OBVIOUS
<1>4. ledger' = ledger \cup {r} /\ posted' = posted + 1 /\ wallet' = [w EXCEPT !.balance = b]
  BY DEF Post
<1>5. wallet'.balance = b /\ wallet'.exists
  BY <1>4 DEF Wallets
<1>6. ref # None => \A q \in ledger : q.ref # ref
  BY DEF RefTaken
<1>. HIDE DEF b, r
<1>7. b = wallet.balance + delta
  BY <1>1 DEF b
<1>8. NewRow(r)
  BY <1>3, <1>4, <1>5, <1>6, <1>7 DEF NewRow
<1>. QED  BY <1>2, <1>8 DEF PostStep

-----------------------------------------------------------------------------
LEMMA TaskOpCases ==
  ASSUME TypeOK, NoWalletNoCredits, NEW s \in Sessions,
         Charge(s) \/ ChargeRefused(s) \/ Refund(s) \/ CreateProject(s)
  PROVE  PostStep \/ KeepStep
<1>. USE LedgerAssumption DEF LedgerAssumption
<1>1. /\ tx[s] \in Txs /\ wallet \in Wallets /\ Target(s) \in Wallets /\ deleted' = deleted
      /\ None \in Refs
  BY TargetType DEF TypeOK, Refs, Charge, ChargeRefused, Refund, CreateProject
<1>2. tx[s].kind \in {"charge", "refund", "signup"} => tx[s].project \in Projects
  BY DEF TypeOK
<1>3. ASSUME UNCHANGED <<wallet, ledger, posted>> PROVE KeepStep
  BY <1>1, <1>3 DEF KeepStep
<1>4. CASE Charge(s)
  <2>1. ~WalletConflict(s) /\ Target(s).exists /\ wallet.balance >= Cost
    BY <1>4, TargetIsWallet DEF Charge, Covered
  <2>2. -Cost \in Int /\ wallet.balance + (-Cost) >= 0
    BY <2>1, <1>1 DEF Wallets
  <2>3. tx[s].project \in Projects \cup {None} /\ Post(s, Target(s), -Cost, None, tx[s].project)
    BY <1>2, <1>4 DEF Charge, Ready
  <2>. QED  BY <1>1, <2>1, <2>2, <2>3, PostPosts
<1>5. CASE ChargeRefused(s)
  <2>1. ~WalletConflict(s) /\ wallet' = Target(s) /\ ledger' = ledger /\ posted' = posted
    BY <1>5 DEF ChargeRefused
  <2>2. wallet'.exists /\ wallet'.balance = wallet.balance
    BY <2>1, TargetIsWallet
  <2>. QED  BY <1>1, <2>1, <2>2 DEF KeepStep
<1>6. CASE Refund(s)
  <2>1. CASE tx[s].seen.exists
    <3>1. ~WalletConflict(s) /\ Post(s, wallet, Cost, None, tx[s].project)
      BY <1>6, <2>1 DEF Refund
    <3>2. Target(s) = wallet /\ wallet.exists
      BY <2>1, <3>1, TargetIsWallet DEF Target
    <3>3. tx[s].project \in Projects \cup {None} /\ Cost \in Int /\ Cost > 0
      BY <1>2, <1>6 DEF Refund, Ready
    <3>. QED  BY <1>1, <3>1, <3>2, <3>3, PostPosts
  <2>2. CASE ~tx[s].seen.exists
    BY <1>3, <1>6, <2>2 DEF Refund
  <2>. QED  BY <2>1, <2>2
<1>7. CASE CreateProject(s)
  <2>1. CASE tx[s].seen.granted
    BY <1>3, <1>7, <2>1 DEF CreateProject
  <2>2. CASE ~tx[s].seen.granted
    <3>. DEFINE w == [Target(s) EXCEPT !.granted = TRUE]
    <3>1. ~WalletConflict(s) /\ Post(s, w, SignupCredits, None, None)
      BY <1>7, <2>2 DEF CreateProject
    <3>2. Target(s).exists
      BY <3>1, TargetIsWallet
    <3>3. w \in Wallets /\ w.exists
      <4>. DEFINE u == Target(s)
      <4>. HIDE DEF u
      <4>1. u \in Wallets /\ u.exists => [u EXCEPT !.granted = TRUE] \in Wallets
                                         /\ [u EXCEPT !.granted = TRUE].exists
        BY DEF Wallets
      <4>. QED  BY <1>1, <3>2, <4>1 DEF u
    <3>4. SignupCredits \in Int /\ SignupCredits > 0
      OBVIOUS
    <3>. HIDE DEF w
    <3>. QED  BY <1>1, <3>1, <3>3, <3>4, PostPosts
  <2>. QED  BY <2>1, <2>2
<1>. QED  BY <1>4, <1>5, <1>6, <1>7

LEMMA PlanKeeps ==
  ASSUME TypeOK, NoWalletNoCredits, NEW s \in Sessions,
         tx[s].kind \in {"topup", "refill", "cancel"}, ~WalletConflict(s)
  PROVE  /\ WithPlan(s) \in Wallets
         /\ WithPlan(s).exists /\ WithPlan(s).balance = wallet.balance
<1>1. WithPlan(s) \in Wallets /\ WithPlan(s).balance = Target(s).balance
  BY WithPlanType
<1>2. Target(s).exists /\ Target(s).balance = wallet.balance /\ Target(s) \in Wallets
  BY TargetIsWallet, TargetType
<1>. DEFINE u == Target(s)
<1>. HIDE DEF u
<1>3. u \in Wallets => [u EXCEPT !.plan = PlanSet(s)].exists = u.exists
  BY DEF Wallets
<1>4. WithPlan(s).exists = Target(s).exists
  BY <1>2, <1>3 DEF WithPlan, u
<1>. QED  BY <1>1, <1>2, <1>4

LEMMA CommitPlanKeeps ==
  ASSUME TypeOK, NoWalletNoCredits, NEW s \in Sessions,
         tx[s].kind \in {"topup", "refill", "cancel"}, CommitPlan(s)
  PROVE  KeepStep
<1>1. UNCHANGED <<ledger, posted, deleted>>
  BY DEF CommitPlan
<1>2. CASE Writes(s)
  <2>1. wallet' = WithPlan(s) /\ ~WalletConflict(s)
    BY <1>2 DEF CommitPlan
  <2>2. wallet'.exists /\ wallet'.balance = wallet.balance
    BY <2>1, PlanKeeps
  <2>. QED  BY <1>1, <2>2 DEF KeepStep
<1>3. CASE ~Writes(s)
  BY <1>1, <1>3 DEF CommitPlan, KeepStep
<1>. QED  BY <1>2, <1>3

LEMMA WebhookCases ==
  ASSUME TypeOK, NoWalletNoCredits, NEW s \in Sessions,
         \/ \E kind \in {"topup", "refill"} : AddCredits(s, kind) \/ RepeatCredits(s, kind)
         \/ Downgrade(s)
  PROVE  PostStep \/ KeepStep
<1>1. tx[s].kind \in {"topup", "refill", "cancel"}
  BY DEF AddCredits, RepeatCredits, Downgrade, Ready
<1>2. tx[s].event \in Events /\ tx[s].event.kind = tx[s].kind
  BY <1>1 DEF TypeOK
<1>3. ASSUME NEW kind \in {"topup", "refill"}, AddCredits(s, kind) PROVE PostStep
  <2>1. /\ tx[s].event.credits \in Int /\ tx[s].event.credits > 0
        /\ tx[s].event.ref \in Refs
    BY <1>2, <1>3, EventCredits DEF AddCredits, Ready
  <2>2. /\ ~WalletConflict(s) /\ ~RefTaken(tx[s].event.ref) /\ deleted' = deleted
        /\ Post(s, WithPlan(s), tx[s].event.credits, tx[s].event.ref, None)
    BY <1>3 DEF AddCredits
  <2>3. WithPlan(s) \in Wallets /\ WithPlan(s).exists
    BY <1>1, <2>2, PlanKeeps
  <2>. QED  BY <2>1, <2>2, <2>3, PostPosts
<1>4. ASSUME CommitPlan(s) PROVE KeepStep
  BY <1>1, <1>4, CommitPlanKeeps
<1>. QED  BY <1>3, <1>4 DEF RepeatCredits, Downgrade

\* What a step can do to the wallet and the ledger.
LEMMA StepCases ==
  ASSUME TypeOK, NoWalletNoCredits, [Next]_vars
  PROVE  PostStep \/ KeepStep \/ EraseStep
<1>1. ASSUME UNCHANGED <<wallet, ledger, posted, deleted>> PROVE KeepStep
  BY <1>1 DEF KeepStep
<1>2. ASSUME NEW s \in Sessions, Start(s) PROVE KeepStep
  BY <1>1, <1>2 DEF Start, StartTaskOp, StartProject, Deliver, StartErase
<1>3. ASSUME NEW s \in Sessions, Step(s) PROVE PostStep \/ KeepStep \/ EraseStep
  <2>1. CASE ReadWallet(s) \/ ReadLedger(s) \/ EraseRows(s) \/ RollBack(s)
    BY <1>1, <2>1 DEF ReadWallet, ReadLedger, EraseRows, RollBack
  <2>2. CASE Erase(s)
    BY <2>2 DEF Erase, EraseStep
  <2>. QED  BY <1>3, <2>1, <2>2, TaskOpCases, WebhookCases DEF Step
<1>4. ASSUME NEW s \in Sessions, Lost(s) PROVE KeepStep
  BY <1>1, <1>4 DEF Lost
<1>5. ASSUME NEW e \in Events, Pay(e) PROVE KeepStep
  BY <1>1, <1>5 DEF Pay
<1>6. ASSUME NEW p \in Projects, DeleteProject(p) PROVE KeepStep
  <2>1. ledger' = {r \in ledger : r.project # p} /\ p # None
    BY <1>6, LedgerAssumption DEF DeleteProject, LedgerAssumption
  <2>. QED  BY <1>6, <2>1 DEF DeleteProject, KeepStep
<1>7. CASE UNCHANGED vars
  BY <1>1, <1>7 DEF vars
<1>. QED  BY <1>2, <1>3, <1>4, <1>5, <1>6, <1>7 DEF Next

-----------------------------------------------------------------------------
(* The ledger as a chain.                                                  *)

\* Rows are numbered one after the other.
RowNumbers ==
  /\ \A r \in ledger : r.no \in 1..posted
  /\ \A q, r \in ledger : q.no = r.no => q = r

ChainInv == TypeOK /\ NoWalletNoCredits /\ RowNumbers /\ LedgerChain

LEMMA RowFacts ==
  ASSUME TypeOK
  PROVE  /\ posted \in Nat /\ wallet.balance \in Int /\ ledger \subseteq Rows
         /\ \A r \in Rows : r.no \in Nat /\ r.delta \in Int /\ r.after \in Int
BY DEF TypeOK, Wallets, Rows

LEMMA WalletStep ==
  TypeOK /\ NoWalletNoCredits /\ [Next]_vars => NoWalletNoCredits'
<1>. SUFFICES ASSUME TypeOK, NoWalletNoCredits, [Next]_vars PROVE NoWalletNoCredits'
  OBVIOUS
<1>1. CASE PostStep
  BY <1>1 DEF PostStep, NewRow, NoWalletNoCredits
<1>2. CASE KeepStep
  BY <1>2 DEF KeepStep, NoWalletNoCredits
<1>3. CASE EraseStep
  BY <1>3 DEF EraseStep, NoWalletNoCredits, NoWallet
<1>. QED  BY <1>1, <1>2, <1>3, StepCases

LEMMA NumbersStep ==
  TypeOK /\ NoWalletNoCredits /\ RowNumbers /\ [Next]_vars => RowNumbers'
<1>. SUFFICES ASSUME TypeOK, NoWalletNoCredits, RowNumbers, [Next]_vars PROVE RowNumbers'
  OBVIOUS
<1>1. ASSUME NEW n \in Rows, NewRow(n) PROVE RowNumbers'
  BY <1>1, RowFacts DEF NewRow, RowNumbers
<1>2. CASE KeepStep \/ EraseStep
  BY <1>2 DEF KeepStep, EraseStep, RowNumbers
<1>. QED  BY <1>1, <1>2, StepCases DEF PostStep

LEMMA ChainStep == ChainInv /\ [Next]_vars => LedgerChain'
<1>. SUFFICES ASSUME ChainInv, [Next]_vars, ~deleted' PROVE LedgerChain'
  BY DEF LedgerChain
<1>1. TypeOK /\ NoWalletNoCredits /\ RowNumbers /\ LedgerChain
  BY DEF ChainInv
<1>2. ASSUME NEW n \in Rows, NewRow(n) PROVE LedgerChain'
  <2>1. /\ ledger' = ledger \cup {n} /\ n.no = posted + 1 /\ posted' = posted + 1
        /\ n.after = wallet.balance + n.delta /\ wallet'.balance = n.after
        /\ ~deleted
    BY <1>2 DEF NewRow
  <2>2. \A r \in ledger : r.no \in Nat /\ r.no <= posted
    BY <1>1, RowFacts DEF RowNumbers
  <2>3. ASSUME NEW q \in ledger', NEW r \in ledger', q.no = r.no + 1
        PROVE  q.after = r.after + q.delta
    <3>1. CASE q = n
      <4>1. r \in ledger /\ r.no = posted
        BY <1>1, <2>1, <2>2, <2>3, <3>1, RowFacts
      <4>2. r.after = wallet.balance
        BY <1>1, <2>1, <4>1 DEF LedgerChain
      <4>. QED  BY <2>1, <3>1, <4>2
    <3>2. CASE q \in ledger
      <4>1. r \in ledger
        BY <1>1, <2>1, <2>2, <2>3, <3>2, RowFacts
      <4>. QED  BY <1>1, <2>1, <2>3, <3>2, <4>1 DEF LedgerChain
    <3>. QED  BY <2>1, <3>1, <3>2
  <2>4. ASSUME NEW r \in ledger', r.no = 1 PROVE r.after = r.delta
    <3>1. CASE r = n
      <4>1. posted = 0
        BY <1>1, <2>1, <2>4, <3>1, RowFacts
      <4>2. wallet.balance = 0
        BY <1>1, <2>1, <4>1 DEF LedgerChain
      <4>. QED  BY <1>1, <2>1, <3>1, <4>2, RowFacts
    <3>. QED  BY <1>1, <2>1, <2>4, <3>1 DEF LedgerChain
  <2>5. ASSUME NEW r \in ledger', r.no = posted' PROVE r.after = wallet'.balance
    BY <1>1, <2>1, <2>2, <2>5, RowFacts
  <2>6. posted' # 0
    BY <1>1, <2>1, RowFacts
  <2>. QED  BY <2>3, <2>4, <2>5, <2>6 DEF LedgerChain
<1>3. CASE KeepStep
  BY <1>1, <1>3 DEF KeepStep, LedgerChain
<1>4. CASE EraseStep
  BY <1>4 DEF EraseStep
<1>. QED  BY <1>1, <1>2, <1>3, <1>4, StepCases DEF PostStep

\* Whatever charges, refunds, grants and webhooks overlap, the ledger can be
\* audited row by row and ends in the balance of the wallet.
THEOREM LedgerAudits == Spec => []LedgerChain
<1>1. Init => ChainInv
  BY InitTypeOK DEF Init, ChainInv, NoWalletNoCredits, RowNumbers, LedgerChain, NoWallet
<1>2. ChainInv /\ [Next]_vars => ChainInv'
  BY TypeStep, WalletStep, NumbersStep, ChainStep DEF ChainInv
<1>3. ChainInv => LedgerChain
  BY DEF ChainInv
<1>. QED  BY <1>1, <1>2, <1>3, PTL DEF Spec

-----------------------------------------------------------------------------
(* The spending cap.                                                       *)

FundsInv == TypeOK /\ NoWalletNoCredits /\ NeverOverdrawn

LEMMA FundsStep == FundsInv /\ [Next]_vars => NeverOverdrawn'
<1>. SUFFICES ASSUME FundsInv, [Next]_vars PROVE NeverOverdrawn'
  OBVIOUS
<1>1. TypeOK /\ NoWalletNoCredits /\ NeverOverdrawn
  BY DEF FundsInv
<1>2. ASSUME NEW n \in Rows, NewRow(n) PROVE NeverOverdrawn'
  <2>1. n.after >= 0
    BY <1>1, <1>2, RowFacts DEF NewRow, NeverOverdrawn
  <2>. QED  BY <1>1, <1>2, <2>1 DEF NewRow, NeverOverdrawn
<1>3. CASE KeepStep
  BY <1>1, <1>3 DEF KeepStep, NeverOverdrawn
<1>4. CASE EraseStep
  BY <1>1, <1>4 DEF EraseStep, NeverOverdrawn, NoWallet
<1>. QED  BY <1>1, <1>2, <1>3, <1>4, StepCases DEF PostStep

\* With the spending cap neither the wallet nor any balance the ledger ever showed
\* is below zero, however many workers charge at once.
THEOREM CapHolds == Spec => []NeverOverdrawn
<1>1. Init => FundsInv
  BY InitTypeOK DEF Init, FundsInv, NoWalletNoCredits, NeverOverdrawn, NoWallet
<1>2. FundsInv /\ [Next]_vars => FundsInv'
  BY TypeStep, WalletStep, FundsStep DEF FundsInv
<1>3. FundsInv => NeverOverdrawn
  BY DEF FundsInv
<1>. QED  BY <1>1, <1>2, <1>3, PTL DEF Spec

-----------------------------------------------------------------------------
(* Payments.                                                               *)

OnceInv == TypeOK /\ NoWalletNoCredits /\ CreditedOnce

LEMMA OnceStep == OnceInv /\ [Next]_vars => CreditedOnce'
<1>. SUFFICES ASSUME OnceInv, [Next]_vars PROVE CreditedOnce'
  OBVIOUS
<1>1. TypeOK /\ NoWalletNoCredits /\ CreditedOnce
  BY DEF OnceInv
<1>2. ASSUME NEW n \in Rows, NewRow(n) PROVE CreditedOnce'
  BY <1>1, <1>2 DEF NewRow, CreditedOnce
<1>3. CASE KeepStep \/ EraseStep
  BY <1>1, <1>3 DEF KeepStep, EraseStep, CreditedOnce
<1>. QED  BY <1>1, <1>2, <1>3, StepCases DEF PostStep

\* Repeated and concurrent deliveries of one Stripe event leave one ledger row.
THEOREM OneCreditPerPayment == Spec => []CreditedOnce
<1>1. Init => OnceInv
  BY InitTypeOK DEF Init, OnceInv, NoWalletNoCredits, CreditedOnce, NoWallet
<1>2. OnceInv /\ [Next]_vars => OnceInv'
  BY TypeStep, WalletStep, OnceStep DEF OnceInv
<1>3. OnceInv => CreditedOnce
  BY DEF OnceInv
<1>. QED  BY <1>1, <1>2, <1>3, PTL DEF Spec

-----------------------------------------------------------------------------
(* Acknowledgements.                                                       *)

\* A row of a payment belongs to no project, so no deletion of one takes it.
PaymentRows == \A r \in ledger : r.ref # None => r.project = None

\* What a webhook has seen in the ledger is still there.
SeenIsCredited ==
  \A s \in Sessions :
    tx[s].credited =>
      /\ tx[s].kind \in {"topup", "refill"}
      /\ ~deleted => \E r \in ledger : r.ref = tx[s].event.ref

AckInv ==
  TypeOK /\ NoWalletNoCredits /\ PaymentRows /\ SeenIsCredited /\ AckedIsCredited

LEMMA RefsStay ==
  ASSUME TypeOK, NoWalletNoCredits, PaymentRows, [Next]_vars, ~deleted',
         NEW r \in ledger, r.ref # None
  PROVE  r \in ledger'
<1>1. CASE PostStep
  BY <1>1 DEF PostStep, NewRow
<1>2. CASE KeepStep
  BY <1>2 DEF KeepStep, PaymentRows
<1>. QED  BY <1>1, <1>2, StepCases DEF EraseStep

LEMMA PaymentRowsStep ==
  TypeOK /\ NoWalletNoCredits /\ PaymentRows /\ [Next]_vars => PaymentRows'
<1>. SUFFICES ASSUME TypeOK, NoWalletNoCredits, PaymentRows, [Next]_vars PROVE PaymentRows'
  OBVIOUS
<1>1. CASE PostStep
  BY <1>1 DEF PostStep, NewRow, PaymentRows
<1>2. CASE KeepStep \/ EraseStep
  BY <1>2 DEF KeepStep, EraseStep, PaymentRows
<1>. QED  BY <1>1, <1>2, StepCases

LEMMA NotDeletedBefore ==
  ASSUME TypeOK, NoWalletNoCredits, [Next]_vars, ~deleted'
  PROVE  ~deleted
BY StepCases DEF PostStep, NewRow, KeepStep, EraseStep

\* A transaction that begins or ends knows of no credited payment.
LEMMA FreshTx ==
  ASSUME TypeOK, NEW u \in Sessions, NEW s \in Sessions, tx'[s].credited,
         Close(u) \/ (\E kind, p, e : Open(u, kind, p, e))
  PROVE  tx'[s] = tx[s]
<1>1. ASSUME NEW kind, NEW p, NEW e PROVE Begun(kind, p, e).credited = FALSE
  BY DEF Begun
<1>2. Idle.credited = FALSE
  BY <1>1 DEF Idle
<1>3. tx \in [Sessions -> Txs]
  BY DEF TypeOK
<1>4. CASE Close(u)
  BY <1>2, <1>3, <1>4 DEF Close
<1>5. ASSUME NEW kind, NEW p, NEW e, Open(u, kind, p, e) PROVE tx'[s] = tx[s]
  <2>1. tx' = [tx EXCEPT ![u] = Begun(kind, p, e)]
    BY <1>5 DEF Open
  <2>. QED  BY <1>1, <1>3, <2>1
<1>. QED  BY <1>4, <1>5

\* Where the knowledge of a session that a payment is credited comes from.
LEMMA SeenSource ==
  ASSUME TypeOK, [Next]_vars, NEW s \in Sessions, tx'[s].credited
  PROVE  /\ tx'[s].kind = tx[s].kind /\ tx'[s].event = tx[s].event
         /\ \/ tx[s].credited
            \/ /\ tx[s].kind \in {"topup", "refill"}
               /\ AlreadyPosted(tx[s].event.ref) /\ ledger' = ledger
<1>. DEFINE Goal == /\ tx'[s].kind = tx[s].kind /\ tx'[s].event = tx[s].event
                    /\ \/ tx[s].credited
                       \/ /\ tx[s].kind \in {"topup", "refill"}
                          /\ AlreadyPosted(tx[s].event.ref) /\ ledger' = ledger
<1>0. ASSUME tx'[s] = tx[s] PROVE Goal
  BY <1>0
<1>1. ASSUME NEW u \in Sessions, Start(u) PROVE Goal
  <2>1. \E kind, p, e : Open(u, kind, p, e)
    BY <1>1 DEF Start, StartTaskOp, StartProject, Deliver, StartErase
  <2>. QED  BY <1>0, <2>1, FreshTx
<1>2. ASSUME NEW u \in Sessions, Close(u) PROVE Goal
  BY <1>0, <1>2, FreshTx
<1>3. ASSUME NEW u \in Sessions, ReadWallet(u) \/ ReadLedger(u) \/ EraseRows(u) PROVE Goal
  <2>0. tx \in [Sessions -> Txs] /\ tx[u] \in Txs
    BY DEF TypeOK
  <2>1. CASE ReadWallet(u)
    <3>. DEFINE t == [tx[u] EXCEPT !.read = @ \cup {"wallet"}, !.seen = wallet]
    <3>1. t.kind = tx[u].kind /\ t.event = tx[u].event /\ t.credited = tx[u].credited
      BY <2>0 DEF Txs
    <3>2. tx' = [tx EXCEPT ![u] = t]
      BY <2>1 DEF ReadWallet
    <3>. HIDE DEF t
    <3>. QED  BY <2>0, <3>1, <3>2
  <2>2. CASE ReadLedger(u)
    <3>. DEFINE t == [tx[u] EXCEPT !.read = @ \cup {"ledger"},
                                   !.credited = AlreadyPosted(tx[u].event.ref)]
    <3>1. /\ t.kind = tx[u].kind /\ t.event = tx[u].event
          /\ t.credited = AlreadyPosted(tx[u].event.ref)
      BY <2>0 DEF Txs
    <3>2. /\ tx' = [tx EXCEPT ![u] = t]
          /\ tx[u].kind \in {"topup", "refill"} /\ ledger' = ledger
      BY <2>2 DEF ReadLedger
    <3>. HIDE DEF t
    <3>3. CASE u = s
      BY <2>0, <3>1, <3>2, <3>3
    <3>4. CASE u # s
      BY <1>0, <2>0, <3>2, <3>4
    <3>. QED  BY <3>3, <3>4
  <2>3. CASE EraseRows(u)
    <3>. DEFINE t == [tx[u] EXCEPT !.read = @ \cup {"ledger"}, !.rows = ledger, !.doomed = Live]
    <3>1. t.kind = tx[u].kind /\ t.event = tx[u].event /\ t.credited = tx[u].credited
      BY <2>0 DEF Txs
    <3>2. tx' = [tx EXCEPT ![u] = t]
      BY <2>3 DEF EraseRows
    <3>. HIDE DEF t
    <3>. QED  BY <2>0, <3>1, <3>2
  <2>. QED  BY <1>3, <2>1, <2>2, <2>3
<1>4. ASSUME NEW u \in Sessions, Step(u) \/ Lost(u) PROVE Goal
  <2>1. \/ ReadWallet(u) \/ ReadLedger(u) \/ EraseRows(u)
        \/ Close(u)
    BY <1>4 DEF Step, Lost, Charge, ChargeRefused, Refund, CreateProject, AddCredits,
                RepeatCredits, Downgrade, CommitPlan, Erase, RollBack
  <2>. QED  BY <1>2, <1>3, <2>1
<1>5. ASSUME NEW e \in Events, Pay(e) PROVE Goal
  BY <1>0, <1>5 DEF Pay
<1>6. ASSUME NEW p \in Projects, DeleteProject(p) PROVE Goal
  BY <1>0, <1>6 DEF DeleteProject
<1>7. CASE UNCHANGED vars
  BY <1>0, <1>7 DEF vars
<1>. QED  BY <1>1, <1>4, <1>5, <1>6, <1>7 DEF Next

LEMMA SeenStep == AckInv /\ [Next]_vars => SeenIsCredited'
<1>. SUFFICES ASSUME AckInv, [Next]_vars, NEW s \in Sessions, tx'[s].credited
              PROVE  /\ tx'[s].kind \in {"topup", "refill"}
                     /\ ~deleted' => \E r \in ledger' : r.ref = tx'[s].event.ref
  BY DEF SeenIsCredited
<1>1. TypeOK /\ NoWalletNoCredits /\ PaymentRows /\ SeenIsCredited
  BY DEF AckInv
<1>2. tx[s].kind \in {"topup", "refill"}
  BY <1>1, SeenSource DEF SeenIsCredited
<1>3. tx[s].event \in Events /\ tx[s].event.kind = tx[s].kind
  BY <1>1, <1>2 DEF TypeOK
<1>4. tx[s].event.ref # None
  BY <1>2, <1>3, EventCredits
<1>5. ASSUME ~deleted' PROVE \E r \in ledger' : r.ref = tx[s].event.ref
  <2>1. ~deleted
    BY <1>1, <1>5, NotDeletedBefore
  <2>2. CASE tx[s].credited
    <3>1. PICK r \in ledger : r.ref = tx[s].event.ref
      BY <1>1, <2>1, <2>2 DEF SeenIsCredited
    <3>2. r \in ledger'
      BY <1>1, <1>4, <1>5, <3>1, RefsStay
    <3>. QED  BY <3>1, <3>2
  <2>3. CASE AlreadyPosted(tx[s].event.ref) /\ ledger' = ledger
    BY <2>3 DEF AlreadyPosted
  <2>. QED  BY <1>1, <2>2, <2>3, SeenSource
<1>. QED  BY <1>1, <1>2, <1>5, SeenSource

\* Who acknowledges an event has its row, or has seen it.
LEMMA AckSource ==
  ASSUME TypeOK, [Next]_vars, NEW e \in Events, stripe'[e] = "acked", stripe[e] # "acked"
  PROVE  \/ e.kind = "cancel"
         \/ \E r \in ledger' : r.ref = e.ref
         \/ \E s \in Sessions : tx[s].credited /\ tx[s].event = e /\ ledger' = ledger
<1>. DEFINE Goal == \/ e.kind = "cancel"
                    \/ \E r \in ledger' : r.ref = e.ref
                    \/ \E s \in Sessions : /\ tx[s].credited /\ tx[s].event = e
                                           /\ ledger' = ledger
<1>1. stripe \in [Events -> {"unpaid", "pending", "acked"}]
  BY DEF TypeOK
<1>2. ASSUME NEW s \in Sessions, Acknowledge(s) PROVE tx[s].event = e
  BY <1>1, <1>2 DEF Acknowledge
<1>3. ASSUME NEW s \in Sessions, NEW kind \in {"topup", "refill"}, AddCredits(s, kind)
      PROVE  Goal
  <2>1. tx[s].event = e
    BY <1>2, <1>3 DEF AddCredits
  <2>. DEFINE r == [no |-> posted + 1, delta |-> tx[s].event.credits,
                    after |-> NewBalance(s, tx[s].event.credits), ref |-> tx[s].event.ref,
                    project |-> None]
  <2>2. r \in ledger' /\ r.ref = tx[s].event.ref
    BY <1>3 DEF AddCredits, Post
  <2>. QED  BY <2>1, <2>2
<1>4. ASSUME NEW s \in Sessions, NEW kind \in {"topup", "refill"}, RepeatCredits(s, kind)
      PROVE  Goal
  BY <1>2, <1>4 DEF RepeatCredits, CommitPlan
<1>5. ASSUME NEW s \in Sessions, Downgrade(s) PROVE Goal
  <2>1. tx[s].event = e /\ tx[s].kind = "cancel"
    BY <1>2, <1>5 DEF Downgrade, CommitPlan, Ready
  <2>2. tx[s].event.kind = tx[s].kind
    BY <2>1 DEF TypeOK
  <2>. QED  BY <2>1, <2>2
<1>6. ASSUME NEW p \in Events, Pay(p) PROVE FALSE
  BY <1>1, <1>6 DEF Pay
<1>7. stripe' # stripe
  OBVIOUS
<1>8. ASSUME NEW s \in Sessions, Start(s) \/ Step(s) \/ Lost(s) PROVE Goal
  BY <1>3, <1>4, <1>5, <1>7, <1>8
     DEF Start, StartTaskOp, StartProject, Deliver, StartErase, Step, ReadWallet, ReadLedger,
         EraseRows, Charge, ChargeRefused, Refund, CreateProject, Erase, RollBack, Lost
<1>. QED  BY <1>6, <1>7, <1>8 DEF Next, DeleteProject, vars

LEMMA AckStep == AckInv /\ [Next]_vars => AckedIsCredited'
<1>. SUFFICES ASSUME AckInv, [Next]_vars, NEW e \in Events,
                     stripe'[e] = "acked", e.kind # "cancel", ~deleted'
              PROVE  \E r \in ledger' : r.ref = e.ref
  BY DEF AckedIsCredited
<1>1. /\ TypeOK /\ NoWalletNoCredits /\ PaymentRows /\ SeenIsCredited
      /\ AckedIsCredited /\ ~deleted
  BY NotDeletedBefore DEF AckInv
<1>2. CASE stripe[e] = "acked"
  <2>1. PICK r \in ledger : r.ref = e.ref
    BY <1>1, <1>2 DEF AckedIsCredited
  <2>2. e.ref # None
    BY LedgerAssumption DEF LedgerAssumption
  <2>. QED  BY <1>1, <2>1, <2>2, RefsStay
<1>3. CASE stripe[e] # "acked"
  BY <1>1, <1>3, AckSource DEF SeenIsCredited
<1>. QED  BY <1>2, <1>3

\* Stripe stops delivering a payment only when its credits are in the ledger,
\* whichever of its requests failed, raised or overlapped.
THEOREM NoPaymentLost == Spec => []AckedIsCredited
<1>1. Init => AckInv
  <2>1. Idle.credited = FALSE
    BY DEF Idle, Begun
  <2>. QED
    BY <2>1, InitTypeOK
       DEF Init, AckInv, NoWalletNoCredits, PaymentRows, SeenIsCredited, AckedIsCredited, NoWallet
<1>2. AckInv /\ [Next]_vars => AckInv'
  BY TypeStep, WalletStep, PaymentRowsStep, SeenStep, AckStep DEF AckInv
<1>3. AckInv => AckedIsCredited
  BY DEF AckInv
<1>. QED  BY <1>1, <1>2, <1>3, PTL DEF Spec
=============================================================================
