----------------------------- MODULE CreditLedger -----------------------------
(***************************************************************************)
(* The credit wallet of one user: charges and refunds of tasks, the signup *)
(* grant, Stripe's webhooks, and the deletion of projects and of the       *)
(* account.                                                                *)
(*                                                                         *)
(* Every operation is a database transaction in a session of its own: it   *)
(* reads (the wallet into its identity map, the ledger for an event it has *)
(* seen before), and then writes and commits.  The write locks the wallet  *)
(* row, so nobody else can come between the write and the commit, and the  *)
(* two are one step; the reads are unlocked, and anything can happen       *)
(* between them and the commit.  The balance is not written from the value *)
(* read but by an UPDATE the database evaluates.                           *)
(***************************************************************************)
EXTENDS Integers, FiniteSets

CONSTANTS
  Sessions,       \* concurrent transactions: worker slots, webhooks, API requests
  Projects,       \* projects of the user; a ledger row of a task dies with its project
  Events,         \* Stripe events: [kind, ref, credits, plan]
  Cost,           \* credits a task costs (credit_cost)
  SignupCredits,  \* SIGNUP_CREDITS
  Free,           \* the plan of a wallet without subscription
  None,           \* the null of an optional column
  MaxOps,         \* bound: charges and refunds
  MaxRepeats,     \* bound: deliveries of events that were already acknowledged
  MaxFaults       \* bound: transactions lost with their process or connection

\* Stripe numbers what it charges: a checkout session or an invoice has a
\* reference of its own; a cancellation carries none.
ASSUME LedgerAssumption ==
  /\ Cost \in Nat \ {0} /\ SignupCredits \in Nat \ {0}
  /\ MaxOps \in Nat /\ MaxRepeats \in Nat /\ MaxFaults \in Nat
  /\ None \notin Projects /\ None \notin Events
  /\ \A e \in Events :
       \/ e.kind \in {"topup", "refill"} /\ e.credits \in Nat \ {0} /\ e.ref # None
       \/ e.kind = "cancel" /\ e.ref = None
  /\ \A e, f \in Events : e.ref # None /\ e.ref = f.ref => e = f

Plans == {Free} \cup {e.plan : e \in {x \in Events : x.kind = "refill"}}

VARIABLES
  wallet,    \* the row of credit_accounts, or NoWallet
  ledger,    \* the rows of credit_ledger, numbered in the order of posting
  posted,    \* rows posted so far
  project,   \* of each project: unborn, live or gone
  stripe,    \* of each event: unpaid, pending or acked
  tx,        \* what each session is doing
  ops,       \* charges and refunds so far
  repeats,   \* repeated deliveries so far
  faults,    \* lost transactions so far
  deleted    \* the deletion of the account has committed

vars == <<wallet, ledger, posted, project, stripe, tx, ops, repeats, faults, deleted>>

-----------------------------------------------------------------------------
NoWallet == [exists |-> FALSE, balance |-> 0, plan |-> Free, granted |-> FALSE]

\* get_or_create_account: a new wallet is free, empty and not granted.
NewWallet == [exists |-> TRUE, balance |-> 0, plan |-> Free, granted |-> FALSE]

Wallets == [exists : BOOLEAN, balance : Int, plan : Plans, granted : BOOLEAN]

Rows == [no : Nat, delta : Int, after : Int, ref : {e.ref : e \in Events} \cup {None},
         project : Projects \cup {None}]

Live == {p \in Projects : project[p] = "live"}

\* A session: the kind of its transaction, the project or event it is about, which
\* reads it has made and what it saw.
Begun(kind, p, e) ==
  [kind |-> kind, project |-> p, event |-> e, read |-> {}, seen |-> NoWallet,
   credited |-> FALSE, rows |-> {}, doomed |-> {}]

Idle == Begun("idle", None, None)

Open(s, kind, p, e) == tx[s] = Idle /\ tx' = [tx EXCEPT ![s] = Begun(kind, p, e)]

Txs == [kind : {"idle", "charge", "refund", "signup", "topup", "refill", "cancel", "erase"},
        project : Projects \cup {None}, event : Events \cup {None},
        read : SUBSET {"wallet", "ledger"}, seen : Wallets, credited : BOOLEAN,
        rows : SUBSET Rows, doomed : SUBSET Projects]

\* The session is idle whenever its transaction is not one of these kinds, and an
\* event or a project is there where the kind needs it.
TypeOK ==
  /\ wallet \in Wallets
  /\ ledger \subseteq Rows
  /\ posted \in Nat
  /\ project \in [Projects -> {"unborn", "live", "gone"}]
  /\ stripe \in [Events -> {"unpaid", "pending", "acked"}]
  /\ tx \in [Sessions -> Txs]
  /\ \A s \in Sessions :
       /\ tx[s].kind \in {"charge", "refund", "signup"} => tx[s].project \in Projects
       /\ tx[s].kind \in {"topup", "refill", "cancel"} =>
            tx[s].event \in Events /\ tx[s].event.kind = tx[s].kind
  /\ ops \in 0..MaxOps
  /\ repeats \in 0..MaxRepeats
  /\ faults \in 0..MaxFaults
  /\ deleted \in BOOLEAN

Init ==
  /\ wallet = NoWallet
  /\ ledger = {}
  /\ posted = 0
  /\ project = [p \in Projects |-> "unborn"]
  /\ stripe = [e \in Events |-> "unpaid"]
  /\ tx = [s \in Sessions |-> Idle]
  /\ ops = 0
  /\ repeats = 0
  /\ faults = 0
  /\ deleted = FALSE

-----------------------------------------------------------------------------
(* Transactions begin.                                                     *)

\* A worker charges a task it starts, or a worker or the reaper refunds one.
StartTaskOp(s, kind, p) ==
  /\ p \in Live
  /\ ops < MaxOps
  /\ ops' = ops + 1
  /\ Open(s, kind, p, None)
  /\ UNCHANGED <<wallet, ledger, posted, project, stripe, repeats, faults, deleted>>

\* create_project grants the signup credits on its way.
StartProject(s, p) ==
  /\ project[p] = "unborn"
  /\ ~deleted
  /\ \A u \in Sessions : tx[u].kind = "signup" => tx[u].project # p
  /\ Open(s, "signup", p, None)
  /\ UNCHANGED <<wallet, ledger, posted, project, stripe, ops, repeats, faults, deleted>>

\* The user pays, or the subscription ends: from now on Stripe delivers the event.
\* Nothing stops a subscription when the account is deleted: the identifier that
\* delete_account would need is never stored.
Pay(e) ==
  /\ stripe[e] = "unpaid"
  /\ e.kind = "cancel" => \E f \in Events : f.kind = "refill" /\ stripe[f] # "unpaid"
  /\ e.kind = "refill" => \A f \in Events : f.kind = "cancel" => stripe[f] = "unpaid"
  /\ stripe' = [stripe EXCEPT ![e] = "pending"]
  /\ UNCHANGED <<wallet, ledger, posted, project, tx, ops, repeats, faults, deleted>>

\* A webhook request.  Stripe repeats an event until it is acknowledged, in any
\* order, several times at once, and now and then also afterwards.
Deliver(s, e) ==
  /\ Open(s, e.kind, None, e)
  /\ \/ stripe[e] = "pending" /\ UNCHANGED repeats
     \/ stripe[e] = "acked" /\ repeats < MaxRepeats /\ repeats' = repeats + 1
  /\ UNCHANGED <<wallet, ledger, posted, project, stripe, ops, faults, deleted>>

StartErase(s) ==
  /\ ~deleted
  /\ \A u \in Sessions : tx[u].kind # "erase"
  /\ Open(s, "erase", None, None)
  /\ UNCHANGED <<wallet, ledger, posted, project, stripe, ops, repeats, faults, deleted>>

-----------------------------------------------------------------------------
(* Transactions read committed state.                                      *)

\* The wallet enters the identity map and stays there.
ReadWallet(s) ==
  /\ tx[s] # Idle /\ "wallet" \notin tx[s].read
  /\ tx' = [tx EXCEPT ![s] = [tx[s] EXCEPT !.read = @ \cup {"wallet"}, !.seen = wallet]]
  /\ UNCHANGED <<wallet, ledger, posted, project, stripe, ops, repeats, faults, deleted>>

\* Mutant of AlreadyPosted: the guard against repeated deliveries is missing.
NeverPosted(ref) == FALSE

\* _already_posted
AlreadyPosted(ref) == \E r \in ledger : r.ref = ref

\* A top-up may ask before or after it loads the wallet, depending on whether the
\* event names a customer; a refill has changed the plan of the loaded wallet.
ReadLedger(s) ==
  /\ tx[s].kind \in {"topup", "refill"} /\ "ledger" \notin tx[s].read
  /\ tx[s].kind = "refill" => "wallet" \in tx[s].read
  /\ tx' = [tx EXCEPT ![s] = [tx[s] EXCEPT !.read = @ \cup {"ledger"},
                                           !.credited = AlreadyPosted(tx[s].event.ref)]]
  /\ UNCHANGED <<wallet, ledger, posted, project, stripe, ops, repeats, faults, deleted>>

\* delete_account deletes the ledger rows and projects it finds; both are gone for
\* the others when it commits, after the sandboxes have been destroyed.
EraseRows(s) ==
  /\ tx[s].kind = "erase" /\ tx[s].read = {"wallet"}
  /\ tx' = [tx EXCEPT ![s] = [tx[s] EXCEPT !.read = @ \cup {"ledger"},
                                           !.rows = ledger, !.doomed = Live]]
  /\ UNCHANGED <<wallet, ledger, posted, project, stripe, ops, repeats, faults, deleted>>

-----------------------------------------------------------------------------
(* Transactions write and commit, or fail and roll back.                   *)

\* Everything is read.
Ready(s, kind) ==
  /\ tx[s].kind = kind
  /\ "wallet" \in tx[s].read
  /\ kind \in {"topup", "refill"} => "ledger" \in tx[s].read

Close(s) == tx' = [tx EXCEPT ![s] = Idle]

\* INSERT of a wallet another transaction has created meanwhile, or UPDATE of one
\* that was deleted meanwhile, raises.
WalletConflict(s) == tx[s].seen.exists # wallet.exists

\* The wallet the UPDATE finds: the committed one, or the one just inserted.
Target(s) == IF tx[s].seen.exists THEN wallet ELSE NewWallet

\* Mutant of NewBalance: the balance is computed from the loaded row.
StaleBalance(s, delta) == tx[s].seen.balance + delta

\* UPDATE ... SET balance = balance + delta
NewBalance(s, delta) == Target(s).balance + delta

\* _post: one ledger row and the balance; w holds the other columns of the wallet.
Post(s, w, delta, ref, p) ==
  /\ wallet' = [w EXCEPT !.balance = NewBalance(s, delta)]
  /\ posted' = posted + 1
  /\ ledger' = ledger \cup {[no |-> posted + 1, delta |-> delta,
                             after |-> NewBalance(s, delta), ref |-> ref, project |-> p]}

\* Mutant of Covered: the cap is checked on the loaded row.
CoveredWhenRead(s) == tx[s].seen.balance >= Cost

\* WHERE balance >= guard_min; the spending cap is never turned off.
Covered(s) == Target(s).balance >= Cost

Charge(s) ==
  /\ Ready(s, "charge") /\ ~WalletConflict(s) /\ tx[s].project \in Live
  /\ Covered(s)
  /\ Post(s, Target(s), -Cost, None, tx[s].project)
  /\ Close(s)
  /\ UNCHANGED <<project, stripe, ops, repeats, faults, deleted>>

\* InsufficientCreditsError: the worker commits the blocked task, and with it a
\* wallet that did not exist.
ChargeRefused(s) ==
  /\ Ready(s, "charge") /\ ~WalletConflict(s) /\ tx[s].project \in Live
  /\ ~Covered(s)
  /\ wallet' = Target(s)
  /\ Close(s)
  /\ UNCHANGED <<ledger, posted, project, stripe, ops, repeats, faults, deleted>>

\* refund_task posts nothing without a wallet.
Refund(s) ==
  /\ Ready(s, "refund") /\ tx[s].project \in Live
  /\ IF tx[s].seen.exists
     THEN ~WalletConflict(s) /\ Post(s, wallet, Cost, None, tx[s].project)
     ELSE UNCHANGED <<wallet, ledger, posted>>
  /\ Close(s)
  /\ UNCHANGED <<project, stripe, ops, repeats, faults, deleted>>

\* grant_signup, in the transaction that creates the project.
CreateProject(s) ==
  /\ Ready(s, "signup")
  /\ IF tx[s].seen.granted
     THEN UNCHANGED <<wallet, ledger, posted>>
     ELSE /\ ~WalletConflict(s)
          /\ Post(s, [Target(s) EXCEPT !.granted = TRUE], SignupCredits, None, None)
  /\ project' = [project EXCEPT ![tx[s].project] = "live"]
  /\ Close(s)
  /\ UNCHANGED <<stripe, ops, repeats, faults, deleted>>

\* The answer 200 follows the commit, and may be lost.
Acknowledge(s) ==
  \/ stripe' = [stripe EXCEPT ![tx[s].event] = "acked"] /\ UNCHANGED faults
  \/ faults < MaxFaults /\ faults' = faults + 1 /\ UNCHANGED stripe

\* Mutant of RefTaken: the unique index on stripe_ref is missing.
RefFree(ref) == FALSE

\* uq_credit_ledger_stripe_ref
RefTaken(ref) == \E r \in ledger : r.ref = ref

\* The plan a webhook assigns; a top-up leaves it alone.
PlanSet(s) ==
  IF tx[s].kind = "refill" THEN tx[s].event.plan
  ELSE IF tx[s].kind = "cancel" THEN Free ELSE tx[s].seen.plan

\* An ORM commit writes the columns that were set to another value than was loaded.
PlanChanged(s) == PlanSet(s) # tx[s].seen.plan

WithPlan(s) ==
  IF PlanChanged(s) THEN [Target(s) EXCEPT !.plan = PlanSet(s)] ELSE Target(s)

\* checkout.session.completed and invoice.paid, for the first time.
AddCredits(s, kind) ==
  /\ Ready(s, kind) /\ ~tx[s].credited
  /\ ~WalletConflict(s) /\ ~RefTaken(tx[s].event.ref)
  /\ Post(s, WithPlan(s), tx[s].event.credits, tx[s].event.ref, None)
  /\ Acknowledge(s) /\ Close(s)
  /\ UNCHANGED <<project, ops, repeats, deleted>>

\* Without a post, and without a changed or new row, the commit writes nothing.
Writes(s) == ~tx[s].seen.exists \/ PlanChanged(s)

CommitPlan(s) ==
  /\ Writes(s) => ~WalletConflict(s)
  /\ wallet' = IF Writes(s) THEN WithPlan(s) ELSE wallet
  /\ Acknowledge(s) /\ Close(s)
  /\ UNCHANGED <<ledger, posted, project, ops, repeats, deleted>>

\* The same two events when their row is there: the plan was set before the test.
RepeatCredits(s, kind) == Ready(s, kind) /\ tx[s].credited /\ CommitPlan(s)

\* customer.subscription.deleted
Downgrade(s) == Ready(s, "cancel") /\ CommitPlan(s)

\* The commit of delete_account; the rows of deleted tasks are cascaded away.
Erase(s) ==
  LET t == tx[s] IN
  /\ t.kind = "erase" /\ t.read = {"wallet", "ledger"}
  /\ ledger' = {r \in ledger : r \notin t.rows /\ r.project \notin t.doomed}
  /\ project' = [p \in Projects |-> IF p \in t.doomed THEN "gone" ELSE project[p]]
  /\ wallet' = IF t.seen.exists THEN NoWallet ELSE wallet
  /\ deleted' = TRUE
  /\ Close(s)
  /\ UNCHANGED <<posted, stripe, ops, repeats, faults>>

\* delete_project: the foreign keys take the ledger rows of its tasks along.
DeleteProject(p) ==
  /\ project[p] = "live"
  /\ project' = [project EXCEPT ![p] = "gone"]
  /\ ledger' = {r \in ledger : r.project # p}
  /\ UNCHANGED <<wallet, posted, stripe, tx, ops, repeats, faults, deleted>>

\* An exception rolls back; to a webhook the answer is 500 and Stripe tries again.
Raises(s) ==
  \/ \E kind \in {"charge", "refund"} : Ready(s, kind) /\ tx[s].project \notin Live
  \/ /\ WalletConflict(s)
     /\ \/ Ready(s, "charge")
        \/ Ready(s, "refund") /\ tx[s].seen.exists
        \/ Ready(s, "signup") /\ ~tx[s].seen.granted
        \/ Ready(s, "cancel") /\ Writes(s)
        \/ \E kind \in {"topup", "refill"} :
             Ready(s, kind) /\ (tx[s].credited => Writes(s))
  \/ \E kind \in {"topup", "refill"} :
       Ready(s, kind) /\ ~tx[s].credited /\ RefTaken(tx[s].event.ref)

\* Mutant of RollBack: the exception is answered with 200.
RollBackAcks(s) ==
  /\ Raises(s)
  /\ Close(s)
  /\ stripe' = [stripe EXCEPT ![tx[s].event] = "acked"]
  /\ UNCHANGED <<wallet, ledger, posted, project, ops, repeats, faults, deleted>>

RollBack(s) ==
  /\ Raises(s)
  /\ Close(s)
  /\ UNCHANGED <<wallet, ledger, posted, project, stripe, ops, repeats, faults, deleted>>

\* The process or its connection dies, or the database picks a deadlock's victim.
Lost(s) ==
  /\ tx[s] # Idle
  /\ faults < MaxFaults
  /\ faults' = faults + 1
  /\ Close(s)
  /\ UNCHANGED <<wallet, ledger, posted, project, stripe, ops, repeats, deleted>>

-----------------------------------------------------------------------------
Start(s) ==
  \/ \E p \in Projects : StartTaskOp(s, "charge", p) \/ StartTaskOp(s, "refund", p)
  \/ \E p \in Projects : StartProject(s, p)
  \/ \E e \in Events : Deliver(s, e)
  \/ StartErase(s)

\* What a transaction that is under way does next.
Step(s) ==
  \/ ReadWallet(s) \/ ReadLedger(s) \/ EraseRows(s)
  \/ Charge(s) \/ ChargeRefused(s) \/ Refund(s) \/ CreateProject(s)
  \/ \E kind \in {"topup", "refill"} : AddCredits(s, kind) \/ RepeatCredits(s, kind)
  \/ Downgrade(s) \/ Erase(s) \/ RollBack(s)

Next ==
  \/ \E s \in Sessions : Start(s) \/ Step(s) \/ Lost(s)
  \/ \E e \in Events : Pay(e)
  \/ \E p \in Projects : DeleteProject(p)

Spec == Init /\ [][Next]_vars

\* A transaction comes to its end, and Stripe tries again until it is answered.
Fairness ==
  /\ \A s \in Sessions : WF_vars(Step(s))
  /\ \A e \in Events :
       SF_vars(stripe[e] = "pending" /\ \E s \in Sessions : Deliver(s, e))

FairSpec == Spec /\ Fairness

-----------------------------------------------------------------------------
(* Properties.                                                             *)

\* The ledger can be audited: until the account is deleted every row's
\* balance_after is the one before it plus its delta, and the balance of the wallet
\* is the last one, although nobody locks the wallet before it writes.  Rows of a
\* deleted project leave gaps, but no row is wrong.
LedgerChain ==
  ~deleted =>
    /\ \A q, r \in ledger : q.no = r.no + 1 => q.after = r.after + q.delta
    /\ \A r \in ledger : r.no = 1 => r.after = r.delta
    /\ \A r \in ledger : r.no = posted => r.after = wallet.balance
    /\ posted = 0 => wallet.balance = 0

\* With the spending cap no interleaving of charges takes the balance below zero.
NeverOverdrawn == wallet.balance >= 0 /\ \A r \in ledger : r.after >= 0

\* A payment is credited once, however often and in how many requests at once its
\* event is delivered.
CreditedOnce == \A q, r \in ledger : q.ref # None /\ q.ref = r.ref => q = r

\* An event is acknowledged to Stripe only when its credits are in the ledger.
AckedIsCredited ==
  \A e \in Events :
    stripe[e] = "acked" /\ e.kind # "cancel" /\ ~deleted => \E r \in ledger : r.ref = e.ref

\* Every event Stripe delivers is acknowledged at last: no order of deliveries
\* makes the handler raise for ever.
EventsSettle == \A e \in Events : stripe[e] = "pending" ~> stripe[e] = "acked"
=============================================================================
