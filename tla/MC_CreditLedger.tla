-------------------------- MODULE MC_CreditLedger --------------------------
(***************************************************************************)
(* Small instances of CreditLedger for TLC: one top-up, one invoice and    *)
(* the end of the subscription.                                            *)
(***************************************************************************)
EXTENDS CreditLedger, TLC

CONSTANTS s1, s2, p1, p2, pro

TwoSessions == {s1, s2}
OneProject == {p1}
Topup == [kind |-> "topup", ref |-> "cs", credits |-> 2, plan |-> Free]
Invoice == [kind |-> "refill", ref |-> "in", credits |-> 3, plan |-> pro]
Cancel == [kind |-> "cancel", ref |-> None, credits |-> 0, plan |-> Free]
Payments == {Topup, Invoice}
Everything == {Topup, Invoice, Cancel}
Symmetry == Permutations(Sessions) \cup Permutations(Projects)
=============================================================================
