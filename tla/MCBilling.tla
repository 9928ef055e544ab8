------------------------------ MODULE MCBilling ------------------------------
(* Billing for TLC: subscriptions are interchangeable. *)
EXTENDS Billing, TLC

Symmetry == Permutations(Subs)
=============================================================================
