----------------------------- MODULE MCAccounts -----------------------------
(* Accounts for TLC: browsers, and Bsale accounts, are interchangeable.   *)
EXTENDS Accounts, TLC

Symmetry == Permutations(Browsers) \cup Permutations(Codes)
=============================================================================
