---------------------------- MODULE MCTenantSync ----------------------------
(* TenantSync for TLC: tenants and accounts are interchangeable. *)
EXTENDS TenantSync, TLC

Symmetry == Permutations(Tenants) \cup Permutations(Accounts)
=============================================================================
