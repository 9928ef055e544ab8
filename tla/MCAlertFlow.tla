----------------------------- MODULE MCAlertFlow -----------------------------
(* AlertFlow for TLC: who watches what. *)
EXTENDS AlertFlow

Rule(u, p, type, min, warn, n) ==
    [user |-> u, product |-> p, type |-> type, min |-> min, warn |-> warn, n |-> n]

\* One user, warned of stock and, as by default, of velocity.
Watched == {Rule("ana", "sku", "quantity", 2, TRUE, 1)}

\* A shop that watches one product.
Single == {Rule("ana", "sku", "quantity", 1, FALSE, 1)}
=============================================================================
