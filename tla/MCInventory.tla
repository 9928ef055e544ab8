---------------------------- MODULE MCInventory ----------------------------
(* Two items with an office and one without, of which Bsale lists one at   *)
(* first; the others may join it.  -1 is a quantity that cannot be stored. *)
EXTENDS Inventory

CONSTANTS a, b, c

ListedFirst == <<[item |-> a, q |-> 1]>>
AllQuantities == -1 .. 1
=============================================================================
