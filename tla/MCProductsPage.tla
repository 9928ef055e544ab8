--------------------------- MODULE MCProductsPage ---------------------------
(* Two rows of the inventory page, for TLC; liveness rules out symmetry.   *)
EXTENDS ProductsPage
=============================================================================
