--------------------------- MODULE MCConsumption ---------------------------
(* Three days, and a window of two: what is sold on the first leaves the   *)
(* window before the last sync.                                            *)
EXTENDS Consumption
=============================================================================
