---------------------------- MODULE MCScheduler ----------------------------
(* Scheduler with three chains (the third is the one that must not exist   *)
(* even after an overlap of two) and a day of four ticks.                  *)
EXTENDS Scheduler
=============================================================================
