------------------------------- MODULE MCGate -------------------------------
(* Gate with all browsers behind one address, so that they share the       *)
(* limiters, as they do where no proxy says who the client is.             *)
EXTENDS Gate

CONSTANT a

OneAddress == [b \in Browsers |-> a]

LimiterKeys == {"auth", "billing"} \X {a}

(* Two sign-ins per window, one checkout                                   *)
Limits == [k \in LimiterKeys |-> IF k[1] = "auth" THEN 2 ELSE 1]
=============================================================================
