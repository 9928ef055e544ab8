---------------------------- MODULE SlidingWindow ----------------------------
(***************************************************************************)
(* What a rate limiter promises: at every moment it refuses exactly the    *)
(* clients of which it admitted MaxRequests in the Window up to now.  It   *)
(* decides from the complete history of what it admitted; RateLimiter      *)
(* decides from what it still stores.                                      *)
(***************************************************************************)
EXTENDS Integers, FiniteSets

CONSTANTS
    Keys,           \* clients, as the limiter tells them apart
    MaxRequests,    \* requests admitted per window, by key
    Window          \* length of the window, in ticks

VARIABLES
    now,        \* the clock
    admitted,   \* by key, the admitted requests [id, at]
    refused     \* the keys whose requests are refused

(* The requests of S in the window that ends at t                          *)
InWindow(S, t) == {r \in S : r.at + Window > t /\ r.at <= t}

(* The keys without room in the window that ends now                       *)
Full == {k \in Keys : Cardinality(InWindow(admitted[k], now)) >= MaxRequests[k]}

Init ==
    /\ now = 0
    /\ admitted = [k \in Keys |-> {}]
    /\ refused = Full

(* A request of k that is not refused                                      *)
Admit(k) ==
    /\ k \notin refused
    /\ admitted' = [admitted EXCEPT
                      ![k] = @ \cup {[id |-> Cardinality(@), at |-> now]}]
    /\ UNCHANGED now

(* A restart of the process forgets the history.                           *)
Forget ==
    /\ admitted' = [k \in Keys |-> {}]
    /\ UNCHANGED now

Pass ==
    /\ now' = now + 1
    /\ UNCHANGED admitted

Next ==
    /\ Forget \/ Pass \/ \E k \in Keys : Admit(k)
    /\ refused' = Full'

Spec == Init /\ [][Next]_<<now, admitted, refused>>
=============================================================================
