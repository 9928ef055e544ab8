----------------------------- MODULE RateLimiter -----------------------------
(***************************************************************************)
(* The in-memory limiters of src/src/utils/rate-limiter.ts, one per prefix *)
(* of src/src/api/middleware/rate-limit.ts.  A key is a limiter and a      *)
(* client together, so that one store stands for those of all limiters.    *)
(*                                                                         *)
(* A limiter stores the time stamps of the requests it admitted, drops     *)
(* those that left the window whenever it looks at them, and drops whole   *)
(* entries on a timer.  What it admits must not depend on when it dropped  *)
(* what: SlidingWindow decides from everything that was ever admitted.     *)
(* The clock is taken not to run backwards.                                *)
(***************************************************************************)
EXTENDS Integers, FiniteSets

CONSTANTS
    Keys,           \* pairs of a limiter and a client
    MaxRequests,    \* RateLimitConfig.maxRequests of the key's limiter
    Window,         \* RateLimitConfig.windowMs, in ticks
    MaxTime,        \* bound on the clock
    MaxAdmitted     \* bound on the requests admitted of a key

Stamps == [id : Nat, at : Nat]

ASSUME RateLimiterAssumption ==
    /\ MaxRequests \in [Keys -> Nat \ {0}]
    /\ Window \in Nat \ {0}
    /\ MaxTime \in Nat
    /\ MaxAdmitted \in Nat

VARIABLES
    now,        \* Date.now()
    store,      \* this.store: by key the entry's time stamps; {} without an entry
    admitted    \* observes: by key, all requests admitted since the start

limiterVars == <<now, store, admitted>>

RateLimiterTypeOK ==
    /\ now \in 0 .. MaxTime
    /\ store \in [Keys -> SUBSET Stamps]
    /\ admitted \in [Keys -> SUBSET Stamps]

RateLimiterInit ==
    /\ now = 0
    /\ store = [k \in Keys |-> {}]
    /\ admitted = [k \in Keys |-> {}]

-----------------------------------------------------------------------------
(* Variant: a request exactly one window ago counts.                       *)
RecentInclusive(S, t) == {r \in S : r.at + Window >= t}

(* entry.timestamps.filter((ts) => ts > windowStart)                       *)
Recent(S, t) == {r \in S : r.at + Window > t}

(* Variant: one more than the maximum.                                     *)
AllowsOneMore(k, n) == n <= MaxRequests[k]

Allows(k, n) == n < MaxRequests[k]

(* resetAt: when the oldest request of the window expires.  Times that are *)
(* equal give one element; S is never empty when check() has answered.     *)
ResetTimes(S) == {r.at + Window : r \in {o \in S : \A p \in S : o.at <= p.at}}

(* The time stamp of a request, with a number that tells it from others of *)
(* its tick                                                                *)
Stamp(k) == [id |-> Cardinality(admitted[k]), at |-> now]

(* Variant: a request is recorded before it is known to be allowed.        *)
PushedAlways(k, allowed) == {Stamp(k)}

(* What check() pushes                                                     *)
Pushed(k, allowed) == IF allowed THEN {Stamp(k)} ELSE {}

(* check(key); allowed is its result                                       *)
Check(k, allowed) ==
    LET kept == Recent(store[k], now)
        new  == IF allowed THEN {Stamp(k)} ELSE {}
    IN  /\ allowed = Allows(k, Cardinality(kept))
        /\ allowed => Cardinality(admitted[k]) < MaxAdmitted
        /\ store' = [store EXCEPT ![k] = kept \cup Pushed(k, allowed)]
        /\ admitted' = [admitted EXCEPT ![k] = @ \cup new]
        /\ UNCHANGED now

(* What cleanup() leaves of an entry, which it deletes when that is nothing *)
Swept(S) == Recent(S, now)

(* cleanup(), called by the interval of startCleanup(), of one limiter     *)
Cleanup(K) ==
    /\ store' = [k \in Keys |-> IF k \in K THEN Swept(store[k]) ELSE store[k]]
    /\ UNCHANGED <<now, admitted>>

(* The process ends and starts again; the store is in memory.              *)
LimiterRestart ==
    /\ store' = [k \in Keys |-> {}]
    /\ admitted' = [k \in Keys |-> {}]
    /\ UNCHANGED now

LimiterTick ==
    /\ now < MaxTime
    /\ now' = now + 1
    /\ UNCHANGED <<store, admitted>>

RateLimiterNext ==
    \/ \E k \in Keys, allowed \in BOOLEAN : Check(k, allowed)
    \/ \E K \in SUBSET Keys : Cleanup(K)
    \/ LimiterRestart
    \/ LimiterTick

RateLimiterSpec == RateLimiterInit /\ [][RateLimiterNext]_limiterVars

-----------------------------------------------------------------------------
(* The requests of S in the window that ends at t                          *)
InWindow(S, t) == {r \in S : r.at + Window > t /\ r.at <= t}

(* At any moment, the requests of a key that were admitted in the Window   *)
(* before it are at most MaxRequests, wherever the window begins and       *)
(* whatever the sweeps dropped.                                            *)
WindowBound ==
    \A k \in Keys : \A t \in 0 .. now :
        Cardinality(InWindow(admitted[k], t)) <= MaxRequests[k]

(* A client that is refused at this moment, and waits as long as           *)
(* Retry-After tells it, would not be refused then, and would still be     *)
(* refused a tick earlier: the advice is neither too short nor too long.   *)
RetryAfterHonest ==
    \A k \in Keys : \A reset \in ResetTimes(Recent(store[k], now)) :
        ~Allows(k, Cardinality(Recent(store[k], now))) =>
            /\ Cardinality(Recent(admitted[k], reset)) < MaxRequests[k]
            /\ Cardinality(Recent(admitted[k], reset - 1)) >= MaxRequests[k]

(* The keys that check() would refuse now                                  *)
Refused == {k \in Keys : ~Allows(k, Cardinality(Recent(store[k], now)))}

(* At every moment the limiter refuses whom the complete history says is   *)
(* to be refused, and no one else, although it remembers only part of it:  *)
(* no sweep lets a client in early, and no request that was refused keeps  *)
(* its client out.                                                         *)
Abstract == INSTANCE SlidingWindow WITH refused <- Refused
ImplementsSlidingWindow == Abstract!Spec
=============================================================================
