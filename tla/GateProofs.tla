----------------------------- MODULE GateProofs -----------------------------
(***************************************************************************)
(* Proofs about RateLimiter and Gate, for any limits, windows, lifetimes   *)
(* and numbers of browsers.                                                *)
(*                                                                         *)
(* The argument about the limiter.  What is still in the window is still   *)
(* stored, and nothing is stored that was not admitted (StoreInv), so the  *)
(* store and the history have the same window (SameWindow) and deciding    *)
(* from one is deciding from the other.  Every step of Gate is a step of   *)
(* the limiter or leaves it alone, so Gate inherits what it promises.      *)
(*                                                                         *)
(* The argument about the cookies.  Each refers to what lasts as long: a   *)
(* session's cookie comes with a CSRF token (JarInv), and a state's cookie *)
(* with a state, of which there is no other cookie (StateInv).             *)
(***************************************************************************)
EXTENDS Gate, FiniteSetTheorems, TLAPS

-----------------------------------------------------------------------------
(* The limiter                                                             *)

HistoryInv ==
    \A k \in Keys :
        /\ IsFiniteSet(admitted[k])
        /\ \A r \in admitted[k] : r.id < Cardinality(admitted[k]) /\ r.at <= now

StoreInv ==
    \A k \in Keys :
        /\ store[k] \subseteq admitted[k]
        /\ \A r \in admitted[k] : r.at + Window > now => r \in store[k]

LimiterTypes ==
    /\ now \in Nat
    /\ store \in [Keys -> SUBSET Stamps]
    /\ admitted \in [Keys -> SUBSET Stamps]

LimiterInv == LimiterTypes /\ HistoryInv /\ StoreInv /\ WindowBound

(* What the limiter looks at is the window of the whole history.           *)
LEMMA SameWindow ==
    ASSUME LimiterTypes, HistoryInv, StoreInv, NEW k \in Keys
    PROVE  /\ Recent(store[k], now) = InWindow(admitted[k], now)
           /\ Recent(store[k], now) = Recent(admitted[k], now)
           /\ IsFiniteSet(Recent(store[k], now))
           /\ Cardinality(Recent(store[k], now)) \in Nat
<1>1. Recent(store[k], now) = InWindow(admitted[k], now)
    BY DEF HistoryInv, StoreInv, Recent, InWindow
<1>2. Recent(store[k], now) = Recent(admitted[k], now)
    BY DEF StoreInv, Recent
<1>3. Recent(admitted[k], now) \in SUBSET admitted[k]
    BY DEF Recent
<1>4. IsFiniteSet(Recent(admitted[k], now))
    BY <1>3, FS_Subset DEF HistoryInv
<1> QED BY <1>1, <1>2, <1>4, FS_CardinalityType

(* The stamp of a request is new.                                          *)
LEMMA NewStamp ==
    ASSUME LimiterTypes, HistoryInv, NEW k \in Keys
    PROVE  /\ Stamp(k) \in Stamps
           /\ Stamp(k) \notin admitted[k]
           /\ Stamp(k).id = Cardinality(admitted[k])
           /\ Stamp(k).at = now
           /\ Cardinality(admitted[k]) \in Nat
           /\ IsFiniteSet(admitted[k] \cup {Stamp(k)})
           /\ Cardinality(admitted[k] \cup {Stamp(k)}) = Cardinality(admitted[k]) + 1
<1>1. Cardinality(admitted[k]) \in Nat
    BY FS_CardinalityType DEF HistoryInv
<1>2. Stamp(k) \in Stamps /\ Stamp(k).id = Cardinality(admitted[k]) /\ Stamp(k).at = now
    BY <1>1 DEF Stamp, Stamps, LimiterTypes
<1>3. Stamp(k) \notin admitted[k]
    BY <1>1, <1>2 DEF HistoryInv
<1> QED BY <1>1, <1>2, <1>3, FS_AddElement DEF HistoryInv

(* A window of the history with one request more.                          *)
LEMMA WindowGrows ==
    ASSUME LimiterTypes, HistoryInv, StoreInv, WindowBound, RateLimiterAssumption,
           NEW k \in Keys, Cardinality(Recent(store[k], now)) < MaxRequests[k],
           NEW t \in 0 .. now
    PROVE  Cardinality(InWindow(admitted[k] \cup {Stamp(k)}, t)) <= MaxRequests[k]
<1> DEFINE W == InWindow(admitted[k], t)
<1>1. Stamp(k).at = now /\ Stamp(k) \notin admitted[k]
    BY NewStamp
<1>2. CASE t = now
    <2>1. InWindow(admitted[k] \cup {Stamp(k)}, t) = W \cup {Stamp(k)}
        BY <1>1, <1>2 DEF InWindow, LimiterTypes, RateLimiterAssumption
    <2>2. W = Recent(store[k], now) /\ IsFiniteSet(W) /\ Cardinality(W) \in Nat
        BY <1>2, SameWindow
    <2>3. Stamp(k) \notin W
        BY <1>1 DEF InWindow
    <2>4. Cardinality(W \cup {Stamp(k)}) = Cardinality(W) + 1
        BY <2>2, <2>3, FS_AddElement
    <2>5. Cardinality(W) < MaxRequests[k] /\ MaxRequests[k] \in Nat
        BY <2>2 DEF RateLimiterAssumption
    <2> QED BY <2>1, <2>2, <2>4, <2>5
<1>3. CASE t # now
    <2>1. InWindow(admitted[k] \cup {Stamp(k)}, t) = W
        BY <1>1, <1>3 DEF InWindow, LimiterTypes
    <2> QED BY <2>1 DEF WindowBound
<1> QED BY <1>2, <1>3

(* The invariant holds initially.                                          *)
LEMMA LimiterInvInit ==
    ASSUME RateLimiterAssumption, RateLimiterInit
    PROVE  LimiterInv
<1>1. LimiterTypes /\ StoreInv
    BY DEF RateLimiterInit, LimiterTypes, StoreInv
<1>2. HistoryInv
    BY FS_EmptySet DEF RateLimiterInit, HistoryInv
<1>3. WindowBound
    <2> SUFFICES ASSUME NEW k \in Keys, NEW t \in 0 .. now
                 PROVE  Cardinality(InWindow(admitted[k], t)) <= MaxRequests[k]
        BY DEF WindowBound
    <2>1. InWindow(admitted[k], t) = {}
        BY DEF InWindow, RateLimiterInit
    <2> QED BY <2>1, FS_EmptySet DEF RateLimiterAssumption
<1> QED BY <1>1, <1>2, <1>3 DEF LimiterInv

(* Every check of a request keeps it.                                      *)
LEMMA CheckKeepsInv ==
    ASSUME RateLimiterAssumption, LimiterInv,
           NEW k \in Keys, NEW allowed \in BOOLEAN, Check(k, allowed)
    PROVE  LimiterInv'
<1> USE DEF LimiterInv
<1> DEFINE kept == Recent(store[k], now)
           new == IF allowed THEN {Stamp(k)} ELSE {}
<1>0. /\ allowed = Allows(k, Cardinality(kept))
      /\ store' = [store EXCEPT ![k] = kept \cup new]
      /\ admitted' = [admitted EXCEPT ![k] = admitted[k] \cup new]
      /\ now' = now
    BY DEF Check, Pushed
<1>1. new \in SUBSET Stamps /\ kept \in SUBSET Stamps
    BY NewStamp DEF Recent, LimiterTypes
<1> HIDE DEF new, kept
<1>2. LimiterTypes'
    BY <1>0, <1>1 DEF LimiterTypes
<1>3. \A j \in Keys : /\ admitted'[j] = IF j = k THEN admitted[k] \cup new ELSE admitted[j]
                      /\ store'[j] = IF j = k THEN kept \cup new ELSE store[j]
    BY <1>0 DEF LimiterTypes
<1>4. CASE ~allowed
    <2>1. new = {}
        BY <1>4 DEF new
    <2>2. admitted' = admitted
        BY <1>0, <1>3, <2>1 DEF LimiterTypes
    <2>3. HistoryInv' /\ WindowBound'
        BY <2>2, <1>0 DEF HistoryInv, WindowBound, InWindow
    <2>4. StoreInv'
        <3> SUFFICES ASSUME NEW j \in Keys
                     PROVE  /\ store'[j] \subseteq admitted[j]
                            /\ \A r \in admitted[j] : r.at + Window > now => r \in store'[j]
            BY <2>2, <1>0 DEF StoreInv
        <3>1. CASE j = k
            BY <3>1, <1>3, <2>1 DEF StoreInv, kept, Recent
        <3>2. CASE j # k
            BY <3>2, <1>3 DEF StoreInv
        <3> QED BY <3>1, <3>2
    <2> QED BY <1>2, <2>3, <2>4
<1>5. CASE allowed
    <2>1. new = {Stamp(k)}
        BY <1>5 DEF new
    <2>2. Cardinality(kept) < MaxRequests[k]
        BY <1>0, <1>5 DEF Allows
    <2>3. HistoryInv'
        <3> SUFFICES ASSUME NEW j \in Keys
                     PROVE  /\ IsFiniteSet(admitted'[j])
                            /\ \A r \in admitted'[j] :
                                  r.id < Cardinality(admitted'[j]) /\ r.at <= now
            BY <1>0 DEF HistoryInv
        <3>1. CASE j # k
            BY <3>1, <1>3 DEF HistoryInv
        <3>2. CASE j = k
            <4>1. admitted'[j] = admitted[k] \cup {Stamp(k)}
                BY <3>2, <1>3, <2>1
            <4>2. /\ IsFiniteSet(admitted'[j])
                  /\ Cardinality(admitted'[j]) = Cardinality(admitted[k]) + 1
                  /\ Cardinality(admitted[k]) \in Nat
                BY <4>1, NewStamp
            <4>3. ASSUME NEW r \in admitted'[j]
                  PROVE  r.id < Cardinality(admitted'[j]) /\ r.at <= now
                <5>1. CASE r = Stamp(k)
                    <6>1. Stamp(k).id = Cardinality(admitted[k]) /\ Stamp(k).at = now
                        BY NewStamp
                    <6> QED BY <5>1, <6>1, <4>2 DEF LimiterTypes
                <5>2. CASE r \in admitted[k]
                    <6>1. r.id < Cardinality(admitted[k]) /\ r.at <= now /\ r.id \in Nat
                        BY <5>2 DEF HistoryInv, LimiterTypes, Stamps
                    <6> QED BY <6>1, <4>2
                <5> QED BY <5>1, <5>2, <4>1
            <4> QED BY <4>2, <4>3
        <3> QED BY <3>1, <3>2
    <2>4. StoreInv'
        <3> SUFFICES ASSUME NEW j \in Keys
                     PROVE  /\ store'[j] \subseteq admitted'[j]
                            /\ \A r \in admitted'[j] : r.at + Window > now => r \in store'[j]
            BY <1>0 DEF StoreInv
        <3>1. CASE j = k
            BY <3>1, <1>3 DEF StoreInv, kept, Recent
        <3>2. CASE j # k
            BY <3>2, <1>3 DEF StoreInv
        <3> QED BY <3>1, <3>2
    <2>5. WindowBound'
        <3> SUFFICES ASSUME NEW j \in Keys, NEW t \in 0 .. now
                     PROVE  Cardinality(InWindow(admitted'[j], t)) <= MaxRequests[j]
            BY <1>0 DEF WindowBound, InWindow
        <3>1. CASE j = k
            <4>1. admitted'[j] = admitted[k] \cup {Stamp(k)}
                BY <3>1, <1>3, <2>1
            <4>2. Cardinality(InWindow(admitted[k] \cup {Stamp(k)}, t)) <= MaxRequests[k]
                BY <2>2, WindowGrows DEF kept
            <4> QED BY <3>1, <4>1, <4>2
        <3>2. CASE j # k
            BY <3>2, <1>3 DEF WindowBound
        <3> QED BY <3>1, <3>2
    <2> QED BY <1>2, <2>3, <2>4, <2>5
<1> QED BY <1>4, <1>5

(* Sweeps, restarts and the clock keep it.                                 *)
LEMMA OthersKeepInv ==
    ASSUME RateLimiterAssumption, LimiterInv,
           \/ \E K \in SUBSET Keys : Cleanup(K)
           \/ LimiterRestart
           \/ LimiterTick
           \/ UNCHANGED limiterVars
    PROVE  LimiterInv'
<1> USE DEF LimiterInv
<1>1. ASSUME NEW K \in SUBSET Keys, Cleanup(K)
      PROVE  LimiterInv'
    <2>1. /\ now' = now /\ admitted' = admitted
          /\ store' = [k \in Keys |-> IF k \in K THEN Recent(store[k], now) ELSE store[k]]
        BY <1>1 DEF Cleanup, Swept
    <2>2. LimiterTypes'
        BY <2>1 DEF LimiterTypes, Recent
    <2>3. StoreInv'
        BY <2>1 DEF StoreInv, Recent
    <2>4. HistoryInv' /\ WindowBound'
        BY <2>1 DEF HistoryInv, WindowBound, InWindow
    <2> QED BY <2>2, <2>3, <2>4
<1>2. CASE LimiterRestart
    <2>1. LimiterTypes' /\ StoreInv'
        BY <1>2 DEF LimiterRestart, LimiterTypes, StoreInv
    <2>2. HistoryInv'
        BY <1>2, FS_EmptySet DEF LimiterRestart, HistoryInv
    <2>3. ASSUME NEW k \in Keys, NEW t \in 0 .. now
          PROVE  Cardinality(InWindow({}, t)) <= MaxRequests[k]
        <3>1. InWindow({}, t) = {}
            BY DEF InWindow
        <3> QED BY <3>1, FS_EmptySet DEF RateLimiterAssumption
    <2>4. WindowBound'
        BY <1>2, <2>3 DEF WindowBound, LimiterRestart, InWindow
    <2> QED BY <2>1, <2>2, <2>4
<1>3. CASE LimiterTick
    <2>1. now' = now + 1 /\ admitted' = admitted /\ store' = store
        BY <1>3 DEF LimiterTick
    <2>2. LimiterTypes' /\ HistoryInv' /\ StoreInv'
        BY <2>1 DEF LimiterTypes, HistoryInv, StoreInv, Stamps, RateLimiterAssumption
    <2>3. ASSUME NEW k \in Keys, NEW t \in 0 .. (now + 1)
          PROVE  Cardinality(InWindow(admitted[k], t)) <= MaxRequests[k]
        <3>1. CASE t \in 0 .. now
            BY <3>1 DEF WindowBound
        <3>2. CASE t = now + 1
            <4>1. InWindow(admitted[k], t) \in SUBSET InWindow(admitted[k], now)
                BY <3>2 DEF InWindow, HistoryInv, LimiterTypes, Stamps, RateLimiterAssumption
            <4>2. IsFiniteSet(InWindow(admitted[k], now))
                BY SameWindow
            <4>3. Cardinality(InWindow(admitted[k], t)) <= Cardinality(InWindow(admitted[k], now))
                BY <4>1, <4>2, FS_Subset
            <4>4. /\ Cardinality(InWindow(admitted[k], now)) <= MaxRequests[k]
                  /\ MaxRequests[k] \in Nat
                BY DEF WindowBound, LimiterTypes, RateLimiterAssumption
            <4>5. /\ Cardinality(InWindow(admitted[k], now)) \in Nat
                  /\ Cardinality(InWindow(admitted[k], t)) \in Nat
                BY <4>1, <4>2, FS_Subset, FS_CardinalityType
            <4> QED BY <4>3, <4>4, <4>5
        <3> QED BY <3>1, <3>2 DEF LimiterTypes
    <2>4. WindowBound'
        BY <2>1, <2>3 DEF WindowBound, InWindow
    <2> QED BY <2>2, <2>4
<1>4. CASE UNCHANGED limiterVars
    BY <1>4 DEF limiterVars, LimiterTypes, HistoryInv, StoreInv, WindowBound, InWindow
<1> QED BY <1>1, <1>2, <1>3, <1>4

(* The invariant is one.                                                   *)
LEMMA LimiterInvariant == RateLimiterSpec => []LimiterInv
<1>1. RateLimiterInit => LimiterInv
    BY LimiterInvInit, RateLimiterAssumption
<1>2. LimiterInv /\ [RateLimiterNext]_limiterVars => LimiterInv'
    BY CheckKeepsInv, OthersKeepInv, RateLimiterAssumption DEF RateLimiterNext
<1> QED BY <1>1, <1>2, PTL DEF RateLimiterSpec

(* No key ever has more requests admitted in a window than its limit,      *)
(* whatever the limit, the window, the sweeps and the interleaving.        *)
THEOREM WindowsAreBounded == RateLimiterSpec => []WindowBound
<1>1. LimiterInv => WindowBound
    BY DEF LimiterInv
<1> QED BY <1>1, LimiterInvariant, PTL

(* What a refused client is told about the time to come back is exact.     *)
LEMMA RetryFromInv ==
    ASSUME RateLimiterAssumption, LimiterInv
    PROVE  RetryAfterHonest
<1> USE DEF LimiterInv
<1> SUFFICES ASSUME NEW k \in Keys, NEW reset \in ResetTimes(Recent(store[k], now)),
                    ~Allows(k, Cardinality(Recent(store[k], now)))
             PROVE  /\ Cardinality(Recent(admitted[k], reset)) < MaxRequests[k]
                    /\ Cardinality(Recent(admitted[k], reset - 1)) >= MaxRequests[k]
    BY DEF RetryAfterHonest
<1> DEFINE kept == Recent(store[k], now)
<1>1. PICK o \in kept : reset = o.at + Window /\ \A p \in kept : o.at <= p.at
    BY DEF ResetTimes
<1>2. /\ IsFiniteSet(kept) /\ Cardinality(kept) \in Nat
      /\ kept = Recent(admitted[k], now)
      /\ kept = InWindow(admitted[k], now)
    BY SameWindow
<1>3. /\ Cardinality(kept) >= MaxRequests[k] /\ Cardinality(kept) <= MaxRequests[k]
      /\ MaxRequests[k] \in Nat
    <2>1. MaxRequests[k] \in Nat
        BY DEF RateLimiterAssumption
    <2>2. Cardinality(kept) <= MaxRequests[k]
        BY <1>2 DEF WindowBound, LimiterTypes
    <2>3. ~(Cardinality(kept) < MaxRequests[k])
        BY DEF Allows
    <2> QED BY <2>1, <2>2, <2>3, <1>2
<1>4. kept \subseteq Stamps /\ admitted[k] \subseteq Stamps /\ o \in Stamps
    BY <1>1, <1>2 DEF LimiterTypes, InWindow
<1>5. reset > now /\ reset \in Nat /\ now \in Nat
    <2>1. o.at + Window > now
        BY <1>1 DEF Recent
    <2> QED BY <2>1, <1>1, <1>4 DEF Stamps, LimiterTypes, RateLimiterAssumption
<1>6. Cardinality(Recent(admitted[k], reset)) < MaxRequests[k]
    <2>1. Recent(admitted[k], reset) \in SUBSET (kept \ {o})
        <3> SUFFICES ASSUME NEW r \in admitted[k], r.at + Window > reset
                     PROVE  r \in kept \ {o}
            BY DEF Recent
        <3>1. r.at + Window > now
            BY <1>4, <1>5 DEF Stamps, RateLimiterAssumption
        <3>2. r \in kept
            BY <3>1, <1>2 DEF Recent
        <3>3. r # o
            BY <1>1, <1>4, <1>5
        <3> QED BY <3>2, <3>3
    <2>2. IsFiniteSet(kept \ {o}) /\ Cardinality(kept \ {o}) = Cardinality(kept) - 1
        BY <1>1, <1>2, FS_RemoveElement
    <2>3. /\ IsFiniteSet(Recent(admitted[k], reset))
          /\ Cardinality(Recent(admitted[k], reset)) <= Cardinality(kept \ {o})
        BY <2>1, <2>2, FS_Subset
    <2>4. Cardinality(Recent(admitted[k], reset)) \in Nat
        BY <2>3, FS_CardinalityType
    <2> QED BY <2>2, <2>3, <2>4, <1>2, <1>3
<1>7. Cardinality(Recent(admitted[k], reset - 1)) >= MaxRequests[k]
    <2>1. kept \in SUBSET Recent(admitted[k], reset - 1)
        <3> SUFFICES ASSUME NEW r \in kept
                     PROVE  r \in admitted[k] /\ r.at + Window > reset - 1
            BY DEF Recent
        <3>1. r \in admitted[k] /\ r \in Stamps /\ o.at <= r.at
            BY <1>1, <1>2, <1>4 DEF InWindow
        <3> QED BY <3>1, <1>1, <1>4 DEF Stamps, RateLimiterAssumption
    <2>2. IsFiniteSet(Recent(admitted[k], reset - 1))
        <3>1. Recent(admitted[k], reset - 1) \in SUBSET admitted[k]
            BY DEF Recent
        <3> QED BY <3>1, FS_Subset DEF HistoryInv
    <2>3. Cardinality(kept) <= Cardinality(Recent(admitted[k], reset - 1))
        BY <2>1, <2>2, FS_Subset
    <2>4. Cardinality(Recent(admitted[k], reset - 1)) \in Nat
        BY <2>2, FS_CardinalityType
    <2> QED BY <2>3, <2>4, <1>2, <1>3
<1> QED BY <1>6, <1>7

(* The same, always.                                                       *)
THEOREM RetryAfterIsHonest == RateLimiterSpec => []RetryAfterHonest
<1>1. LimiterInv => RetryAfterHonest
    BY RetryFromInv, RateLimiterAssumption
<1> QED BY <1>1, LimiterInvariant, PTL

(* Who is refused by what is stored is refused by the whole history.       *)
LEMMA RefusedIsFull ==
    ASSUME RateLimiterAssumption, LimiterInv
    PROVE  Refused = Abstract!Full
<1> SUFFICES ASSUME NEW k \in Keys
             PROVE  ~Allows(k, Cardinality(Recent(store[k], now))) <=>
                        Abstract!Cardinality(Abstract!InWindow(admitted[k], now)) >= MaxRequests[k]
    BY DEF Refused, Abstract!Full
<1>1. /\ Recent(store[k], now) = InWindow(admitted[k], now)
      /\ Cardinality(Recent(store[k], now)) \in Nat
    BY SameWindow DEF LimiterInv
<1>2. Abstract!InWindow(admitted[k], now) = InWindow(admitted[k], now)
    BY DEF InWindow, Abstract!InWindow
<1>3. \A S : Abstract!Cardinality(S) = Cardinality(S)
    BY DEF Abstract!Cardinality, Cardinality, Abstract!IsFiniteSet, IsFiniteSet
<1>4. MaxRequests[k] \in Nat
    BY DEF RateLimiterAssumption
<1> DEFINE n == Cardinality(InWindow(admitted[k], now))
<1>5. n \in Nat
    BY <1>1
<1> HIDE DEF n
<1>6. ~(n < MaxRequests[k]) <=> n >= MaxRequests[k]
    BY <1>4, <1>5
<1> QED BY <1>1, <1>2, <1>3, <1>6 DEF Allows, n

(* The limiter, which forgets, refuses as one that remembers everything.   *)
THEOREM LimiterImplementsWindow == RateLimiterSpec => ImplementsSlidingWindow
<1>1. RateLimiterInit => Abstract!Init
    <2> SUFFICES ASSUME RateLimiterInit PROVE Abstract!Init
        OBVIOUS
    <2>1. Refused = Abstract!Full
        BY LimiterInvInit, RefusedIsFull, RateLimiterAssumption
    <2> QED BY <2>1 DEF RateLimiterInit, Abstract!Init
<1>2. LimiterInv => Refused = Abstract!Full
    BY RefusedIsFull, RateLimiterAssumption
<1>3. ASSUME LimiterInv, [RateLimiterNext]_limiterVars,
             Refused = Abstract!Full, (Refused = Abstract!Full)'
      PROVE  [Abstract!Next]_<<now, admitted, Refused>>
    <2>1. Refused = Abstract!Full /\ Refused' = Abstract!Full'
        BY <1>3
    <2>2. UNCHANGED <<now, admitted>> => UNCHANGED <<now, admitted, Refused>>
        <3>1. UNCHANGED <<now, admitted>> => Abstract!Full' = Abstract!Full
            BY DEF Abstract!Full, Abstract!InWindow
        <3> QED BY <2>1, <3>1
    <2>3. ASSUME NEW k \in Keys, Check(k, TRUE)
          PROVE  Abstract!Admit(k)
        <3>1. k \notin Refused
            BY <2>3 DEF Check, Refused
        <3>2. /\ now' = now
              /\ admitted' = [admitted EXCEPT ![k] = admitted[k] \cup {Stamp(k)}]
            BY <2>3 DEF Check
        <3>3. admitted' = [admitted EXCEPT ![k] =
                              @ \cup {[id |-> Cardinality(@), at |-> now]}]
            BY <3>2 DEF Stamp
        <3>4. \A S : Abstract!Cardinality(S) = Cardinality(S)
            BY DEF Abstract!Cardinality, Cardinality, Abstract!IsFiniteSet, IsFiniteSet
        <3> QED BY <3>1, <3>2, <3>3, <3>4 DEF Abstract!Admit
    <2>4. ASSUME NEW k \in Keys, Check(k, FALSE)
          PROVE  UNCHANGED <<now, admitted>>
        <3>1. now' = now /\ admitted' = [admitted EXCEPT ![k] = admitted[k] \cup {}]
            BY <2>4 DEF Check
        <3>2. admitted \in [Keys -> SUBSET Stamps]
            BY <1>3 DEF LimiterInv, LimiterTypes
        <3>3. admitted' = admitted
            BY <3>1, <3>2
        <3> QED BY <3>1, <3>3
    <2>5. ASSUME NEW K \in SUBSET Keys, Cleanup(K)
          PROVE  UNCHANGED <<now, admitted>>
        BY <2>5 DEF Cleanup
    <2>6. LimiterRestart => Abstract!Forget
        BY DEF LimiterRestart, Abstract!Forget
    <2>7. LimiterTick => Abstract!Pass
        BY DEF LimiterTick, Abstract!Pass
    <2>8. UNCHANGED limiterVars => UNCHANGED <<now, admitted>>
        BY DEF limiterVars
    <2>9. (Abstract!Forget \/ Abstract!Pass \/ \E k \in Keys : Abstract!Admit(k)) => Abstract!Next
        BY <2>1 DEF Abstract!Next
    <2> HIDE DEF Refused
    <2> QED BY <1>3, <2>2, <2>3, <2>4, <2>5, <2>6, <2>7, <2>8, <2>9 DEF RateLimiterNext
<1> QED BY <1>1, <1>2, <1>3, LimiterInvariant, PTL
        DEF RateLimiterSpec, ImplementsSlidingWindow, Abstract!Spec

-----------------------------------------------------------------------------
(* The gate                                                                *)

(* Cookies and what they refer to: a session's cookie comes with a CSRF    *)
(* cookie, and with a token, that last as long.                            *)
JarInv ==
    \A b \in Browsers : session[b] # None =>
        /\ session[b].session <= Len(rows)
        /\ csrf[b] # None
        /\ session[b].until <= csrf[b].until
        /\ session[b].until <= csrf[b].made + Lifetime

(* The cookie of a state that is still sent has a state, or had one before *)
(* the process was restarted, that it does not outlive.                    *)
StateInv ==
    /\ \A b \in Browsers : state[b] # None =>
          /\ state[b].flow <= Len(flows)
          /\ state[b].until <= flows[state[b].flow] + StateTtl
          /\ now < state[b].until => state[b].flow \in states \cup forgotten
    /\ \A b, d \in Browsers :
          state[b] # None /\ state[d] # None /\ state[b].flow = state[d].flow => b = d

GateTypes ==
    /\ rows \in Seq(Nat)
    /\ Len(rows) <= MaxSessions
    /\ session \in [Browsers -> SessionCookie \cup {None}]
    /\ csrf \in [Browsers -> CsrfCookie \cup {None}]
    /\ state \in [Browsers -> StateCookie \cup {None}]
    /\ flows \in Seq(Nat)
    /\ Len(flows) <= MaxFlows
    /\ states \in SUBSET (1 .. Len(flows))
    /\ forgotten \in SUBSET (1 .. Len(flows))

GateInv == now \in 0 .. MaxTime /\ GateTypes /\ JarInv /\ StateInv

(* A request that reaches its handler is a step of the limiter, or none.   *)
LEMMA ReachesIsLimited ==
    ASSUME NEW b \in Browsers, NEW e, Reaches(b, e)
    PROVE  [RateLimiterNext]_limiterVars
BY KeysAssumption DEF Reaches, KeyOf, RateLimiterNext

(* Every step of the gate is one of the limiter, or none.                  *)
LEMMA StepIsLimited ==
    ASSUME [Next]_vars
    PROVE  [RateLimiterNext]_limiterVars
<1>1. ASSUME NEW b \in Browsers, NEW e, Reaches(b, e)
      PROVE  [RateLimiterNext]_limiterVars
    BY <1>1, ReachesIsLimited
<1>2. ASSUME NEW b \in Browsers, Throttled(b)
      PROVE  [RateLimiterNext]_limiterVars
    BY <1>2, KeysAssumption DEF Throttled, KeyOf, RateLimiterNext
<1>3. ASSUME NEW b \in Browsers, Forbidden(b)
      PROVE  [RateLimiterNext]_limiterVars
    BY <1>3 DEF Forbidden, vars
<1>4. Sweep => [RateLimiterNext]_limiterVars
    BY DEF Sweep, RateLimiterNext
<1>5. Restart \/ Tick => [RateLimiterNext]_limiterVars
    BY DEF Restart, Tick, RateLimiterNext
<1>6. UNCHANGED vars => UNCHANGED limiterVars
    BY DEF vars
<1>7. ASSUME NEW b \in Browsers, Verify(b) \/ Callback(b)
      PROVE  [RateLimiterNext]_limiterVars
    BY <1>7, <1>1 DEF Verify, Callback
<1>8. ASSUME NEW b \in Browsers,
             \/ Login(b) \/ Logout(b) \/ Connect(b) \/ OnlyAnswers(b)
             \/ \E e \in Table \cup ByFetch : Use(b, e)
             \/ \E coded \in BOOLEAN : Connected(b, coded)
      PROVE  [RateLimiterNext]_limiterVars
    BY <1>8, <1>1 DEF Login, Logout, Connect, OnlyAnswers, Use, Connected
<1> QED BY <1>2, <1>3, <1>4, <1>5, <1>6, <1>7, <1>8 DEF Next

(* The gate implements the limiter, whatever else happens in it.           *)
THEOREM GateImplementsLimiter == Spec => RateLimiterSpec
<1>1. Init => RateLimiterInit
    BY DEF Init
<1> QED BY <1>1, StepIsLimited, PTL DEF Spec, RateLimiterSpec

(* So the limits hold behind the gate too,                                 *)
THEOREM GateIsBounded == Spec => []WindowBound
BY GateImplementsLimiter, WindowsAreBounded, PTL

(* and so does the advice of Retry-After,                                  *)
THEOREM GateRetryIsHonest == Spec => []RetryAfterHonest
BY GateImplementsLimiter, RetryAfterIsHonest, PTL

(* and the abstract sliding window.                                        *)
THEOREM GateImplementsWindow == Spec => ImplementsSlidingWindow
BY GateImplementsLimiter, LimiterImplementsWindow, PTL

-----------------------------------------------------------------------------
(* The time does not change on the way to a handler.                       *)
LEMMA ReachesNow ==
    ASSUME NEW b, NEW e, Reaches(b, e)
    PROVE  now' = now
BY DEF Reaches, Check, limiterVars

(* An element of a sequence is one of its range.                           *)
LEMMA ElementOfRange ==
    ASSUME NEW S, NEW q \in Seq(S), NEW i \in 1 .. Len(q)
    PROVE  q[i] \in S
OBVIOUS

(* A session check prolongs a row at most.                                 *)
LEMMA AuthenticateKeeps ==
    ASSUME GateInv, NEW b \in Browsers, Authenticate(b)
    PROVE  /\ rows' \in Seq(Nat)
           /\ Len(rows') = Len(rows)
           /\ session' = session /\ csrf' = csrf
<1> DEFINE s == session[b].session
<1>1. session[b] # None /\ s \in 1 .. Len(rows)
    BY DEF Authenticate, SignedIn, Sends, GateInv, GateTypes, JarInv, SessionCookie
<1>2. rows \in Seq(Nat)
    BY DEF GateInv, GateTypes
<1>3. session' = session /\ csrf' = csrf
    BY DEF Authenticate, AnswerJar
<1>4. now + Lifetime \in Nat
    BY GateAssumption, RateLimiterAssumption DEF GateInv
<1>5. CASE rows' = rows
    BY <1>2, <1>3, <1>5
<1>6. CASE rows' = [rows EXCEPT ![s] = now + Lifetime]
    <2> HIDE DEF s
    <2> QED BY <1>1, <1>2, <1>3, <1>4, <1>6
<1> QED BY <1>5, <1>6 DEF Authenticate

(* Sessions come and go without a change to the cookies of states.         *)
LEMMA StateStays ==
    ASSUME GateInv, now' = now, state' = state, flows' = flows,
           states' \in {states, Unexpired}, forgotten' = forgotten
    PROVE  StateInv'
<1> SUFFICES ASSUME NEW b \in Browsers, state[b] # None, now < state[b].until
             PROVE  state[b].flow \in states' \cup forgotten
    BY DEF GateInv, StateInv
<1> DEFINE f == state[b].flow
<1>1. /\ f \in states \cup forgotten /\ state[b].until <= flows[f] + StateTtl
      /\ state[b] \in StateCookie /\ f <= Len(flows)
    BY DEF GateInv, GateTypes, StateInv
<1>2. f \in 1 .. Len(flows) /\ flows \in Seq(Nat)
    BY <1>1 DEF GateInv, GateTypes, StateCookie
<1>3. flows[f] \in Nat
    BY <1>2, ElementOfRange
<1>4. state[b].until \in Nat /\ now \in Nat /\ StateTtl \in Nat
    BY <1>1, GateAssumption, RateLimiterAssumption DEF GateInv, StateCookie
<1>5. now - flows[f] <= StateTtl
    BY <1>1, <1>3, <1>4
<1> QED BY <1>1, <1>5 DEF Unexpired

(* Opening a session sets two cookies that last as long.                   *)
LEMMA OpenKeeps ==
    ASSUME GateInv, NEW b \in Browsers, Open(b), now' = now,
           UNCHANGED <<state, flows, forgotten>>, states' \in {states, Unexpired}
    PROVE  GateInv'
<1> DEFINE r == now + Lifetime
           c == [session |-> Len(rows) + 1, until |-> now + Lifetime]
           t == [made |-> now, until |-> now + Lifetime]
<1>1. /\ rows' = Append(rows, r) /\ Len(rows) < MaxSessions
      /\ session' = [session EXCEPT ![b] = c]
      /\ csrf' = [csrf EXCEPT ![b] = t]
    BY DEF Open, FreshToken
<1>2. /\ r \in Nat /\ now \in Nat /\ Lifetime \in Nat
      /\ Len(rows) \in Nat /\ MaxSessions \in Nat
    BY GateAssumption, RateLimiterAssumption DEF GateInv, GateTypes
<1>3. /\ c \in SessionCookie /\ t \in CsrfCookie
      /\ c.session = Len(rows) + 1 /\ c.until = now + Lifetime
      /\ t.made = now /\ t.until = now + Lifetime
    BY <1>1, <1>2 DEF SessionCookie, CsrfCookie
<1>4. t # None
    BY <1>2, GateAssumption
<1> HIDE DEF r, c, t
<1>5. rows' \in Seq(Nat) /\ Len(rows') = Len(rows) + 1
    BY <1>1, <1>2 DEF GateInv, GateTypes
<1>6. GateTypes'
    BY <1>1, <1>2, <1>3, <1>5 DEF GateInv, GateTypes, Unexpired
<1>7. JarInv'
    <2> SUFFICES ASSUME NEW d \in Browsers, session'[d] # None
                 PROVE  /\ session'[d].session <= Len(rows')
                        /\ csrf'[d] # None
                        /\ session'[d].until <= csrf'[d].until
                        /\ session'[d].until <= csrf'[d].made + Lifetime
        BY DEF JarInv
    <2>1. CASE d = b
        <3>1. session'[d] = c /\ csrf'[d] = t
            BY <2>1, <1>1 DEF GateInv, GateTypes
        <3> QED BY <3>1, <1>2, <1>3, <1>4, <1>5
    <2>2. CASE d # b
        <3>1. session'[d] = session[d] /\ csrf'[d] = csrf[d]
            BY <2>2, <1>1 DEF GateInv, GateTypes
        <3>2. session[d].session \in Nat
            BY <3>1 DEF GateInv, GateTypes, SessionCookie
        <3> QED BY <3>1, <3>2, <1>2, <1>5 DEF GateInv, JarInv
    <2> QED BY <2>1, <2>2
<1>8. StateInv'
    BY StateStays
<1> QED BY <1>6, <1>7, <1>8 DEF GateInv

(* A new token, or none, in place of a session.                            *)
LEMMA EmptyKeeps ==
    ASSUME GateInv, NEW b \in Browsers, now' = now,
           session' = [session EXCEPT ![b] = None],
           csrf' = csrf \/ csrf' = [csrf EXCEPT ![b] = [made |-> now, until |-> now + Lifetime]],
           UNCHANGED <<rows, state, flows, forgotten>>, states' \in {states, Unexpired}
    PROVE  GateInv'
<1>1. [made |-> now, until |-> now + Lifetime] \in CsrfCookie
    BY GateAssumption, RateLimiterAssumption DEF GateInv, CsrfCookie
<1>2. GateTypes'
    BY <1>1 DEF GateInv, GateTypes, Unexpired
<1>3. \A d \in Browsers : session'[d] # None =>
         session'[d] = session[d] /\ csrf'[d] = csrf[d]
    BY DEF GateInv, GateTypes
<1>4. JarInv'
    BY <1>3 DEF GateInv, JarInv
<1>5. StateInv'
    BY StateStays
<1> QED BY <1>2, <1>4, <1>5 DEF GateInv

(* Rows that are only prolonged.                                           *)
LEMMA JarStays ==
    ASSUME GateInv, Len(rows') = Len(rows), session' = session, csrf' = csrf
    PROVE  JarInv'
BY DEF GateInv, JarInv

(* A connection that begins has a state of its own, which its cookie does  *)
(* not outlive.                                                            *)
LEMMA ConnectKeeps ==
    ASSUME GateInv, NEW b \in Browsers, Connect(b)
    PROVE  GateInv'
<1> DEFINE n == Len(flows) + 1
           c == [flow |-> n, until |-> now + StateTtl]
<1>1. /\ flows' = Append(flows, now) /\ Len(flows) < MaxFlows
      /\ states' = Unexpired \cup {n}
      /\ state' = [state EXCEPT ![b] = c]
      /\ forgotten' = forgotten /\ now' = now
    BY ReachesNow DEF Connect, Begin
<1>2. rows' \in Seq(Nat) /\ Len(rows') = Len(rows) /\ session' = session /\ csrf' = csrf
    BY AuthenticateKeeps DEF Connect
<1>3. Len(flows) \in Nat /\ MaxFlows \in Nat /\ now \in Nat /\ StateTtl \in Nat
    BY GateAssumption, RateLimiterAssumption DEF GateInv, GateTypes
<1>4. c \in StateCookie /\ c.flow = n /\ c.until = now + StateTtl
    BY <1>1, <1>3 DEF StateCookie
<1>5. /\ flows' \in Seq(Nat) /\ Len(flows') = n /\ flows'[n] = now
      /\ \A i \in 1 .. Len(flows) : flows'[i] = flows[i]
    BY <1>1, <1>3 DEF GateInv, GateTypes
<1> HIDE DEF c
<1>6. GateTypes'
    <2>1. state' \in [Browsers -> StateCookie \cup {None}]
        BY <1>1, <1>4 DEF GateInv, GateTypes
    <2>2. states' \in SUBSET (1 .. Len(flows')) /\ forgotten' \in SUBSET (1 .. Len(flows'))
        <3>1. states \in SUBSET (1 .. Len(flows)) /\ forgotten \in SUBSET (1 .. Len(flows))
            BY DEF GateInv, GateTypes
        <3>2. Unexpired \in SUBSET states
            BY DEF Unexpired
        <3>3. Len(flows') = n /\ n \in 1 .. n /\ 1 .. Len(flows) \subseteq 1 .. n
            BY <1>3, <1>5
        <3>4. states' = Unexpired \cup {n} /\ forgotten' = forgotten
            BY <1>1
        <3> HIDE DEF n
        <3> QED BY <3>1, <3>2, <3>3, <3>4
    <2>3. Len(flows') <= MaxFlows
        BY <1>1, <1>3, <1>5
    <2> QED BY <1>2, <1>5, <2>1, <2>2, <2>3 DEF GateInv, GateTypes
<1>7. JarInv'
    BY <1>2, JarStays
<1>8. StateInv'
    <2>1. ASSUME NEW d \in Browsers, d # b, state'[d] # None
          PROVE  /\ state'[d] = state[d] /\ state[d].flow \in 1 .. Len(flows)
                 /\ state[d].until <= flows'[state[d].flow] + StateTtl
                 /\ now < state[d].until => state[d].flow \in states' \cup forgotten
        <3> DEFINE f == state[d].flow
        <3>1. state'[d] = state[d] /\ state[d] \in StateCookie
            BY <1>1, <2>1 DEF GateInv, GateTypes
        <3>2. f \in 1 .. Len(flows) /\ state[d].until <= flows[f] + StateTtl
            BY <2>1, <3>1, <1>3 DEF GateInv, StateInv, StateCookie
        <3>3. flows[f] \in Nat /\ state[d].until \in Nat
            BY <3>1, <3>2, ElementOfRange DEF GateInv, GateTypes, StateCookie
        <3>4. now < state[d].until => f \in Unexpired \cup forgotten
            <4>1. now < state[d].until => f \in states \cup forgotten
                BY <2>1, <3>1 DEF GateInv, StateInv
            <4>2. now < state[d].until => now - flows[f] <= StateTtl
                BY <3>2, <3>3, <1>3
            <4> QED BY <4>1, <4>2 DEF Unexpired
        <3> QED BY <1>1, <1>5, <3>1, <3>2, <3>4
    <2>2. state'[b] = c
        BY <1>1 DEF GateInv, GateTypes
    <2>3. /\ c.flow <= Len(flows') /\ c.until <= flows'[c.flow] + StateTtl
          /\ c.flow \in states'
        BY <1>1, <1>3, <1>4, <1>5
    <2>4. ASSUME NEW d \in Browsers, state'[d] # None
          PROVE  /\ state'[d].flow <= Len(flows')
                 /\ state'[d].until <= flows'[state'[d].flow] + StateTtl
                 /\ now' < state'[d].until => state'[d].flow \in states' \cup forgotten'
        <3>1. CASE d = b
            BY <2>2, <2>3, <3>1
        <3>2. CASE d # b
            BY <1>1, <1>3, <1>5, <2>1, <2>4, <3>2
        <3> QED BY <3>1, <3>2
    <2>5. ASSUME NEW d \in Browsers, NEW e \in Browsers, state'[d] # None, state'[e] # None,
                 state'[d].flow = state'[e].flow, d # e
          PROVE  FALSE
        <3>1. CASE d # b /\ e # b
            BY <2>1, <2>5, <3>1 DEF GateInv, StateInv
        <3>2. CASE d = b
            BY <1>3, <1>4, <2>1, <2>2, <2>5, <3>2
        <3>3. CASE e = b
            BY <1>3, <1>4, <2>1, <2>2, <2>5, <3>3
        <3> QED BY <3>1, <3>2, <3>3
    <2> QED BY <2>4, <2>5 DEF StateInv
<1> QED BY <1>1, <1>6, <1>7, <1>8 DEF GateInv

(* The callback takes a state and its only cookie.                         *)
LEMMA ConnectedKeeps ==
    ASSUME GateInv, NEW b \in Browsers, NEW coded \in BOOLEAN, Connected(b, coded)
    PROVE  GateInv'
<1>1. /\ state' = [state EXCEPT ![b] = None]
      /\ states' = states \/ (state[b] # None /\ states' = Unexpired \ {state[b].flow})
      /\ rows' = rows /\ session' = session /\ csrf' = csrf /\ flows' = flows
      /\ forgotten' = forgotten /\ now' = now
    BY ReachesNow DEF Connected, StateCleared, Sends
<1>2. JarInv'
    BY <1>1, JarStays
<1>3. GateTypes'
    BY <1>1 DEF GateInv, GateTypes, Unexpired
<1>4. StateInv'
    <2>1. \A d \in Browsers : state'[d] # None => d # b /\ state'[d] = state[d]
        BY <1>1 DEF GateInv, GateTypes
    <2>2. ASSUME NEW d \in Browsers, state'[d] # None, now < state[d].until
          PROVE  state[d].flow \in states' \cup forgotten
        <3> DEFINE f == state[d].flow
        <3>1. /\ f \in states \cup forgotten /\ state[d].until <= flows[f] + StateTtl
              /\ state[d] \in StateCookie /\ f <= Len(flows) /\ state[d] # None /\ d # b
            BY <2>1, <2>2 DEF GateInv, GateTypes, StateInv
        <3>2. f \in 1 .. Len(flows) /\ flows \in Seq(Nat)
            BY <3>1 DEF GateInv, GateTypes, StateCookie
        <3>3. flows[f] \in Nat
            BY <3>2, ElementOfRange
        <3>4. state[d].until \in Nat /\ now \in Nat /\ StateTtl \in Nat
            BY <3>1, GateAssumption, RateLimiterAssumption DEF GateInv, StateCookie
        <3>5. now - flows[f] <= StateTtl
            BY <2>2, <3>1, <3>3, <3>4
        <3>6. state[b] # None => state[b].flow # f
            BY <3>1 DEF GateInv, StateInv
        <3> QED BY <1>1, <3>1, <3>5, <3>6 DEF Unexpired
    <2> QED BY <1>1, <2>1, <2>2 DEF GateInv, StateInv
<1> QED BY <1>1, <1>2, <1>3, <1>4 DEF GateInv

(* The invariant holds initially.                                          *)
LEMMA GateInvInit == Init => GateInv
<1> SUFFICES ASSUME Init PROVE GateInv
    OBVIOUS
<1>1. now \in 0 .. MaxTime
    BY RateLimiterAssumption DEF Init, RateLimiterInit
<1>2. GateTypes
    BY GateAssumption DEF Init, GateTypes
<1>3. JarInv /\ StateInv
    BY DEF Init, JarInv, StateInv
<1> QED BY <1>1, <1>2, <1>3 DEF GateInv

(* Every step keeps it.                                                    *)
LEMMA GateInvNext ==
    ASSUME GateInv, [Next]_vars
    PROVE  GateInv'
<1>1. ASSUME UNCHANGED gateVars, now' \in 0 .. MaxTime, now' >= now
      PROVE  GateInv'
    <2>1. now \in Nat /\ now' \in Nat /\ \A b \in Browsers : state[b] # None => state[b].until \in Nat
        BY <1>1, RateLimiterAssumption DEF GateInv, GateTypes, StateCookie
    <2>2. GateTypes' /\ JarInv'
        BY <1>1 DEF GateInv, gateVars, GateTypes, JarInv
    <2>3. StateInv'
        BY <1>1, <2>1 DEF GateInv, gateVars, StateInv
    <2> QED BY <1>1, <2>2, <2>3 DEF GateInv
<1>0. now \in Nat /\ now <= now
    BY RateLimiterAssumption DEF GateInv
<1>2. ASSUME NEW b \in Browsers, Forbidden(b) \/ Throttled(b)
      PROVE  GateInv'
    <2>1. UNCHANGED gateVars /\ now' = now
        BY <1>2 DEF Forbidden, Throttled, Check, vars, limiterVars
    <2> QED BY <1>0, <2>1, <1>1 DEF GateInv
<1>3. ASSUME NEW b \in Browsers, OnlyAnswers(b)
      PROVE  GateInv'
    <2>1. /\ now' = now /\ states' \in {states, Unexpired}
          /\ UNCHANGED <<rows, session, csrf, state, flows, forgotten>>
        BY <1>3, ReachesNow DEF OnlyAnswers
    <2>2. GateTypes'
        BY <2>1 DEF GateInv, GateTypes, Unexpired
    <2> QED BY <2>1, <2>2, JarStays, StateStays DEF GateInv
<1>4. ASSUME NEW b \in Browsers, Verify(b)
      PROVE  GateInv'
    BY <1>4, OpenKeeps, ReachesNow DEF Verify
<1>5. ASSUME NEW b \in Browsers, Callback(b)
      PROVE  GateInv'
    BY <1>5, OpenKeeps, EmptyKeeps, ReachesNow DEF Callback, FreshToken
<1>6. ASSUME NEW b \in Browsers, Login(b) \/ Logout(b)
      PROVE  GateInv'
    BY <1>6, EmptyKeeps, ReachesNow DEF Login, Logout
<1>7. ASSUME NEW b \in Browsers, NEW e \in Table \cup ByFetch, Use(b, e)
      PROVE  GateInv'
    <2>1. /\ rows' \in Seq(Nat) /\ Len(rows') = Len(rows)
          /\ session' = session /\ csrf' = csrf /\ now' = now
          /\ UNCHANGED <<state, flows, states, forgotten>>
        BY <1>7, AuthenticateKeeps, ReachesNow DEF Use
    <2>2. GateTypes'
        BY <2>1 DEF GateInv, GateTypes
    <2> QED BY <2>1, <2>2, JarStays, StateStays DEF GateInv
<1>8. CASE Sweep \/ Tick
    <2>1. UNCHANGED gateVars /\ now' \in 0 .. MaxTime /\ now' >= now
        BY <1>8, RateLimiterAssumption DEF Sweep, Cleanup, Tick, LimiterTick, GateInv
    <2> QED BY <2>1, <1>1
<1>9. CASE Restart
    <2>1. /\ now' = now /\ states' = {} /\ forgotten' = forgotten \cup states
          /\ UNCHANGED <<rows, session, csrf, state, flows>>
        BY <1>9 DEF Restart, LimiterRestart
    <2> QED BY <2>1 DEF GateInv, GateTypes, JarInv, StateInv
<1>10. CASE UNCHANGED vars
    BY <1>0, <1>10, <1>1 DEF vars, limiterVars, GateInv
<1> QED BY <1>2, <1>3, <1>4, <1>5, <1>6, <1>7, <1>8, <1>9, <1>10,
           ConnectKeeps, ConnectedKeeps DEF Next

(* The invariant is one.                                                   *)
LEMMA GateInvariant == Spec => []GateInv
BY GateInvInit, GateInvNext, PTL DEF Spec

(* All variables of limiter and gate stay in their types.                  *)
THEOREM TypeCorrect == Spec => []TypeOK
<1>1. GateInv /\ LimiterInv => TypeOK
    BY DEF GateInv, GateTypes, LimiterInv, LimiterTypes, TypeOK, RateLimiterTypeOK
<1> QED BY <1>1, GateInvariant, GateImplementsLimiter, LimiterInvariant, PTL

(* A browser whose session is accepted has a CSRF token that is, too.      *)
THEOREM SignedInCanAct == Spec => []SignedInPassesCsrf
<1>1. GateInv => SignedInPassesCsrf
    <2> SUFFICES ASSUME GateInv, NEW b \in Browsers, SignedIn(b)
                 PROVE  CsrfValid(b)
        BY DEF SignedInPassesCsrf
    <2>1. session[b] # None /\ now < session[b].until
        BY DEF SignedIn, Sends
    <2>2. /\ csrf[b] # None /\ session[b].until <= csrf[b].until
          /\ session[b].until <= csrf[b].made + Lifetime
        BY <2>1 DEF GateInv, JarInv
    <2>3. /\ session[b].until \in Nat /\ csrf[b].until \in Nat /\ csrf[b].made \in Nat
          /\ now \in Nat /\ Lifetime \in Nat
        BY <2>1, <2>2, GateAssumption DEF GateInv, GateTypes, SessionCookie, CsrfCookie
    <2> QED BY <2>1, <2>2, <2>3 DEF CsrfValid, Sends, TokenIsGood
<1> QED BY <1>1, GateInvariant, PTL

(* A browser that comes back from Bsale with its cookie finds its state,   *)
(* unless the process was restarted.                                       *)
THEOREM StatesOutliveCookies == Spec => []ReturningIsHonoured
<1>1. GateInv => ReturningIsHonoured
    <2> SUFFICES ASSUME GateInv, NEW b \in Browsers, Sends(state[b]),
                        state[b].flow \notin forgotten
                 PROVE  Consumes(state[b].flow)
        BY DEF ReturningIsHonoured
    <2> DEFINE f == state[b].flow
    <2>1. state[b] # None /\ now < state[b].until /\ state[b] \in StateCookie
        BY DEF Sends, GateInv, GateTypes
    <2>2. f \in states /\ state[b].until <= flows[f] + StateTtl /\ f \in 1 .. Len(flows)
        BY <2>1 DEF GateInv, GateTypes, StateInv
    <2>3. flows[f] \in Nat /\ state[b].until \in Nat /\ now \in Nat /\ StateTtl \in Nat
        BY <2>1, <2>2, GateAssumption DEF GateInv, GateTypes, StateCookie
    <2>4. now - flows[f] <= StateTtl
        BY <2>1, <2>2, <2>3
    <2> QED BY <2>2, <2>4 DEF Consumes, Unexpired
<1> QED BY <1>1, GateInvariant, PTL
=============================================================================
