--------------------------- MODULE SchedulerProofs ---------------------------
(***************************************************************************)
(* Scheduler's invariants, for every day length, run time and number of    *)
(* chains.                                                                 *)
(***************************************************************************)
EXTENDS Scheduler, TLAPS

(* What holds of the chains while no call was made at a wrong time.  The   *)
(* conjunct about timerId is what makes stop() effective.                  *)
ChainInv ==
    ~overlapped => /\ \A c, d \in Live : c = d
                   /\ armed \subseteq {timerId}
                   /\ ~running => armed = {}

(* A chain that has not seen RunAt since it was armed still waits for      *)
(* exactly the time to the next RunAt; one that has, waits for nothing.    *)
ClockInv ==
    \A c \in armed : wait[c] = IF c \in seen THEN 0 ELSE NextDelay(tod)

IInv == TypeOK /\ ChainInv /\ ClockInv

(* The delay given to setTimeout is never zero and never above a day.      *)
LEMMA NextDelayRange ==
    ASSUME NEW now \in 0 .. (Day - 1)
    PROVE  NextDelay(now) \in 1 .. Day
BY SchedulerAssumption DEF NextDelay

(* One tick brings the next RunAt one tick closer, or is that RunAt.       *)
LEMMA NextDelayTick ==
    ASSUME NEW t \in 0 .. (Day - 1), NEW now,
           now = IF t = Day - 1 THEN 0 ELSE t + 1
    PROVE  /\ now \in 0 .. (Day - 1)
           /\ now = RunAt => NextDelay(t) = 1
           /\ now # RunAt => NextDelay(now) = NextDelay(t) - 1
BY SchedulerAssumption DEF NextDelay

(* Arming keeps the variables in their types.                              *)
LEMMA ArmType ==
    ASSUME TypeOK, NEW c \in Chains, Arm(c)
    PROVE  /\ armed' \in SUBSET Chains
           /\ wait' \in [Chains -> 0 .. Day]
           /\ seen' \in SUBSET Chains
           /\ timerId' \in Chains \cup {NoTimer}
<1>1. NextDelay(tod) \in 0 .. Day
  BY NextDelayRange, SchedulerAssumption DEF TypeOK
<1> QED
  BY <1>1 DEF TypeOK, Arm

(* The typing of the scheduler's fields is preserved by every call and by  *)
(* every event.                                                            *)
LEMMA TypeInvariance == TypeOK /\ [Next]_vars => TypeOK'
<1> SUFFICES ASSUME TypeOK, [Next]_vars PROVE TypeOK'
  OBVIOUS
<1>1. CASE Start
  <2> PICK c \in Chains \ Live : Arm(c)
    BY <1>1 DEF Start
  <2> QED
    BY <1>1, ArmType DEF TypeOK, Start
<1>2. CASE Stop
  BY <1>2 DEF TypeOK, Stop
<1>3. ASSUME NEW c \in Chains, Fire(c) PROVE TypeOK'
  BY <1>3 DEF TypeOK, Fire
<1>4. ASSUME NEW c \in Chains, NEW ok \in BOOLEAN, Settle(c, ok) PROVE TypeOK'
  <2>1. CASE Rearms(ok)
    BY <1>4, <2>1, ArmType DEF TypeOK, Settle
  <2>2. CASE ~Rearms(ok)
    BY <1>4, <2>2 DEF TypeOK, Settle
  <2> QED
    BY <2>1, <2>2
<1>5. CASE RunNow
  BY <1>5 DEF TypeOK, RunNow
<1>6. CASE Tick
  <2>1. tod' \in 0 .. (Day - 1)
    BY <1>6, NextDelayTick DEF TypeOK, Tick
  <2>2. \A c \in Chains : (IF wait[c] = 0 THEN 0 ELSE wait[c] - 1) \in 0 .. Day
    BY SchedulerAssumption DEF TypeOK
  <2>3. wait' \in [Chains -> 0 .. Day]
    BY <1>6, <2>2 DEF Tick
  <2> QED
    BY <1>6, <2>1, <2>3 DEF TypeOK, Tick
<1>7. CASE UNCHANGED vars
  BY <1>7 DEF TypeOK, vars
<1> QED
  BY <1>1, <1>2, <1>3, <1>4, <1>5, <1>6, <1>7 DEF Next

(* No call and no event opens a second chain without being counted as an   *)
(* overlap.                                                                *)
LEMMA ChainInvariance == TypeOK /\ ChainInv /\ [Next]_vars => ChainInv'
<1> SUFFICES ASSUME TypeOK, ChainInv, [Next]_vars, ~overlapped'
             PROVE  /\ \A c, d \in Live' : c = d
                    /\ armed' \subseteq {timerId'}
                    /\ ~running' => armed' = {}
  BY DEF ChainInv
<1>0. ~overlapped
  BY DEF Next, Start, Stop, Fire, Settle, RunNow, Tick, vars
<1>1. CASE Start
  BY <1>1, <1>0 DEF Start, Arm, ChainInv, Live
<1>2. CASE Stop
  BY <1>2, <1>0 DEF Stop, ChainInv, Cleared, Live
<1>3. ASSUME NEW c \in Chains, Fire(c)
      PROVE  /\ \A d, e \in Live' : d = e
             /\ armed' = {}
  BY <1>3, <1>0 DEF Fire, ChainInv, Live
<1>4. ASSUME NEW c \in Chains, NEW ok \in BOOLEAN, Settle(c, ok)
      PROVE  /\ \A d, e \in Live' : d = e
             /\ armed' \subseteq {timerId'}
             /\ ~running' => armed' = {}
  <2>1. CASE running
    BY <1>4, <2>1, <1>0 DEF Settle, Rearms, Arm, ChainInv, Live
  <2>2. CASE ~running
    BY <1>4, <2>2, <1>0 DEF Settle, Rearms, ChainInv, Live
  <2> QED
    BY <2>1, <2>2
<1>5. CASE RunNow
  BY <1>5, <1>0 DEF RunNow, ChainInv, Live
<1>6. CASE Tick
  BY <1>6, <1>0 DEF Tick, ChainInv, Live
<1>7. CASE UNCHANGED vars
  BY <1>7, <1>0 DEF vars, ChainInv, Live
<1> QED
  BY <1>1, <1>2, <1>3, <1>4, <1>5, <1>6, <1>7 DEF Next

(* Waiting and the clock agree after every step.                           *)
LEMMA ClockInvariance == TypeOK /\ ClockInv /\ [Next]_vars => ClockInv'
<1> SUFFICES ASSUME TypeOK, ClockInv, [Next]_vars, NEW d \in armed'
             PROVE  wait'[d] = IF d \in seen' THEN 0 ELSE NextDelay(tod)'
  BY DEF ClockInv
<1> USE DEF NextDelay
<1>0. ASSUME NEW c \in Chains, Arm(c), tod' = tod
      PROVE  wait'[d] = IF d \in seen' THEN 0 ELSE NextDelay(tod)'
  BY <1>0 DEF TypeOK, ClockInv, Arm
<1>1. CASE Start
  BY <1>1, <1>0 DEF Start
<1>2. CASE Stop
  BY <1>2 DEF Stop, ClockInv
<1>3. ASSUME NEW c \in Chains, Fire(c)
      PROVE  wait'[d] = IF d \in seen' THEN 0 ELSE NextDelay(tod)'
  BY <1>3 DEF Fire, ClockInv
<1>4. ASSUME NEW c \in Chains, NEW ok \in BOOLEAN, Settle(c, ok)
      PROVE  wait'[d] = IF d \in seen' THEN 0 ELSE NextDelay(tod)'
  <2>1. CASE Rearms(ok)
    BY <1>4, <2>1, <1>0 DEF Settle
  <2>2. CASE ~Rearms(ok)
    BY <1>4, <2>2 DEF Settle, ClockInv
  <2> QED
    BY <2>1, <2>2
<1>5. CASE RunNow
  BY <1>5 DEF RunNow, ClockInv
<1>6. CASE Tick
  <2>1. /\ d \in armed
        /\ d \in Chains
        /\ wait'[d] = IF wait[d] = 0 THEN 0 ELSE wait[d] - 1
        /\ wait[d] = IF d \in seen THEN 0 ELSE NextDelay(tod)
    BY <1>6 DEF Tick, TypeOK, ClockInv
  <2>2. /\ tod' = RunAt => NextDelay(tod) = 1
        /\ tod' # RunAt => NextDelay(tod') = NextDelay(tod) - 1
        /\ NextDelay(tod) \in 1 .. Day
    BY <1>6, NextDelayTick, NextDelayRange DEF Tick, TypeOK
  <2>3. d \in seen' <=> d \in seen \/ tod' = RunAt
    BY <1>6, <2>1 DEF Tick
  <2> QED
    BY <2>1, <2>2, <2>3, SchedulerAssumption
<1>7. CASE UNCHANGED vars
  BY <1>7 DEF vars, ClockInv
<1> QED
  BY <1>1, <1>2, <1>3, <1>4, <1>5, <1>6, <1>7 DEF Next

(* The inductive invariant holds in every reachable state.                 *)
THEOREM Invariance == Spec => []IInv
<1>1. Init => IInv
  <2>1. Init => TypeOK
    <3>1. 0 \in 0 .. Day
      BY SchedulerAssumption
    <3> QED
      BY <3>1 DEF Init, TypeOK
  <2>2. Init => ChainInv
    BY DEF Init, ChainInv, Live
  <2>3. Init => ClockInv
    BY DEF Init, ClockInv
  <2> QED
    BY <2>1, <2>2, <2>3 DEF IInv
<1>2. IInv /\ [Next]_vars => IInv'
  BY TypeInvariance, ChainInvariance, ClockInvariance DEF IInv
<1> QED
  BY <1>1, <1>2, PTL DEF Spec

(* The scheduler's fields keep their types.                                *)
THEOREM TypeCorrect == Spec => []TypeOK
<1>1. IInv => TypeOK
  BY DEF IInv
<1> QED
  BY <1>1, Invariance, PTL

(* Unless a chain was opened beside a live one, at most one timer or job   *)
(* is pending at any time.                                                 *)
THEOREM OneChain == Spec => []SingleChain
<1>1. IInv => SingleChain
  BY DEF IInv, ChainInv, SingleChain
<1> QED
  BY <1>1, Invariance, PTL

(* Under the same condition no timer survives stop().                      *)
THEOREM StopIsFinal == Spec => []StopSilences
<1>1. IInv => StopSilences
  BY DEF IInv, ChainInv, StopSilences
<1> QED
  BY <1>1, Invariance, PTL

(* A timer is due iff the configured time came since it was armed.         *)
THEOREM DueOnTime == Spec => []DueIffOccurred
<1>1. IInv => DueIffOccurred
  <2> SUFFICES ASSUME IInv, NEW c \in armed
               PROVE  wait[c] = 0 <=> c \in seen
    BY DEF DueIffOccurred
  <2>1. NextDelay(tod) \in 1 .. Day
    BY NextDelayRange DEF IInv, TypeOK
  <2> QED
    BY <2>1, SchedulerAssumption DEF IInv, ClockInv
<1> QED
  BY <1>1, Invariance, PTL
=============================================================================
