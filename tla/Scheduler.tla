------------------------------ MODULE Scheduler ------------------------------
(***************************************************************************)
(* The daily job scheduler of src/src/scheduler/scheduler.ts.  One         *)
(* instance drives the stock sync, another the e-mail digest.              *)
(*                                                                         *)
(* A run of the job is followed by arming the timer of the next run, so    *)
(* the scheduler owns a CHAIN timer, job, timer, job, ...  A chain is      *)
(* either armed (its setTimeout is pending) or executing (its job's        *)
(* promise is pending).  Nothing in the class says that there is only one  *)
(* chain: start() opens one, runNow() opens another, and stop() can only   *)
(* clear the timer that this.timerId remembers.                            *)
(*                                                                         *)
(* Time is the time of day, tod, in ticks.  wait[c] is what is left of     *)
(* the delay given to setTimeout; a timer with nothing left may still fire *)
(* any number of ticks late, as a busy event loop makes it do.             *)
(***************************************************************************)
EXTENDS Naturals

CONSTANTS
    Chains,     \* identities of chains; at most Cardinality(Chains) coexist
    NoTimer,    \* this.timerId = null
    Day,        \* ticks in a day
    RunAt       \* config.hour:config.minute, as a time of day

ASSUME SchedulerAssumption ==
    /\ Day \in Nat \ {0}
    /\ RunAt \in 0 .. (Day - 1)
    /\ NoTimer \notin Chains

VARIABLES
    running,    \* this.running
    timerId,    \* the chain whose setTimeout handle this.timerId holds
    armed,      \* chains with a pending setTimeout
    wait,       \* ticks left of each chain's delay
    executing,  \* chains whose job has not settled
    tod,        \* time of day
    \* The two below only observe.
    seen,       \* chains that saw RunAt come since their timer was armed
    overlapped  \* start() or runNow() was called during a job, or runNow() after start()

vars == <<running, timerId, armed, wait, executing, tod, seen, overlapped>>

Live == armed \cup executing

TypeOK ==
    /\ running \in BOOLEAN
    /\ timerId \in Chains \cup {NoTimer}
    /\ armed \in SUBSET Chains
    /\ wait \in [Chains -> 0 .. Day]
    /\ executing \in SUBSET Chains
    /\ tod \in 0 .. (Day - 1)
    /\ seen \in SUBSET Chains
    /\ overlapped \in BOOLEAN

Init ==
    /\ running = FALSE
    /\ timerId = NoTimer
    /\ armed = {}
    /\ wait = [c \in Chains |-> 0]
    /\ executing = {}
    /\ tod \in 0 .. (Day - 1)
    /\ seen = {}
    /\ overlapped = FALSE

-----------------------------------------------------------------------------
(* Variant: a delay that fires again in the very tick of the run.          *)
NextDelayNotStrict(now) ==
    IF RunAt < now THEN RunAt + Day - now ELSE RunAt - now

(* Today's RunAt, or tomorrow's when it is not strictly ahead.             *)
NextDelay(now) ==
    IF RunAt <= now THEN RunAt + Day - now ELSE RunAt - now

(* scheduleNextRun() past its guard: setTimeout, remembered in timerId.    *)
Arm(c) ==
    /\ armed' = armed \cup {c}
    /\ wait' = [wait EXCEPT ![c] = NextDelay(tod)]
    /\ seen' = seen \ {c}
    /\ timerId' = c

(* start(): ignored while running; opens a chain otherwise.                *)
Start ==
    /\ ~running
    /\ running' = TRUE
    /\ \E c \in Chains \ Live : Arm(c)
    /\ overlapped' = (overlapped \/ executing # {})
    /\ UNCHANGED <<executing, tod>>

(* Variant that forgets clearTimeout.                                      *)
NothingCleared == {}

(* What clearTimeout(this.timerId) reaches; a fired timer is not armed.    *)
Cleared == {timerId}

Stop ==
    /\ running' = FALSE
    /\ armed' = armed \ Cleared
    /\ timerId' = NoTimer
    /\ UNCHANGED <<wait, executing, tod, seen, overlapped>>

(* The timeout's callback enters executeJob().                             *)
Fire(c) ==
    /\ c \in armed
    /\ wait[c] = 0
    /\ armed' = armed \ {c}
    /\ executing' = executing \cup {c}
    /\ UNCHANGED <<running, timerId, wait, tod, seen, overlapped>>

(* Variants: re-arming although stopped, and only after a job that worked. *)
RearmsAlways(ok) == TRUE
RearmsOnSuccess(ok) == running /\ ok

(* executeJob() catches what the job throws and then always calls          *)
(* scheduleNextRun(), whose guard is this.running.                         *)
Rearms(ok) == running

Settle(c, ok) ==
    /\ c \in executing
    /\ executing' = executing \ {c}
    /\ IF Rearms(ok) THEN Arm(c) ELSE UNCHANGED <<armed, wait, seen, timerId>>
    /\ UNCHANGED <<running, tod, overlapped>>

(* runNow(): a job run that is nobody's timer.                             *)
RunNow ==
    /\ \E c \in Chains \ Live : executing' = executing \cup {c}
    /\ overlapped' = (overlapped \/ running \/ executing # {})
    /\ UNCHANGED <<running, timerId, armed, wait, tod, seen>>

Tick ==
    LET now == IF tod = Day - 1 THEN 0 ELSE tod + 1 IN
    /\ tod' = now
    /\ wait' = [c \in Chains |-> IF wait[c] = 0 THEN 0 ELSE wait[c] - 1]
    /\ seen' = IF now = RunAt THEN seen \cup armed ELSE seen
    /\ UNCHANGED <<running, timerId, armed, executing, overlapped>>

Next ==
    \/ Start
    \/ Stop
    \/ \E c \in Chains : Fire(c)
    \/ \E c \in Chains, ok \in BOOLEAN : Settle(c, ok)
    \/ RunNow
    \/ Tick

(* Time passes, due timers fire and jobs settle; nobody has to call        *)
(* start(), stop() or runNow().                                            *)
Fairness ==
    /\ WF_vars(Tick)
    /\ \A c \in Chains : /\ WF_vars(Fire(c))
                         /\ WF_vars(\E ok \in BOOLEAN : Settle(c, ok))

Spec == Init /\ [][Next]_vars

FairSpec == Spec /\ Fairness

-----------------------------------------------------------------------------
(* As long as nobody calls start() while a job that survived stop() is     *)
(* still running, or runNow() on a running scheduler or beside another     *)
(* job, there is one chain: no two jobs overlap and no second timer is     *)
(* pending, whatever the order of start(), stop(), timers and jobs.        *)
SingleChain ==
    ~overlapped => \A c, d \in Live : c = d

(* Under the same condition stop() silences the scheduler: no timer        *)
(* survives it, even when it was called while the job was running and the  *)
(* job later tried to schedule its successor.                              *)
StopSilences ==
    ~overlapped /\ ~running => armed = {}

(* A timer is due exactly when the configured time of day came at least    *)
(* once since it was armed: a run neither repeats in the tick that just    *)
(* ran nor skips a day, at the boundary next <= now of                     *)
(* calculateNextRunTime.                                                   *)
DueIffOccurred ==
    \A c \in armed : wait[c] = 0 <=> c \in seen

(* A started scheduler keeps running the job, through failed jobs too,     *)
(* until somebody stops it.                                                *)
KeepsRunning ==
    running ~> (executing # {} \/ ~running)
=============================================================================
