------------------------------- MODULE Velocity -------------------------------
(***************************************************************************)
(* The velocity alert: what src/src/alerts/velocity-calculator.ts makes of *)
(* the snapshots of a product.  Who stores them, and when, is for the      *)
(* module that extends this one.                                           *)
(***************************************************************************)
EXTENDS Integers, FiniteSets

CONSTANTS
    HistoryDays,    \* VELOCITY_HISTORY_DAYS, 7 in the code
    Warnings        \* the days that a threshold may warn of; 0 when unset

(* Up to 200 days, a fall by one unit is a rate that is not rounded to     *)
(* zero hundredths.                                                        *)
ASSUME VelocityAssumption == HistoryDays \in 0 .. 200 /\ Warnings \subseteq Nat

VARIABLES
    now,        \* in half days
    snapshots   \* stock_snapshots of the product: a set of [day, q]

(* Snapshots know only whole days                                          *)
Day(t) == t \div 2
Today == Day(now)

(* getHistoricalSnapshots                                                  *)
History == {s \in snapshots : s.day >= Today - HistoryDays}
Oldest == CHOOSE s \in History : \A t \in History : s.day <= t.day
Newest == CHOOSE s \in History : \A t \in History : s.day >= t.day

(* Variant: snapshots are counted instead of the days between them.        *)
PointsBetween(s, t) == Cardinality(History) - 1

DaysBetween(s, t) == t.day - s.day

(* Math.round of a quotient that is not negative                           *)
Rounded(n, d) == (2 * n + d) \div (2 * d)

(* checkVelocityAlert: the rate is rounded to hundredths, the days to      *)
(* tenths                                                                  *)
ShouldAlert(warning) ==
    /\ warning # 0
    /\ Cardinality(History) >= 2
    /\ LET fall == Oldest.q - Newest.q
           days == DaysBetween(Oldest, Newest)
       IN  /\ Newest.q > 0 /\ days > 0 /\ fall > 0
           /\ Rounded(100 * fall, days) > 0
           /\ Rounded(10 * Newest.q * days, fall) < 10 * warning

(* A velocity alert speaks the truth about the snapshots: at the rate at   *)
(* which the stock fell between the oldest and the newest of them it does  *)
(* not outlast the warning time.  And it is not missed when it runs out    *)
(* earlier.  Both are up to the half of a tenth of a day that is rounded   *)
(* away, and so say nothing of a stock that lasts exactly the warning      *)
(* time: checkVelocityAlert compares with <, schema.sql says <=.           *)
AlertIsForecast ==
    Cardinality(History) >= 2 =>
        LET Lasts == Newest.q * (Newest.day - Oldest.day)
            fall  == Oldest.q - Newest.q
        IN  \A warning \in Warnings :
               /\ ShouldAlert(warning) =>
                     0 < fall /\ 0 < Lasts
                     /\ 20 * Lasts < (20 * warning + 1) * fall
               /\ 0 < fall /\ 0 < Lasts /\ 20 * Lasts < (20 * warning - 1) * fall
                      => ShouldAlert(warning)
=============================================================================
