---------------------------- MODULE AlertLifecycle ----------------------------
(***************************************************************************)
(* What the alert machinery promises of each row of the alerts table,      *)
(* whoever runs when: an alert is raised once, it is mailed only to its    *)
(* owner and only after it was raised, it is marked sent only after it was *)
(* mailed, and only its readers dismiss it.                                *)
(***************************************************************************)
EXTENDS Naturals

CONSTANTS
    Alerts,     \* identities of alerts
    Owner       \* the user of each

VARIABLES
    state,      \* alerts.status, or "none"
    mailed      \* copies delivered: none, one, several

vars == <<state, mailed>>

Init ==
    /\ state = [i \in Alerts |-> "none"]
    /\ mailed = [i \in Alerts |-> 0]

Readers == {Owner[i] : i \in Alerts}

Letter(u) == {i \in Alerts : Owner[i] = u}

(* One call of the generator raises alerts of one user.                    *)
Raise(S) ==
    /\ \A i \in S : state[i] = "none"
    /\ state' = [i \in Alerts |-> IF i \in S THEN "pending" ELSE state[i]]
    /\ UNCHANGED mailed

Mail(S, copies) ==
    /\ \A i \in S : state[i] # "none"
    /\ mailed' = [i \in Alerts |->
                     IF i \notin S THEN mailed[i]
                     ELSE IF mailed[i] + copies > 2 THEN 2 ELSE mailed[i] + copies]
    /\ UNCHANGED state

MarkSent(S) ==
    /\ \A i \in S : mailed[i] > 0
    /\ state' = [i \in Alerts |-> IF i \in S THEN "sent" ELSE state[i]]
    /\ UNCHANGED mailed

Dismiss(i) ==
    /\ state[i] # "none"
    /\ state' = [state EXCEPT ![i] = "dismissed"]
    /\ UNCHANGED mailed

Next ==
    \/ \E u \in Readers : \E S \in SUBSET Letter(u) :
          \/ Raise(S)
          \/ MarkSent(S)
          \/ \E copies \in 1 .. 2 : Mail(S, copies)
    \/ \E i \in Alerts : Dismiss(i)

Spec == Init /\ [][Next]_vars
=============================================================================
