------------------------------- MODULE Billing -------------------------------
(***************************************************************************)
(* Subscriptions (src/src/billing, api/handlers/billing.ts and the         *)
(* subscription columns of db/repositories/user.ts).                       *)
(*                                                                         *)
(* MercadoPago knows who pays; the users table only remembers what         *)
(* MercadoPago was last heard to say.  Four kinds of request move news     *)
(* from one to the other: a webhook, whose notification names a            *)
(* subscription and makes the handler ask for its present state, a         *)
(* cancellation, a poll after a paid period has ended, and a checkout,     *)
(* which only creates a subscription.  Each asks, awaits, and then writes  *)
(* what it was told, however old that has become.  The rows hold no        *)
(* version, so the last write wins.                                        *)
(*                                                                         *)
(* Time is counted in billing periods.                                     *)
(***************************************************************************)
EXTENDS Naturals, FiniteSets

CONSTANTS
    Users,
    Subs,           \* preapprovals that MercadoPago may create
    None,           \* NULL
    MaxTime,        \* bound: periods
    MaxEvents,      \* bound: changes of a subscription at MercadoPago
    MaxRequests,    \* bound: checkouts, cancellations and polls
    MaxFlights      \* bound: requests that are under way at once

ASSUME BillingAssumption ==
    /\ None \notin Users /\ None \notin Subs /\ None \notin Nat
    /\ MaxTime \in Nat
    /\ MaxEvents \in Nat
    /\ MaxRequests \in Nat
    /\ MaxFlights \in Nat

VARIABLES
    \* MercadoPago.
    mp,         \* status of each preapproval
    payer,      \* its external_reference
    due,        \* its next_payment_date
    owed,       \* notifications it will repeat until they are answered 200
    events,     \* how often it changed a status
    now,
    row,        \* users.subscription_id, _status and _ends_at
    \* Requests under way.
    checkouts,
    hooks,
    cancels,
    polls,
    requests,
    \* The rest only observe.
    since,      \* the event that brought each preapproval its status
    applied,    \* the latest answer that was written for a user
    crossed,    \* users for whom an older answer then changed the row
    doubled     \* users who ever paid for two subscriptions at once

mercado == <<mp, payer, due, owed, events, now>>
flights == <<checkouts, hooks, cancels, polls, requests>>
ghosts == <<since, applied, crossed, doubled>>
vars == <<mercado, row, flights, ghosts>>

MpStatus == {"none", "pending", "authorized", "paused", "cancelled"}

Row == [id : Subs \cup {None}, status : {"none", "active", "cancelled"},
        ends : Nat \cup {None}]

Notification == [sub : Subs, event : Nat]

Hook == [note : Notification, status : MpStatus, due : Nat, at : Nat]
Cancel == [sub : Subs, step : {"get", "update", "write"}, due : Nat, at : Nat]
Poll == [user : Users, sub : Subs, step : {"ask", "write"},
         status : MpStatus, due : Nat, at : Nat]

TypeOK ==
    /\ mp \in [Subs -> MpStatus]
    /\ payer \in [Subs -> Users \cup {None}]
    /\ due \in [Subs -> Nat]
    /\ owed \in SUBSET Notification
    /\ events \in Nat
    /\ now \in Nat
    /\ row \in [Users -> Row]
    /\ checkouts \in SUBSET Users
    /\ hooks \in SUBSET Hook
    /\ cancels \in SUBSET Cancel
    /\ polls \in SUBSET Poll
    /\ requests \in Nat
    /\ since \in [Subs -> Nat]
    /\ applied \in [Users -> Nat]
    /\ crossed \in SUBSET Users
    /\ doubled \in SUBSET Users

Init ==
    /\ mp = [s \in Subs |-> "none"]
    /\ payer = [s \in Subs |-> None]
    /\ due = [s \in Subs |-> 0]
    /\ owed = {}
    /\ events = 0
    /\ now = 0
    /\ row = [u \in Users |-> [id |-> None, status |-> "none", ends |-> None]]
    /\ checkouts = {}
    /\ hooks = {}
    /\ cancels = {}
    /\ polls = {}
    /\ requests = 0
    /\ since = [s \in Subs |-> 0]
    /\ applied = [u \in Users |-> 0]
    /\ crossed = {}
    /\ doubled = {}

-----------------------------------------------------------------------------
(* MercadoPago and the customer at its pages.                              *)

(* A change of status is notified.                                         *)
Change(s, status) ==
    /\ events < MaxEvents
    /\ events' = events + 1
    /\ mp' = [mp EXCEPT ![s] = status]
    /\ owed' = owed \cup {[sub |-> s, event |-> events + 1]}
    /\ since' = [since EXCEPT ![s] = events + 1]
    /\ UNCHANGED <<payer, now>>

(* The customer authorizes the payments, or resumes them.                  *)
Authorize(s) ==
    /\ mp[s] \in {"pending", "paused"}
    /\ Change(s, "authorized")
    /\ due' = [due EXCEPT ![s] = now + 1]
    /\ doubled' = IF \E r \in Subs \ {s} : mp[r] = "authorized" /\ payer[r] = payer[s]
                  THEN doubled \cup {payer[s]} ELSE doubled
    /\ UNCHANGED <<row, flights, applied, crossed>>

(* Payments are paused, or ended for good.                                 *)
Interrupt(s, status) ==
    /\ \/ status = "paused" /\ mp[s] = "authorized"
       \/ status = "cancelled" /\ mp[s] \in {"pending", "authorized", "paused"}
    /\ Change(s, status)
    /\ UNCHANGED <<due, row, flights, applied, crossed, doubled>>

(* A period ends, and whoever pays has paid for the next one.              *)
Tick ==
    /\ now < MaxTime
    /\ now' = now + 1
    /\ due' = [s \in Subs |-> IF mp[s] = "authorized" THEN now + 2 ELSE due[s]]
    /\ UNCHANGED <<mp, payer, owed, events, row, flights, ghosts>>

-----------------------------------------------------------------------------
(* The users table.                                                        *)

(* An answer that MercadoPago gave at event `at` is written for u.         *)
Record(u, at, rows) ==
    /\ row' = rows
    /\ applied' = [applied EXCEPT ![u] = IF at > @ THEN at ELSE @]
    /\ crossed' = IF at < applied[u] /\ rows # row THEN crossed \cup {u} ELSE crossed
    /\ UNCHANGED <<since, doubled>>

(* activateSubscription: UPDATE ... WHERE id = the payer.                  *)
Activated(s) ==
    [row EXCEPT ![payer[s]] = [id |-> s, status |-> "active", ends |-> None]]

(* Variant: the row is found by its user.                                  *)
EndedByUser(s, ends) ==
    [u \in Users |-> IF u = payer[s]
                     THEN [row[u] EXCEPT !.status = "cancelled", !.ends = ends]
                     ELSE row[u]]

(* Variant: the row takes over MercadoPago's word for the status.          *)
EndedAs(s, ends) ==
    [u \in Users |-> IF row[u].id = s
                     THEN [row[u] EXCEPT !.status = mp[s], !.ends = ends]
                     ELSE row[u]]

(* updateSubscriptionStatus: UPDATE ... WHERE subscription_id = s.         *)
Ended(s, ends) ==
    [u \in Users |-> IF row[u].id = s
                     THEN [row[u] EXCEPT !.status = "cancelled", !.ends = ends]
                     ELSE row[u]]

(* isUserPaid: active, or cancelled within the paid period.                *)
Paid(u) ==
    \/ row[u].status = "active"
    \/ row[u].status = "cancelled" /\ row[u].ends # None /\ row[u].ends > now

-----------------------------------------------------------------------------
Room == Cardinality(hooks) + Cardinality(cancels) + Cardinality(polls) < MaxFlights

(* Requests of users.                                                      *)
Request ==
    /\ requests < MaxRequests
    /\ Room
    /\ requests' = requests + 1

(* POST /api/billing/checkout up to its call of MercadoPago.               *)
Checkout(u) ==
    /\ Request
    /\ ~Paid(u)
    /\ u \notin checkouts
    /\ checkouts' = checkouts \cup {u}
    /\ UNCHANGED <<mercado, row, hooks, cancels, polls, ghosts>>

(* createSubscription: a preapproval that the customer has to authorize.   *)
Create(u, s) ==
    /\ u \in checkouts
    /\ mp[s] = "none"
    /\ checkouts' = checkouts \ {u}
    /\ mp' = [mp EXCEPT ![s] = "pending"]
    /\ payer' = [payer EXCEPT ![s] = u]
    /\ due' = [due EXCEPT ![s] = now + 1]
    /\ UNCHANGED <<owed, events, now, row, hooks, cancels, polls, requests, ghosts>>

CreateFails(u) ==
    /\ u \in checkouts
    /\ checkouts' = checkouts \ {u}
    /\ UNCHANGED <<mercado, row, hooks, cancels, polls, requests, ghosts>>

(* POST /api/billing/cancel: the row names the subscription ...            *)
CancelRead(u) ==
    /\ Request
    /\ row[u].id # None
    /\ cancels' = cancels \cup {[sub |-> row[u].id, step |-> "get", due |-> 0, at |-> 0]}
    /\ UNCHANGED <<mercado, row, checkouts, hooks, polls, ghosts>>

(* ... whose next payment is read, as the end of what was paid ...         *)
CancelGet(c) ==
    /\ c \in cancels /\ c.step = "get"
    /\ cancels' = (cancels \ {c}) \cup
                     {[c EXCEPT !.step = "update", !.due = due[c.sub], !.at = events]}
    /\ UNCHANGED <<mercado, row, checkouts, hooks, polls, requests, ghosts>>

(* ... before it is cancelled at MercadoPago ...                           *)
CancelUpdate(c) ==
    /\ c \in cancels /\ c.step = "update"
    /\ cancels' = (cancels \ {c}) \cup {[c EXCEPT !.step = "write"]}
    /\ IF mp[c.sub] = "cancelled"
       THEN UNCHANGED <<mp, payer, owed, events, now, since>>
       ELSE Change(c.sub, "cancelled")
    /\ UNCHANGED <<due, row, checkouts, hooks, polls, requests, applied, crossed, doubled>>

(* ... and in the row that names it by then.                               *)
CancelWrite(c) ==
    /\ c \in cancels /\ c.step = "write"
    /\ cancels' = cancels \ {c}
    /\ Record(payer[c.sub], c.at, Ended(c.sub, c.due))
    /\ UNCHANGED <<mercado, checkouts, hooks, polls, requests>>

CancelFails(c) ==
    /\ c \in cancels
    /\ cancels' = cancels \ {c}
    /\ UNCHANGED <<mercado, row, checkouts, hooks, polls, requests, ghosts>>

(* GET /api/subscription/status of a row whose paid period is over ...     *)
PollRead(u) ==
    /\ Request
    /\ row[u].id # None
    /\ row[u].status = "cancelled" /\ row[u].ends # None /\ ~Paid(u)
    /\ polls' = polls \cup {[user |-> u, sub |-> row[u].id, step |-> "ask",
                             status |-> "none", due |-> 0, at |-> 0]}
    /\ UNCHANGED <<mercado, row, checkouts, hooks, cancels, ghosts>>

(* ... asks whether the subscription was resumed ...                       *)
PollAsk(p) ==
    /\ p \in polls /\ p.step = "ask"
    /\ polls' = (polls \ {p}) \cup
                   {[p EXCEPT !.step = "write", !.status = mp[p.sub],
                              !.due = due[p.sub], !.at = events]}
    /\ UNCHANGED <<mercado, row, checkouts, hooks, cancels, requests, ghosts>>

(* ... and records the answer.                                             *)
PollWrite(p) ==
    /\ p \in polls /\ p.step = "write"
    /\ polls' = polls \ {p}
    /\ Record(p.user, p.at, IF p.status = "authorized" THEN Activated(p.sub)
                                                     ELSE Ended(p.sub, p.due))
    /\ UNCHANGED <<mercado, checkouts, hooks, cancels, requests>>

PollFails(p) ==
    /\ p \in polls
    /\ polls' = polls \ {p}
    /\ UNCHANGED <<mercado, row, checkouts, hooks, cancels, requests, ghosts>>

-----------------------------------------------------------------------------
(* POST /api/webhooks/mercadopago.                                         *)

(* The notification names a subscription; processWebhookEvent asks for its *)
(* present state.                                                          *)
HookRead(n) ==
    /\ n \in owed
    /\ Room
    /\ hooks' = hooks \cup
                   {[note |-> n, status |-> mp[n.sub], due |-> due[n.sub], at |-> events]}
    /\ UNCHANGED <<mercado, row, checkouts, cancels, polls, requests, ghosts>>

EndingStatus == {"cancelled", "paused"}

(* What the answer makes of the table; any other status is ignored.        *)
Effect(h) ==
    IF h.status = "authorized" THEN Activated(h.note.sub)
    ELSE IF h.status \in EndingStatus THEN Ended(h.note.sub, h.due)
    ELSE row

(* The 200 reaches MercadoPago or is lost.                                 *)
HookWrite(h, acked) ==
    /\ h \in hooks
    /\ hooks' = hooks \ {h}
    /\ Record(payer[h.note.sub], h.at, Effect(h))
    /\ owed' = IF acked THEN owed \ {h.note} ELSE owed
    /\ UNCHANGED <<mp, payer, due, events, now, checkouts, cancels, polls, requests>>

(* Variant: a failed webhook is answered 200 as well.                      *)
OwedNoMore(h) == owed \ {h.note}

(* A failed webhook is answered 400, so that it is repeated.               *)
OwedAfterFailure(h) == owed

HookFails(h) ==
    /\ h \in hooks
    /\ hooks' = hooks \ {h}
    /\ owed' = OwedAfterFailure(h)
    /\ UNCHANGED <<mp, payer, due, events, now, row, checkouts, cancels, polls>>
    /\ UNCHANGED <<requests, ghosts>>

-----------------------------------------------------------------------------
Next ==
    \/ \E s \in Subs : Authorize(s)
    \/ \E s \in Subs, status \in {"paused", "cancelled"} : Interrupt(s, status)
    \/ Tick
    \/ \E u \in Users : Checkout(u) \/ CreateFails(u) \/ CancelRead(u) \/ PollRead(u)
    \/ \E u \in Users, s \in Subs : Create(u, s)
    \/ \E c \in cancels : CancelGet(c) \/ CancelUpdate(c) \/ CancelWrite(c) \/ CancelFails(c)
    \/ \E p \in polls : PollAsk(p) \/ PollWrite(p) \/ PollFails(p)
    \/ \E n \in owed : HookRead(n)
    \/ \E h \in hooks, acked \in BOOLEAN : HookWrite(h, acked)
    \/ \E h \in hooks : HookFails(h)

Spec == Init /\ [][Next]_vars

-----------------------------------------------------------------------------
(* MercadoPago awaits no answer about a subscription of u.                 *)
Answered(u) == \A n \in owed : payer[n.sub] # u

(* When every notification is answered, a user's row says what MercadoPago *)
(* says of its subscription, the end of the paid period included: whatever *)
(* was lost, repeated or failed, and whichever of webhook, cancellation    *)
(* and poll came first.  The exception is real: an answer that was older   *)
(* than the last one written, and changed the row, stays in it.            *)
RowAgrees ==
    \A u \in Users, s \in Subs :
        Answered(u) /\ u \notin crossed /\ row[u].id = s
            => /\ row[u].status = "active" => mp[s] = "authorized"
               /\ row[u].status = "cancelled"
                      => mp[s] \in {"cancelled", "paused"} /\ row[u].ends = due[s]

(* Under the same conditions whoever pays has the plan, unless two         *)
(* subscriptions were once paid at the same time: one that was left does   *)
(* not take the plan from its successor.                                   *)
PayerHasPlan ==
    \A u \in Users, s \in Subs :
        /\ mp[s] = "authorized" /\ payer[s] = u
        /\ Answered(u) /\ u \notin crossed \cup doubled
        => row[u] = [id |-> s, status |-> "active", ends |-> None]
=============================================================================
