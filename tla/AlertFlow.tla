------------------------------ MODULE AlertFlow ------------------------------
(***************************************************************************)
(* How the alerts of one tenant come to be, are mailed and are dismissed:  *)
(* alerts/alert-generator.ts as jobs/sync-job.ts wires it, the digest of   *)
(* jobs/digest-job.ts with email/resend-client.ts, the alert repository    *)
(* and the routes that dismiss alerts and change settings and thresholds.  *)
(*                                                                         *)
(* Several jobs may generate alerts for the tenant at once (the nightly    *)
(* one and any number started by hand), the digest reads while they write, *)
(* and the table has no constraint against duplicates.  Between a job's    *)
(* look for a pending alert and its insert there is the rest of its loop.  *)
(*                                                                         *)
(* The sync itself is module TenantSync; here it is the time between the   *)
(* reading of the tenant's row and the last write of its status, in which  *)
(* the stored stock may become any.  The statuses that getActiveTenants    *)
(* does not tell apart are one, "ready".                                   *)
(***************************************************************************)
EXTENDS Naturals, FiniteSets

CONSTANTS
    Users,
    Products,
    Thresholds,     \* records [user, product, type, min, warn, n]
    Nightly,        \* the scheduled job
    Manuals,        \* jobs started by hand
    MaxQty,         \* bound: quantities available
    MaxRuns,        \* bound: runs of jobs
    MaxChanges,     \* bound: requests that change thresholds, settings or the connection
    MaxFaults       \* bound: database errors and crashes

Jobs == Manuals \cup {Nightly}
Runs == 1 .. MaxRuns
AlertType == {"low_stock", "out_of_stock", "low_velocity"}
Frequency == {"daily", "weekly", "none"}
NoSnapshot == MaxQty + 1        \* the product was never synced

ASSUME AlertFlowAssumption ==
    /\ Nightly \notin Manuals
    /\ Users # {} /\ Thresholds # {}
    /\ MaxQty \in Nat /\ MaxRuns \in Nat /\ MaxChanges \in Nat /\ MaxFaults \in Nat
    /\ \A r \in Thresholds :
          /\ r.user \in Users
          /\ r.product \in Products
          /\ r.type \in {"quantity", "days"}
          /\ r.min \in Nat        \* min_quantity or min_days
          /\ r.warn \in BOOLEAN   \* days_warning > 0

(* A call of generateAlertsForUser raises at most one alert per threshold  *)
(* and type, and a run calls it once per user.                             *)
Alert == [run : Runs, rule : Thresholds, type : AlertType]

UserOf(i) == i.rule.user

(* What hasPendingAlert looks for.                                         *)
SameKey(i, j) ==
    i.rule.user = j.rule.user /\ i.rule.product = j.rule.product /\ i.type = j.type

VARIABLES
    status,     \* tenants.sync_status; "ready": pending, success or failed
    token,      \* tenants.bsale_access_token is not NULL
    level,      \* quantity_available of each product's latest snapshot
    rules,      \* the thresholds that exist
    pref,       \* each user's digest_frequency; "off": no notifications
    state,      \* alerts.status, "none" for a row that does not exist
    \* Each job.
    pc,
    run,        \* the number of its run, 0 between runs
    users,      \* users it has not come to
    whom,       \* the user whose alerts it generates, if any
    todo,       \* thresholds it read and has not checked
    asking,     \* <<threshold, type>>: breaches it looks for an alert for
    batch,      \* <<threshold, type>>: alertsToCreate
    \* The digest.
    dpc,
    audience,   \* users it has not come to
    carried,    \* the pending alerts it read
    reader,     \* the user whose mail was sent and is to be recorded, if any
    \* The world.
    mailed,     \* copies of each alert that were delivered: 0, 1, several
    runs,
    changes,
    faults,
    \* The rest only observe.
    read,       \* what each call read: [rule, qty, alarming]
    overlap,    \* <<user, run, run>>: calls for the user overlapped
    lost        \* alerts delivered without being marked, or more than once

tables == <<level, rules, pref, state>>
tenant == <<status, token>>
call == <<whom, todo, asking, batch, read>>
digest == <<dpc, audience, carried, reader>>
bounds == <<runs, changes, faults>>
vars == <<tenant, tables, pc, run, users, call, digest, mailed, bounds, overlap, lost>>

TypeOK ==
    /\ status \in {"ready", "syncing", "not_connected"}
    /\ token \in BOOLEAN
    /\ level \in [Products -> 0 .. NoSnapshot]
    /\ rules \in SUBSET Thresholds
    /\ pref \in [Users -> Frequency \cup {"off"}]
    /\ state \in [Alert -> {"none", "pending", "sent", "dismissed", "resolved"}]
    /\ pc \in [Jobs -> {"idle", "listed", "sync", "users", "call"}]
    /\ run \in [Jobs -> 0 .. MaxRuns]
    /\ users \in [Jobs -> SUBSET Users]
    /\ whom \in [Jobs -> SUBSET Users]
    /\ todo \in [Jobs -> SUBSET Thresholds]
    /\ asking \in [Jobs -> SUBSET (Thresholds \X AlertType)]
    /\ batch \in [Jobs -> SUBSET (Thresholds \X AlertType)]
    /\ dpc \in {"idle", "read", "send", "mark"}
    /\ audience \in SUBSET Users
    /\ carried \in SUBSET Alert
    /\ reader \in SUBSET Users
    /\ mailed \in [Alert -> 0 .. 2]
    /\ runs \in 0 .. MaxRuns
    /\ changes \in 0 .. MaxChanges
    /\ faults \in 0 .. MaxFaults
    /\ read \in [Jobs -> SUBSET [rule : Thresholds, qty : 0 .. NoSnapshot, alarming : BOOLEAN]]
    /\ overlap \in SUBSET (Users \X Runs \X Runs)
    /\ lost \in SUBSET Alert

(* The tenant is connected and not synced yet; settings have their         *)
(* defaults.                                                               *)
Init ==
    /\ status = "ready"
    /\ token = TRUE
    /\ level = [p \in Products |-> NoSnapshot]
    /\ rules \in SUBSET Thresholds
    /\ pref = [u \in Users |-> "daily"]
    /\ state = [i \in Alert |-> "none"]
    /\ pc = [j \in Jobs |-> "idle"]
    /\ run = [j \in Jobs |-> 0]
    /\ users = [j \in Jobs |-> {}]
    /\ whom = [j \in Jobs |-> {}]
    /\ todo = [j \in Jobs |-> {}]
    /\ asking = [j \in Jobs |-> {}]
    /\ batch = [j \in Jobs |-> {}]
    /\ dpc = "idle"
    /\ audience = {}
    /\ carried = {}
    /\ reader = {}
    /\ mailed = [i \in Alert |-> 0]
    /\ runs = 0
    /\ changes = 0
    /\ faults = 0
    /\ read = [j \in Jobs |-> {}]
    /\ overlap = {}
    /\ lost = {}

-----------------------------------------------------------------------------
(* Jobs.                                                                   *)

Goto(j, label) == pc' = [pc EXCEPT ![j] = label]

Fault ==
    /\ faults < MaxFaults
    /\ faults' = faults + 1

(* The WHERE clause of getActiveTenants.                                   *)
Active == status \notin {"syncing", "not_connected"} /\ token

(* The nightly job lists the tenant if it is active; a manual one reads    *)
(* its row again and asks for a token only.                                *)
List(j) ==
    /\ pc[j] = "idle"
    /\ IF j = Nightly THEN Active ELSE token
    /\ runs < MaxRuns
    /\ runs' = runs + 1
    /\ run' = [run EXCEPT ![j] = runs + 1]
    /\ Goto(j, "listed")
    /\ UNCHANGED <<tenant, tables, users, call, digest, mailed, changes, faults, overlap, lost>>

(* It comes to the tenant, whose row may have changed since.               *)
SyncBegin(j) ==
    /\ pc[j] = "listed"
    /\ status' = "syncing"
    /\ Goto(j, "sync")
    /\ UNCHANGED <<token, tables, run, users, call, digest, mailed, bounds, overlap, lost>>

(* A batch is stored; what was once stored stays, or is stored again.      *)
Store(j, p, qty) ==
    /\ pc[j] = "sync"
    /\ level' = [level EXCEPT ![p] = qty]
    /\ UNCHANGED <<tenant, rules, pref, state, pc, run, users, call, digest>>
    /\ UNCHANGED <<mailed, bounds, overlap, lost>>

(* getWithNotificationsEnabled                                             *)
Notified == {u \in Users : pref[u] # "off"}

(* The sync succeeded; its users are read.                                 *)
SyncEnd(j) ==
    /\ pc[j] = "sync"
    /\ status' = "ready"
    /\ users' = [users EXCEPT ![j] = Notified]
    /\ Goto(j, "users")
    /\ UNCHANGED <<token, tables, run, call, digest, mailed, bounds, overlap, lost>>

(* It did not, or that query throws: no alerts are generated.              *)
SyncFails(j) ==
    /\ pc[j] \in {"listed", "sync"}
    /\ status' = "ready"
    /\ Goto(j, "idle")
    /\ run' = [run EXCEPT ![j] = 0]
    /\ UNCHANGED <<token, tables, users, call, digest, mailed, bounds, overlap, lost>>

(* Nor can its failure be recorded: the job is over.                       *)
SyncAborts(j) ==
    /\ pc[j] \in {"listed", "sync"}
    /\ Fault
    /\ Goto(j, "idle")
    /\ run' = [run EXCEPT ![j] = 0]
    /\ UNCHANGED <<tenant, tables, users, call, digest, mailed, runs, changes, overlap, lost>>

(* generateAlertsForUser reads the user's thresholds.                      *)
LoadRules(j, u) ==
    LET rivals == {k \in Jobs \ {j} : u \in whom[k]} IN
    /\ pc[j] = "users"
    /\ u \in users[j]
    /\ users' = [users EXCEPT ![j] = @ \ {u}]
    /\ whom' = [whom EXCEPT ![j] = {u}]
    /\ todo' = [todo EXCEPT ![j] = {r \in rules : r.user = u}]
    /\ overlap' = overlap \cup {<<u, run[j], run[k]>> : k \in rivals}
                          \cup {<<u, run[k], run[j]>> : k \in rivals}
    /\ Goto(j, "call")
    /\ UNCHANGED <<tenant, tables, run, asking, batch, read, digest, mailed, bounds, lost>>

(* The read fails: the user is given up, the error collected.              *)
LoadFails(j, u) ==
    /\ pc[j] = "users"
    /\ u \in users[j]
    /\ Fault
    /\ users' = [users EXCEPT ![j] = @ \ {u}]
    /\ UNCHANGED <<tenant, tables, pc, run, call, digest, mailed, runs, changes, overlap, lost>>

(* Variant of the comparison in checkThresholdBreach.                      *)
BreachedOffByOne(qty, min) == qty + 1 < min

Breached(qty, min) == qty < min

BreachType(qty) == IF qty = 0 THEN "out_of_stock" ELSE "low_stock"

(* What one threshold, its snapshot and its sales history call for.  A     *)
(* threshold in days is passed over: production gives the generator no     *)
(* velocity calculator.                                                    *)
Breaches(r, qty, alarming) ==
    {type \in AlertType :
        /\ r.type = "quantity"
        /\ qty # NoSnapshot
        /\ IF type = "low_velocity" THEN r.warn /\ qty > 0 /\ alarming
                                    ELSE Breached(qty, r.min) /\ type = BreachType(qty)}

(* One threshold is taken up and its snapshot read; the history is counted *)
(* to that read.                                                           *)
Examine(j, r, alarming) ==
    LET qty == level[r.product] IN
    /\ pc[j] = "call"
    /\ asking[j] = {}
    /\ r \in todo[j]
    /\ todo' = [todo EXCEPT ![j] = @ \ {r}]
    /\ asking' = [asking EXCEPT ![j] = {r} \X Breaches(r, qty, alarming)]
    /\ read' = [read EXCEPT ![j] = @ \cup {[rule |-> r, qty |-> qty, alarming |-> alarming]}]
    /\ UNCHANGED <<tenant, tables, pc, run, users, whom, batch>>
    /\ UNCHANGED <<digest, mailed, bounds, overlap, lost>>

(* The snapshot cannot be read; the error is collected.                    *)
ExamineFails(j, r) ==
    /\ pc[j] = "call"
    /\ asking[j] = {}
    /\ r \in todo[j]
    /\ Fault
    /\ todo' = [todo EXCEPT ![j] = @ \ {r}]
    /\ UNCHANGED <<tenant, tables, pc, run, users, whom, asking, batch, read>>
    /\ UNCHANGED <<digest, mailed, runs, changes, overlap, lost>>

(* Variant: alerts that were mailed are looked for, not pending ones.      *)
HasSentAlert(u, p, type) ==
    \E i \in Alert : /\ state[i] = "sent"
                     /\ i.rule.user = u /\ i.rule.product = p /\ i.type = type

HasPendingAlert(u, p, type) ==
    \E i \in Alert : /\ state[i] = "pending"
                     /\ i.rule.user = u /\ i.rule.product = p /\ i.type = type

(* shouldSkipAlert, as production wires it: of stock first, then, with     *)
(* nothing inserted in between, of velocity.                               *)
Ask(j, r, type) ==
    /\ <<r, type>> \in asking[j]
    /\ type = "low_velocity" => asking[j] = {<<r, type>>}
    /\ asking' = [asking EXCEPT ![j] = @ \ {<<r, type>>}]
    /\ batch' = [batch EXCEPT ![j] =
                   IF HasPendingAlert(r.user, r.product, type)
                   THEN @ ELSE @ \cup {<<r, type>>}]
    /\ UNCHANGED <<tenant, tables, pc, run, users, whom, todo, read>>
    /\ UNCHANGED <<digest, mailed, bounds, overlap, lost>>

(* The question fails: the rest of this threshold is given up.             *)
AskFails(j) ==
    /\ asking[j] # {}
    /\ Fault
    /\ asking' = [asking EXCEPT ![j] = {}]
    /\ read' = [read EXCEPT ![j] = {x \in @ : \A a \in asking[j] : a[1] # x.rule}]
    /\ UNCHANGED <<tenant, tables, pc, run, users, whom, todo, batch>>
    /\ UNCHANGED <<digest, mailed, runs, changes, overlap, lost>>

(* Variant: the word of the docs instead of the column's.                  *)
RaisedAsAlert == "alert"

(* The default of alerts.status.                                           *)
RaisedAs == "pending"

EndCall(j) ==
    /\ pc[j] = "call"
    /\ todo[j] = {} /\ asking[j] = {}
    /\ whom' = [whom EXCEPT ![j] = {}]
    /\ batch' = [batch EXCEPT ![j] = {}]
    /\ read' = [read EXCEPT ![j] = {}]
    /\ Goto(j, "users")

(* createBatch, when there is something to create: one INSERT.             *)
Insert(j) ==
    /\ EndCall(j)
    /\ state' = [i \in Alert |->
                   IF i.run = run[j] /\ <<i.rule, i.type>> \in batch[j]
                   THEN RaisedAs ELSE state[i]]
    /\ UNCHANGED <<tenant, level, rules, pref, run, users, todo, asking>>
    /\ UNCHANGED <<digest, mailed, bounds, overlap, lost>>

(* The INSERT fails; the error is collected.                               *)
InsertFails(j) ==
    /\ batch[j] # {}
    /\ Fault
    /\ EndCall(j)
    /\ UNCHANGED <<tenant, tables, run, users, todo, asking>>
    /\ UNCHANGED <<digest, mailed, runs, changes, overlap, lost>>

EndRun(j) ==
    /\ pc[j] = "users"
    /\ users[j] = {}
    /\ Goto(j, "idle")
    /\ run' = [run EXCEPT ![j] = 0]
    /\ UNCHANGED <<tenant, tables, users, call, digest, mailed, bounds, overlap, lost>>

-----------------------------------------------------------------------------
(* The digest.                                                             *)

(* Variant: the frequency of a job that nobody schedules.                  *)
WeeklyFrequency == "weekly"

(* The default argument of runDigestJob, and the only one ever given.      *)
DigestFrequency == "daily"

(* Variant: everything that was not dismissed is carried.                  *)
Undismissed == {i \in Alert : state[i] \in {"pending", "sent"}}

Pending == {i \in Alert : state[i] = "pending"}

(* The digest lists its tenants as the nightly job does.                   *)
StartDigest ==
    /\ dpc = "idle"
    /\ Active
    /\ dpc' = "read"
    /\ UNCHANGED <<tenant, tables, pc, run, users, call, audience, carried, reader>>
    /\ UNCHANGED <<mailed, bounds, overlap, lost>>

(* getWithDigestEnabledBatch, of the users who want this digest            *)
DigestUsers == {u \in Users : pref[u] = DigestFrequency}

(* Users and alerts are read side by side; users without alerts drop out.  *)
ReadPending ==
    /\ dpc = "read"
    /\ carried' = Pending
    /\ audience' = {u \in DigestUsers : \E i \in Pending : UserOf(i) = u}
    /\ dpc' = "send"
    /\ UNCHANGED <<tenant, tables, pc, run, users, call, reader, mailed, bounds, overlap, lost>>

Letter(u) == {i \in carried : UserOf(i) = u}

Deliver(S, copies) ==
    mailed' = [i \in Alert |->
                 IF i \notin S THEN mailed[i]
                 ELSE IF mailed[i] + copies > 2 THEN 2 ELSE mailed[i] + copies]

(* sendEmail reports success.  A time-out that hid an earlier success was  *)
(* retried, so more than one copy may have been delivered.                 *)
SendWorks(u, copies) ==
    /\ dpc = "send"
    /\ u \in audience
    /\ audience' = audience \ {u}
    /\ reader' = {u}
    /\ Deliver(Letter(u), copies)
    /\ lost' = IF copies > 1 THEN lost \cup Letter(u) ELSE lost
    /\ dpc' = "mark"
    /\ UNCHANGED <<tenant, tables, pc, run, users, call, carried, bounds, overlap>>

(* It reports failure; nothing, or something, was delivered all the same.  *)
SendFails(u, copies) ==
    /\ dpc = "send"
    /\ u \in audience
    /\ audience' = audience \ {u}
    /\ Deliver(Letter(u), copies)
    /\ lost' = IF copies > 0 THEN lost \cup Letter(u) ELSE lost
    /\ UNCHANGED <<tenant, tables, pc, run, users, call, dpc, carried, reader, bounds, overlap>>

(* Variant: what is pending is marked, not what was read and mailed.       *)
AllPending == Pending

Marked == {i \in carried : UserOf(i) \in reader}

(* markAsSent: by id, whatever the status has become.                      *)
MarkSent ==
    /\ dpc = "mark"
    /\ state' = [i \in Alert |-> IF i \in Marked THEN "sent" ELSE state[i]]
    /\ dpc' = "send"
    /\ reader' = {}
    /\ UNCHANGED <<tenant, level, rules, pref, pc, run, users, call>>
    /\ UNCHANGED <<audience, carried, mailed, bounds, overlap, lost>>

(* It fails, which ends the digest for the whole tenant.                   *)
MarkFails ==
    /\ dpc = "mark"
    /\ Fault
    /\ lost' = lost \cup Marked
    /\ dpc' = "idle"
    /\ audience' = {}
    /\ carried' = {}
    /\ reader' = {}
    /\ UNCHANGED <<tenant, tables, pc, run, users, call, mailed, runs, changes, overlap>>

EndDigest ==
    /\ dpc = "send"
    /\ audience = {}
    /\ dpc' = "idle"
    /\ carried' = {}
    /\ UNCHANGED <<tenant, tables, pc, run, users, call>>
    /\ UNCHANGED <<audience, reader, mailed, bounds, overlap, lost>>

-----------------------------------------------------------------------------
(* The process dies or is shut down.                                       *)
Crash ==
    /\ Fault
    /\ pc' = [j \in Jobs |-> "idle"]
    /\ run' = [j \in Jobs |-> 0]
    /\ users' = [j \in Jobs |-> {}]
    /\ whom' = [j \in Jobs |-> {}]
    /\ todo' = [j \in Jobs |-> {}]
    /\ asking' = [j \in Jobs |-> {}]
    /\ batch' = [j \in Jobs |-> {}]
    /\ read' = [j \in Jobs |-> {}]
    /\ dpc' = "idle"
    /\ audience' = {}
    /\ carried' = {}
    /\ reader' = {}
    /\ lost' = IF dpc = "mark" THEN lost \cup Marked ELSE lost
    /\ UNCHANGED <<tenant, tables, mailed, runs, changes, overlap>>

(* POST /api/alerts/:id/dismiss, whatever the alert's status.              *)
Dismiss(i) ==
    /\ state[i] # "none"
    /\ state' = [state EXCEPT ![i] = "dismissed"]
    /\ UNCHANGED <<tenant, level, rules, pref, pc, run, users, call, digest>>
    /\ UNCHANGED <<mailed, bounds, overlap, lost>>

Change ==
    /\ changes < MaxChanges
    /\ changes' = changes + 1
    /\ UNCHANGED <<level, state, pc, run, users, call, digest, mailed>>
    /\ UNCHANGED <<runs, faults, overlap, lost>>

(* UserRepository.update, of what this is about                            *)
UpdateUser(u, f) == pref' = [pref EXCEPT ![u] = f]

(* PUT /api/settings.                                                      *)
SetPref(u, f) ==
    /\ Change
    /\ UpdateUser(u, f)
    /\ UNCHANGED <<tenant, rules>>

(* POST and DELETE of /api/thresholds.  Alerts do not refer to them.       *)
CreateThreshold(r) ==
    /\ Change
    /\ rules' = rules \cup {r}
    /\ UNCHANGED <<tenant, pref>>

DeleteThreshold(r) ==
    /\ Change
    /\ rules' = rules \ {r}
    /\ UNCHANGED <<tenant, pref>>

(* PUT of /api/thresholds/:id: anything but the user and the product.      *)
UpdateThreshold(r, s) ==
    /\ Change
    /\ r \in rules
    /\ s \notin rules \ {r}
    /\ s.user = r.user /\ s.product = r.product
    /\ rules' = (rules \ {r}) \cup {s}
    /\ UNCHANGED <<tenant, pref>>

(* disconnectBsale and connectBsale, whatever a job is doing.              *)
Disconnect ==
    /\ Change
    /\ token' = FALSE
    /\ status' = "not_connected"
    /\ UNCHANGED <<rules, pref>>

Connect ==
    /\ Change
    /\ token' = TRUE
    /\ status' = "ready"
    /\ UNCHANGED <<rules, pref>>

(* A login through Bsale stores the token and leaves the status alone.     *)
Login ==
    /\ Change
    /\ token' = TRUE
    /\ UNCHANGED <<status, rules, pref>>

-----------------------------------------------------------------------------
JobStep(j) ==
    \/ SyncBegin(j)
    \/ SyncEnd(j)
    \/ SyncFails(j)
    \/ SyncAborts(j)
    \/ \E u \in Users : LoadRules(j, u) \/ LoadFails(j, u)
    \/ \E r \in Thresholds, alarming \in BOOLEAN : Examine(j, r, alarming)
    \/ \E r \in Thresholds : ExamineFails(j, r)
    \/ \E r \in Thresholds, type \in AlertType : Ask(j, r, type)
    \/ AskFails(j)
    \/ Insert(j)
    \/ InsertFails(j)
    \/ EndRun(j)

DigestStep ==
    \/ ReadPending
    \/ \E u \in Users, copies \in 1 .. 2 : SendWorks(u, copies)
    \/ \E u \in Users, copies \in 0 .. 2 : SendFails(u, copies)
    \/ MarkSent
    \/ MarkFails
    \/ EndDigest

Request ==
    \/ \E i \in Alert : Dismiss(i)
    \/ \E u \in Users, f \in Frequency \cup {"off"} : SetPref(u, f)
    \/ \E r \in Thresholds : CreateThreshold(r) \/ DeleteThreshold(r)
    \/ \E r, s \in Thresholds : UpdateThreshold(r, s)
    \/ Disconnect
    \/ Connect
    \/ Login

Next ==
    \/ \E j \in Jobs : List(j) \/ JobStep(j)
    \/ \E j \in Jobs, p \in Products, qty \in 0 .. MaxQty : Store(j, p, qty)
    \/ StartDigest
    \/ DigestStep
    \/ Request
    \/ Crash

Spec == Init /\ [][Next]_vars

(* Schedulers start the nightly job and the digest, started jobs go on,    *)
(* and a mail that is tried day after day goes through one day.  Nobody    *)
(* has to start a manual job or to make a request.                         *)
FairSpec ==
    /\ Spec
    /\ WF_vars(List(Nightly))
    /\ \A j \in Jobs : WF_vars(JobStep(j))
    /\ WF_vars(StartDigest)
    /\ WF_vars(DigestStep)
    /\ \A u \in Users : SF_vars(\E copies \in 1 .. 2 : SendWorks(u, copies))

-----------------------------------------------------------------------------
(* Two pending alerts about the same thing can only come from calls that   *)
(* overlapped, or from one call that met two thresholds of the user for    *)
(* the product: looking before inserting is enough for calls one after the *)
(* other, whatever the digest and the user did to earlier alerts.          *)
DuplicatesOnlyFromOverlap ==
    \A i, j \in Alert :
        /\ state[i] = "pending" /\ state[j] = "pending" /\ SameKey(i, j)
        /\ i.run # j.run
        => <<UserOf(i), i.run, j.run>> \in overlap

(* An alert is mailed again only if the digest that mailed it could not    *)
(* record it, or could not know that it was delivered.                     *)
RemailOnlyAfterLostMark ==
    \A i \in Alert : mailed[i] > 1 => i \in lost

(* Every shortage a call has read is in its batch or has a row already,    *)
(* one of type out_of_stock when nothing is left, unless asking failed.    *)
BreachIsRecorded ==
    \A j \in Jobs : \A x \in read[j] :
        /\ x.rule.type = "quantity" /\ x.qty # NoSnapshot /\ x.qty < x.rule.min
        /\ asking[j] = {}
        => LET type == IF x.qty = 0 THEN "out_of_stock" ELSE "low_stock" IN
           \/ <<x.rule, type>> \in batch[j]
           \/ \E i \in Alert : /\ state[i] # "none"
                               /\ SameKey(i, [run |-> 1, rule |-> x.rule, type |-> type])

(* The rows behave as AlertLifecycle allows.                               *)
Lifecycle == INSTANCE AlertLifecycle WITH
                 Alerts <- Alert, Owner <- [i \in Alert |-> i.rule.user]

LifecycleSpec == Lifecycle!Spec

(* As long as digests keep coming to the tenant, every pending alert of a  *)
(* user with a daily digest is mailed, or stops being pending, or the user *)
(* changes the setting: a failed or interrupted digest is made good by a   *)
(* later one.  They do not come to a tenant that stays disconnected or was *)
(* left "syncing"; its alerts wait.                                        *)
Delivered ==
    []<>(dpc = "read") =>
        \A i \in Alert :
            state[i] = "pending" /\ pref[UserOf(i)] = "daily"
                ~> mailed[i] > 0 \/ state[i] # "pending" \/ pref[UserOf(i)] # "daily"

-----------------------------------------------------------------------------
(* What the repository says of its alerts; see the README's findings.      *)

(* docs/ALERTS.md: dismissed, no re-notification until stock recovers (a   *)
(* recovery would end "dismissed").                                        *)
NoAlertWhileDismissed ==
    [][\A i, j \in Alert :
          state[i] = "dismissed" /\ SameKey(i, j) /\ state[j] = "none" => state'[j] = "none"]_vars
=============================================================================
