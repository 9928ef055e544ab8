------------------------------ MODULE TenantSync ------------------------------
(***************************************************************************)
(* Tenants, their Bsale connection and the jobs that copy their inventory  *)
(* (sync/sync-service.ts, sync/tenant-sync.ts, sync/consumption-sync.ts    *)
(* and jobs/sync-job.ts of src/src), with the handlers that connect,       *)
(* reconnect and disconnect a tenant while such a job runs.                *)
(*                                                                         *)
(* A job holds no lock.  It reads the tenants' rows once, and every await  *)
(* between that read and its writes is a point where another job or a      *)
(* handler may change them: the job keeps using the token it read and      *)
(* writes sync_status without looking at it.  An action is what a process  *)
(* does from one await on the database or on Bsale to the next.            *)
(*                                                                         *)
(* A token is identified with the Bsale account it opens, and a stored row *)
(* with the account it was fetched from.                                   *)
(***************************************************************************)
EXTENDS Naturals, FiniteSets

CONSTANTS
    Tenants,
    Accounts,       \* Bsale accounts: a client code and the tokens it grants
    None,           \* NULL
    Nightly,        \* the job of the scheduler
    Manuals,        \* jobs started by POST /api/sync/trigger
    MaxBatches,     \* bound: upsertBatch calls that one inventory takes
    MaxRequests,    \* bound: requests of users
    MaxFaults       \* bound: crashes and errors that abort a job

Jobs == Manuals \cup {Nightly}

ASSUME TenantSyncAssumption ==
    /\ None \notin Accounts
    /\ Nightly \notin Manuals
    /\ MaxBatches \in Nat
    /\ MaxRequests \in Nat
    /\ MaxFaults \in Nat

VARIABLES
    status,     \* tenants.sync_status
    token,      \* tenants.bsale_access_token
    code,       \* tenants.bsale_client_code
    data,       \* the accounts whose stock or sales are stored for a tenant
    \* The local state of each job.
    pc,
    rows,       \* the rows it read and has not come to yet: a token or None
    serving,    \* the tenant it works on
    account,    \* the token it works with
    left,       \* batches it has not stored yet
    verdict,    \* the status its catch block will write
    good,       \* tenants it synced and generates no alerts for yet
    callback,   \* OAuth callbacks between their SELECT and their UPDATE
    requests,
    faults,
    \* The rest only observe.
    held,       \* the accounts whose token a tenant ever had
    whole,      \* the accounts whose inventory was once stored completely
    abandoned,  \* tenants that a crash or an aborted job left "syncing"
    misfiled,   \* tenants given the token of an account they had left
    crossed     \* tenants whose token changed under a job that holds the old one

database == <<status, token, code, data>>
locals == <<pc, rows, serving, account, left, verdict, good>>
ghosts == <<held, whole, abandoned, misfiled, crossed>>
vars == <<database, locals, callback, requests, faults, ghosts>>

SyncStatus == {"pending", "syncing", "success", "failed", "not_connected"}

Callback == [op : {"connect", "login"}, tenant : Tenants, account : Accounts]

Label == {"idle", "lookup", "loop", "work", "catch", "alerts", "consume", "generate"}

TypeOK ==
    /\ status \in [Tenants -> SyncStatus]
    /\ token \in [Tenants -> Accounts \cup {None}]
    /\ code \in [Tenants -> Accounts \cup {None}]
    /\ data \in [Tenants -> SUBSET Accounts]
    /\ pc \in [Jobs -> Label]
    /\ rows \in [Jobs -> [Tenants -> Accounts \cup {None}]]
    /\ serving \in [Jobs -> Tenants \cup {None}]
    /\ account \in [Jobs -> Accounts \cup {None}]
    /\ left \in [Jobs -> 0 .. MaxBatches]
    /\ verdict \in [Jobs -> {"pending", "failed"}]
    /\ good \in [Jobs -> SUBSET Tenants]
    /\ callback \in SUBSET Callback
    /\ requests \in 0 .. MaxRequests
    /\ faults \in 0 .. MaxFaults
    /\ held \in [Tenants -> SUBSET Accounts]
    /\ whole \in [Tenants -> SUBSET Accounts]
    /\ abandoned \in SUBSET Tenants
    /\ misfiled \in SUBSET Tenants
    /\ crossed \in SUBSET Tenants

NoRows == [t \in Tenants |-> None]

(* A tenant is born connected (OAuth signup) or not (magic link).          *)
Init ==
    /\ code \in [Tenants -> Accounts \cup {None}]
    /\ \A t, u \in Tenants : code[t] = code[u] /\ code[t] # None => t = u
    /\ token = code
    /\ status = [t \in Tenants |-> IF code[t] = None THEN "not_connected" ELSE "pending"]
    /\ data = [t \in Tenants |-> {}]
    /\ pc = [j \in Jobs |-> "idle"]
    /\ rows = [j \in Jobs |-> NoRows]
    /\ serving = [j \in Jobs |-> None]
    /\ account = [j \in Jobs |-> None]
    /\ left = [j \in Jobs |-> 0]
    /\ verdict = [j \in Jobs |-> "failed"]
    /\ good = [j \in Jobs |-> {}]
    /\ callback = {}
    /\ requests = 0
    /\ faults = 0
    /\ held = [t \in Tenants |-> IF code[t] = None THEN {} ELSE {code[t]}]
    /\ whole = [t \in Tenants |-> {}]
    /\ abandoned = {}
    /\ misfiled = {}
    /\ crossed = {}

-----------------------------------------------------------------------------
(* updateSyncStatus: one unconditional UPDATE.                             *)
Write(t, s) ==
    /\ status' = [status EXCEPT ![t] = s]
    /\ abandoned' = abandoned \ {t}

StoreFor(t, a) == data' = [data EXCEPT ![t] = @ \cup {a}]

Goto(j, label) == pc' = [pc EXCEPT ![j] = label]

(* The jobs of J are over, and what they knew is gone.                     *)
Reset(J) ==
    /\ pc' = [j \in Jobs |-> IF j \in J THEN "idle" ELSE pc[j]]
    /\ rows' = [j \in Jobs |-> IF j \in J THEN NoRows ELSE rows[j]]
    /\ serving' = [j \in Jobs |-> IF j \in J THEN None ELSE serving[j]]
    /\ account' = [j \in Jobs |-> IF j \in J THEN None ELSE account[j]]
    /\ left' = [j \in Jobs |-> IF j \in J THEN 0 ELSE left[j]]
    /\ verdict' = [j \in Jobs |-> IF j \in J THEN "failed" ELSE verdict[j]]
    /\ good' = [j \in Jobs |-> IF j \in J THEN {} ELSE good[j]]

Fault ==
    /\ faults < MaxFaults
    /\ faults' = faults + 1

(* Variant: tenants whose last sync failed are not listed either.          *)
ActiveUnlessFailed(t) ==
    status[t] \notin {"syncing", "not_connected", "failed"} /\ token[t] # None

(* The WHERE clause of getActiveTenants.                                   *)
Active(t) == status[t] \notin {"syncing", "not_connected"} /\ token[t] # None

(* syncAllTenants reads the rows of every active tenant.  The order,       *)
(* last_sync_at ascending, is left open.                                   *)
ListActive ==
    /\ pc[Nightly] = "idle"
    /\ Goto(Nightly, "loop")
    /\ rows' = [rows EXCEPT ![Nightly] =
                   [t \in Tenants |-> IF Active(t) THEN token[t] ELSE None]]
    /\ UNCHANGED <<database, serving, account, left, verdict, good>>
    /\ UNCHANGED <<callback, requests, faults, ghosts>>

(* POST /api/sync/trigger starts runSyncForTenant and does not await it.   *)
Trigger(j, t) ==
    /\ requests < MaxRequests
    /\ requests' = requests + 1
    /\ pc[j] = "idle"
    /\ token[t] # None
    /\ Goto(j, "lookup")
    /\ serving' = [serving EXCEPT ![j] = t]
    /\ UNCHANGED <<database, rows, account, left, verdict, good>>
    /\ UNCHANGED <<callback, faults, ghosts>>

(* SyncService.syncTenant reads the row again, whatever its status.        *)
Lookup(j) ==
    LET t == serving[j] IN
    /\ pc[j] = "lookup"
    /\ IF token[t] = None
       THEN Reset({j})
       ELSE /\ Goto(j, "loop")
            /\ rows' = [rows EXCEPT ![j][t] = token[t]]
            /\ UNCHANGED <<serving, account, left, verdict, good>>
    /\ UNCHANGED <<database, callback, requests, faults, ghosts>>

(* Variant: the client made for the first tenant serves the whole loop.    *)
SharedClientToken(j, t) == IF account[j] = None THEN rows[j][t] ELSE account[j]

(* createBsaleClient(tenant.bsale_access_token), of the row read up front. *)
ClientToken(j, t) == rows[j][t]

(* syncTenant up to the first write; n batches will be needed.             *)
Begin(j, t, n) ==
    /\ pc[j] = "loop"
    /\ rows[j][t] # None
    /\ Write(t, "syncing")
    /\ Goto(j, "work")
    /\ rows' = [rows EXCEPT ![j][t] = None]
    /\ serving' = [serving EXCEPT ![j] = t]
    /\ account' = [account EXCEPT ![j] = ClientToken(j, t)]
    /\ left' = [left EXCEPT ![j] = n]
    /\ whole' = [whole EXCEPT ![t] = IF n = 0 THEN @ \cup {ClientToken(j, t)} ELSE @]
    /\ UNCHANGED <<token, code, data, verdict, good, callback, requests, faults, held, misfiled, crossed>>

(* Stock, variants and prices are fetched before the first batch is        *)
(* stored, so fetching is part of the first of these steps.                *)
Store(j) ==
    LET t == serving[j]
        a == account[j]
    IN
    /\ pc[j] = "work"
    /\ left[j] > 0
    /\ StoreFor(t, a)
    /\ left' = [left EXCEPT ![j] = @ - 1]
    /\ whole' = [whole EXCEPT ![t] = IF left[j] = 1 THEN @ \cup {a} ELSE @]
    /\ UNCHANGED <<status, token, code, pc, rows, serving, account, verdict, good>>
    /\ UNCHANGED <<callback, requests, faults, held, abandoned, misfiled, crossed>>

AllStored(j) == left[j] = 0

Commit(j) ==
    /\ pc[j] = "work"
    /\ AllStored(j)
    /\ Write(serving[j], "success")
    /\ Goto(j, "loop")
    /\ good' = [good EXCEPT ![j] = @ \cup {serving[j]}]
    /\ crossed' = crossed \ {t \in {serving[j]} : account[j] = token[t]}
    /\ UNCHANGED <<token, code, data, rows, serving, account, left, verdict>>
    /\ UNCHANGED <<callback, requests, faults, held, whole, misfiled>>

(* Variant: a status of its own for what will be retried.                  *)
RetryStatusAfter(kind) ==
    IF kind \in {"rate_limit", "connection"} THEN "retry" ELSE "failed"

(* What the catch block makes of BsaleAuthError, BsaleRateLimitError, an   *)
(* Error whose text speaks of a connection, and anything else.             *)
StatusAfter(kind) ==
    IF kind \in {"rate_limit", "connection"} THEN "pending" ELSE "failed"

(* Any await of the try block throws.                                      *)
Fail(j, kind) ==
    /\ pc[j] = "work"
    /\ Goto(j, "catch")
    /\ verdict' = [verdict EXCEPT ![j] = StatusAfter(kind)]
    /\ UNCHANGED <<database, rows, serving, account, left, good>>
    /\ UNCHANGED <<callback, requests, faults, ghosts>>

(* The first of them, the write of "syncing", does.                        *)
FailAtOnce(j, t, kind) ==
    /\ pc[j] = "loop"
    /\ rows[j][t] # None
    /\ Goto(j, "catch")
    /\ rows' = [rows EXCEPT ![j][t] = None]
    /\ serving' = [serving EXCEPT ![j] = t]
    /\ verdict' = [verdict EXCEPT ![j] = StatusAfter(kind)]
    /\ UNCHANGED <<database, account, left, good, callback, requests, faults, ghosts>>

(* Variant: an error of unknown kind is reported but not recorded.         *)
RecordsOnlyTemporary(j) == verdict[j] = "pending"

Records(j) == TRUE

Catch(j) ==
    /\ pc[j] = "catch"
    /\ IF Records(j) THEN Write(serving[j], verdict[j])
                     ELSE UNCHANGED <<status, abandoned>>
    /\ Goto(j, "loop")
    /\ UNCHANGED <<token, code, data, rows, serving, account, left, verdict, good>>
    /\ UNCHANGED <<callback, requests, faults, held, whole, misfiled, crossed>>

(* The status write of the catch block fails as well: nothing above it     *)
(* catches, and the whole job is gone, alerts of earlier tenants included. *)
CatchThrows(j) ==
    /\ pc[j] = "catch"
    /\ Fault
    /\ Reset({j})
    /\ abandoned' = abandoned \cup {t \in {serving[j]} : status[t] = "syncing"}
    /\ UNCHANGED <<database, callback, requests, held, whole, misfiled, crossed>>

EndLoop(j) ==
    /\ pc[j] = "loop"
    /\ rows[j] = NoRows
    /\ Goto(j, "alerts")
    /\ UNCHANGED <<database, rows, serving, account, left, verdict, good>>
    /\ UNCHANGED <<callback, requests, faults, ghosts>>

(* Second phase, for each tenant that was synced: the row is read again    *)
(* for the consumption sync.                                               *)
ReadToken(j, t) ==
    /\ pc[j] = "alerts"
    /\ t \in good[j]
    /\ Goto(j, "consume")
    /\ good' = [good EXCEPT ![j] = @ \ {t}]
    /\ serving' = [serving EXCEPT ![j] = t]
    /\ account' = [account EXCEPT ![j] = token[t]]
    /\ UNCHANGED <<database, rows, left, verdict, callback, requests, faults, ghosts>>

(* syncConsumption, whose failure is only logged.                          *)
Consume(j) ==
    /\ pc[j] = "consume"
    /\ \/ account[j] # None /\ StoreFor(serving[j], account[j])
       \/ UNCHANGED data
    /\ Goto(j, "generate")
    /\ UNCHANGED <<status, token, code, rows, serving, account, left, verdict, good>>
    /\ UNCHANGED <<callback, requests, faults, ghosts>>

(* Alerts for the tenant's users: module AlertFlow.                        *)
Generate(j) ==
    /\ pc[j] = "generate"
    /\ Goto(j, "alerts")
    /\ UNCHANGED <<database, rows, serving, account, left, verdict, good>>
    /\ UNCHANGED <<callback, requests, faults, ghosts>>

(* getWithNotificationsEnabled is outside of any try.                      *)
GenerateThrows(j) ==
    /\ pc[j] = "generate"
    /\ Fault
    /\ Reset({j})
    /\ UNCHANGED <<database, callback, requests, ghosts>>

Finish(j) ==
    /\ pc[j] = "alerts"
    /\ good[j] = {}
    /\ Reset({j})
    /\ UNCHANGED <<database, callback, requests, faults, ghosts>>

(* The process dies or is shut down; starting it again repairs nothing.    *)
Crash ==
    /\ Fault
    /\ Reset(Jobs)
    /\ callback' = {}
    /\ abandoned' = {t \in Tenants : status[t] = "syncing"}
    /\ UNCHANGED <<database, requests, held, whole, misfiled, crossed>>

-----------------------------------------------------------------------------
(* Handlers.                                                               *)

(* A job has the tenant's row in hand, with another token than a.          *)
Overtaken(t, a) ==
    \E j \in Jobs :
        \/ rows[j][t] \notin {None, a}
        \/ pc[j] = "work" /\ serving[j] = t /\ account[j] # a

Crosses(t, a) == crossed' = IF Overtaken(t, a) THEN crossed \cup {t} ELSE crossed \ {t}

(* Variant: the column has no UNIQUE constraint.                           *)
NoConstraint(t, a) == TRUE

(* UNIQUE on tenants.bsale_client_code.                                    *)
CodeIsFree(t, a) == \A u \in Tenants \ {t} : code[u] # a

(* handleBsaleConnectCallback up to its check for a conflicting tenant.    *)
ConnectCheck(t, a) ==
    /\ requests < MaxRequests
    /\ requests' = requests + 1
    /\ \A u \in Tenants \ {t} : code[u] # a
    /\ callback' = callback \cup {[op |-> "connect", tenant |-> t, account |-> a]}
    /\ UNCHANGED <<database, locals, faults, ghosts>>

(* Variant: connecting leaves the outcome of the last sync standing.       *)
KeptStatus(t) == status[t]

(* The status connectBsale writes: the new account has never been synced.  *)
StatusOfConnected(t) == "pending"

(* connectBsale; the UPDATE fails when the code was taken meanwhile.       *)
ConnectWrite(t, a) ==
    /\ [op |-> "connect", tenant |-> t, account |-> a] \in callback
    /\ callback' = callback \ {[op |-> "connect", tenant |-> t, account |-> a]}
    /\ IF CodeIsFree(t, a)
       THEN /\ code' = [code EXCEPT ![t] = a]
            /\ token' = [token EXCEPT ![t] = a]
            /\ Write(t, StatusOfConnected(t))
            /\ held' = [held EXCEPT ![t] = @ \cup {a}]
            /\ misfiled' = misfiled \ {t}
            /\ Crosses(t, a)
       ELSE UNCHANGED <<code, token, status, abandoned, held, misfiled, crossed>>
    /\ UNCHANGED <<data, locals, requests, faults, whole>>

(* handleOAuthCallback finds the tenant of the account that logs in.       *)
LoginFind(t) ==
    /\ requests < MaxRequests
    /\ requests' = requests + 1
    /\ code[t] # None
    /\ callback' = callback \cup {[op |-> "login", tenant |-> t, account |-> code[t]]}
    /\ UNCHANGED <<database, locals, faults, ghosts>>

(* tenantRepo.update: the token only, by tenant id.                        *)
LoginWrite(t, a) ==
    /\ [op |-> "login", tenant |-> t, account |-> a] \in callback
    /\ callback' = callback \ {[op |-> "login", tenant |-> t, account |-> a]}
    /\ token' = [token EXCEPT ![t] = a]
    /\ held' = [held EXCEPT ![t] = @ \cup {a}]
    /\ misfiled' = IF code[t] = a THEN misfiled \ {t} ELSE misfiled \cup {t}
    /\ crossed' = crossed \cup {u \in {t} : token[u] # a /\ (token[u] # None \/ Overtaken(u, a))}
    /\ UNCHANGED <<status, code, data, locals, requests, faults, whole, abandoned>>

(* disconnectBsale keeps the client code and what was stored.              *)
Disconnect(t) ==
    /\ requests < MaxRequests
    /\ requests' = requests + 1
    /\ token' = [token EXCEPT ![t] = None]
    /\ Write(t, "not_connected")
    /\ misfiled' = misfiled \ {t}
    /\ Crosses(t, None)
    /\ UNCHANGED <<code, data, locals, callback, faults, held, whole>>

-----------------------------------------------------------------------------
JobStep(j) ==
    \/ Lookup(j)
    \/ \E t \in Tenants, n \in 0 .. MaxBatches : Begin(j, t, n)
    \/ Store(j)
    \/ Commit(j)
    \/ \E kind \in {"auth", "rate_limit", "connection", "other"} : Fail(j, kind)
    \/ \E t \in Tenants, kind \in {"connection", "other"} : FailAtOnce(j, t, kind)
    \/ Catch(j)
    \/ CatchThrows(j)
    \/ EndLoop(j)
    \/ \E t \in Tenants : ReadToken(j, t)
    \/ Consume(j)
    \/ Generate(j)
    \/ GenerateThrows(j)
    \/ Finish(j)

Request ==
    \/ \E j \in Manuals, t \in Tenants : Trigger(j, t)
    \/ \E t \in Tenants, a \in Accounts : ConnectCheck(t, a) \/ ConnectWrite(t, a)
    \/ \E t \in Tenants : LoginFind(t)
    \/ \E t \in Tenants, a \in Accounts : LoginWrite(t, a)
    \/ \E t \in Tenants : Disconnect(t)

Next ==
    \/ ListActive
    \/ \E j \in Jobs : JobStep(j)
    \/ Request
    \/ Crash

Spec == Init /\ [][Next]_vars

(* The scheduler starts the nightly job again and again (KeepsRunning of   *)
(* module Scheduler) and a started job takes its next step: its requests   *)
(* have time-outs.  Nobody has to call a handler.                          *)
FairSpec ==
    /\ Spec
    /\ WF_vars(ListActive)
    /\ \A j \in Jobs : WF_vars(JobStep(j))

-----------------------------------------------------------------------------
InService(t) == \E j \in Jobs : pc[j] \in {"work", "catch"} /\ serving[j] = t

(* Whatever is stored for a tenant came from an account that this tenant   *)
(* was connected to, however connections change while jobs run: a job that *)
(* serves many tenants never mixes their inventories or their sales.       *)
Isolation == \A t \in Tenants : data[t] \subseteq held[t]

(* getActiveTenants skips a tenant that is "syncing".  With nobody syncing *)
(* it any more, it is so only because a crash or an aborted job left it    *)
(* behind; no outcome of a sync does.                                      *)
LockedOutOnlyByFault ==
    \A t \in Tenants : status[t] = "syncing" => InService(t) \/ t \in abandoned

(* "success" is said of the account that the tenant is connected to now,   *)
(* and of its whole inventory: neither an incomplete sync, nor one of an   *)
(* account the tenant has left, nor a disconnected tenant shows it.  The   *)
(* exception is a token that changed while a job had the old one in hand   *)
(* (or a login that changed it and left the status alone); it lasts until  *)
(* an account is connected with no such job, or synced as a whole.         *)
SuccessIsOfConnected ==
    \A t \in Tenants : status[t] = "success" => token[t] \in whole[t] \/ t \in crossed

(* No two tenants use one Bsale account, although the callbacks check      *)
(* before they write.  The exception is real: a login that found its       *)
(* tenant before this was connected to another account restores the token  *)
(* of the account it left.                                                 *)
OneTenantPerAccount ==
    \A t, u \in Tenants :
        token[t] = token[u] /\ token[t] # None => t = u \/ t \in misfiled \/ u \in misfiled

(* Every tenant that is connected, whatever the outcome of its last sync,  *)
(* is synced again by a later run or stops being connected.                *)
Served ==
    \A t \in Tenants :
        status[t] \in {"pending", "success", "failed"} /\ token[t] # None
            ~> InService(t) \/ status[t] = "not_connected" \/ token[t] = None
=============================================================================
