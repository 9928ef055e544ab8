# AISku Alerts: a verification project

AISku Alerts copies the inventory of Bsale accounts into PostgreSQL every
night, compares it with the thresholds of its users, and mails them what runs
short.  This directory holds TLA+ models of its core, TLC configurations that
check them on small instances, and proofs, checked by TLAPS, of the
properties that matter most for instances of any size.  Paths below are
relative to `src/` of the repository's application (`src/src` here), those of
`docs/` to the repository.

1. [Inventory](#1-inventory)
2. [Plan](#2-plan)
3. [The modules](#3-the-modules)
4. [Runs, bounds and fairness](#4-runs-bounds-and-fairness)
5. [Findings](#5-findings)
6. [Proofs](#6-proofs)
7. [What is only model-checked, and what is not modelled](#7-what-is-only-model-checked-and-what-is-not-modelled)

## 1. Inventory

One Bun process serves HTTP and runs four schedulers.  It is single-threaded,
so the unit of atomicity is what runs between two `await`s; a database
statement is atomic, and hardly any operation is a transaction.  All state
that survives the process is in PostgreSQL.  Other state: timers, in-memory
stores of the rate limiters and of OAuth states.

| Component | State | Operations | Hard because | Correct if |
|---|---|---|---|---|
| Scheduler (`scheduler/`) | `running`, `timerId`, a timer, a job under way | `start`, `stop`, `runNow`, time-out, settle | `stop` and `start` come while the job runs and re-arms itself; off-by-one at the hour | one chain; silent after `stop`; due exactly when the hour came; never dies |
| Tenant sync (`sync/`, `jobs/sync-job.ts`, `api/handlers/sync.ts`) | `tenants.sync_status`, tokens, snapshots, each job's list | nightly job over all tenants, manual job for one, error kinds, disconnects | rows read once and used for hours; jobs beside each other; errors inside `catch`; a process that dies | tenants never mix; nobody locked out; success is of the account connected now, as a whole |
| Bsale connection and login (`api/handlers/bsale-connection.ts`, `oauth.ts`) | `bsale_client_code`, `bsale_access_token` | connect, log in, disconnect | check-then-write | one tenant per account |
| Alert generator (`alerts/alert-generator.ts`) | a call's list of breaches | load thresholds, examine, look for an alert, insert | look-then-insert without constraint | duplicates only by overlap; every breach recorded |
| Alerts table, routes (`db/repositories/alert.ts`, `api/routes/alerts.ts`) | `alerts.status` | raise, mark sent, dismiss | three writers that do not look at the status | rows move as `AlertLifecycle` allows |
| Digest (`jobs/digest-job.ts`, `email/resend-client.ts`) | what it read and carried | read, mail with retries, mark | mail and mark cannot be one step | delivered in the end, twice only after a fault |
| Settings, thresholds (`api/routes/settings.ts`, `thresholds.ts`) | `digest_frequency`, thresholds | change, create, delete | change while jobs run | as above |
| Billing (`billing/`, `api/handlers/billing.ts`) | `users.subscription_*`; MercadoPago's own | checkout, cancel, webhook, poll | each asks MercadoPago, awaits and writes what is old by then; webhooks repeat, fail, overtake | the row agrees with MercadoPago when the news have settled |
| Magic links (`api/handlers/magic-link.ts`) | link rows | request, verify, sign up | count-then-insert; verify-then-use; a sign-up that stops half-way | single use; hourly limit; one user per e-mail |
| Sessions and memberships (`api/middleware/auth.ts`, `api/handlers/oauth.ts`) | `sessions`, `user_tenants` | open, check, expire, add a tenant | several statements without transaction; accounts that move between tenants | a session works on the tenant its user was made for; an account is added to one user |
| Tenant list and switch (`api/routes/tenants.ts`, `api/handlers/tenants.ts`, `tenant-switch.ts`) | | | | not modelled: served by no route (section 7) |
| OAuth state store (`utils/oauth-state-store.ts`) | states with expiry | set, consume, sweep | replayed and late callbacks; a state that Bsale does not send back and a cookie must carry | a state is consumed once, in time; who comes back with its cookie finds it |
| Way to a handler (`server.ts`, `utils/csrf.ts`, `utils/rate-limiter.ts`, `api/middleware/rate-limit.ts`, the routes that set cookies) | cookies, time stamps per client, CSRF tokens | route, check, admit, sweep, prolong | three lifetimes that must stay in step; the boundary of the window; sweeps between requests | no window over its limit; who is signed in can act |
| Stock of an account (`bsale/client.ts`, `sync/tenant-sync.ts`, `db/repositories/stock-snapshot.ts`) | a page's offset, a run's list, `stock_snapshots` | page, retry, look up, store in batches | the list changes between pages; two runs write one day; `NULL` offices are never equal | success means fresh rows; no step backwards |
| Consumption and velocity (`sync/consumption-sync.ts`, `db/repositories/daily-consumption.ts`, `alerts/velocity-calculator.ts`, `services/velocity-calculator.ts`) | `daily_consumption`, snapshots of a week | page documents, add up days, forecast | a window that cuts days in two; voided documents; rounding | complete days are right; an alert is what the snapshots say |
| Inventory page (`frontend/pages/Products.tsx`, `api/routes/thresholds.ts`, `db/repositories/threshold.ts`) | the page's copy, an open editor, requests under way | load, edit, apply to a selection, delete, leave | answers out of order; a copy that decides what is sent | a row shows its own threshold and gets one; a bulk run ends |
| Threshold limits (`billing/threshold-limit-service.ts`) | none | count | | not modelled (section 7) |
| Migrations (`db/migrate.ts`) | `schema_migrations` | apply, record | two processes at start-up | not modelled (section 7) |
| Dashboards, templates, configuration, logging, other pages | none of their own | read, render | not state machines | not modelled |

How they interact: the schedulers start the sync job and the digest job; the
sync job reads tenants, fetches from Bsale, writes snapshots and status, then
calls the generator, which writes alerts; the digest job reads alerts and
settings, mails, and writes alerts.  HTTP handlers write the same rows at any
time: connections, thresholds, settings, dismissals, subscriptions.  There
are no locks and no version columns anywhere; the database's constraints are
the only arbitration.  The hazards that follow from this are listed, line by
line, in `PROJECT.json`.

## 2. Plan

In order of importance.  All of these modules exist.

1. **Scheduler**, with **SchedulerProofs**: the clock under everything else.
2. **TenantSync**, with **TenantSyncProofs**: jobs, connections and errors.
3. **AlertFlow**, refining **AlertLifecycle**, with **AlertFlowProofs**:
   generator, digest, dismissals.  AlertFlow abstracts TenantSync to the
   status and the token of one tenant and to the snapshots it may store.
4. **Billing**, with **BillingProofs**.
5. **Accounts**, with **AccountsProofs**: magic links, sign-up, sessions,
   tenants and memberships, the Bsale callback and its state store, over one
   users table.
6. **RateLimiter**, refining **SlidingWindow**, and **Gate** on top of it,
   with **GateProofs**: what every request passes, and what it does to the
   cookies.
7. **Inventory** and **Consumption**: the inside of the two halves of a sync,
   which TenantSync takes as steps; **Velocity**, what the alert generator
   makes of the snapshots; **DailyConsumption**, which extends it by the
   documents and the table that a sync of consumption fills, and is extended
   by Consumption; with **StockProofs**.
8. **ProductsPage**, with **ProductsPageProofs**: the browser's side of the
   thresholds.

What could follow: the reset of alerts, once the jobs call it.

The modules are written for both tools: parameters are CONSTANTS with named
assumptions, one action per statement or await, invariants are conjunctions of
named parts, and no module uses a RECURSIVE operator.

## 3. The modules

An action is what a process does from one await on the database or on another
service to the next.  Where the code catches an error, the error is an action
of its own.  `PROJECT.json` maps each definition to the lines it stands for.
Definitions called "Variant" are what a plausible slip of that code would be;
nothing in the specifications uses them, they show that the properties notice.

**Scheduler** (`scheduler/scheduler.ts`).  A *chain* is a timer and then the
job it starts, which at its end arms the next timer.  `Start`, `Stop`,
`RunNow`, `Fire` and `Settle` are the methods and callbacks; `NextDelay` is
`calculateNextRunTime`, including its comparison `next <= now`.  Time is a
day of `Day` ticks.  `overlapped` only observes that `start` or `runNow` was
called when a job was running, or `runNow` on a started scheduler.

**TenantSync** (`sync/*.ts`, `jobs/sync-job.ts`, the connection handlers).
Each job goes through its labels: a nightly one reads all active tenants
(`ListActive`), a manual one is triggered for one (`Trigger`, `Lookup`); a
tenant is begun, stored batch by batch and committed, or fails with one of the
kinds of error that `tenant-sync.ts` tells apart; the `catch` block writes the
status, or throws and aborts the job (`CatchThrows`).  Then consumption is
synced with the token that is *re-read* by then.  `ConnectCheck`,
`ConnectWrite`, `LoginFind` and `LoginWrite` are the two halves of the
callbacks, with other steps between them.  A token is identified with its
account, a stored row with the account it came from: this is what `Isolation`
is about.  `crossed` only observes: tenants whose token changed while a job had
another one in hand, or by a login, which leaves the status alone.

**AlertFlow** (`alerts/alert-generator.ts`, `jobs/digest-job.ts`,
`db/repositories/alert.ts`).  One tenant, several users.  The nightly job and
the digest list the tenant if it is `Active`, the condition of
`getActiveTenants`: neither syncing nor disconnected, and with a token; a
manual job asks for a token only.  Between this and its turn (`SyncBegin`) the
row may change: `Disconnect`, `Connect` and `Login` are the tenant's three
writers.  A sync ends with a status (`SyncEnd`, `SyncFails`) or leaves
"syncing" behind (`SyncAborts`, `Crash`).  A job generates
alerts user by user: `LoadRules`, `Examine` a threshold, `Ask` whether such an
alert is pending, `Insert` all of them.  The digest reads, mails (`SendWorks`,
`SendFails`: either may have delivered copies), and marks.  `Crash` clears
what lives in memory.  The generator's dependencies are those that
`jobs/sync-job.ts` wires: it can look for pending alerts and for nothing else.
Velocity is reduced to whether it is alarming.

**AlertLifecycle** is the abstract specification: alerts are raised once,
mailed to their owner after that, marked only once mailed, dismissed at any
time.  It does not say that a dismissed alert stays so, because the code does
not (section 5).  AlertFlow implements it under the identity mapping
(`LifecycleSpec`).

**Billing** (`billing/*.ts`, `api/handlers/billing.ts`, the subscription
columns of `db/repositories/user.ts`).  MercadoPago is modelled as the code
uses it: preapprovals with a status, a payer and a next payment date, and
notifications that are repeated until they are answered 200.  `Checkout`,
`CancelRead`/`CancelGet`/`CancelUpdate`/`CancelWrite`, `HookRead`/`HookWrite`
and `PollRead`/`PollAsk`/`PollWrite` are the awaits of the four requests.
`events` numbers the changes at MercadoPago; an answer remembers the number at
which it was given, which no code does: it serves to say that an answer is
older than another.  `next_payment_date` is taken to be present; without it
the code writes the present time.

**Accounts** (`api/handlers/magic-link.ts`, `oauth.ts`,
`api/middleware/auth.ts`, the repositories of users, tenants, memberships,
links and sessions).  A browser is a cookie and at most
one request at a time; `req[b].at` names the await that its request has
reached, the other fields are its local variables.  Verifying a link is
`VerifyFind`, `MarkUsed`, `VerifyLookup`, then either a session or the three
inserts of a sign-up; the Bsale callback is `CallbackBegin`, `CallbackFind`
and then a login (`LoginFind`, `LoginCreate`) or a tenant added to the user
who is signed in (`CheckAccess`, `AddToken`; `AddTenant`, `AddMember`).  Any
of these statements may fail (`Fail`), which leaves those before it done; an
end of the process is a `Fail` of every request with a `Forget` of every
OAuth state.  Time is an age per row: a link is valid, expired, or too old to
count for the hourly limit; a session is fresh, old enough to be prolonged,
expired, or deleted.  Whether a browser sends its cookie on the way back from
Bsale is left open (`sent`).  Tokens of Bsale accounts and the race between
two connections are TenantSync's, so here a tenant connects in one step
(`Connect`), once a user whose home it is has signed in: the tenant of a
connection is `authContext.tenantId`, which is the home of the session's user.  `overlapped`, `opened`, `reopened` and `told` only
observe.  `users.last_tenant_id` is written and never read, so it is left out.

**RateLimiter** (`utils/rate-limiter.ts`).  `Check` drops what left the
window, compares and adds; `Cleanup` is the interval that drops entries; a
restart empties the store.  A key is a limiter and a client.  `admitted`
only observes.  **SlidingWindow** is the abstract specification: at every
moment it refuses exactly the clients whose window, in everything that was ever
admitted, is full.  RateLimiter implements it although it forgets
(`ImplementsSlidingWindow`): `refused` of SlidingWindow is mapped to whom
`check` would refuse now by what is stored.  This says more than `WindowBound`,
which a limiter that refuses too many would satisfy: the variant `PushedAlways`
keeps the bound and fails the refinement.

**Gate** (`server.ts`, `utils/csrf.ts`, `api/middleware/auth.ts`, the routes
of sessions and of connections) extends RateLimiter.  Requests that Bun's table
of routes answers (`Table`) meet neither CSRF check nor limiter; the others
(`ByFetch`) meet both, the CSRF check first, so a 403 is not counted.  A
handler that changes a cookie, a session or a connection is an action, all
others are `OnlyAnswers`.  A session has a row with an expiry and a cookie
with another; the CSRF cookie holds a token that carries its own.
`Authenticate` prolongs the row; no route that is served passes the new
lifetime on to the browser (`AnswerJar`).  `Connect` and `Connected` are the
two ends of a connection at Bsale.  Its state is in the memory of the process
(`states`), where it expires and is consumed once, and travels in a cookie of
the browser (`state`), which a new attempt overwrites and every answer of the
callback clears (`StateCleared`).  `forgotten` only observes the states that a
restart lost.  That a code is good only with the verifier of its own flow
(PKCE) is for Bsale to check and not in the model.  Answers arrive in the tick of their request, and the clock does
not run backwards.  The limiter of the manual sync is one more key and left
out.

**Inventory** (`bsale/client.ts`, `sync/tenant-sync.ts`,
`db/repositories/stock-snapshot.ts`).  One account whose list of stock moves,
grows and shrinks (`Move`, `List`, `Delist`) while two runs page through it
(`Page`, `PageFails` with its retries), look up names and prices (`LookUp`)
and store in batches (`Write`, `WriteFails`).  `Refused` is what
`upsertBatch` and PostgreSQL do not take: a quantity that is negative or
fractional, and one row twice in a statement.  `Stored` is the upsert with
the identity of rows by variant, office and day, which an item without office
does not have.  `witness` only observes: what was on the list while a run was
reading.  Bsale is assumed to list an item once.

**DailyConsumption** (`db/repositories/daily-consumption.ts`) has the variables
of the sync, their types, and what the table promises; **Consumption**
(`sync/consumption-sync.ts`) the operations.
Time in half days, so that the window of documents can begin at noon; sales
that are issued and voided; a run pages through those that are valid
(`Page`, with the two conditions that end it in `IsLast`), adds them up by day
(`Aggregated`) and inserts.  The upsert never finds a conflict, because the
rows have no office.  `noted` only observes: what had been sold when a sync
began, and whether a document was voided while it paged.  A sync stores the snapshot of the day before it pages.

**Velocity** (`alerts/velocity-calculator.ts`, `getHistoricalSnapshots`).
`ShouldAlert` is the forecast of the velocity check, in integers, with the
roundings of the code.  The module has the clock and the snapshots as its
variables and no actions: those are Consumption's.  `HistoryDays` is 7 in the
code; up to 200 days, a fall of one unit is still a rate that is not rounded to
zero, and beyond that `AlertIsForecast` would be false.

**ProductsPage** (`frontend/pages/Products.tsx`, `frontend/api/client.ts`,
`api/routes/thresholds.ts`).  `flight` holds the requests under way, each
with the rows that a bulk run has still to send (`rest`), and whether the
page that sent it is still mounted (`live`).  The user opens, edits, applies,
deletes and leaves; the server serves the statements of `POST`, `PUT` and
`DELETE` one by one (`Create`, `Check`, `Update`, `Delete`); a request fails
before or after it was carried out (`Fail`); an answer updates the copy
(`AnswerSave`, `AnswerDelete`).  `excused` only observes: rows whose copy may
be off because saves overlapped, one failed, or the page was loaded anew.

**MC modules** give TLC what a configuration file cannot: sets of thresholds,
limits by key, a first list of stock, and symmetry.

## 4. Runs, bounds and fairness

| Run | Shows | Bounds and why they are enough |
|---|---|---|
| `scheduler` | `SingleChain`, `StopSilences`, `DueIffOccurred`, `KeepsRunning` | Three chains: an overlap needs two, and a third would be the unwanted one. A day of four ticks has a tick before, at and after the hour. No other bound: the state space is finite |
| `tenant_sync` | `Isolation`, `LockedOutOnlyByFault`, `SuccessIsOfConnected`, `OneTenantPerAccount` | Two tenants and two accounts (to be mixed), the nightly and one manual job (to overlap), one batch beside the remainder, two requests (a check needs one in between), one fault |
| `tenant_sync_live` | `Served` | The nightly job alone, one request, one fault |
| `alert_flow` | `DuplicatesOnlyFromOverlap`, `RemailOnlyAfterLostMark`, `BreachIsRecorded` | One user with one threshold that can raise two alerts, two runs by two jobs, quantities 0 to 2 around a minimum of 2, one fault. Nobody changes settings or the connection here: `alert_live` has that |
| `alert_live` | `LifecycleSpec`, `Delivered` | One user with one threshold of one quantity, the nightly job and the digest, two runs (an alert, and one beside it), one fault, two changes: a disconnection and a connection, or a setting and its return |
| `billing` | `RowAgrees`, `PayerHasPlan` | Two subscriptions of one user (two users never meet in a row), two requests in flight (to overtake each other), four changes: authorize, end, and the same again; three requests by the user |
| `accounts` | `OneUserPerEmail`, `OneSessionPerLink`, `LimitHolds`, `AccountAddedToOne`, `SessionsAllowed` | Two browsers (to overlap), one e-mail and two Bsale accounts (which bring users of their own, so that users meet over an account that moves), two users, three tenants (a home for each and one that is added), two links with a limit of one, two sessions, five requests: asking and verifying twice, and one more. Browsers and accounts are interchangeable |
| `gate` | `WindowBound`, `RetryAfterHonest`, `SignedInPassesCsrf`, `ReturningIsHonoured`, `ImplementsSlidingWindow` | One browser (browsers meet only in a limiter's key, which one browser can fill by itself), two sessions and two connections (the second overwrites the cookie of the first), a limit of two and one of one; a window, a lifetime and the life of a state of two ticks in a clock from 0 to 3: something expires, and something follows it |
| `inventory` | `FreshAfterSuccess`, `RefusedOnlyForCause`, `NeverBackwards` | Three items, one without office, of which one is listed at first; pages of one item (every change can be between two pages) and batches of two (one batch can hold an item twice); two runs, to overlap; two days; two changes; two attempts; quantities -1, 0 and 1 |
| `consumption` | `CompleteDaysRecorded`, `AlertIsForecast` | Three days and a window of two, so that a day leaves it; pages of one document; two documents of one or two pieces, one of which is voided; two runs; a stock of five, enough for rates that are whole and rates that are not |
| `products_page` | `RowsShowTheirOwn`, `SavedAgainIsUpdated`, `BulkReachesAll` | Two rows (an answer can go to the wrong one), two settings, two thresholds, two requests under way, three saves: one, another that overlaps or follows it, and a deletion |
| `alert_dismissed` | the finding of section 5 | the smallest instance that shows it |

`tenant_sync`, `alert_flow`, `billing`, `accounts` and `inventory` also check
`TypeOK`, and `consumption` `ConsumptionTypeOK`.  In the other modules it is proved, or left
to TLC's own errors.

`CHECK_DEADLOCK FALSE` is given where runs, changes, days or requests are
counted: when the bounded number is used up the system rests, as it does
between requests.  Scheduler, TenantSync, Accounts, Gate and ProductsPage are
checked for deadlock.

**Fairness.**  `Scheduler`: time passes, a due timer fires and a job that was
started settles, since every request in it has a time-out.  Nobody is obliged
to call `start`, `stop` or `runNow`.  `TenantSync`: the scheduler starts the
nightly job again and again, which is `KeepsRunning`, and a started job takes
its next step.  `AlertFlow`: the same for both jobs; and strong fairness of a
delivering send, for each user: mail that is tried day after day gets through
one day.  Without it a provider that always fails would refute `Delivered`,
and no code could help.  `Delivered` is claimed if digests come to the
tenant again and again, as they do every day to a tenant that is connected and
between two syncs: no digest comes to one that stays disconnected, has no
token or was left "syncing" (section 5).  `ProductsPage`: the server
carries out or refuses every request that reached it, and every request is
answered, if only by an error; nothing is assumed of the user, who may leave
the page in the middle of a bulk run.

**What the properties say.**  `Isolation`: what is stored for a tenant came
from an account it was connected to, although a job keeps using tokens it
read hours before.  It does not say that the account is still the tenant's:
`SuccessIsOfConnected` does.  A tenant that shows "success" has the whole
inventory of the account it is connected to now, so no success of an earlier
account survives a connection or a disconnection, and none is written before
the last batch.  It has one exception, a defect of the design (`crossed`): a
job that had another token in hand when the token changed writes its success
over "pending" or "not_connected", and a login changes the token without the
status.  `LockedOutOnlyByFault`: "syncing" without a sync is left
behind only by crashes and aborted jobs.  `DuplicatesOnlyFromOverlap`: two
pending alerts of different runs about one thing come from overlapping calls
of the generator.  `RemailOnlyAfterLostMark`: an alert is delivered twice only
if its mark was lost, or the provider reported a failure after delivering.
`RowAgrees`: once MercadoPago has no notification left to repeat, the row of a
user says what MercadoPago says of the subscription, the date included,
whichever of webhook, cancellation and poll came first and whatever failed.
It has one exception, which is a defect of the design that the repository
promises nothing about: rows have no version, so an answer that is older than
the last one written may be written after it (`crossed`).  `PayerHasPlan`: who
pays has the plan, with that exception and one more (`doubled`): a user who
authorized two subscriptions pays twice, and the row names the one that was
heard of last, so when that one ends the plan ends although the other is paid.
`OneUserPerEmail`, `OneSessionPerLink`, `LimitHolds`: no constraint of the
database and no transaction stands behind these; they hold because each
request looks before it writes, so each is broken only by two requests that
look before either writes (`overlapped`), and never by a failure in between.
`AccountAddedToOne`: callbacks look for the tenant of an account and act on it
later, and a request that ends between the tenant and its membership leaves an
owner without membership, which a repetition does not repair; all the same no
two users are told that one account was added to theirs.  `SessionsAllowed`: a
session that has a tenant is of a user made for that tenant, although a login
looks the tenant up by an account that may have moved when the user is looked
up, and accounts leave users behind where they were.
`WindowBound` holds at every moment of the clock and not only when the limiter
looks; `RetryAfterHonest` says that the advice given with a 429 is exact, up to
others who use the same address in the meantime.  `SignedInPassesCsrf`: a
browser whose session is accepted always has a token that is.  It holds because
the cookie of the session is never prolonged; the variant `RefreshedJar` shows
that passing on the prolonged lifetime, as `createRefreshCookies` is written to
do, would leave users signed in and refused.  `ReturningIsHonoured`: the state
in the cookie with which a browser comes back from Bsale is still in the store,
after any other attempts and answers; only a restart loses it.
`FreshAfterSuccess`: pages are windows of a moving list, so an item taken off
the list on an earlier page hides another; if none was, every item that was
there all along has a row of the day, with a quantity it had while the run that
wrote the row was reading.  `RefusedOnlyForCause`: a batch is refused because
of a bad quantity, or of an item that joined the list and pushed another onto
the next page.  `NeverBackwards`: the latest row of an item is never one of a
run that had ended before a later successful run began; it is about items with
an office, since rows without one are inserted again and not replaced, so that
which of them is latest is undetermined.  `CompleteDaysRecorded` is about days
that lie wholly in the window of a run, and about that run's rows; `AlertIsForecast`
compares the code's rounded forecast with the exact one, in both directions, up
to the rounding.  It leaves open what happens when the stock lasts exactly the
warning time, on which the code and the schema disagree (section 5).
`SavedAgainIsUpdated` has the three exceptions that `excused` observes; the
third, a page that was loaded anew, is a defect (section 5).

## 5. Findings

- **Dismissed alerts are raised again** (`alert_dismissed`).  `docs/ALERTS.md`
  says that a dismissed alert is not raised again until stock recovers.  Both
  jobs give the generator only `hasPendingAlert`, so the next run raises it.

Met while modelling.  The models have these as the code does; no run is
devoted to them.

Alerts and digests:

- The settings accept "weekly" and `docs/API.md` documents it; no scheduler
  runs the digest with that frequency (`jobs/digest-job.ts:84`), so weekly
  users are never mailed.
- `docs/ALERTS.md` compares with `<=`, the code with `<`.  So does the schema
  of the velocity check: `days_warning` is "Alert when days-to-stockout <= this"
  (`db/schema.sql:82`), while `checkVelocityAlert` alerts "if below this"
  (`alerts/velocity-calculator.ts:113`, `:175`).  Thresholds in days
  are read and never breached, because neither job gives the generator the
  dependency it needs.  The reset after a recovery (`alerts/alert-reset.ts`)
  is called by nothing.
- The digest lists its tenants as the sync does, with `getActiveTenants`
  (`jobs/digest-job.ts:99`, `db/repositories/tenant.ts:115`): the pending alerts
  of a tenant that is disconnected, or happens to be syncing, are not mailed.
- `markAsSent` turns an alert that was dismissed in the meantime to "sent".
- The digest mail says that thresholds beyond the plan's limit raise no alerts
  (`email/templates/daily-digest.ts:85`), and `/api/thresholds` marks them
  inactive; the sync job reads all of them (`jobs/sync-job.ts:125`, `:214`).
- `createBatch` refuses more than 1000 alerts, and the generator does not
  split (`db/repositories/alert.ts:96`).  `getWithNotificationsEnabled` is
  called outside any `try` (`jobs/sync-job.ts:210`), so its failure ends the
  job for the tenants that are left.

Sync:

- The status "pending for retry" is written inside the `catch` block to the
  database that has just failed (`sync/tenant-sync.ts:161`).  If that write
  throws, the tenant stays "syncing" and no later run picks it up; nothing
  resets it at start-up either.
- A user who disconnects, or connects another account, while the tenant is
  synced finds "success" written over it (`sync/tenant-sync.ts:135`), with rows
  of the old account.
- A login after a disconnect restores the token and leaves the status
  "not_connected" (`api/handlers/oauth.ts:172`).
- Sales are stored without an office, and `UNIQUE` does not constrain `NULL`,
  so each night inserts the week again (`sync/consumption-sync.ts:57`).
  `docs/ALERTS.md:71` divides the week's sales by 7; the code averages over
  rows, of which a day may have several (`daily-consumption.ts:207`).
  Consumption is written in one statement, however long.
- A fractional quantity fails the INTEGER columns; one of stock therefore
  fails the sync of its tenant.

Accounts and cookies:

- Adding a tenant signs the user out: the handler returns an empty session
  token, "Return without creating new session (user is already
  authenticated)" (`api/handlers/oauth.ts:161`), and the route puts it into the
  cookie (`api/routes/oauth.ts:102`).
- `POST /api/auth/logout` is answered by the route of `api/routes/auth.ts`,
  which empties the session cookie and leaves the row and the CSRF cookie, so
  the one in `api/routes/oauth.ts` that deletes the row is not reached.
- Comments promise a sliding window of seven days (`api/routes/oauth.ts:100`);
  only the row slides, the cookie ends after seven days.
- A Bsale login to a tenant that exists makes the user `admin@` with the
  account's code without a membership in it; the sign-up of an unknown Bsale
  account looks a user up under an empty tenant id, which PostgreSQL rejects.
- A tenant that was created before its membership failed is the user's without
  a membership (`api/handlers/oauth.ts:153`): a repetition finds the tenant and
  adds none.
- The connection routes answer 401 on the message "Not authenticated", which
  nothing throws: who is signed out gets a 500.

Front end:

- The page sends a snapshot row's UUID as `productId`, which `docs/API.md:559`
  calls a Bsale variant, and the server stores `parseInt` of it, or NULL
  (`api/routes/thresholds.ts:167`): a threshold of another variant, or one
  that the generator skips.  On loading, thresholds are matched by variant
  against UUIDs, so no row ever shows its own, and saving it again creates a
  second one.  ProductsPage keeps the row a threshold was set on.
- The client parses the empty 204 of a deletion as JSON, so the page keeps the
  row although it is gone.  Any answer closes whatever editor is open.
- `digestFrequency` is stripped by the client's schema (`client.ts:50`) while
  the settings page shows success.
- `/api/tenants` is served by no route of `server.ts`, so the tenant switcher
  is answered 404; a logout that fails signs the page out all the same.

## 6. Proofs

All theorems hold for every value of the constants that satisfies the
module's assumption (`SchedulerAssumption`, `TenantSyncAssumption`,
`AlertFlowAssumption`, `BillingAssumption`, `AccountsAssumption`,
`RateLimiterAssumption`, `GateAssumption`, `KeysAssumption`,
`BoundsAssumption`, `ProductsAssumption`, `NoneAssumption`,
`InventoryAssumption`, `VelocityAssumption`, `DailyConsumptionAssumption`:
distinct NULLs, bounds that are
numbers, a finite set of rows, a list of stock that names an item once).  Each follows the same path: an
invariant, `IInv` in most modules, holds initially, every step of `Next` keeps
it, and it implies the property.

- **SchedulerProofs**: `TypeCorrect`, `OneChain`, `StopIsFinal`, `DueOnTime`.
  `ChainInv` says which chain the scheduler's `timerId` belongs to, without
  which `Stop` could leave a timer behind; `ClockInv` relates each delay to
  the time of day, and the lemmas on `NextDelay` do the modular arithmetic
  for any length of day.
- **TenantSyncProofs**: `TypeCorrect`, `TenantsAreIsolated`,
  `NoSilentLockout`, `SuccessMeansConnected`, `AccountsAreExclusive`.
  `IsolationInv` adds what jobs and callbacks hold in memory: a token a job
  read was once its tenant's.  `WholeInv` says of every token that a job has in
  hand that it is still the tenant's, or that what it may write does no harm
  since the tenant's account is whole too, or that the change is observed
  (`Fits`); without it a job could write its success over a new account.
  `CodeInv` ties tokens to client codes.
- **AlertFlowProofs**: `TypeCorrect`, `DuplicatesNeedOverlap`,
  `RemailNeedsLoss`, `BreachesRecorded` and `ImplementsLifecycle`, the
  refinement step by step.  `OverlapInv` is the heart of the first: what a call
  has in its batch was not pending when it looked, so an alert that is pending
  now was inserted by a call that was already under way.  `DigestInv` says
  that what the digest carries was mailed to its owner or marked, `ReadInv`
  where a threshold that was read has got to.
- **BillingProofs**: `TypeCorrect`, `RowsAgree`, `PayersHavePlan`.  The
  notification of a subscription's latest change stays owed until an answer
  at least as new as the change was written (`AckInv`); an answer that new
  says what MercadoPago still says (`Fresh`).  So once nothing is owed, an
  answer older than the change is older than something written, and changes
  the row only by crossing.  `Apart` and `DoubleInv` do the same for two
  subscriptions of one user.  Type correctness needs the invariant too: that
  the observers hold only users follows from `KnownInv`, which says that a
  preapproval anybody asks about has a payer.
- **AccountsProofs**: `TypeCorrect`.  An insert takes its values from a
  request's variables, so the types need `RefInv`: at each stage those
  variables refer to rows that exist.  It holds because no step removes a row
  (`Stays`) and a browser's step leaves the requests of the others alone.
  Then `OneUser`, `OneSession`, `LimitKept`, `AccountAddedOnce`,
  `AllowedTenants`, each from an invariant of its own.  The first three say
  who is between looking and writing: unless two requests overlapped, at most
  one request signs an e-mail up, and then nobody has it (`SignUpInv`); at
  most one holds a link, none once it has opened a session, and past its first
  step the link is used (`HolderInv`); at most one is about to create a link,
  and there is room for it (`LimitInv`).  `OwnerInv` says
  that whoever was told or recorded, and whoever will be next, owns the tenant,
  that an account has one tenant, and that a tenant gets an owner once: so the
  check of the membership lets nobody in but the owner.  `AllowedInv` adds what
  a request that is about to open a session knows.
- **GateProofs**: `LimiterImplementsWindow` of RateLimiter alone,
  `GateImplementsWindow`, `GateIsBounded`, `GateRetryIsHonest`,
  `SignedInCanAct`, `StatesOutliveCookies`.  What is still in the window is
  still stored, and nothing is stored that was not admitted (`StoreInv`), so
  deciding from the store is deciding from the history, whatever was swept
  (`RefusedIsFull`, of which the refinement follows step by step).
  The bound holds for windows that ended long ago because nothing is admitted
  into the past.  For the CSRF token: a session cookie never outlives the
  token given with it.  For the connections: a
  cookie that is still sent has its state in the store, does not outlive it,
  and is the only cookie of that state, so that no other answer consumes it
  (`StateInv`).
- **ProductsPageProofs**: `TypeCorrect`, `ShownIsTrue`, `OneThresholdPerRow`.
  A request, a target still to be sent and the copy of a row name thresholds
  of that row only (`FlightInv`, `ShownInv`).  A row that is not excused has at
  most one save outstanding, on the mounted page or none (`OnceInv`); so what
  it wrote is still in the table when its answer arrives (`SavedInv`), and as
  long as the page knows of no threshold of the row there is none (`FewInv`).
- **StockProofs**, of Inventory: `TypeCorrect`, `Fresh`, `RefusalsHaveCause`,
  `LatestNeverOlder`.  The invariant follows a run through the list it pages.
  Its offset splits the list of the account: what it has read is not listed
  behind the offset unless an item slipped in (`ReadOnce`), and what it has
  not read is, unless an item was taken off (`NoneMissed`).  Neither property
  is inductive without this, since each says only how a run ends.  `SeenInv`
  says that what is read, or may be read yet, is a quantity the item had
  while the run was reading.  Every place of the run's list up to `written`
  has a row (`WrittenInv`), though not one that the run need have written: a
  run beside it may write the same day again, with what it has seen.  `PriorInv` says
  that runs which were over when another began are of no later day, and that
  their rows are gone where the other has written.  The lemmas `Inserted` and
  `Removed` say what a change of the list does to the places behind it.
- **StockProofs**, of Consumption: `SalesTyped`, `DaysAreComplete`, with the
  hypotheses that the window `Days` and `OpeningStock` are numbers.  The list
  that Bsale pages through is compared with itself before and after a sale or
  a voiding: it is what Matching's recursion over the documents makes it
  (`ListOf`), a sale can only prolong it (`ListGrows`).  So while nothing is
  voided, what a run has read is the list up to its offset (`PagedInv`), and
  at the end every document of its window once (`ReadWholeInv`).  A whole day
  inside the window is then read as it was sold (`ReadIsSold`), each document
  one time, and the two sums are over the same terms.  Once written, the rows
  stay (`BookedInv`).  Sums and lists are folds; that a sum is a number and a
  list exists is proved by induction over sets of numbers (`HasAll`), in which
  the statement to be proved is a set and not an operator.
- **StockProofs**, of Velocity, over the snapshots of Consumption:
  `VelocityIsForecast`.  No snapshot is of a day to come (`SnapshotInv`), so a
  history of two has an oldest and a newest, at most `HistoryDays` apart;
  `RoundedBelow` turns each of the code's roundings into an inequality without
  a quotient, and `RateIsNotZero` is where the 200 days are needed.

## 7. What is only model-checked, and what is not modelled

The liveness properties (`KeepsRunning`, `Served`, `Delivered`,
`BulkReachesAll`) and the refutation are checked by TLC only: liveness under
fairness is out of the prover's reach.  Every other property that a run checks is also
a theorem.

Not modelled:

- the reset of alerts, which nothing in production calls;
- the limits of thresholds: they keep no state, and what they say is shown and
  mailed but enforced by nothing;
- migrations: the runner (`db/migrate.ts`) cannot apply the files of the
  repository, whose versions overflow its INTEGER column and whose
  `migrate:down` halves it would execute too, so nothing can be promised of it;
- the list and the switch of tenants: nothing calls `createTenantRoutes`, so no
  request reaches their handlers;
- encryption and signatures, which are checks that pass or fail, and the
  verifier of PKCE, which Bsale compares;
- read-only routes, dashboards and the averages they display;
- validation, configuration, logging, error classes and e-mail texts;
- the other pages of the front end, which read, or send one form.
  `Thresholds.tsx` and `Alerts.tsx` are reached by no route of `App.tsx`.

Data is abstracted to what the properties tell apart: a product's stock is a
small number, in TenantSync an inventory a number of batches, in AlertFlow
velocity a Boolean, time in billing a number of periods, in Accounts a
session's or a link's life a sequence of ages, where Gate has a clock.
Accounts leaves out the demo login, which is in Gate, and the roles of members.
