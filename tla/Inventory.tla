------------------------------ MODULE Inventory ------------------------------
(***************************************************************************)
(* What a sync writes into stock_snapshots: the pages that                 *)
(* src/src/bsale/client.ts reads while the stock at Bsale goes on          *)
(* changing, the batches that src/src/sync/tenant-sync.ts writes, and what *)
(* src/src/db/repositories/stock-snapshot.ts makes of them.  TenantSync    *)
(* models when a tenant is synced and its status; this module is the       *)
(* inside of one syncTenant call, of which two may overlap (the nightly    *)
(* job and a manual sync).                                                 *)
(*                                                                         *)
(* A page is a window of a list that may grow or shrink between two pages. *)
(* A row is unique for its variant, office and day, but to SQL no two null *)
(* offices are equal, so an item without office gets a new row each time.  *)
(*                                                                         *)
(* Names and prices are left out: nothing that goes wrong while they are   *)
(* fetched reaches the sync (LookUp).                                      *)
(***************************************************************************)
EXTENDS Integers, SequencesExt

CONSTANTS
    Items,          \* what Bsale counts: a variant in an office, or without
    Officeless,     \* the items whose office is null
    Quantities,
    Storable,       \* the quantities that are whole and not negative
    PageSize,       \* DEFAULT_PAGE_SIZE
    BatchSize,      \* SYNC_BATCH_SIZE
    Retries,        \* fetchWithRetry's attempts
    Opening,        \* the stock that Bsale lists at first, an item once
    MaxRuns, MaxDay, MaxChanges     \* bounds

Stock == [item : Items, q : Quantities]

ASSUME InventoryAssumption ==
    /\ Officeless \subseteq Items /\ Storable \subseteq Quantities
    /\ PageSize \in Nat \ {0} /\ BatchSize \in Nat \ {0} /\ Retries \in Nat \ {0}
    /\ Opening \in Seq(Stock)
    /\ \A p, o \in DOMAIN Opening : Opening[p].item = Opening[o].item => p = o
    /\ MaxRuns \in Nat /\ MaxDay \in Nat /\ MaxChanges \in Nat

VARIABLES
    today,
    account,    \* the stock at Bsale as it is listed: a sequence of [item, q]
    changes,    \* how often it has changed
    runs,       \* the calls of syncTenant, in the order in which they began
    rows,       \* stock_snapshots
    witness     \* by run, what happened around it (read by no action)

vars == <<today, account, changes, runs, rows, witness>>

(* refused: the database, or the check before it, did not take a batch;    *)
(* cut: any other end but success (the status of each is in TenantSync)    *)
Ends == {"success", "refused", "cut"}

(* at: the place in the run's list, which tells the rows of one statement  *)
(* apart                                                                   *)
Rows == [item : Items, day : 0 .. MaxDay, q : Quantities, by : 1 .. MaxRuns, at : Nat]

RunsType == [phase   : {"paging", "lookup", "writing"} \cup Ends,
             day     : 0 .. MaxDay,
             offset  : Nat,
             attempt : 1 .. Retries,
             got     : Seq(Stock),
             written : Nat]

(* kept: the items listed all the time while the run was reading; seen:    *)
(* the quantities an item had meanwhile; prior: the runs that were over    *)
(* when this one began                                                     *)
WitnessType == [kept : SUBSET Items, seen : [Items -> SUBSET Quantities],
                grew : BOOLEAN, shrunk : BOOLEAN, prior : SUBSET (1 .. MaxRuns)]

TypeOK ==
    /\ today \in 0 .. MaxDay
    /\ account \in Seq(Stock)
    /\ changes \in 0 .. MaxChanges
    /\ runs \in Seq(RunsType) /\ Len(runs) <= MaxRuns
    /\ witness \in Seq(WitnessType) /\ Len(witness) = Len(runs)
    /\ rows \subseteq Rows

Init ==
    /\ today = 0 /\ changes = 0
    /\ account = Opening
    /\ runs = <<>> /\ rows = {} /\ witness = <<>>

Listed == {account[p].item : p \in DOMAIN account}
Reading(r) == runs[r].phase = "paging"
Active(r)  == runs[r].phase \notin Ends

(***************************************************************************)
(* A run                                                                   *)
(***************************************************************************)
(* snapshotDate is taken before the first page is asked for                *)
Start ==
    /\ Len(runs) < MaxRuns
    /\ runs' = Append(runs,
           [phase |-> "paging", day |-> today, offset |-> 0, attempt |-> 1,
            got |-> <<>>, written |-> 0])
    /\ witness' = Append(witness,
           [kept |-> Listed,
            seen |-> [i \in Items |-> {account[p].q : p \in {p \in DOMAIN account :
                                                              account[p].item = i}}],
            grew |-> FALSE, shrunk |-> FALSE,
            prior |-> {r \in DOMAIN runs : ~Active(r)}])
    /\ UNCHANGED <<today, account, changes, rows>>

Window(list, from, size) ==
    SubSeq(list, from + 1, IF from + size < Len(list) THEN from + size ELSE Len(list))

(* Variant: the next page begins after the items that this one could hold  *)
(* and one more.                                                           *)
NextOffsetLate(offset) == offset + PageSize + 1

NextOffset(offset) == offset + PageSize

(* A page that is not full is the last one                                 *)
Page(r) ==
    /\ Reading(r)
    /\ LET run  == runs[r]
           page == Window(account, run.offset, PageSize)
       IN  runs' = [runs EXCEPT ![r] =
               IF Len(page) < PageSize
               THEN [run EXCEPT !.got = @ \o page, !.attempt = 1, !.phase = "lookup"]
               ELSE [run EXCEPT !.got = @ \o page, !.attempt = 1,
                                !.offset = NextOffset(run.offset)]]
    /\ UNCHANGED <<today, account, changes, rows, witness>>

(* The catch block of syncTenant: what the run has read is gone, what it   *)
(* has written stays                                                       *)
End(r, how) ==
    runs' = [runs EXCEPT ![r] = [phase |-> how, day |-> @.day, offset |-> 0, attempt |-> 1,
                                 got |-> <<>>, written |-> 0]]

(* Variant: one attempt more than there are.                               *)
AsksOnceMore(attempt) == attempt <= Retries

AsksAgain(attempt) == attempt < Retries

(* The network, or an answer that is not ok: asked again, at most Retries  *)
(* times in all.  A token that is not valid, too many requests, and an     *)
(* answer of another shape ("final") end the run at once.                  *)
PageFails(r, error) ==
    /\ Reading(r)
    /\ IF error = "passing" /\ AsksAgain(runs[r].attempt)
       THEN runs' = [runs EXCEPT ![r].attempt = @ + 1]
       ELSE End(r, "cut")
    /\ UNCHANGED <<today, account, changes, rows, witness>>

(* getVariantsBatch and getAllPrices: each request that fails is logged    *)
(* and left out of the map                                                 *)
LookUp(r) ==
    /\ runs[r].phase = "lookup"
    /\ runs' = [runs EXCEPT ![r].phase = "writing"]
    /\ UNCHANGED <<today, account, changes, rows, witness>>

Batch(r) == Window(runs[r].got, runs[r].written, BatchSize)

(* Variant: a quantity of zero is refused too.                             *)
RefusedAtZero(batch) ==
    \/ \E p \in DOMAIN batch : batch[p].q \notin Storable \ {0}
    \/ \E p, o \in DOMAIN batch :
          p # o /\ batch[p].item = batch[o].item /\ batch[p].item \notin Officeless

(* upsertBatch looks at every quantity before it writes; PostgreSQL takes  *)
(* no statement that would update a row it has just inserted               *)
Refused(batch) ==
    \/ \E p \in DOMAIN batch : batch[p].q \notin Storable
    \/ \E p, o \in DOMAIN batch :
          p # o /\ batch[p].item = batch[o].item /\ batch[p].item \notin Officeless

(* Variant: the row of the day stays as it is (ON CONFLICT DO NOTHING).    *)
StoredOnce(batch, r) ==
    rows \cup
    {row \in {[item |-> batch[p].item, day |-> runs[r].day, q |-> batch[p].q, by |-> r,
               at |-> runs[r].written + p] : p \in DOMAIN batch} :
       ~\E old \in rows : /\ old.item = row.item /\ old.day = row.day
                          /\ row.item \notin Officeless}

(* ON CONFLICT (tenant, variant, office, day) DO UPDATE                    *)
Stored(batch, r) ==
    {row \in rows :
       ~\E p \in DOMAIN batch :
           /\ row.item = batch[p].item /\ row.item \notin Officeless
           /\ row.day = runs[r].day} \cup
    {[item |-> batch[p].item, day |-> runs[r].day, q |-> batch[p].q, by |-> r,
      at |-> runs[r].written + p] : p \in DOMAIN batch}

Write(r) ==
    /\ runs[r].phase = "writing" /\ runs[r].written < Len(runs[r].got)
    /\ IF Refused(Batch(r))
       THEN End(r, "refused") /\ UNCHANGED rows
       ELSE /\ rows' = Stored(Batch(r), r)
            /\ runs' = [runs EXCEPT ![r].written = @ + Len(Batch(r))]
    /\ UNCHANGED <<today, account, changes, witness>>

Finish(r) ==
    /\ runs[r].phase = "writing" /\ runs[r].written = Len(runs[r].got)
    /\ runs' = [runs EXCEPT ![r].phase = "success"]
    /\ UNCHANGED <<today, account, changes, rows, witness>>

(* A batch, or the status after the last one, does not reach the database  *)
WriteFails(r) ==
    /\ runs[r].phase = "writing"
    /\ End(r, "cut")
    /\ UNCHANGED <<today, account, changes, rows, witness>>

(* The process ends                                                        *)
Crash(r) ==
    /\ Active(r)
    /\ End(r, "cut")
    /\ UNCHANGED <<today, account, changes, rows, witness>>

(***************************************************************************)
(* Bsale and the calendar                                                  *)
(***************************************************************************)
Noted(change(_)) ==
    witness' = [r \in DOMAIN witness |-> IF Reading(r) THEN change(witness[r]) ELSE witness[r]]

Change ==
    /\ changes < MaxChanges
    /\ changes' = changes + 1
    /\ UNCHANGED <<today, runs, rows>>

(* Stock is sold, received or corrected                                    *)
Move(p, q) ==
    /\ Change
    /\ q # account[p].q
    /\ account' = [account EXCEPT ![p].q = q]
    /\ Noted(LAMBDA w : [w EXCEPT !.seen[account[p].item] = @ \cup {q}])

List(p, i, q) ==
    /\ Change
    /\ i \notin Listed
    /\ account' = InsertAt(account, p, [item |-> i, q |-> q])
    /\ Noted(LAMBDA w : [w EXCEPT !.seen[i] = @ \cup {q}, !.grew = TRUE])

Delist(p) ==
    /\ Change
    /\ account' = RemoveAt(account, p)
    /\ Noted(LAMBDA w : [w EXCEPT !.kept = @ \ {account[p].item}, !.shrunk = TRUE])

Midnight ==
    /\ today < MaxDay
    /\ today' = today + 1
    /\ UNCHANGED <<account, changes, runs, rows, witness>>

Next ==
    \/ Start
    \/ \E r \in DOMAIN runs :
          \/ Page(r)
          \/ \E error \in {"passing", "final"} : PageFails(r, error)
          \/ LookUp(r)
          \/ Write(r)
          \/ WriteFails(r)
          \/ Finish(r)
          \/ Crash(r)
    \/ \E p \in DOMAIN account, q \in Quantities : Move(p, q)
    \/ \E p \in 1 .. Len(account) + 1, i \in Items, q \in Quantities : List(p, i, q)
    \/ \E p \in DOMAIN account : Delist(p)
    \/ Midnight

Spec == Init /\ [][Next]_vars

(***************************************************************************)
(* Properties                                                              *)
(***************************************************************************)
(* Pages are windows of a moving list.  Still, when a sync succeeds and no *)
(* item was taken off the list while it was reading, every item that was   *)
(* there all along has a row of the sync's day, with a quantity that the   *)
(* item had while the run that wrote the row was reading (getAllStocks,    *)
(* syncTenant, upsertBatch).                                               *)
FreshAfterSuccess ==
    \A r \in DOMAIN runs :
        runs[r].phase = "success" /\ ~witness[r].shrunk =>
            \A i \in witness[r].kept : \E row \in rows :
                /\ row.item = i /\ row.day = runs[r].day
                /\ row.q \in witness[row.by].seen[i]

(* A batch is refused only because of a quantity that cannot be stored or  *)
(* of an item that slipped into the list while it was read, and so was     *)
(* read twice: a sync of a quiet account fails only with Bsale or the      *)
(* database.                                                               *)
RefusedOnlyForCause ==
    \A r \in DOMAIN runs :
        runs[r].phase = "refused" =>
            \/ witness[r].grew
            \/ \E i \in Items : ~(witness[r].seen[i] \subseteq Storable)

(* getByVariant, getLatestByTenant: among the rows of an item's last day,  *)
(* any one (nothing else orders them)                                      *)
Latest(i) == {row \in rows : row.item = i /\ \A other \in rows :
                                 other.item = i => other.day <= row.day}

Supersedes(r, i) ==
    \A row \in Latest(i) :
        runs[r].phase = "success" /\ (\E p \in DOMAIN runs[r].got : runs[r].got[p].item = i)
            => row.by \notin witness[r].prior

(* Once a sync that has read an item succeeds, the latest row of the item  *)
(* is never again one of a sync that was over when this one began, however *)
(* often others fail halfway, overlap or run on another day.               *)
NeverBackwards ==
    \A r \in DOMAIN runs : \A i \in Items \ Officeless : Supersedes(r, i)
=============================================================================
