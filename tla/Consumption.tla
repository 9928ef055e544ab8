----------------------------- MODULE Consumption -----------------------------
(***************************************************************************)
(* How fast a product sells, by the two measures the system keeps.         *)
(*   daily_consumption: step 1.5 of the sync job adds up the sales         *)
(*     documents of the last days (src/src/sync/consumption-sync.ts,       *)
(*     src/src/db/repositories/daily-consumption.ts); DailyConsumption is  *)
(*     the table, and what it promises.                                    *)
(*   stock_snapshots: what the stock was; Velocity is what the alert       *)
(*     generator makes of it.                                              *)
(*                                                                         *)
(* A sync can be at noon: the window of documents then begins in the       *)
(* middle of a day, whereas rows know only whole days.  A document can be  *)
(* voided between two pages as well.  The snapshots are those of           *)
(* Inventory, without the failures there.                                  *)
(***************************************************************************)
EXTENDS DailyConsumption, SequencesExt

CONSTANTS
    Days,           \* the 7 of syncConsumption and get7DayAverage
    PageSize,       \* DEFAULT_PAGE_SIZE
    OpeningStock,
    MaxVoided       \* bound

ASSUME ConsumptionAssumption ==
    /\ Days \in Nat \ {0} /\ PageSize \in Nat \ {0} /\ OpeningStock \in Nat
    /\ MaxVoided \in Nat

vars == <<now, stock, documents, syncs, consumption, snapshots, noted>>

Init ==
    /\ now = 0 /\ stock = OpeningStock
    /\ documents = <<>> /\ syncs = <<>> /\ noted = <<>>
    /\ consumption = {} /\ snapshots = {}

(***************************************************************************)
(* A sync                                                                  *)
(***************************************************************************)
Within(d, from, until) == from <= documents[d].at /\ documents[d].at <= until

(* What Bsale lists for emissiondaterange and state 0                      *)
Matching(from, until) ==
    LET upTo[d \in 0 .. Len(documents)] ==
            IF d = 0 THEN <<>>
            ELSE IF documents[d].valid /\ Within(d, from, until)
                 THEN Append(upTo[d - 1], d)
                 ELSE upTo[d - 1]
    IN  upTo[Len(documents)]

(* The stock has been synced just before, which stored a snapshot          *)
Start ==
    /\ Len(syncs) < MaxSyncs
    /\ syncs' = Append(syncs, [phase |-> "paging", from |-> now - 2 * Days, until |-> now,
                               offset |-> 0, got |-> <<>>])
    /\ noted' = Append(noted, [sold   |-> {d \in DOMAIN documents : documents[d].valid},
                               voided |-> FALSE])
    /\ snapshots' = {s \in snapshots : s.day # Today} \cup {[day |-> Today, q |-> stock]}
    /\ UNCHANGED <<now, stock, documents, consumption>>

(* Variant: a full page is the last one as well.                           *)
StopsEarly(page, list, offset) == Len(page) <= PageSize

(* Variant: only a page that is not full is the last one.                  *)
StopsLate(page, list, offset) == Len(page) < PageSize

(* A page that is not full is the last one, or one without a link "next"   *)
IsLast(page, list, offset) == Len(page) < PageSize \/ offset + PageSize >= Len(list)

Page(r) ==
    /\ syncs[r].phase = "paging"
    /\ LET list   == Matching(syncs[r].from, syncs[r].until)
           offset == syncs[r].offset
           page   == SubSeq(list, offset + 1,
                            IF offset + PageSize < Len(list) THEN offset + PageSize
                                                             ELSE Len(list))
           got    == syncs[r].got \o page
       IN  syncs' = [syncs EXCEPT ![r] =
               IF IsLast(page, list, offset)
               THEN [@ EXCEPT !.got = got, !.phase = "writing"]
               ELSE [@ EXCEPT !.got = got, !.offset = offset + PageSize]]
    /\ UNCHANGED <<now, stock, documents, consumption, snapshots, noted>>

Over(r, how) ==
    syncs' = [syncs EXCEPT ![r] = [@ EXCEPT !.phase = how, !.offset = 0, !.got = <<>>]]

(* syncConsumption's map: the total of each day that a document names      *)
Aggregated(r) ==
    LET got == syncs[r].got
        Times(d) == Cardinality({p \in DOMAIN got : got[p] = d})
        Sold(day) == OnDay(ToSet(got), day)
    IN  {[day |-> day, q |-> SumFunction([d \in Sold(day) |-> Times(d) * documents[d].q]),
          by |-> r] : day \in {day \in AllDays : Sold(day) # {}}}

(* The statement of upsertBatch finds no conflict, whatever is there: its  *)
(* offices are null                                                        *)
Write(r) ==
    /\ syncs[r].phase = "writing"
    /\ consumption' = consumption \cup Aggregated(r)
    /\ Over(r, "done")
    /\ UNCHANGED <<now, stock, documents, snapshots, noted>>

(* Bsale, the database or the process fails, or a sum is not whole: the    *)
(* job goes on without                                                     *)
Fails(r) ==
    /\ syncs[r].phase \in {"paging", "writing"}
    /\ Over(r, "failed")
    /\ UNCHANGED <<now, stock, documents, consumption, snapshots, noted>>

(***************************************************************************)
(* Bsale and the calendar                                                  *)
(***************************************************************************)
Sell(q) ==
    /\ Len(documents) < MaxDocuments /\ q <= stock
    /\ documents' = Append(documents, [q |-> q, at |-> now, valid |-> TRUE])
    /\ stock' = stock - q
    /\ UNCHANGED <<now, syncs, consumption, snapshots, noted>>

Void(d) ==
    /\ documents[d].valid
    /\ Quantify(DOMAIN documents, LAMBDA e : ~documents[e].valid) < MaxVoided
    /\ documents' = [documents EXCEPT ![d].valid = FALSE]
    /\ stock' = stock + documents[d].q
    /\ noted' = [r \in DOMAIN noted |->
                      IF syncs[r].phase = "paging" THEN [noted[r] EXCEPT !.voided = TRUE]
                                                  ELSE noted[r]]
    /\ UNCHANGED <<now, syncs, consumption, snapshots>>

Tick ==
    /\ now < MaxTime
    /\ now' = now + 1
    /\ UNCHANGED <<stock, documents, syncs, consumption, snapshots, noted>>

Next ==
    \/ Start
    \/ \E r \in DOMAIN syncs : Page(r) \/ Write(r) \/ Fails(r)
    \/ \E q \in 1 .. MaxQuantity : Sell(q)
    \/ \E d \in DOMAIN documents : Void(d)
    \/ Tick

Spec == Init /\ [][Next]_vars
=============================================================================
