--------------------------- MODULE DailyConsumption ---------------------------
(***************************************************************************)
(* What the sync of consumption works on, and what the table that it fills *)
(* promises (src/src/db/repositories/daily-consumption.ts).  The           *)
(* operations are in Consumption.                                          *)
(*                                                                         *)
(* Documents are listed in the order in which they were issued; one can be *)
(* voided, which takes it off the list of state 0.  Each document here has *)
(* one line, and all are of one product, which has an office.              *)
(***************************************************************************)
EXTENDS Velocity, Sequences, Functions

CONSTANTS MaxTime, MaxQuantity, MaxDocuments, MaxSyncs   \* bounds

ASSUME DailyConsumptionAssumption ==
    /\ MaxTime \in Nat /\ MaxQuantity \in Nat
    /\ MaxDocuments \in Nat /\ MaxSyncs \in Nat

VARIABLES
    stock,          \* of the product, at Bsale
    documents,      \* the sales at Bsale: a sequence of [q, at, valid]
    syncs,          \* the syncs begun: see SyncType
    consumption,    \* daily_consumption
    noted           \* by sync, what it should find (read by no action)

AllDays == 0 .. Day(MaxTime)

(* A page is never asked for behind the end of the list                    *)
SyncType == [phase : {"paging", "writing", "done", "failed"},
             from : Int, until : 0 .. MaxTime, offset : {0} \cup 0 .. MaxDocuments - 1,
             got : Seq(1 .. MaxDocuments)]

(* by: the sync; all lines of a day are one row of a sync, because         *)
(* syncConsumption never names an office                                   *)
DayRows == [day : AllDays, q : Nat, by : 1 .. MaxSyncs]

(* sold: the documents that were valid when the sync began; voided: one    *)
(* was voided while it was paging                                          *)
NotedType == [sold : SUBSET (1 .. MaxDocuments), voided : BOOLEAN]

ConsumptionTypeOK ==
    /\ now \in 0 .. MaxTime
    /\ stock \in Nat
    /\ documents \in Seq([q : 1 .. MaxQuantity, at : 0 .. MaxTime, valid : BOOLEAN])
    /\ Len(documents) <= MaxDocuments
    /\ syncs \in Seq(SyncType) /\ Len(syncs) <= MaxSyncs
    /\ consumption \subseteq DayRows
    /\ snapshots \subseteq [day : AllDays, q : Nat]
    /\ noted \in Seq(NotedType) /\ Len(noted) = Len(syncs)

OnDay(chosen, day) == {d \in chosen : Day(documents[d].at) = day}

(* A sync reads pages of a list that shrinks when a document is voided,    *)
(* and its window begins and ends in the middle of a day.  Still, unless a *)
(* document was voided while it was paging, a successful sync has recorded *)
(* what was sold on every day that lies wholly inside the window: one row  *)
(* with the total of that day, or none where nothing was sold              *)
(* (getAllDocuments, syncConsumption, upsertBatch).                        *)
CompleteDaysRecorded ==
    \A r \in DOMAIN syncs : \A day \in AllDays :
        /\ syncs[r].phase = "done" /\ ~noted[r].voided
        /\ syncs[r].from <= 2 * day /\ 2 * day + 1 < syncs[r].until
        => LET sold == OnDay(noted[r].sold, day)
           IN  {row.q : row \in {row \in consumption : row.by = r /\ row.day = day}}
                 = IF sold = {} THEN {}
                   ELSE {SumFunction([d \in sold |-> documents[d].q])}
=============================================================================
