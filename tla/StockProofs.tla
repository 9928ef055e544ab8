----------------------------- MODULE StockProofs -----------------------------
(***************************************************************************)
(* Proofs about what a sync stores, of the stock and of the sales:         *)
(* Inventory, for any items, quantities, sizes of page and batch, and any  *)
(* number of overlapping runs; Consumption, for any numbers of documents   *)
(* and syncs; and Velocity over the snapshots of Consumption.              *)
(*                                                                         *)
(* The invariant of Inventory follows a run through its list.  While it is *)
(* reading, its offset splits the list: unless an item slipped in, what it *)
(* has read is not behind the offset; unless one was taken off, what it    *)
(* has not read is.  What it has written stays in the table, under its     *)
(* day, until a run that was not over when it began writes the same item   *)
(* on the same day.                                                        *)
(*                                                                         *)
(* The invariant of Consumption, SalesInv below, says that what a sync has *)
(* read is the list up to its offset; of that the sums of whole days       *)
(* follow.                                                                 *)
(***************************************************************************)
EXTENDS Inventory, DailyConsumption, SequenceTheorems, FiniteSetTheorems, TLAPS

(* Bsale lists an item once.                                               *)
ListedOnce == \A p, o \in DOMAIN account : account[p].item = account[o].item => p = o

(* What a run reads, or may read yet, is a quantity that the item had.     *)
SeenInv ==
    \A r \in DOMAIN runs :
        /\ \A p \in DOMAIN runs[r].got :
              runs[r].got[p].q \in witness[r].seen[runs[r].got[p].item]
        /\ Reading(r) => \A p \in DOMAIN account :
              account[p].q \in witness[r].seen[account[p].item]

(* Unless an item slipped in, no item is read twice: those read are not    *)
(* listed behind the offset.                                               *)
ReadOnce ==
    \A r \in DOMAIN runs : ~witness[r].grew =>
        /\ \A p, o \in DOMAIN runs[r].got :
              runs[r].got[p].item = runs[r].got[o].item => p = o
        /\ Reading(r) => \A o \in DOMAIN runs[r].got, p \in DOMAIN account :
              account[p].item = runs[r].got[o].item => p <= runs[r].offset

(* Unless an item was taken off, no item is missed: those not read yet are *)
(* listed behind the offset.                                               *)
NoneMissed ==
    \A r \in DOMAIN runs : ~witness[r].shrunk =>
        \A i \in witness[r].kept :
            \/ runs[r].phase \in {"refused", "cut"}
            \/ \E p \in DOMAIN runs[r].got : runs[r].got[p].item = i
            \/ Reading(r) /\ \E p \in DOMAIN account :
                                 account[p].item = i /\ p > runs[r].offset

(* A row has the day of its run, and a quantity that the run saw.          *)
RowsInv ==
    \A row \in rows :
        /\ row.by \in DOMAIN runs /\ row.day = runs[row.by].day
        /\ row.q \in witness[row.by].seen[row.item]

(* What is written of a run's list has a row.                              *)
WrittenInv ==
    \A r \in DOMAIN runs :
        /\ runs[r].written <= Len(runs[r].got)
        /\ runs[r].phase = "success" => runs[r].written = Len(runs[r].got)
        /\ \A p \in 1 .. runs[r].written : \E row \in rows :
              row.item = runs[r].got[p].item /\ row.day = runs[r].day

(* Runs that were over when a run began stay over, and are of no later     *)
(* day; their rows give way to what the run writes.                        *)
PriorInv ==
    \A r \in DOMAIN runs :
        /\ runs[r].day <= today
        /\ \A e \in witness[r].prior :
              e \in DOMAIN runs /\ ~Active(e) /\ runs[e].day <= runs[r].day
        /\ \A p \in 1 .. runs[r].written : \A row \in rows :
              /\ row.item = runs[r].got[p].item /\ row.item \notin Officeless
              /\ row.day = runs[r].day
              => row.by \notin witness[r].prior

IInv ==
    /\ TypeOK /\ ListedOnce /\ SeenInv /\ ReadOnce /\ NoneMissed
    /\ RowsInv /\ WrittenInv /\ PriorInv /\ RefusedOnlyForCause

-----------------------------------------------------------------------------
(* What a window of a list is, and a list after a change.                  *)

LEMMA WindowOfAny ==
    ASSUME NEW S, NEW list \in Seq(S), NEW from \in Nat, NEW size \in Nat \ {0}
    PROVE  LET w == Window(list, from, size)
           IN  /\ w \in Seq(S)
               /\ Len(w) \in Nat /\ Len(w) <= size
               /\ Len(w) = 0 \/ from + Len(w) <= Len(list)
               /\ Len(w) < size => Len(list) <= from + Len(w)
               /\ \A p \in 1 .. Len(w) :
                     from + p \in 1 .. Len(list) /\ w[p] = list[from + p]
<1> DEFINE to == IF from + size < Len(list) THEN from + size ELSE Len(list)
<1>1. /\ Len(list) \in Nat /\ to \in Int /\ from + 1 \in Int
      /\ from + 1 <= to => to <= Len(list)
  BY LenProperties
<1>2. \A p \in from + 1 .. to : list[p] \in S
  BY <1>1, ElementOfSeq
<1>3. /\ SubSeq(list, from + 1, to) \in Seq(S)
      /\ Len(SubSeq(list, from + 1, to)) = IF from + 1 <= to THEN to - (from + 1) + 1 ELSE 0
      /\ \A p \in 1 .. to - (from + 1) + 1 :
            SubSeq(list, from + 1, to)[p] = list[from + 1 + p - 1]
  BY <1>1, <1>2, SubSeqProperties
<1>4. Window(list, from, size) = SubSeq(list, from + 1, to)
  BY DEF Window
<1> QED
  BY <1>1, <1>3, <1>4

LEMMA WindowOf ==
    ASSUME NEW list \in Seq(Stock), NEW from \in Nat, NEW size \in Nat \ {0}
    PROVE  LET w == Window(list, from, size)
           IN  /\ w \in Seq(Stock)
               /\ Len(w) \in Nat /\ Len(w) <= size
               /\ Len(w) = 0 \/ from + Len(w) <= Len(list)
               /\ Len(w) < size => Len(list) <= from + Len(w)
               /\ \A p \in 1 .. Len(w) :
                     from + p \in 1 .. Len(list) /\ w[p] = list[from + p]
BY WindowOfAny

LEMMA Inserted ==
    ASSUME NEW list \in Seq(Stock), NEW e \in Stock,
           NEW p \in Int, 1 <= p, p <= Len(list) + 1,
           NEW l, l = InsertAt(list, p, e)
    PROVE  /\ l \in Seq(Stock) /\ Len(l) = Len(list) + 1
           /\ \A o \in 1 .. Len(list) : IF o < p THEN l[o] = list[o] ELSE l[o + 1] = list[o]
           /\ l[p] = e
           /\ \A o \in 1 .. p - 1 : l[o] = list[o]
<1> DEFINE before == SubSeq(list, 1, p - 1)
           after  == SubSeq(list, p, Len(list))
           head   == before \o <<e>>
<1>1. Len(list) \in Nat /\ p \in Int /\ \A o \in 1 .. Len(list) : list[o] \in Stock
  BY LenProperties, ElementOfSeq
<1>2. /\ before \in Seq(Stock) /\ Len(before) = p - 1
      /\ \A o \in 1 .. p - 1 : before[o] = list[o]
  <2>1. \A o \in 1 .. p - 1 : list[o] \in Stock
    BY <1>1
  <2>2. /\ before \in Seq(Stock)
        /\ Len(before) = IF 1 <= p - 1 THEN p - 1 - 1 + 1 ELSE 0
        /\ \A o \in 1 .. p - 1 - 1 + 1 : before[o] = list[1 + o - 1]
    BY <1>1, <2>1, SubSeqProperties
  <2> QED
    BY <1>1, <2>2
<1>3. /\ after \in Seq(Stock) /\ Len(after) = Len(list) - p + 1
      /\ \A o \in 1 .. Len(list) - p + 1 : after[o] = list[p + o - 1]
  <2>1. \A o \in p .. Len(list) : list[o] \in Stock
    BY <1>1
  <2>2. /\ after \in Seq(Stock)
        /\ Len(after) = IF p <= Len(list) THEN Len(list) - p + 1 ELSE 0
        /\ \A o \in 1 .. Len(list) - p + 1 : after[o] = list[p + o - 1]
    BY <1>1, <2>1, SubSeqProperties
  <2> QED
    BY <1>1, <2>2
<1>4. /\ head \in Seq(Stock) /\ Len(head) = p
      /\ \A o \in 1 .. p : head[o] = IF o < p THEN list[o] ELSE e
  <2>1. <<e>> \in Seq(Stock) /\ Len(<<e>>) = 1 /\ <<e>>[1] = e
    OBVIOUS
  <2> HIDE DEF before
  <2>2. /\ before \o <<e>> \in Seq(Stock)
        /\ Len(before \o <<e>>) = Len(before) + 1
        /\ \A o \in 1 .. Len(before) + 1 : (before \o <<e>>)[o] =
              IF o <= Len(before) THEN before[o] ELSE <<e>>[o - Len(before)]
    BY <1>2, <2>1, ConcatProperties
  <2> QED
    BY <1>1, <1>2, <2>1, <2>2
<1>5. l = head \o after
  BY DEF InsertAt
<1> HIDE DEF before, after, head
<1>6. /\ head \o after \in Seq(Stock) /\ Len(head \o after) = Len(head) + Len(after)
      /\ \A o \in 1 .. Len(head) + Len(after) :
            (head \o after)[o] = IF o <= Len(head) THEN head[o] ELSE after[o - Len(head)]
  BY <1>3, <1>4, ConcatProperties
<1>7. ASSUME NEW o \in 1 .. Len(list) + 1
      PROVE  l[o] = IF o < p THEN list[o] ELSE IF o = p THEN e ELSE list[o - 1]
  <2>1. CASE o <= p
    BY <1>1, <1>3, <1>4, <1>5, <1>6, <2>1
  <2>2. CASE ~(o <= p)
    <3>1. o - p \in 1 .. Len(list) - p + 1 /\ p + (o - p) - 1 = o - 1
      BY <1>1, <2>2
    <3>2. after[o - p] = list[o - 1]
      BY <1>3, <3>1
    <3>3. o \in 1 .. Len(head) + Len(after) /\ ~(o <= Len(head))
      BY <1>1, <1>3, <1>4, <2>2
    <3> QED
      BY <1>1, <1>4, <1>5, <1>6, <2>2, <3>2, <3>3
  <2> QED
    BY <2>1, <2>2
<1>8. l \in Seq(Stock) /\ Len(l) = Len(list) + 1
  BY <1>1, <1>3, <1>4, <1>5, <1>6
<1>9. \A o \in 1 .. Len(list) : IF o < p THEN l[o] = list[o] ELSE l[o + 1] = list[o]
  BY <1>1, <1>7
<1>10. /\ l[p] = e
       /\ \A o \in 1 .. p - 1 : l[o] = list[o]
  BY <1>1, <1>7
<1> QED
  BY <1>8, <1>9, <1>10

LEMMA Removed ==
    ASSUME NEW list \in Seq(Stock), NEW p \in 1 .. Len(list),
           NEW l, l = RemoveAt(list, p)
    PROVE  /\ l \in Seq(Stock) /\ Len(l) = Len(list) - 1
           /\ \A o \in 1 .. Len(list) - 1 : l[o] = IF o < p THEN list[o] ELSE list[o + 1]
<1> DEFINE before == SubSeq(list, 1, p - 1)
           after  == SubSeq(list, p + 1, Len(list))
<1>1. Len(list) \in Nat /\ p \in Int /\ \A o \in 1 .. Len(list) : list[o] \in Stock
  BY LenProperties, ElementOfSeq
<1>2. /\ before \in Seq(Stock) /\ Len(before) = p - 1
      /\ \A o \in 1 .. p - 1 : before[o] = list[o]
  <2>1. \A o \in 1 .. p - 1 : list[o] \in Stock
    BY <1>1
  <2>2. /\ before \in Seq(Stock)
        /\ Len(before) = IF 1 <= p - 1 THEN p - 1 - 1 + 1 ELSE 0
        /\ \A o \in 1 .. p - 1 - 1 + 1 : before[o] = list[1 + o - 1]
    BY <1>1, <2>1, SubSeqProperties
  <2> QED
    BY <1>1, <2>2
<1>3. /\ after \in Seq(Stock) /\ Len(after) = Len(list) - p
      /\ \A o \in 1 .. Len(list) - p : after[o] = list[p + o]
  <2>1. \A o \in p + 1 .. Len(list) : list[o] \in Stock
    BY <1>1
  <2>2. /\ after \in Seq(Stock)
        /\ Len(after) = IF p + 1 <= Len(list) THEN Len(list) - (p + 1) + 1 ELSE 0
        /\ \A o \in 1 .. Len(list) - (p + 1) + 1 : after[o] = list[p + 1 + o - 1]
    BY <1>1, <2>1, SubSeqProperties
  <2> QED
    BY <1>1, <2>2
<1>4. l = before \o after
  BY DEF RemoveAt
<1> HIDE DEF before, after
<1>5. /\ before \o after \in Seq(Stock) /\ Len(before \o after) = Len(before) + Len(after)
      /\ \A o \in 1 .. Len(before) + Len(after) : (before \o after)[o] =
            IF o <= Len(before) THEN before[o] ELSE after[o - Len(before)]
  BY <1>2, <1>3, ConcatProperties
<1>6. l \in Seq(Stock) /\ Len(l) = Len(list) - 1
  BY <1>1, <1>2, <1>3, <1>4, <1>5
<1>7. ASSUME NEW o \in 1 .. Len(list) - 1
      PROVE  l[o] = IF o < p THEN list[o] ELSE list[o + 1]
  <2>1. CASE o < p
    BY <1>1, <1>2, <1>3, <1>4, <1>5, <2>1
  <2>2. CASE ~(o < p)
    <3>1. o - (p - 1) \in 1 .. Len(list) - p /\ p + (o - (p - 1)) = o + 1
      BY <1>1, <2>2
    <3>2. after[o - (p - 1)] = list[o + 1]
      BY <1>3, <3>1
    <3>3. o \in 1 .. Len(before) + Len(after) /\ ~(o <= Len(before))
      BY <1>1, <1>2, <1>3, <2>2
    <3> QED
      BY <1>2, <1>4, <1>5, <2>2, <3>2, <3>3
  <2> QED
    BY <2>1, <2>2
<1> QED
  BY <1>6, <1>7

-----------------------------------------------------------------------------
(* What the steps do to the runs, said without the list of runs: most of   *)
(* the proofs below need no more.                                          *)

OthersStay(r) ==
    /\ DOMAIN runs' = DOMAIN runs
    /\ \A o \in DOMAIN runs : o # r => runs'[o] = runs[o]

(* A run goes on without reading or writing anything.                      *)
Proceeds(r) ==
    /\ OthersStay(r) /\ UNCHANGED <<today, account, rows, witness>>
    /\ runs'[r].got = runs[r].got /\ runs'[r].offset = runs[r].offset
    /\ runs'[r].day = runs[r].day /\ runs'[r].written = runs[r].written
    /\ <<runs[r].phase, runs'[r].phase>> \in
          {<<"paging", "paging">>, <<"lookup", "writing">>, <<"writing", "success">>}
    /\ runs'[r].phase = "success" => runs[r].written = Len(runs[r].got)

(* A run ends without success.                                             *)
Fails(r, how) ==
    /\ OthersStay(r) /\ UNCHANGED <<today, account, rows, witness>>
    /\ Active(r)
    /\ runs'[r].phase = how /\ how \in {"refused", "cut"}
    /\ runs'[r].got = <<>> /\ runs'[r].written = 0 /\ runs'[r].day = runs[r].day
    /\ how = "refused" => Refused(Batch(r))

Reads(r, page) ==
    /\ OthersStay(r) /\ UNCHANGED <<today, account, rows, witness>>
    /\ Reading(r)
    /\ page = Window(account, runs[r].offset, PageSize)
    /\ runs'[r].got = runs[r].got \o page
    /\ runs'[r].day = runs[r].day /\ runs'[r].written = runs[r].written
    /\ IF Len(page) < PageSize
       THEN runs'[r].phase = "lookup" /\ runs'[r].offset = runs[r].offset
       ELSE runs'[r].phase = "paging" /\ runs'[r].offset = runs[r].offset + PageSize

Writes(r, batch) ==
    /\ OthersStay(r) /\ UNCHANGED <<today, account, witness>>
    /\ runs[r].phase = "writing" /\ runs[r].written < Len(runs[r].got)
    /\ batch = Window(runs[r].got, runs[r].written, BatchSize)
    /\ rows' = Stored(batch, r)
    /\ runs'[r].phase = "writing" /\ runs'[r].got = runs[r].got
    /\ runs'[r].day = runs[r].day
    /\ runs'[r].written = runs[r].written + Len(batch)

(* The list at Bsale changes: of what is noted about a run, only what has  *)
(* been seen grows.                                                        *)
Notes ==
    /\ UNCHANGED <<today, runs, rows>>
    /\ DOMAIN witness' = DOMAIN witness
    /\ \A r \in DOMAIN runs :
          /\ witness'[r].prior = witness[r].prior
          /\ witness'[r].kept \subseteq witness[r].kept
          /\ \A i \in Items : witness[r].seen[i] \subseteq witness'[r].seen[i]
          /\ witness[r].grew => witness'[r].grew
          /\ witness[r].shrunk => witness'[r].shrunk
          /\ ~Reading(r) => witness'[r] = witness[r]

Begins ==
    LET n == Len(runs) + 1
    IN  /\ UNCHANGED <<today, account, rows>>
        /\ DOMAIN runs' = DOMAIN runs \cup {n} /\ n \notin DOMAIN runs
        /\ \A r \in DOMAIN runs : runs'[r] = runs[r] /\ witness'[r] = witness[r]
        /\ runs'[n] = [phase |-> "paging", day |-> today, offset |-> 0, attempt |-> 1,
                       got |-> <<>>, written |-> 0]
        /\ witness'[n] =
              [kept |-> Listed,
               seen |-> [i \in Items |-> {account[p].q : p \in {p \in DOMAIN account :
                                                                 account[p].item = i}}],
               grew |-> FALSE, shrunk |-> FALSE,
               prior |-> {r \in DOMAIN runs : ~Active(r)}]

LEMMA Positions ==
    ASSUME TypeOK
    PROVE  /\ DOMAIN runs = 1 .. Len(runs) /\ Len(runs) \in Nat /\ Len(runs) \in 0 .. MaxRuns
           /\ DOMAIN witness = DOMAIN runs
           /\ DOMAIN account = 1 .. Len(account) /\ Len(account) \in Nat
           /\ \A p \in DOMAIN account : account[p] \in Stock
           /\ \A r \in DOMAIN runs :
                 /\ runs[r] \in RunsType /\ witness[r] \in WitnessType
                 /\ runs[r].got \in Seq(Stock) /\ Len(runs[r].got) \in Nat
                 /\ DOMAIN runs[r].got = 1 .. Len(runs[r].got)
                 /\ \A p \in DOMAIN runs[r].got : runs[r].got[p] \in Stock
<1>1. /\ DOMAIN runs = 1 .. Len(runs) /\ Len(runs) \in Nat
      /\ DOMAIN witness = 1 .. Len(witness)
      /\ DOMAIN account = 1 .. Len(account) /\ Len(account) \in Nat
  BY LenProperties DEF TypeOK
<1>2. \A p \in DOMAIN account : account[p] \in Stock
  BY <1>1, ElementOfSeq DEF TypeOK
<1>3. \A r \in DOMAIN runs : runs[r] \in RunsType
  BY <1>1, ElementOfSeq DEF TypeOK
<1>4. \A r \in DOMAIN witness : witness[r] \in WitnessType
  BY <1>1, ElementOfSeq DEF TypeOK
<1>5. ASSUME NEW r \in DOMAIN runs
      PROVE  /\ runs[r].got \in Seq(Stock) /\ Len(runs[r].got) \in Nat
             /\ DOMAIN runs[r].got = 1 .. Len(runs[r].got)
             /\ \A p \in DOMAIN runs[r].got : runs[r].got[p] \in Stock
  <2>1. runs[r].got \in Seq(Stock)
    BY <1>3 DEF RunsType
  <2> QED
    BY <2>1, LenProperties, ElementOfSeq
<1>6. Len(runs) <= MaxRuns /\ Len(witness) = Len(runs) /\ MaxRuns \in Nat
  BY InventoryAssumption DEF TypeOK
<1> QED
  BY <1>1, <1>2, <1>3, <1>4, <1>5, <1>6

LEMMA OneRun ==
    ASSUME TypeOK, NEW r \in DOMAIN runs, NEW x \in RunsType,
           runs' = [runs EXCEPT ![r] = x]
    PROVE  /\ runs' \in Seq(RunsType) /\ Len(runs') = Len(runs)
           /\ runs'[r] = x /\ OthersStay(r)
<1>1. runs \in Seq(RunsType) /\ r \in 1 .. Len(runs)
  BY Positions DEF TypeOK
<1>2. runs' \in Seq(RunsType) /\ Len(runs') = Len(runs)
  BY <1>1, ExceptSeq
<1> QED
  BY <1>1, <1>2 DEF OthersStay

LEMMA EndIs ==
    ASSUME TypeOK, NEW r \in DOMAIN runs, NEW how \in {"refused", "cut"},
           Active(r), End(r, how), UNCHANGED <<today, account, changes, rows, witness>>,
           how = "refused" => Refused(Batch(r))
    PROVE  TypeOK' /\ Fails(r, how)
<1> DEFINE x == [phase |-> how, day |-> runs[r].day, offset |-> 0, attempt |-> 1,
                 got |-> <<>>, written |-> 0]
<1>1. runs[r] \in RunsType
  BY Positions
<1>2. x \in RunsType
  BY <1>1, InventoryAssumption DEF RunsType, Ends
<1>3. runs' = [runs EXCEPT ![r] = x]
  BY DEF End
<1>4. /\ runs' \in Seq(RunsType) /\ Len(runs') = Len(runs)
      /\ runs'[r] = x /\ OthersStay(r)
  BY <1>2, <1>3, OneRun
<1>5. TypeOK'
  BY <1>4 DEF TypeOK
<1> QED
  BY <1>4, <1>5 DEF Fails

LEMMA StartIs ==
    ASSUME TypeOK, Start
    PROVE  TypeOK' /\ Begins
<1> DEFINE x == [phase |-> "paging", day |-> today, offset |-> 0, attempt |-> 1,
                 got |-> <<>>, written |-> 0]
           w == [kept |-> Listed,
                 seen |-> [i \in Items |-> {account[p].q : p \in {p \in DOMAIN account :
                                                                   account[p].item = i}}],
                 grew |-> FALSE, shrunk |-> FALSE,
                 prior |-> {r \in DOMAIN runs : ~Active(r)}]
<1>1. x \in RunsType
  BY InventoryAssumption DEF RunsType, TypeOK
<1>2. Listed \subseteq Items
  BY Positions DEF Listed, Stock
<1>3. \A i \in Items : {account[p].q : p \in {p \in DOMAIN account : account[p].item = i}}
                          \subseteq Quantities
  BY Positions DEF Stock
<1>4. {r \in DOMAIN runs : ~Active(r)} \subseteq 1 .. MaxRuns
  BY Positions, InventoryAssumption
<1>5. w \in WitnessType
  BY <1>2, <1>3, <1>4 DEF WitnessType
<1>6. runs' = Append(runs, x) /\ witness' = Append(witness, w) /\ Len(runs) < MaxRuns
      /\ UNCHANGED <<today, account, changes, rows>>
  BY DEF Start
<1> HIDE DEF x, w
<1>7. /\ runs' \in Seq(RunsType) /\ Len(runs') = Len(runs) + 1
      /\ \A r \in 1 .. Len(runs) : runs'[r] = runs[r]
      /\ runs'[Len(runs) + 1] = x
  BY <1>1, <1>6, AppendProperties DEF TypeOK
<1>8. /\ witness' \in Seq(WitnessType) /\ Len(witness') = Len(runs) + 1
      /\ \A r \in 1 .. Len(runs) : witness'[r] = witness[r]
      /\ witness'[Len(runs) + 1] = w
  BY <1>5, <1>6, AppendProperties DEF TypeOK
<1>9. DOMAIN runs' = DOMAIN runs \cup {Len(runs) + 1} /\ Len(runs) + 1 \notin DOMAIN runs
  <2>1. DOMAIN runs' = 1 .. Len(runs) + 1
    BY <1>7, LenProperties
  <2> QED
    BY <2>1, Positions
<1>10. TypeOK'
  BY <1>6, <1>7, <1>8, Positions, InventoryAssumption DEF TypeOK
<1>11. \A r \in DOMAIN runs : runs'[r] = runs[r] /\ witness'[r] = witness[r]
  BY <1>7, <1>8, Positions
<1> QED
  BY <1>6, <1>7, <1>8, <1>9, <1>10, <1>11 DEF Begins, x, w

LEMMA PageIs ==
    ASSUME TypeOK, NEW r \in DOMAIN runs, Page(r)
    PROVE  TypeOK' /\ \E page \in Seq(Stock) : Reads(r, page)
<1> DEFINE page == Window(account, runs[r].offset, PageSize)
           got == runs[r].got \o page
           x == IF Len(page) < PageSize
                THEN [runs[r] EXCEPT !.got = got, !.attempt = 1, !.phase = "lookup"]
                ELSE [runs[r] EXCEPT !.got = got, !.attempt = 1,
                                     !.offset = runs[r].offset + PageSize]
<1>1. runs[r] \in RunsType /\ runs[r].offset \in Nat /\ runs[r].got \in Seq(Stock)
  BY Positions DEF RunsType
<1>2. page \in Seq(Stock)
  BY <1>1, WindowOf, InventoryAssumption DEF TypeOK
<1>3. runs' = [runs EXCEPT ![r] = x] /\ Reading(r)
      /\ UNCHANGED <<today, account, changes, rows, witness>>
  BY DEF Page, NextOffset
<1> HIDE DEF page
<1>4. got \in Seq(Stock)
  BY <1>1, <1>2, ConcatProperties
<1> HIDE DEF got
<1>5. x \in RunsType
  <2>1. /\ PageSize \in Nat /\ 1 \in 1 .. Retries
        /\ runs[r].offset + PageSize \in Nat
    BY <1>1, InventoryAssumption
  <2>2. "lookup" \in {"paging", "lookup", "writing"} \cup Ends
    OBVIOUS
  <2> QED
    BY <1>1, <1>4, <2>1, <2>2 DEF RunsType
<1> HIDE DEF x
<1>6. /\ runs' \in Seq(RunsType) /\ Len(runs') = Len(runs)
      /\ runs'[r] = x /\ OthersStay(r)
  BY <1>3, <1>5, OneRun
<1>7. /\ x.got = got /\ x.day = runs[r].day /\ x.written = runs[r].written
      /\ IF Len(page) < PageSize
         THEN x.phase = "lookup" /\ x.offset = runs[r].offset
         ELSE x.phase = "paging" /\ x.offset = runs[r].offset + PageSize
  BY <1>1, <1>3 DEF x, RunsType, Reading
<1>8. TypeOK'
  BY <1>3, <1>6 DEF TypeOK
<1>9. Reads(r, page)
  <2>1. page = Window(account, runs[r].offset, PageSize) /\ got = runs[r].got \o page
    BY DEF page, got
  <2> QED
    BY <1>3, <1>6, <1>7, <2>1 DEF Reads
<1> QED
  BY <1>2, <1>8, <1>9

LEMMA PageFailsIs ==
    ASSUME TypeOK, NEW r \in DOMAIN runs, NEW error, PageFails(r, error)
    PROVE  TypeOK' /\ (Proceeds(r) \/ Fails(r, "cut"))
<1>1. CASE error = "passing" /\ AsksAgain(runs[r].attempt)
  <2> DEFINE x == [runs[r] EXCEPT !.attempt = runs[r].attempt + 1]
  <2>1. runs[r] \in RunsType
    BY Positions
  <2>2. x \in RunsType
    <3>1. runs[r].attempt + 1 \in 1 .. Retries
      BY <1>1, <2>1, InventoryAssumption DEF RunsType, AsksAgain
    <3> QED
      BY <2>1, <3>1 DEF RunsType
  <2>3. runs' = [runs EXCEPT ![r] = x] /\ Reading(r)
        /\ UNCHANGED <<today, account, changes, rows, witness>>
    BY <1>1 DEF PageFails
  <2> HIDE DEF x
  <2>4. /\ runs' \in Seq(RunsType) /\ Len(runs') = Len(runs)
        /\ runs'[r] = x /\ OthersStay(r)
    BY <2>2, <2>3, OneRun
  <2>5. /\ x.got = runs[r].got /\ x.day = runs[r].day /\ x.written = runs[r].written
        /\ x.offset = runs[r].offset /\ x.phase = "paging"
    BY <2>1, <2>3 DEF x, RunsType, Reading
  <2>6. TypeOK'
    BY <2>3, <2>4 DEF TypeOK
  <2> QED
    BY <2>3, <2>4, <2>5, <2>6 DEF Proceeds, Reading
<1>2. CASE ~(error = "passing" /\ AsksAgain(runs[r].attempt))
  <2>1. Active(r)
    BY DEF PageFails, Reading, Active, Ends
  <2> QED
    BY <1>2, <2>1, EndIs DEF PageFails
<1> QED
  BY <1>1, <1>2

LEMMA PhaseIs ==
    ASSUME TypeOK, NEW r \in DOMAIN runs, NEW p \in {"writing", "success"},
           runs' = [runs EXCEPT ![r].phase = p],
           UNCHANGED <<today, account, changes, rows, witness>>,
           IF p = "writing" THEN runs[r].phase = "lookup"
           ELSE runs[r].phase = "writing" /\ runs[r].written = Len(runs[r].got)
    PROVE  TypeOK' /\ Proceeds(r)
<1> DEFINE x == [runs[r] EXCEPT !.phase = p]
<1>1. runs[r] \in RunsType
  BY Positions
<1>2. x \in RunsType
  BY <1>1 DEF RunsType, Ends
<1>3. runs' = [runs EXCEPT ![r] = x]
  OBVIOUS
<1> HIDE DEF x
<1>4. /\ runs' \in Seq(RunsType) /\ Len(runs') = Len(runs)
      /\ runs'[r] = x /\ OthersStay(r)
  BY <1>2, <1>3, OneRun
<1>5. /\ x.got = runs[r].got /\ x.day = runs[r].day /\ x.written = runs[r].written
      /\ x.offset = runs[r].offset /\ x.phase = p
  BY <1>1 DEF x, RunsType
<1>6. TypeOK'
  BY <1>4 DEF TypeOK
<1> QED
  BY <1>4, <1>5, <1>6 DEF Proceeds

LEMMA WriteIs ==
    ASSUME TypeOK, NEW r \in DOMAIN runs, Write(r)
    PROVE  TypeOK' /\ (Fails(r, "refused") \/ \E batch \in Seq(Stock) : Writes(r, batch))
<1>1. CASE Refused(Batch(r))
  <2>1. Active(r)
    BY DEF Write, Active, Ends
  <2> QED
    BY <1>1, <2>1, EndIs DEF Write
<1>2. CASE ~Refused(Batch(r))
  <2> DEFINE batch == Batch(r)
             x == [runs[r] EXCEPT !.written = runs[r].written + Len(batch)]
  <2>1. runs[r] \in RunsType /\ runs[r].written \in Nat /\ runs[r].got \in Seq(Stock)
        /\ runs[r].day \in 0 .. MaxDay /\ r \in 1 .. MaxRuns
    BY Positions, InventoryAssumption DEF RunsType
  <2>2. /\ batch \in Seq(Stock) /\ Len(batch) \in Nat /\ DOMAIN batch = 1 .. Len(batch)
        /\ \A p \in DOMAIN batch : batch[p] \in Stock
    <3>1. batch = Window(runs[r].got, runs[r].written, BatchSize)
      BY DEF Batch
    <3>2. batch \in Seq(Stock)
      BY <2>1, <3>1, WindowOf, InventoryAssumption
    <3> QED
      BY <3>2, LenProperties, ElementOfSeq
  <2>3. /\ runs' = [runs EXCEPT ![r] = x] /\ rows' = Stored(batch, r)
        /\ runs[r].phase = "writing" /\ runs[r].written < Len(runs[r].got)
        /\ UNCHANGED <<today, account, changes, witness>>
    BY <1>2 DEF Write
  <2>4. batch = Window(runs[r].got, runs[r].written, BatchSize)
    BY DEF Batch
  <2> HIDE DEF batch
  <2>5. x \in RunsType
    <3>1. runs[r].written + Len(batch) \in Nat
      BY <2>1, <2>2
    <3> DEFINE n == runs[r].written + Len(batch)
    <3> HIDE DEF n
    <3>2. [runs[r] EXCEPT !.written = n] \in RunsType
      BY <2>1, <3>1 DEF n, RunsType
    <3> QED
      BY <3>2 DEF n
  <2> HIDE DEF x
  <2>6. /\ runs' \in Seq(RunsType) /\ Len(runs') = Len(runs)
        /\ runs'[r] = x /\ OthersStay(r)
    BY <2>3, <2>5, OneRun
  <2>7. /\ x.got = runs[r].got /\ x.day = runs[r].day /\ x.phase = "writing"
        /\ x.written = runs[r].written + Len(batch)
    BY <2>1, <2>3 DEF x, RunsType
  <2>8. rows' \subseteq Rows
    BY <2>1, <2>2, <2>3 DEF Stored, TypeOK, Rows, Stock
  <2>9. TypeOK'
    BY <2>3, <2>6, <2>8 DEF TypeOK
  <2>10. Writes(r, batch)
    BY <2>3, <2>4, <2>6, <2>7 DEF Writes
  <2> QED
    BY <2>2, <2>9, <2>10
<1> QED
  BY <1>1, <1>2

Noticed(w, item, q, what) ==
    IF what = "moved" THEN [w EXCEPT !.seen[item] = @ \cup {q}]
    ELSE IF what = "listed" THEN [w EXCEPT !.seen[item] = @ \cup {q}, !.grew = TRUE]
    ELSE [w EXCEPT !.kept = @ \ {item}, !.shrunk = TRUE]

LEMMA NoticedIsTyped ==
    ASSUME NEW w \in WitnessType, NEW item \in Items, NEW q \in Quantities,
           NEW what
    PROVE  Noticed(w, item, q, what) \in WitnessType
BY DEF WitnessType, Noticed

(* What changes at Bsale are the list, by one item, and what is noted.     *)
LEMMA NotesAre ==
    ASSUME TypeOK, Change,
           account' \in Seq(Stock),
           NEW item \in Items, NEW q \in Quantities,
           NEW what \in {"moved", "listed", "delisted"},
           witness' \in [DOMAIN witness -> WitnessType],
           \A r \in DOMAIN witness : witness'[r] =
               IF Reading(r)
               THEN Noticed(witness[r], item, q, what)
               ELSE witness[r]
    PROVE  /\ TypeOK' /\ Notes
           /\ \A r \in DOMAIN runs : Reading(r) =>
                 /\ what # "delisted" => q \in witness'[r].seen[item]
                 /\ what = "listed" => witness'[r].grew
                 /\ what = "delisted" => witness'[r].shrunk
<1>3. witness' \in Seq(WitnessType) /\ Len(witness') = Len(witness)
      /\ DOMAIN witness' = DOMAIN witness
  <2>1. DOMAIN witness = 1 .. Len(witness) /\ Len(witness) \in Nat
    BY LenProperties DEF TypeOK
  <2>2. witness' \in Seq(WitnessType)
    BY <2>1, SeqDef
  <2> QED
    BY <2>1, <2>2, LenProperties
<1>4. UNCHANGED <<today, runs, rows>> /\ changes' \in 0 .. MaxChanges
  <2>1. changes \in 0 .. MaxChanges /\ MaxChanges \in Nat
    BY InventoryAssumption DEF TypeOK
  <2> QED
    BY <2>1 DEF Change
<1>5. TypeOK'
  BY <1>3, <1>4 DEF TypeOK
<1>6. ASSUME NEW r \in DOMAIN runs
      PROVE  /\ witness'[r].prior = witness[r].prior
             /\ witness'[r].kept \subseteq witness[r].kept
             /\ \A i \in Items : witness[r].seen[i] \subseteq witness'[r].seen[i]
             /\ witness[r].grew => witness'[r].grew
             /\ witness[r].shrunk => witness'[r].shrunk
             /\ ~Reading(r) => witness'[r] = witness[r]
             /\ Reading(r) =>
                   /\ what # "delisted" => q \in witness'[r].seen[item]
                   /\ what = "listed" => witness'[r].grew
                   /\ what = "delisted" => witness'[r].shrunk
  <2>1. witness[r] \in WitnessType /\ r \in DOMAIN witness
    BY Positions
  <2> DEFINE n == Noticed(witness[r], item, q, what)
  <2>2. /\ n.prior = witness[r].prior /\ n.kept \subseteq witness[r].kept
        /\ what # "delisted" => n.seen = [witness[r].seen EXCEPT ![item] = @ \cup {q}]
        /\ what = "delisted" => n.seen = witness[r].seen
        /\ what = "listed" => n.grew
        /\ what = "delisted" => n.shrunk
        /\ witness[r].grew => n.grew
        /\ witness[r].shrunk => n.shrunk
    <3>1. CASE what = "moved"
      BY <2>1, <3>1 DEF Noticed, WitnessType
    <3>2. CASE what = "listed"
      BY <2>1, <3>2 DEF Noticed, WitnessType
    <3>3. CASE what = "delisted"
      BY <2>1, <3>3 DEF Noticed, WitnessType
    <3> QED
      BY <3>1, <3>2, <3>3
  <2> HIDE DEF n
  <2>3. witness[r].seen \in [Items -> SUBSET Quantities]
    BY <2>1 DEF WitnessType
  <2>4. CASE Reading(r)
    <3>1. witness'[r] = n
      BY <2>1, <2>4 DEF n
    <3>2. /\ \A i \in Items : witness[r].seen[i] \subseteq n.seen[i]
          /\ what # "delisted" => q \in n.seen[item]
      BY <2>2, <2>3
    <3>3. /\ witness[r].grew => n.grew
          /\ witness[r].shrunk => n.shrunk
          /\ what = "listed" => n.grew
          /\ what = "delisted" => n.shrunk
      BY <2>2
    <3> QED
      BY <2>2, <2>4, <3>1, <3>2, <3>3
  <2>5. CASE ~Reading(r)
    BY <2>1, <2>5
  <2> QED
    BY <2>4, <2>5
<1> QED
  BY <1>3, <1>4, <1>5, <1>6 DEF Notes

LEMMA MoveIs ==
    ASSUME TypeOK, NEW p \in DOMAIN account, NEW q \in Quantities, Move(p, q)
    PROVE  /\ TypeOK' /\ Notes
           /\ DOMAIN account' = DOMAIN account
           /\ \A o \in DOMAIN account :
                 /\ account'[o].item = account[o].item
                 /\ o # p => account'[o] = account[o]
           /\ account'[p].q = q
           /\ \A r \in DOMAIN runs : Reading(r) => q \in witness'[r].seen[account[p].item]
<1>1. account[p] \in Stock /\ p \in 1 .. Len(account)
  BY Positions
<1> DEFINE e == [account[p] EXCEPT !.q = q]
<1>2. e \in Stock /\ e.item = account[p].item /\ e.q = q
  BY <1>1 DEF Stock
<1>3. account' = [account EXCEPT ![p] = e] /\ Change
  BY DEF Move
<1> HIDE DEF e
<1>4. account' \in Seq(Stock) /\ Len(account') = Len(account)
      /\ account'[p] = e /\ \A o \in DOMAIN account : o # p => account'[o] = account[o]
  BY <1>1, <1>2, <1>3, ExceptSeq, Positions DEF TypeOK
<1>5. DOMAIN account' = DOMAIN account
  BY <1>3
<1>6. account[p].item \in Items
  BY <1>1 DEF Stock
<1>7. ASSUME NEW r \in DOMAIN witness, NEW w, w = witness[r]
      PROVE  [w EXCEPT !.seen[account[p].item] = @ \cup {q}] =
             Noticed(w, account[p].item, q, "moved")
  BY DEF Noticed
<1>8. /\ witness' \in [DOMAIN witness -> WitnessType]
      /\ \A r \in DOMAIN witness : witness'[r] =
            IF Reading(r)
            THEN Noticed(witness[r], account[p].item, q, "moved")
            ELSE witness[r]
  <2>1. witness' = [r \in DOMAIN witness |->
            IF Reading(r)
            THEN [witness[r] EXCEPT !.seen[account[p].item] = @ \cup {q}]
            ELSE witness[r]]
    BY DEF Move, Noted
  <2>2. \A r \in DOMAIN witness :
           /\ witness[r] \in WitnessType
           /\ Noticed(witness[r], account[p].item, q, "moved") \in WitnessType
    BY <1>6, NoticedIsTyped, Positions
  <2> QED
    BY <1>7, <2>1, <2>2
<1>9. /\ TypeOK' /\ Notes
      /\ \A r \in DOMAIN runs : Reading(r) =>
            q \in witness'[r].seen[account[p].item]
  <2>1. Change /\ TypeOK
    BY <1>3
  <2>2. account' \in Seq(Stock)
    BY <1>4
  <2>3. /\ TypeOK' /\ Notes
        /\ \A r \in DOMAIN runs : Reading(r) =>
              /\ "moved" # "delisted" => q \in witness'[r].seen[account[p].item]
              /\ "moved" = "listed" => witness'[r].grew
              /\ "moved" = "delisted" => witness'[r].shrunk
    BY ONLY <2>1, <2>2, <1>6, <1>8, NotesAre, ZenonT(30)
  <2> QED
    BY <2>3
<1> QED
  BY <1>2, <1>4, <1>5, <1>9

LEMMA ListIs ==
    ASSUME TypeOK, NEW p \in Int, 1 <= p, p <= Len(account) + 1,
           NEW i \in Items, NEW q \in Quantities, List(p, i, q)
    PROVE  /\ TypeOK' /\ Notes
           /\ i \notin Listed
           /\ DOMAIN account' = 1 .. Len(account) + 1
           /\ \A o \in DOMAIN account :
                 IF o < p THEN account'[o] = account[o] ELSE account'[o + 1] = account[o]
           /\ account'[p] = [item |-> i, q |-> q]
           /\ \A o \in 1 .. p - 1 : account'[o] = account[o]
           /\ \A o \in p + 1 .. Len(account) + 1 : account'[o] = account[o - 1]
           /\ \A r \in DOMAIN runs :
                 Reading(r) => q \in witness'[r].seen[i] /\ witness'[r].grew
<1> DEFINE e == [item |-> i, q |-> q]
<1>1. /\ e \in Stock /\ account \in Seq(Stock)
      /\ p \in Int /\ 1 <= p /\ p <= Len(account) + 1
  BY Positions DEF Stock, TypeOK
<1>2. account' = InsertAt(account, p, e) /\ Change /\ i \notin Listed
  BY DEF List
<1> HIDE DEF e
<1>3. /\ account' \in Seq(Stock) /\ Len(account') = Len(account) + 1
      /\ \A o \in 1 .. Len(account) :
            IF o < p THEN account'[o] = account[o] ELSE account'[o + 1] = account[o]
      /\ account'[p] = e
      /\ \A o \in 1 .. p - 1 : account'[o] = account[o]
      /\ \A o \in p + 1 .. Len(account) + 1 : account'[o] = account[o - 1]
  <2>1. account' \in Seq(Stock) /\ Len(account') = Len(account) + 1 /\ account'[p] = e
    BY <1>1, <1>2, Inserted
  <2>2. \A o \in 1 .. Len(account) :
           IF o < p THEN account'[o] = account[o] ELSE account'[o + 1] = account[o]
    BY <1>1, <1>2, Inserted
  <2>3. \A o \in 1 .. p - 1 : account'[o] = account[o]
    BY <1>1, <1>2, Inserted
  <2>4. ASSUME NEW o \in p + 1 .. Len(account) + 1
        PROVE  account'[o] = account[o - 1]
    <3>1. o - 1 \in 1 .. Len(account) /\ ~(o - 1 < p) /\ o - 1 + 1 = o
      BY <1>1, Positions
    <3> QED
      BY <2>2, <3>1
  <2> QED
    BY <2>1, <2>2, <2>3, <2>4
<1>4. DOMAIN account' = 1 .. Len(account) + 1 /\ DOMAIN account = 1 .. Len(account)
  BY <1>3, Positions, LenProperties
<1>5. ASSUME NEW r \in DOMAIN witness, NEW w, w = witness[r]
      PROVE  [w EXCEPT !.seen[i] = @ \cup {q}, !.grew = TRUE] = Noticed(w, i, q, "listed")
  BY DEF Noticed
<1>6. /\ witness' \in [DOMAIN witness -> WitnessType]
      /\ \A r \in DOMAIN witness : witness'[r] =
            IF Reading(r)
            THEN Noticed(witness[r], i, q, "listed")
            ELSE witness[r]
  <2>1. witness' = [r \in DOMAIN witness |->
            IF Reading(r)
            THEN [witness[r] EXCEPT !.seen[i] = @ \cup {q}, !.grew = TRUE]
            ELSE witness[r]]
    BY DEF List, Noted
  <2>2. \A r \in DOMAIN witness :
           /\ witness[r] \in WitnessType
           /\ Noticed(witness[r], i, q, "listed") \in WitnessType
    BY NoticedIsTyped, Positions
  <2> QED
    BY <1>5, <2>1, <2>2
<1>7. /\ TypeOK' /\ Notes
      /\ \A r \in DOMAIN runs : Reading(r) =>
            /\ "listed" # "delisted" => q \in witness'[r].seen[i]
            /\ "listed" = "listed" => witness'[r].grew
            /\ "listed" = "delisted" => witness'[r].shrunk
  <2>1. Change /\ TypeOK /\ account' \in Seq(Stock)
    BY <1>2, <1>3
  <2> QED
    BY <2>1, <1>6, NotesAre, Zenon
<1> QED
  BY <1>2, <1>3, <1>4, <1>7 DEF e

LEMMA DelistIs ==
    ASSUME TypeOK, NEW p \in DOMAIN account, Delist(p)
    PROVE  /\ TypeOK' /\ Notes
           /\ DOMAIN account' = 1 .. Len(account) - 1
           /\ \A o \in DOMAIN account' :
                 account'[o] = IF o < p THEN account[o] ELSE account[o + 1]
           /\ \A r \in DOMAIN runs : Reading(r) => witness'[r].shrunk
<1> DEFINE i == account[p].item
           q == account[p].q
<1>1. i \in Items /\ q \in Quantities /\ account \in Seq(Stock) /\ p \in 1 .. Len(account)
  BY Positions DEF Stock, TypeOK
<1>2. account' = RemoveAt(account, p) /\ Change
  BY DEF Delist
<1>3. /\ account' \in Seq(Stock) /\ Len(account') = Len(account) - 1
      /\ \A o \in 1 .. Len(account) - 1 :
            account'[o] = IF o < p THEN account[o] ELSE account[o + 1]
  BY <1>1, <1>2, Removed
<1>4. DOMAIN account' = 1 .. Len(account) - 1
  BY <1>3, LenProperties
<1>5. witness' = [r \in DOMAIN witness |->
          IF Reading(r)
          THEN [witness[r] EXCEPT !.kept = @ \ {i}, !.shrunk = TRUE]
          ELSE witness[r]]
  BY DEF Delist, Noted
<1> HIDE DEF i, q
<1>6. ASSUME NEW r \in DOMAIN witness, NEW w, w = witness[r]
      PROVE  [w EXCEPT !.kept = @ \ {i}, !.shrunk = TRUE] = Noticed(w, i, q, "delisted")
  BY DEF Noticed
<1>7. /\ witness' \in [DOMAIN witness -> WitnessType]
      /\ \A r \in DOMAIN witness : witness'[r] =
            IF Reading(r)
            THEN Noticed(witness[r], i, q, "delisted")
            ELSE witness[r]
  <2>1. \A r \in DOMAIN witness :
           /\ witness[r] \in WitnessType
           /\ Noticed(witness[r], i, q, "delisted") \in WitnessType
    BY <1>1, NoticedIsTyped, Positions
  <2> QED
    BY <1>5, <1>6, <2>1
<1>8. /\ TypeOK' /\ Notes
      /\ \A r \in DOMAIN runs : Reading(r) =>
            /\ "delisted" # "delisted" => q \in witness'[r].seen[i]
            /\ "delisted" = "listed" => witness'[r].grew
            /\ "delisted" = "delisted" => witness'[r].shrunk
  <2>1. Change /\ TypeOK /\ account' \in Seq(Stock) /\ i \in Items /\ q \in Quantities
    BY <1>1, <1>2, <1>3
  <2> QED
    BY <2>1, <1>7, NotesAre, Zenon
<1> QED
  BY <1>3, <1>4, <1>8

(* Every step is one of these.                                             *)
LEMMA StepCases ==
    ASSUME TypeOK, [Next]_vars
    PROVE  /\ TypeOK'
           /\ \/ Begins
              \/ \E r \in DOMAIN runs :
                    \/ Proceeds(r)
                    \/ Fails(r, "cut")
                    \/ Fails(r, "refused")
                    \/ \E page \in Seq(Stock) : Reads(r, page)
                    \/ \E batch \in Seq(Stock) : Writes(r, batch)
              \/ \E p \in DOMAIN account, q \in Quantities : Move(p, q)
              \/ \E p \in 1 .. Len(account) + 1, i \in Items, q \in Quantities : List(p, i, q)
              \/ \E p \in DOMAIN account : Delist(p)
              \/ today' \in Nat /\ today <= today'
                 /\ UNCHANGED <<account, runs, rows, witness>>
<1>1. CASE Start
  BY <1>1, StartIs
<1>2. ASSUME NEW r \in DOMAIN runs, Page(r)
      PROVE  TypeOK' /\ \E page \in Seq(Stock) : Reads(r, page)
  BY <1>2, PageIs
<1>3. ASSUME NEW r \in DOMAIN runs, NEW error, PageFails(r, error)
      PROVE  TypeOK' /\ (Proceeds(r) \/ Fails(r, "cut"))
  BY <1>3, PageFailsIs
<1>4. ASSUME NEW r \in DOMAIN runs, LookUp(r)
      PROVE  TypeOK' /\ Proceeds(r)
  BY <1>4, PhaseIs DEF LookUp
<1>5. ASSUME NEW r \in DOMAIN runs, Write(r)
      PROVE  TypeOK' /\ (Fails(r, "refused") \/ \E batch \in Seq(Stock) : Writes(r, batch))
  BY <1>5, WriteIs
<1>6. ASSUME NEW r \in DOMAIN runs, WriteFails(r)
      PROVE  TypeOK' /\ Fails(r, "cut")
  BY <1>6, EndIs DEF WriteFails, Active, Ends
<1>7. ASSUME NEW r \in DOMAIN runs, Finish(r)
      PROVE  TypeOK' /\ Proceeds(r)
  BY <1>7, PhaseIs DEF Finish
<1>8. ASSUME NEW r \in DOMAIN runs, Crash(r)
      PROVE  TypeOK' /\ Fails(r, "cut")
  BY <1>8, EndIs DEF Crash
<1>9. ASSUME NEW p \in DOMAIN account, NEW q \in Quantities, Move(p, q)
      PROVE  TypeOK'
  BY <1>9, MoveIs
<1>10. ASSUME NEW p \in 1 .. Len(account) + 1, NEW i \in Items, NEW q \in Quantities,
              List(p, i, q)
       PROVE  TypeOK'
  <2>1. p \in Int /\ 1 <= p /\ p <= Len(account) + 1
    BY Positions
  <2> QED
    BY <1>10, <2>1, ListIs
<1>11. ASSUME NEW p \in DOMAIN account, Delist(p)
       PROVE  TypeOK'
  BY <1>11, DelistIs
<1>12. CASE Midnight
  BY <1>12, InventoryAssumption DEF Midnight, TypeOK
<1>13. CASE UNCHANGED vars
  BY <1>13, InventoryAssumption DEF TypeOK, vars
<1> QED
  BY <1>1, <1>2, <1>3, <1>4, <1>5, <1>6, <1>7, <1>8, <1>9, <1>10, <1>11, <1>12, <1>13 DEF Next

(* Types: what the database, a run and the witness hold, at any number of  *)
(* runs (syncTenant).                                                      *)
THEOREM TypeCorrect == Spec => []TypeOK
<1>1. Init => TypeOK
  BY InventoryAssumption DEF Init, TypeOK
<1>2. TypeOK /\ [Next]_vars => TypeOK'
  BY StepCases
<1> QED
  BY <1>1, <1>2, PTL DEF Spec

-----------------------------------------------------------------------------
(* The invariant.                                                          *)

(* A page carries the list on from the offset, to the new one or, if it is *)
(* the last, to the end.                                                   *)
LEMMA PageRead ==
    ASSUME TypeOK, NEW r \in DOMAIN runs, NEW page \in Seq(Stock), Reads(r, page)
    PROVE  /\ runs[r].offset \in Nat /\ Len(page) \in Nat
           /\ DOMAIN runs'[r].got = 1 .. Len(runs[r].got) + Len(page)
           /\ Len(runs'[r].got) = Len(runs[r].got) + Len(page)
           /\ \A p \in DOMAIN runs[r].got : runs'[r].got[p] = runs[r].got[p]
           /\ \A p \in 1 .. Len(page) :
                 /\ runs[r].offset + p \in DOMAIN account
                 /\ runs'[r].got[Len(runs[r].got) + p] = account[runs[r].offset + p]
           /\ \A p \in DOMAIN account : p > runs[r].offset =>
                 \/ p - runs[r].offset \in 1 .. Len(page)
                 \/ runs'[r].phase = "paging" /\ p > runs'[r].offset
           /\ runs'[r].phase = "paging" => /\ Len(page) <= PageSize
                                          /\ runs'[r].offset = runs[r].offset + PageSize
           /\ runs'[r].phase \in {"paging", "lookup"}
<1> DEFINE got == runs[r].got
           offset == runs[r].offset
<1>1. /\ offset \in Nat /\ got \in Seq(Stock) /\ Len(got) \in Nat
      /\ DOMAIN got = 1 .. Len(got) /\ PageSize \in Nat \ {0}
      /\ DOMAIN account = 1 .. Len(account) /\ Len(account) \in Nat
      /\ account \in Seq(Stock)
  BY Positions, InventoryAssumption DEF RunsType, TypeOK
<1>2. /\ Len(page) <= PageSize
      /\ Len(page) < PageSize => Len(account) <= offset + Len(page)
      /\ \A p \in 1 .. Len(page) :
            offset + p \in 1 .. Len(account) /\ page[p] = account[offset + p]
  <2>1. page = Window(account, offset, PageSize)
    BY DEF Reads
  <2> HIDE DEF offset
  <2>2. LET w == Window(account, offset, PageSize)
        IN  /\ Len(w) <= PageSize
            /\ Len(w) < PageSize => Len(account) <= offset + Len(w)
            /\ \A p \in 1 .. Len(w) :
                  offset + p \in 1 .. Len(account) /\ w[p] = account[offset + p]
    BY <1>1, WindowOf
  <2> QED
    BY <2>1, <2>2
<1>3. runs'[r].got = got \o page
  BY DEF Reads
<1>4. IF Len(page) < PageSize
      THEN runs'[r].phase = "lookup" /\ runs'[r].offset = offset
      ELSE runs'[r].phase = "paging" /\ runs'[r].offset = offset + PageSize
  BY DEF Reads
<1> HIDE DEF got, offset
<1>5. /\ got \o page \in Seq(Stock) /\ Len(got \o page) = Len(got) + Len(page)
      /\ \A p \in 1 .. Len(got) + Len(page) :
            (got \o page)[p] = IF p <= Len(got) THEN got[p] ELSE page[p - Len(got)]
  BY <1>1, ConcatProperties
<1>6. Len(page) \in Nat
  BY LenProperties
<1>7. DOMAIN (got \o page) = 1 .. Len(got) + Len(page)
  BY <1>5, LenProperties
<1>8. \A p \in DOMAIN got : (got \o page)[p] = got[p]
  BY <1>1, <1>5, <1>6
<1>9. ASSUME NEW p \in 1 .. Len(page)
      PROVE  /\ offset + p \in DOMAIN account
             /\ (got \o page)[Len(got) + p] = account[offset + p]
  <2>1. /\ Len(got) + p \in 1 .. Len(got) + Len(page) /\ ~(Len(got) + p <= Len(got))
        /\ Len(got) + p - Len(got) = p
    BY <1>1, <1>6
  <2> QED
    BY <1>1, <1>2, <1>5, <2>1
<1>10. ASSUME NEW p \in DOMAIN account, p > offset
       PROVE  \/ p - offset \in 1 .. Len(page)
              \/ runs'[r].phase = "paging" /\ p > runs'[r].offset
  BY <1>1, <1>2, <1>4, <1>6, <1>10
<1>11. /\ runs'[r].phase = "paging" => /\ Len(page) <= PageSize
                                      /\ runs'[r].offset = offset + PageSize
       /\ runs'[r].phase \in {"paging", "lookup"}
  BY <1>1, <1>2, <1>4, <1>6
<1> QED
  BY <1>1, <1>3, <1>5, <1>6, <1>7, <1>8, <1>9, <1>10, <1>11 DEF got, offset

(* A batch carries on what is written: its items have rows of the run,     *)
(* and where a row went another is in its place.                           *)
LEMMA BatchWritten ==
    ASSUME TypeOK, NEW r \in DOMAIN runs, NEW batch \in Seq(Stock), Writes(r, batch)
    PROVE  /\ runs[r].written \in Nat /\ Len(batch) \in Nat /\ DOMAIN batch = 1 .. Len(batch)
           /\ runs[r].written + Len(batch) <= Len(runs[r].got)
           /\ \A p \in 1 .. Len(batch) :
                 /\ runs[r].written + p \in DOMAIN runs[r].got
                 /\ batch[p] = runs[r].got[runs[r].written + p]
                 /\ \E row \in rows' : row.item = batch[p].item /\ row.day = runs[r].day
           /\ \A row \in rows : \E other \in rows' :
                 other.item = row.item /\ other.day = row.day
           /\ \A row \in rows' \ rows : \E p \in 1 .. Len(batch) :
                 /\ row.item = batch[p].item /\ row.q = batch[p].q
                 /\ row.day = runs[r].day /\ row.by = r
           /\ \A row \in rows' \cap rows : \A p \in 1 .. Len(batch) :
                 /\ row.item = batch[p].item /\ row.item \notin Officeless
                 /\ row.day = runs[r].day
                 => row.by = r
<1> DEFINE New(p) == [item |-> batch[p].item, day |-> runs[r].day, q |-> batch[p].q, by |-> r,
                      at |-> runs[r].written + p]
           Gone(row) == \E p \in DOMAIN batch :
                           /\ row.item = batch[p].item /\ row.item \notin Officeless
                           /\ row.day = runs[r].day
<1>1. /\ runs[r].written \in Nat /\ Len(batch) \in Nat /\ DOMAIN batch = 1 .. Len(batch)
      /\ runs[r].got \in Seq(Stock) /\ Len(runs[r].got) \in Nat
      /\ DOMAIN runs[r].got = 1 .. Len(runs[r].got) /\ BatchSize \in Nat \ {0}
  BY Positions, InventoryAssumption, LenProperties DEF RunsType
<1>2. /\ Len(batch) = 0 \/ runs[r].written + Len(batch) <= Len(runs[r].got)
      /\ \A p \in 1 .. Len(batch) :
            /\ runs[r].written + p \in 1 .. Len(runs[r].got)
            /\ batch[p] = runs[r].got[runs[r].written + p]
  <2>1. batch = Window(runs[r].got, runs[r].written, BatchSize)
    BY DEF Writes
  <2>2. LET w == Window(runs[r].got, runs[r].written, BatchSize)
        IN  /\ Len(w) = 0 \/ runs[r].written + Len(w) <= Len(runs[r].got)
            /\ \A p \in 1 .. Len(w) :
                  /\ runs[r].written + p \in 1 .. Len(runs[r].got)
                  /\ w[p] = runs[r].got[runs[r].written + p]
    BY <1>1, WindowOf
  <2> QED
    BY <2>1, <2>2
<1>3. runs[r].written < Len(runs[r].got)
  BY DEF Writes
<1>4. runs[r].written + Len(batch) <= Len(runs[r].got)
  BY <1>1, <1>2, <1>3
<1>5. rows' = {row \in rows : ~Gone(row)} \cup {New(p) : p \in DOMAIN batch}
  BY DEF Writes, Stored
<1>6. \A p \in DOMAIN batch :
         /\ New(p) \in rows' /\ New(p).item = batch[p].item /\ New(p).q = batch[p].q
         /\ New(p).day = runs[r].day /\ New(p).by = r
  BY <1>5
<1>7. \A row \in rows' : (row \in rows /\ ~Gone(row)) \/ \E p \in DOMAIN batch : row = New(p)
  BY <1>5
<1>8. \A row \in rows : row \in rows' \/ Gone(row)
  BY <1>5
<1> HIDE DEF New
<1>9. ASSUME NEW p \in 1 .. Len(batch)
      PROVE  \E row \in rows' : row.item = batch[p].item /\ row.day = runs[r].day
  BY <1>1, <1>6
<1>10. ASSUME NEW row \in rows
       PROVE  \E other \in rows' : other.item = row.item /\ other.day = row.day
  BY <1>6, <1>8
<1>11. ASSUME NEW row \in rows' \ rows
       PROVE  \E p \in 1 .. Len(batch) :
                 /\ row.item = batch[p].item /\ row.q = batch[p].q
                 /\ row.day = runs[r].day /\ row.by = r
  BY <1>1, <1>6, <1>7
<1>12. ASSUME NEW row \in rows' \cap rows, NEW p \in 1 .. Len(batch),
              row.item = batch[p].item, row.item \notin Officeless, row.day = runs[r].day
       PROVE  row.by = r
  BY <1>1, <1>6, <1>7, <1>12
<1> QED
  BY <1>1, <1>2, <1>4, <1>9, <1>10, <1>11, <1>12

(* A run at work, or over: its list, and what was noted, are its own.      *)
LEMMA RunOnly ==
    ASSUME NEW r \in DOMAIN runs,
           Proceeds(r) \/ (\E how : Fails(r, how)) \/ (\E page : Reads(r, page))
             \/ (\E batch : Writes(r, batch))
    PROVE  /\ OthersStay(r) /\ UNCHANGED <<today, account, witness>>
           /\ runs'[r].day = runs[r].day /\ Active(r)
BY DEF Proceeds, Fails, Reads, Writes, Active, Reading, Ends

LEMMA ListedOnceStep ==
    ASSUME TypeOK, ListedOnce, [Next]_vars
    PROVE  ListedOnce'
<1>1. CASE UNCHANGED account
  BY <1>1 DEF ListedOnce
<1>2. ASSUME NEW p \in DOMAIN account, NEW q \in Quantities, Move(p, q)
      PROVE  ListedOnce'
  BY <1>2, MoveIs DEF ListedOnce
<1>3. ASSUME NEW p \in 1 .. Len(account) + 1, NEW i \in Items, NEW q \in Quantities,
             List(p, i, q)
      PROVE  ListedOnce'
  <2>0. p \in Int /\ 1 <= p /\ p <= Len(account) + 1
    BY Positions
  <2>1. /\ DOMAIN account' = 1 .. Len(account) + 1 /\ DOMAIN account = 1 .. Len(account)
        /\ Len(account) \in Nat /\ account'[p] = [item |-> i, q |-> q]
        /\ \A o \in 1 .. p - 1 : account'[o] = account[o]
        /\ \A o \in p + 1 .. Len(account) + 1 : account'[o] = account[o - 1]
    BY <1>3, <2>0, ListIs, Positions
  <2>2. \A o \in DOMAIN account : account[o].item # i
    <3>1. i \notin Listed
      BY <1>3, <2>0, ListIs
    <3> QED
      BY <3>1 DEF Listed
  <2> DEFINE src(o) == IF o < p THEN o ELSE o - 1
  <2>3. ASSUME NEW o \in DOMAIN account', o # p
        PROVE  src(o) \in DOMAIN account /\ account'[o] = account[src(o)]
    BY <2>1, <2>3
  <2> HIDE DEF src
  <2>4. \A o \in DOMAIN account' : o # p => account'[o].item # i
    BY <2>2, <2>3
  <2>5. ASSUME NEW o \in DOMAIN account', NEW u \in DOMAIN account', o # p, u # p,
               account'[o].item = account'[u].item
        PROVE  o = u
    <3>1. src(o) \in DOMAIN account /\ src(u) \in DOMAIN account
          /\ account'[o] = account[src(o)] /\ account'[u] = account[src(u)]
      BY <2>3, <2>5
    <3>2. src(o) = src(u)
      BY <2>5, <3>1 DEF ListedOnce
    <3> QED
      BY <2>1, <2>5, <3>2 DEF src
  <2> QED
    BY <2>1, <2>4, <2>5 DEF ListedOnce
<1>4. ASSUME NEW p \in DOMAIN account, Delist(p)
      PROVE  ListedOnce'
  <2>1. /\ DOMAIN account' = 1 .. Len(account) - 1 /\ DOMAIN account = 1 .. Len(account)
        /\ Len(account) \in Nat
        /\ \A o \in DOMAIN account' :
              account'[o] = IF o < p THEN account[o] ELSE account[o + 1]
    BY <1>4, DelistIs, Positions
  <2> QED
    BY <2>1 DEF ListedOnce
<1> QED
  BY <1>1, <1>2, <1>3, <1>4, StepCases, RunOnly DEF Begins

LEMMA SeenStep ==
    ASSUME TypeOK, SeenInv, [Next]_vars
    PROVE  SeenInv'
<1>1. CASE Begins
  <2> DEFINE n == Len(runs) + 1
  <2>1. ASSUME NEW p \in DOMAIN account
        PROVE  account[p].q \in witness'[n].seen[account[p].item]
    BY <1>1, Positions DEF Begins, Stock
  <2>2. /\ DOMAIN runs' = DOMAIN runs \cup {n} /\ UNCHANGED account
        /\ runs'[n].got = <<>>
        /\ \A r \in DOMAIN runs : runs'[r] = runs[r] /\ witness'[r] = witness[r]
    BY <1>1 DEF Begins
  <2> HIDE DEF n
  <2> QED
    BY <2>1, <2>2 DEF SeenInv, Reading
<1>2. ASSUME NEW r \in DOMAIN runs, Proceeds(r) \/ Fails(r, "cut") \/ Fails(r, "refused")
      PROVE  SeenInv'
  <2>1. \/ runs'[r].got = <<>> /\ runs'[r].phase # "paging"
        \/ runs'[r].got = runs[r].got /\ (runs'[r].phase = "paging" => Reading(r))
    BY <1>2 DEF Proceeds, Fails, Reading
  <2> QED
    BY <1>2, <2>1, RunOnly DEF SeenInv, OthersStay, Reading
<1>3. ASSUME NEW r \in DOMAIN runs, NEW page \in Seq(Stock), Reads(r, page)
      PROVE  SeenInv'
  <2>1. /\ OthersStay(r) /\ UNCHANGED <<account, witness>> /\ Reading(r)
    BY <1>3 DEF Reads
  <2>2. ASSUME NEW p \in DOMAIN runs'[r].got
        PROVE  runs'[r].got[p].q \in witness[r].seen[runs'[r].got[p].item]
    <3>1. CASE p \in DOMAIN runs[r].got
      BY <1>3, <3>1, PageRead DEF SeenInv
    <3>2. CASE p \notin DOMAIN runs[r].got
      <4>1. /\ p - Len(runs[r].got) \in 1 .. Len(page)
            /\ Len(runs[r].got) + (p - Len(runs[r].got)) = p
        <5>1. /\ p \in 1 .. Len(runs[r].got) + Len(page) /\ Len(page) \in Nat
              /\ Len(runs[r].got) \in Nat /\ ~(p \in 1 .. Len(runs[r].got))
          BY <1>3, <3>2, PageRead, Positions
        <5> QED
          BY <5>1
      <4>2. PICK o \in DOMAIN account : runs'[r].got[p] = account[o]
        BY <1>3, <4>1, PageRead
      <4> QED
        BY <2>1, <4>2 DEF SeenInv
    <3> QED
      BY <3>1, <3>2
  <2> QED
    BY <2>1, <2>2 DEF SeenInv, OthersStay, Reading
<1>4. ASSUME NEW r \in DOMAIN runs, NEW batch \in Seq(Stock), Writes(r, batch)
      PROVE  SeenInv'
  BY <1>4 DEF Writes, SeenInv, OthersStay, Reading
<1>5. ASSUME Notes,
             \A r \in DOMAIN runs : Reading(r) => \A o \in DOMAIN account' :
                account'[o].q \in witness'[r].seen[account'[o].item]
      PROVE  SeenInv'
  <2>1. \A r \in DOMAIN runs : \A p \in DOMAIN runs[r].got : runs[r].got[p].item \in Items
    BY Positions DEF Stock
  <2> QED
    BY <1>5, <2>1 DEF SeenInv, Notes, Reading
<1>6. ASSUME NEW p \in DOMAIN account, NEW q \in Quantities, Move(p, q)
      PROVE  SeenInv'
  <2>1. \A o \in DOMAIN account : account[o].item \in Items
    BY Positions DEF Stock
  <2> QED
    BY <1>5, <1>6, <2>1, MoveIs DEF SeenInv, Notes
<1>7. ASSUME NEW p \in 1 .. Len(account) + 1, NEW i \in Items, NEW q \in Quantities,
             List(p, i, q)
      PROVE  SeenInv'
  <2>0. p \in Int /\ 1 <= p /\ p <= Len(account) + 1
    BY Positions
  <2>1. /\ DOMAIN account' = 1 .. Len(account) + 1 /\ DOMAIN account = 1 .. Len(account)
        /\ Len(account) \in Nat /\ account'[p] = [item |-> i, q |-> q]
        /\ \A o \in 1 .. p - 1 : account'[o] = account[o]
        /\ \A o \in p + 1 .. Len(account) + 1 : account'[o] = account[o - 1]
        /\ \A o \in DOMAIN account : account[o].item \in Items
    BY <1>7, <2>0, ListIs, Positions DEF Stock
  <2>2. \A o \in DOMAIN account' : o # p => \E u \in DOMAIN account : account'[o] = account[u]
    BY <2>1
  <2>3. /\ Notes /\ UNCHANGED runs
        /\ \A r \in DOMAIN runs : Reading(r) => q \in witness'[r].seen[i]
    BY <1>7, <2>0, ListIs DEF Notes
  <2>4. ASSUME NEW r \in DOMAIN runs, Reading(r), NEW o \in DOMAIN account'
        PROVE  account'[o].q \in witness'[r].seen[account'[o].item]
    <3>1. CASE o = p
      BY <2>1, <2>3, <2>4, <3>1
    <3>2. CASE o # p
      <4>1. PICK u \in DOMAIN account : account'[o] = account[u]
        BY <2>2, <3>2
      <4>2. account[u].q \in witness[r].seen[account[u].item] /\ account[u].item \in Items
        BY <2>1, <2>4 DEF SeenInv
      <4> QED
        BY <2>3, <4>1, <4>2 DEF Notes
    <3> QED
      BY <3>1, <3>2
  <2> QED
    BY <1>5, <2>3, <2>4
<1>8. ASSUME NEW p \in DOMAIN account, Delist(p)
      PROVE  SeenInv'
  <2>1. \A o \in DOMAIN account' : \E u \in DOMAIN account : account'[o] = account[u]
    BY <1>8, DelistIs, Positions
  <2>2. \A o \in DOMAIN account : account[o].item \in Items
    BY Positions DEF Stock
  <2> QED
    BY <1>5, <1>8, <2>1, <2>2, DelistIs DEF SeenInv, Notes
<1>9. CASE UNCHANGED <<account, runs, rows, witness>>
  BY <1>9 DEF SeenInv, Reading
<1> QED
  BY <1>1, <1>2, <1>3, <1>4, <1>6, <1>7, <1>8, <1>9, StepCases

LEMMA ReadOnceStep ==
    ASSUME TypeOK, ListedOnce, ReadOnce, [Next]_vars
    PROVE  ReadOnce'
<1>1. CASE Begins
  <2> DEFINE n == Len(runs) + 1
  <2>1. /\ DOMAIN runs' = DOMAIN runs \cup {n} /\ UNCHANGED account
        /\ runs'[n].got = <<>>
        /\ \A r \in DOMAIN runs : runs'[r] = runs[r] /\ witness'[r] = witness[r]
    BY <1>1 DEF Begins
  <2> HIDE DEF n
  <2> QED
    BY <2>1 DEF ReadOnce, Reading
<1>2. ASSUME NEW r \in DOMAIN runs, Proceeds(r) \/ Fails(r, "cut") \/ Fails(r, "refused")
      PROVE  ReadOnce'
  <2>1. \/ runs'[r].got = <<>> /\ runs'[r].phase # "paging"
        \/ /\ runs'[r].got = runs[r].got /\ runs'[r].offset = runs[r].offset
           /\ runs'[r].phase = "paging" => Reading(r)
    BY <1>2 DEF Proceeds, Fails, Reading
  <2> QED
    BY <1>2, <2>1, RunOnly DEF ReadOnce, OthersStay, Reading
<1>3. ASSUME NEW r \in DOMAIN runs, NEW page \in Seq(Stock), Reads(r, page)
      PROVE  ReadOnce'
  <2> DEFINE n == Len(runs[r].got)
             offset == runs[r].offset
             got == runs[r].got
             next == runs'[r].got
  <2>1. OthersStay(r) /\ UNCHANGED <<account, witness>> /\ Reading(r)
    BY <1>3 DEF Reads
  <2>2. /\ n \in Nat /\ DOMAIN got = 1 .. n /\ DOMAIN account = 1 .. Len(account)
        /\ Len(account) \in Nat
    BY Positions
  <2>3. /\ offset \in Nat /\ Len(page) \in Nat /\ DOMAIN next = 1 .. n + Len(page)
        /\ \A p \in DOMAIN got : next[p] = got[p]
        /\ \A p \in 1 .. Len(page) :
              offset + p \in DOMAIN account /\ next[n + p] = account[offset + p]
        /\ runs'[r].phase = "paging" =>
              Len(page) <= PageSize /\ runs'[r].offset = offset + PageSize
    BY <1>3, PageRead
  <2> HIDE DEF n, offset, got, next
  <2>4. \A p \in DOMAIN next : p \in DOMAIN got \/ (p - n \in 1 .. Len(page) /\ n + (p - n) = p)
    BY <2>2, <2>3
  <2>5. ASSUME NEW p \in DOMAIN next, p \notin DOMAIN got
        PROVE  /\ offset + (p - n) \in DOMAIN account /\ next[p] = account[offset + (p - n)]
               /\ p - n \in 1 .. Len(page)
    BY <2>3, <2>4, <2>5
  <2>6. ASSUME ~witness[r].grew
        PROVE  /\ \A p, o \in DOMAIN got : got[p].item = got[o].item => p = o
               /\ \A o \in DOMAIN got, p \in DOMAIN account :
                     account[p].item = got[o].item => p <= offset
    BY <2>1, <2>6 DEF ReadOnce, got, offset
  <2>7. ASSUME ~witness[r].grew,
               NEW p \in DOMAIN next, NEW o \in DOMAIN next, next[p].item = next[o].item
        PROVE  p = o
    <3>1. CASE p \in DOMAIN got /\ o \in DOMAIN got
      BY <2>3, <2>6, <2>7, <3>1
    <3>2. CASE p \notin DOMAIN got /\ o \notin DOMAIN got
      <4>1. offset + (p - n) = offset + (o - n)
        BY <2>5, <2>7, <3>2 DEF ListedOnce
      <4> QED
        BY <2>2, <2>3, <4>1
    <3>3. ASSUME NEW x \in DOMAIN got, NEW y \in DOMAIN next, y \notin DOMAIN got,
                 next[x].item = next[y].item
          PROVE  FALSE
      <4>1. offset + (y - n) <= offset /\ y - n \in 1 .. Len(page)
        BY <2>3, <2>5, <2>6, <2>7, <3>3
      <4> QED
        BY <2>2, <2>3, <4>1
    <3> QED
      BY <2>7, <3>1, <3>2, <3>3
  <2>8. ASSUME ~witness[r].grew, runs'[r].phase = "paging",
               NEW o \in DOMAIN next, NEW p \in DOMAIN account, account[p].item = next[o].item
        PROVE  p <= runs'[r].offset
    <3>1. CASE o \in DOMAIN got
      <4>1. p <= offset
        BY <2>3, <2>6, <2>8, <3>1
      <4> QED
        BY <2>2, <2>3, <2>8, <4>1, InventoryAssumption
    <3>2. CASE o \notin DOMAIN got
      <4>1. p = offset + (o - n) /\ o - n \in 1 .. Len(page)
        BY <2>5, <2>8, <3>2 DEF ListedOnce
      <4> QED
        BY <2>2, <2>3, <2>8, <4>1, InventoryAssumption
    <3> QED
      BY <3>1, <3>2
  <2> QED
    BY <2>1, <2>7, <2>8 DEF ReadOnce, OthersStay, Reading, next
<1>4. ASSUME NEW r \in DOMAIN runs, NEW batch \in Seq(Stock), Writes(r, batch)
      PROVE  ReadOnce'
  BY <1>4 DEF Writes, ReadOnce, OthersStay, Reading
<1>5. ASSUME NEW p \in DOMAIN account, NEW q \in Quantities, Move(p, q)
      PROVE  ReadOnce'
  <2>1. /\ Notes /\ DOMAIN account' = DOMAIN account
        /\ \A o \in DOMAIN account : account'[o].item = account[o].item
    BY <1>5, MoveIs
  <2> QED
    BY <2>1 DEF ReadOnce, Notes, Reading
<1>6. ASSUME NEW p \in 1 .. Len(account) + 1, NEW i \in Items, NEW q \in Quantities,
             List(p, i, q)
      PROVE  ReadOnce'
  <2>0. p \in Int /\ 1 <= p /\ p <= Len(account) + 1
    BY Positions
  <2>1. Notes /\ \A r \in DOMAIN runs : Reading(r) => witness'[r].grew
    BY <1>6, <2>0, ListIs
  <2> QED
    BY <2>1 DEF ReadOnce, Notes, Reading
<1>7. ASSUME NEW p \in DOMAIN account, Delist(p)
      PROVE  ReadOnce'
  <2>1. /\ Notes /\ DOMAIN account' = 1 .. Len(account) - 1
        /\ DOMAIN account = 1 .. Len(account) /\ Len(account) \in Nat
        /\ \A o \in DOMAIN account' :
              account'[o] = IF o < p THEN account[o] ELSE account[o + 1]
    BY <1>7, DelistIs, Positions
  <2>2. ASSUME NEW o \in DOMAIN account'
        PROVE  \/ o \in DOMAIN account /\ account'[o] = account[o]
               \/ o + 1 \in DOMAIN account /\ account'[o] = account[o + 1]
    <3>1. o \in DOMAIN account /\ o + 1 \in DOMAIN account
      BY <2>1
    <3>2. account'[o] = account[o] \/ account'[o] = account[o + 1]
      BY <2>1
    <3> QED
      BY <3>1, <3>2
  <2>3. ASSUME NEW r \in DOMAIN runs, Reading(r), ~witness'[r].grew,
               NEW o \in DOMAIN runs[r].got, NEW u \in DOMAIN account',
               account'[u].item = runs[r].got[o].item
        PROVE  u <= runs[r].offset
    <3>1. runs[r].offset \in Nat /\ u \in Int
      BY <2>1, Positions DEF RunsType
    <3>2. u <= runs[r].offset \/ u + 1 <= runs[r].offset
      BY <2>1, <2>2, <2>3 DEF ReadOnce, Notes
    <3> QED
      BY <3>1, <3>2
  <2> QED
    BY <2>1, <2>3 DEF ReadOnce, Notes, Reading
<1>8. CASE UNCHANGED <<account, runs, rows, witness>>
  BY <1>8 DEF ReadOnce, Reading
<1> QED
  BY <1>1, <1>2, <1>3, <1>4, <1>5, <1>6, <1>7, <1>8, StepCases

LEMMA NoneMissedStep ==
    ASSUME TypeOK, NoneMissed, [Next]_vars
    PROVE  NoneMissed'
<1>1. CASE Begins
  <2> DEFINE n == Len(runs) + 1
  <2>1. /\ DOMAIN runs' = DOMAIN runs \cup {n} /\ UNCHANGED account
        /\ runs'[n].phase = "paging" /\ runs'[n].offset = 0 /\ witness'[n].kept = Listed
        /\ \A r \in DOMAIN runs : runs'[r] = runs[r] /\ witness'[r] = witness[r]
    BY <1>1 DEF Begins
  <2> HIDE DEF n
  <2>2. \A i \in Listed : \E p \in DOMAIN account : account[p].item = i /\ p > 0
    BY Positions DEF Listed
  <2> QED
    BY <2>1, <2>2 DEF NoneMissed, Reading
<1>2. ASSUME NEW r \in DOMAIN runs, Proceeds(r) \/ Fails(r, "cut") \/ Fails(r, "refused")
      PROVE  NoneMissed'
  <2>1. \/ runs'[r].phase \in {"refused", "cut"}
        \/ /\ runs'[r].got = runs[r].got /\ runs'[r].offset = runs[r].offset
           /\ runs[r].phase \notin {"refused", "cut"}
           /\ Reading(r) => runs'[r].phase = "paging"
    BY <1>2 DEF Proceeds, Fails, Reading
  <2> QED
    BY <1>2, <2>1, RunOnly DEF NoneMissed, OthersStay, Reading
<1>3. ASSUME NEW r \in DOMAIN runs, NEW page \in Seq(Stock), Reads(r, page)
      PROVE  NoneMissed'
  <2>1. OthersStay(r) /\ UNCHANGED <<account, witness>> /\ Reading(r)
    BY <1>3 DEF Reads
  <2>2. ASSUME NEW i \in witness[r].kept, ~witness[r].shrunk
        PROVE  \/ \E p \in DOMAIN runs'[r].got : runs'[r].got[p].item = i
               \/ runs'[r].phase = "paging" /\ \E p \in DOMAIN account :
                                       account[p].item = i /\ p > runs'[r].offset
    <3>1. CASE \E p \in DOMAIN runs[r].got : runs[r].got[p].item = i
      <4>1. PICK p \in DOMAIN runs[r].got : runs[r].got[p].item = i
        BY <3>1
      <4>2. p \in DOMAIN runs'[r].got
        BY <1>3, PageRead, Positions
      <4> QED
        BY <1>3, <4>1, <4>2, PageRead
    <3>2. CASE \E p \in DOMAIN account : account[p].item = i /\ p > runs[r].offset
      <4>1. PICK p \in DOMAIN account : account[p].item = i /\ p > runs[r].offset
        BY <3>2
      <4>2. CASE p - runs[r].offset \in 1 .. Len(page)
        <5> DEFINE o == runs[r].offset
                   n == Len(runs[r].got)
        <5>1. /\ o \in Nat /\ Len(page) \in Nat
              /\ DOMAIN runs'[r].got = 1 .. n + Len(page)
              /\ \A k \in 1 .. Len(page) : runs'[r].got[n + k] = account[o + k]
          BY <1>3, PageRead
        <5>2. n \in Nat /\ p \in Int
          BY Positions
        <5> HIDE DEF o, n
        <5>3. o + (p - o) = p /\ n + (p - o) \in 1 .. n + Len(page)
          BY <4>2, <5>1, <5>2 DEF o
        <5>4. runs'[r].got[n + (p - o)] = account[p]
          BY <4>2, <5>1, <5>3 DEF o
        <5> QED
          BY <4>1, <5>1, <5>3, <5>4
      <4>3. CASE runs'[r].phase = "paging" /\ p > runs'[r].offset
        BY <4>1, <4>3
      <4> QED
        BY <1>3, <4>1, <4>2, <4>3, PageRead
    <3> QED
      BY <2>1, <2>2, <3>1, <3>2 DEF NoneMissed, Reading
  <2> QED
    BY <2>1, <2>2 DEF NoneMissed, OthersStay, Reading
<1>4. ASSUME NEW r \in DOMAIN runs, NEW batch \in Seq(Stock), Writes(r, batch)
      PROVE  NoneMissed'
  BY <1>4 DEF Writes, NoneMissed, OthersStay, Reading
<1>5. ASSUME NEW p \in DOMAIN account, NEW q \in Quantities, Move(p, q)
      PROVE  NoneMissed'
  <2>1. /\ Notes /\ DOMAIN account' = DOMAIN account
        /\ \A o \in DOMAIN account : account'[o].item = account[o].item
    BY <1>5, MoveIs
  <2> QED
    BY <2>1 DEF NoneMissed, Notes, Reading
<1>6. ASSUME NEW p \in 1 .. Len(account) + 1, NEW i \in Items, NEW q \in Quantities,
             List(p, i, q)
      PROVE  NoneMissed'
  <2>0. p \in Int /\ 1 <= p /\ p <= Len(account) + 1
    BY Positions
  <2>1. /\ Notes /\ DOMAIN account' = 1 .. Len(account) + 1
        /\ DOMAIN account = 1 .. Len(account) /\ Len(account) \in Nat
        /\ \A o \in DOMAIN account :
              IF o < p THEN account'[o] = account[o] ELSE account'[o + 1] = account[o]
    BY <1>6, <2>0, ListIs, Positions
  <2>2. ASSUME NEW j \in Nat, NEW o \in DOMAIN account, o > j
        PROVE  \E u \in DOMAIN account' : account'[u] = account[o] /\ u > j
    <3>1. CASE o < p
      BY <2>1, <2>2, <3>1
    <3>2. CASE ~(o < p)
      <4>1. o + 1 \in DOMAIN account' /\ o + 1 > j /\ account'[o + 1] = account[o]
        BY <2>1, <2>2, <3>2
      <4> QED
        BY <4>1
    <3> QED
      BY <3>1, <3>2
  <2>3. \A r \in DOMAIN runs : runs[r].offset \in Nat
    BY Positions DEF RunsType
  <2> QED
    BY <2>1, <2>2, <2>3 DEF NoneMissed, Notes, Reading
<1>7. ASSUME NEW p \in DOMAIN account, Delist(p)
      PROVE  NoneMissed'
  <2>1. Notes /\ \A r \in DOMAIN runs : Reading(r) => witness'[r].shrunk
    BY <1>7, DelistIs
  <2> QED
    BY <2>1 DEF NoneMissed, Notes, Reading
<1>8. CASE UNCHANGED <<account, runs, rows, witness>>
  BY <1>8 DEF NoneMissed, Reading
<1> QED
  BY <1>1, <1>2, <1>3, <1>4, <1>5, <1>6, <1>7, <1>8, StepCases

(* What a change at Bsale leaves of the facts about rows and runs.         *)
LEMMA NotesKeep ==
    ASSUME TypeOK, [Next]_vars
    PROVE  \/ Begins
           \/ \E r \in DOMAIN runs :
                 \/ Proceeds(r)
                 \/ Fails(r, "cut")
                 \/ Fails(r, "refused")
                 \/ \E page \in Seq(Stock) : Reads(r, page)
                 \/ \E batch \in Seq(Stock) : Writes(r, batch)
           \/ Notes
           \/ today' \in Nat /\ today <= today' /\ UNCHANGED <<account, runs, rows, witness>>
<1>1. ASSUME NEW p \in DOMAIN account, NEW q \in Quantities, Move(p, q)
      PROVE  Notes
  BY <1>1, MoveIs
<1>2. ASSUME NEW p \in 1 .. Len(account) + 1, NEW i \in Items, NEW q \in Quantities,
             List(p, i, q)
      PROVE  Notes
  <2>1. p \in Int /\ 1 <= p /\ p <= Len(account) + 1
    BY Positions
  <2> QED
    BY <1>2, <2>1, ListIs
<1>3. ASSUME NEW p \in DOMAIN account, Delist(p)
      PROVE  Notes
  BY <1>3, DelistIs
<1> QED
  BY <1>1, <1>2, <1>3, StepCases

LEMMA RowsStep ==
    ASSUME TypeOK, SeenInv, RowsInv, [Next]_vars
    PROVE  RowsInv'
<1>1. CASE Begins
  BY <1>1 DEF Begins, RowsInv
<1>2. ASSUME NEW r \in DOMAIN runs,
             \/ Proceeds(r) \/ Fails(r, "cut") \/ Fails(r, "refused")
             \/ \E page \in Seq(Stock) : Reads(r, page)
      PROVE  RowsInv'
  <2>1. OthersStay(r) /\ UNCHANGED <<rows, witness>> /\ runs'[r].day = runs[r].day
    BY <1>2 DEF Proceeds, Fails, Reads
  <2> QED
    BY <2>1 DEF RowsInv, OthersStay
<1>3. ASSUME NEW r \in DOMAIN runs, NEW batch \in Seq(Stock), Writes(r, batch)
      PROVE  RowsInv'
  <2>1. OthersStay(r) /\ UNCHANGED witness /\ runs'[r].day = runs[r].day
    BY <1>3 DEF Writes
  <2>2. ASSUME NEW row \in rows' \ rows
        PROVE  /\ row.by = r /\ row.day = runs[r].day
               /\ row.q \in witness[r].seen[row.item]
    <3>1. PICK p \in 1 .. Len(batch) :
             /\ row.item = batch[p].item /\ row.q = batch[p].q
             /\ row.day = runs[r].day /\ row.by = r
      BY <1>3, BatchWritten
    <3>2. PICK o \in DOMAIN runs[r].got : batch[p] = runs[r].got[o]
      BY <1>3, BatchWritten
    <3> QED
      BY <3>1, <3>2 DEF SeenInv
  <2> QED
    BY <2>1, <2>2 DEF RowsInv, OthersStay
<1>4. CASE Notes
  <2>1. \A row \in rows : row.item \in Items
    BY DEF TypeOK, Rows
  <2> QED
    BY <1>4, <2>1 DEF RowsInv, Notes
<1>5. CASE UNCHANGED <<account, runs, rows, witness>>
  BY <1>5 DEF RowsInv
<1> QED
  BY <1>1, <1>2, <1>3, <1>4, <1>5, NotesKeep

LEMMA WrittenStep ==
    ASSUME TypeOK, WrittenInv, [Next]_vars
    PROVE  WrittenInv'
<1>1. CASE Begins
  <2> DEFINE n == Len(runs) + 1
  <2>1. /\ DOMAIN runs' = DOMAIN runs \cup {n} /\ UNCHANGED rows
        /\ runs'[n].phase = "paging" /\ runs'[n].written = 0 /\ runs'[n].got = <<>>
        /\ \A r \in DOMAIN runs : runs'[r] = runs[r]
    BY <1>1 DEF Begins
  <2> HIDE DEF n
  <2>2. Len(<<>>) = 0
    OBVIOUS
  <2> QED
    BY <2>1, <2>2 DEF WrittenInv
<1>2. ASSUME NEW r \in DOMAIN runs, Proceeds(r) \/ Fails(r, "cut") \/ Fails(r, "refused")
      PROVE  WrittenInv'
  <2>1. /\ OthersStay(r) /\ UNCHANGED rows /\ runs'[r].day = runs[r].day
        /\ \/ runs'[r].got = <<>> /\ runs'[r].written = 0 /\ runs'[r].phase # "success"
           \/ /\ runs'[r].got = runs[r].got /\ runs'[r].written = runs[r].written
              /\ runs'[r].phase = "success" => runs[r].written = Len(runs[r].got)
    BY <1>2 DEF Proceeds, Fails
  <2>2. Len(<<>>) = 0
    OBVIOUS
  <2> QED
    BY <2>1, <2>2 DEF WrittenInv, OthersStay
<1>3. ASSUME NEW r \in DOMAIN runs, NEW page \in Seq(Stock), Reads(r, page)
      PROVE  WrittenInv'
  <2>1. /\ OthersStay(r) /\ UNCHANGED rows /\ runs'[r].day = runs[r].day
        /\ runs'[r].written = runs[r].written
    BY <1>3 DEF Reads
  <2>2. runs'[r].phase # "success"
    BY <1>3, PageRead
  <2>3. /\ runs[r].written \in Nat /\ Len(runs[r].got) \in Nat
        /\ runs[r].written <= Len(runs[r].got)
        /\ DOMAIN runs[r].got = 1 .. Len(runs[r].got)
    BY Positions DEF RunsType, WrittenInv
  <2>4. runs'[r].written <= Len(runs'[r].got)
    BY <1>3, <2>1, <2>3, PageRead
  <2>5. \A p \in 1 .. runs[r].written : runs'[r].got[p] = runs[r].got[p]
    BY <1>3, <2>3, PageRead
  <2> QED
    BY <2>1, <2>2, <2>4, <2>5 DEF WrittenInv, OthersStay
<1>4. ASSUME NEW r \in DOMAIN runs, NEW batch \in Seq(Stock), Writes(r, batch)
      PROVE  WrittenInv'
  <2>1. /\ OthersStay(r) /\ runs'[r].day = runs[r].day /\ runs'[r].got = runs[r].got
        /\ runs'[r].phase = "writing" /\ runs'[r].written = runs[r].written + Len(batch)
    BY <1>4 DEF Writes
  <2>2. /\ runs[r].written \in Nat /\ Len(batch) \in Nat
        /\ runs[r].written + Len(batch) <= Len(runs[r].got)
        /\ \A p \in 1 .. Len(batch) :
              /\ batch[p] = runs[r].got[runs[r].written + p]
              /\ \E row \in rows' : row.item = batch[p].item /\ row.day = runs[r].day
        /\ \A row \in rows : \E other \in rows' :
              other.item = row.item /\ other.day = row.day
    BY <1>4, BatchWritten
  <2>3. ASSUME NEW p \in 1 .. runs[r].written + Len(batch)
        PROVE  \E row \in rows' : row.item = runs[r].got[p].item /\ row.day = runs[r].day
    <3>1. CASE p \in 1 .. runs[r].written
      <4>1. PICK row \in rows : row.item = runs[r].got[p].item /\ row.day = runs[r].day
        BY <3>1 DEF WrittenInv
      <4> QED
        BY <2>2, <4>1
    <3>2. CASE p \notin 1 .. runs[r].written
      <4>1. PICK x \in 1 .. Len(batch) : runs[r].written + x = p
        <5>1. p - runs[r].written \in 1 .. Len(batch)
              /\ runs[r].written + (p - runs[r].written) = p
          BY <2>2, <3>2
        <5> QED
          BY <5>1
      <4>2. batch[x] = runs[r].got[p]
        BY <2>2, <4>1
      <4> QED
        BY <2>2, <4>2
    <3> QED
      BY <3>1, <3>2
  <2>4. ASSUME NEW o \in DOMAIN runs, o # r, NEW p \in 1 .. runs[o].written
        PROVE  \E row \in rows' : row.item = runs[o].got[p].item /\ row.day = runs[o].day
    <3>1. PICK row \in rows : row.item = runs[o].got[p].item /\ row.day = runs[o].day
      BY DEF WrittenInv
    <3> QED
      BY <2>2, <3>1
  <2>5. \A o \in DOMAIN runs : o # r =>
           /\ runs[o].written <= Len(runs[o].got)
           /\ runs[o].phase = "success" => runs[o].written = Len(runs[o].got)
    BY DEF WrittenInv
  <2>6. ASSUME NEW o \in DOMAIN runs
        PROVE  /\ runs'[o].written <= Len(runs'[o].got)
               /\ runs'[o].phase = "success" => runs'[o].written = Len(runs'[o].got)
               /\ \A p \in 1 .. runs'[o].written : \E row \in rows' :
                     row.item = runs'[o].got[p].item /\ row.day = runs'[o].day
    <3>1. CASE o = r
      <4>1. \A p \in 1 .. runs'[r].written : \E row \in rows' :
               row.item = runs'[r].got[p].item /\ row.day = runs'[r].day
        BY <2>1, <2>3
      <4>2. runs'[r].written <= Len(runs'[r].got) /\ runs'[r].phase # "success"
        BY <2>1, <2>2
      <4> QED
        BY <3>1, <4>1, <4>2
    <3>2. CASE o # r
      BY <2>1, <2>4, <2>5, <3>2 DEF OthersStay
    <3> QED
      BY <3>1, <3>2
  <2> QED
    BY <2>1, <2>6 DEF WrittenInv, OthersStay
<1>5. CASE Notes
  BY <1>5 DEF WrittenInv, Notes
<1>6. CASE UNCHANGED <<account, runs, rows, witness>>
  BY <1>6 DEF WrittenInv
<1> QED
  BY <1>1, <1>2, <1>3, <1>4, <1>5, <1>6, NotesKeep

LEMMA PriorStep ==
    ASSUME TypeOK, WrittenInv, PriorInv, [Next]_vars
    PROVE  PriorInv'
<1>1. CASE Begins
  <2> DEFINE n == Len(runs) + 1
  <2>1. /\ DOMAIN runs' = DOMAIN runs \cup {n} /\ n \notin DOMAIN runs
        /\ UNCHANGED <<today, rows>>
        /\ runs'[n].day = today /\ runs'[n].written = 0
        /\ witness'[n].prior = {r \in DOMAIN runs : ~Active(r)}
        /\ \A r \in DOMAIN runs : runs'[r] = runs[r] /\ witness'[r] = witness[r]
    BY <1>1 DEF Begins
  <2> HIDE DEF n
  <2>2. today \in Int
    BY DEF TypeOK
  <2> QED
    BY <2>1, <2>2 DEF PriorInv, Active
<1>2. ASSUME NEW r \in DOMAIN runs, OthersStay(r), UNCHANGED <<today, witness>>,
             Active(r), runs'[r].day = runs[r].day,
             \A o \in DOMAIN runs : \A p \in 1 .. runs'[o].written : \A row \in rows' :
                /\ row.item = runs'[o].got[p].item /\ row.item \notin Officeless
                /\ row.day = runs[o].day
                => row.by \notin witness[o].prior
      PROVE  PriorInv'
  <2>1. \A o \in DOMAIN runs : runs'[o].day = runs[o].day
    BY <1>2 DEF OthersStay
  <2>2. \A o \in DOMAIN runs : \A e \in witness[o].prior :
           e \in DOMAIN runs' /\ runs'[e].phase \in Ends /\ runs'[e].day <= runs'[o].day
    BY <1>2, <2>1 DEF PriorInv, OthersStay, Active
  <2> QED
    BY <1>2, <2>1, <2>2 DEF PriorInv, OthersStay, Active
<1>3. ASSUME NEW r \in DOMAIN runs, Proceeds(r) \/ Fails(r, "cut") \/ Fails(r, "refused")
      PROVE  PriorInv'
  <2>1. /\ OthersStay(r) /\ UNCHANGED <<today, rows, witness>> /\ Active(r)
        /\ runs'[r].day = runs[r].day
        /\ \/ runs'[r].written = 0
           \/ runs'[r].got = runs[r].got /\ runs'[r].written = runs[r].written
    BY <1>3 DEF Proceeds, Fails, Active, Ends
  <2>2. \A o \in DOMAIN runs : \A p \in 1 .. runs'[o].written : \A row \in rows' :
           /\ row.item = runs'[o].got[p].item /\ row.item \notin Officeless
           /\ row.day = runs[o].day
           => row.by \notin witness[o].prior
    BY <2>1 DEF PriorInv, OthersStay
  <2> QED
    BY <1>2, <2>1, <2>2
<1>4. ASSUME NEW r \in DOMAIN runs, NEW page \in Seq(Stock), Reads(r, page)
      PROVE  PriorInv'
  <2>1. /\ OthersStay(r) /\ UNCHANGED <<today, rows, witness>> /\ Active(r)
        /\ runs'[r].day = runs[r].day /\ runs'[r].written = runs[r].written
    BY <1>4 DEF Reads, Active, Reading, Ends
  <2>2. /\ runs[r].written \in Nat /\ Len(runs[r].got) \in Nat
        /\ runs[r].written <= Len(runs[r].got)
        /\ DOMAIN runs[r].got = 1 .. Len(runs[r].got)
    BY Positions DEF RunsType, WrittenInv
  <2>3. \A p \in 1 .. runs[r].written : runs'[r].got[p] = runs[r].got[p]
    BY <1>4, <2>2, PageRead
  <2>4. \A o \in DOMAIN runs : \A p \in 1 .. runs'[o].written : \A row \in rows' :
           /\ row.item = runs'[o].got[p].item /\ row.item \notin Officeless
           /\ row.day = runs[o].day
           => row.by \notin witness[o].prior
    BY <2>1, <2>3 DEF PriorInv, OthersStay
  <2> QED
    BY <1>2, <2>1, <2>4
<1>5. ASSUME NEW r \in DOMAIN runs, NEW batch \in Seq(Stock), Writes(r, batch)
      PROVE  PriorInv'
  <2>1. /\ OthersStay(r) /\ UNCHANGED <<today, witness>> /\ Active(r)
        /\ runs'[r].day = runs[r].day /\ runs'[r].got = runs[r].got
        /\ runs'[r].written = runs[r].written + Len(batch)
    BY <1>5 DEF Writes, Active, Ends
  <2>2. /\ runs[r].written \in Nat /\ Len(batch) \in Nat
        /\ \A p \in 1 .. Len(batch) : batch[p] = runs[r].got[runs[r].written + p]
        /\ \A row \in rows' \ rows : row.by = r
        /\ \A row \in rows' \cap rows : \A p \in 1 .. Len(batch) :
              /\ row.item = batch[p].item /\ row.item \notin Officeless
              /\ row.day = runs[r].day
              => row.by = r
    BY <1>5, BatchWritten
  <2>3. \A o \in DOMAIN runs : r \notin witness[o].prior
    BY <2>1 DEF PriorInv
  <2>4. ASSUME NEW o \in DOMAIN runs, NEW p \in 1 .. runs'[o].written, NEW row \in rows',
               row.item = runs'[o].got[p].item, row.item \notin Officeless,
               row.day = runs[o].day
        PROVE  row.by \notin witness[o].prior
    <3>1. CASE row \notin rows
      BY <2>2, <2>3, <3>1
    <3>2. CASE row \in rows /\ o # r
      BY <2>1, <2>4, <3>2 DEF PriorInv, OthersStay
    <3>3. CASE row \in rows /\ o = r /\ p \in 1 .. runs[r].written
      BY <2>1, <2>4, <3>3 DEF PriorInv
    <3>4. CASE row \in rows /\ o = r /\ p \notin 1 .. runs[r].written
      <4>1. PICK x \in 1 .. Len(batch) : runs[r].written + x = p
        <5>1. p - runs[r].written \in 1 .. Len(batch)
              /\ runs[r].written + (p - runs[r].written) = p
          BY <2>1, <2>2, <3>4
        <5> QED
          BY <5>1
      <4>2. row.item = batch[x].item
        BY <2>1, <2>2, <2>4, <3>4, <4>1
      <4>3. row.by = r
        BY <2>2, <2>4, <3>4, <4>2
      <4> QED
        BY <2>3, <4>3
    <3> QED
      BY <3>1, <3>2, <3>3, <3>4
  <2> QED
    BY <1>2, <2>1, <2>4
<1>6. CASE Notes
  BY <1>6 DEF PriorInv, Notes, Active
<1>7. CASE today' \in Nat /\ today <= today' /\ UNCHANGED <<account, runs, rows, witness>>
  <2>1. today \in Int
    BY DEF TypeOK
  <2>2. \A r \in DOMAIN runs : runs[r].day \in Int
    BY Positions DEF RunsType
  <2> QED
    BY <1>7, <2>1, <2>2 DEF PriorInv, Active
<1> QED
  BY <1>1, <1>3, <1>4, <1>5, <1>6, <1>7, NotesKeep

LEMMA RefusedStep ==
    ASSUME TypeOK, SeenInv, ReadOnce, RefusedOnlyForCause, [Next]_vars
    PROVE  RefusedOnlyForCause'
<1>1. CASE Begins
  <2> DEFINE n == Len(runs) + 1
  <2>1. /\ DOMAIN runs' = DOMAIN runs \cup {n} /\ runs'[n].phase = "paging"
        /\ \A r \in DOMAIN runs : runs'[r] = runs[r] /\ witness'[r] = witness[r]
    BY <1>1 DEF Begins
  <2> HIDE DEF n
  <2> QED
    BY <2>1 DEF RefusedOnlyForCause
<1>2. ASSUME NEW r \in DOMAIN runs,
             \/ Proceeds(r) \/ Fails(r, "cut")
             \/ \E page \in Seq(Stock) : Reads(r, page)
             \/ \E batch \in Seq(Stock) : Writes(r, batch)
      PROVE  RefusedOnlyForCause'
  <2>1. /\ OthersStay(r) /\ UNCHANGED witness /\ runs'[r].phase # "refused"
    BY <1>2, PageRead DEF Proceeds, Fails, Reads, Writes
  <2> QED
    BY <2>1 DEF RefusedOnlyForCause, OthersStay
<1>3. ASSUME NEW r \in DOMAIN runs, Fails(r, "refused")
      PROVE  RefusedOnlyForCause'
  <2>1. OthersStay(r) /\ UNCHANGED witness /\ Refused(Batch(r))
    BY <1>3 DEF Fails
  <2>2. /\ runs[r].written \in Nat /\ runs[r].got \in Seq(Stock) /\ BatchSize \in Nat \ {0}
        /\ DOMAIN runs[r].got = 1 .. Len(runs[r].got)
    BY Positions, InventoryAssumption DEF RunsType
  <2> DEFINE batch == Batch(r)
  <2>3. /\ batch \in Seq(Stock)
        /\ \A p \in 1 .. Len(batch) :
              /\ runs[r].written + p \in DOMAIN runs[r].got
              /\ batch[p] = runs[r].got[runs[r].written + p]
    BY <2>2, WindowOf DEF Batch
  <2>4. Refused(batch)
    BY <2>1
  <2> HIDE DEF batch
  <2>5. DOMAIN batch = 1 .. Len(batch) /\ Len(batch) \in Nat
    BY <2>3, LenProperties
  <2>6. CASE \E p \in DOMAIN batch : batch[p].q \notin Storable
    <3>1. PICK o \in DOMAIN runs[r].got : runs[r].got[o].q \notin Storable
      BY <2>3, <2>5, <2>6
    <3>2. /\ runs[r].got[o].q \in witness[r].seen[runs[r].got[o].item]
          /\ runs[r].got[o].item \in Items
      BY Positions DEF SeenInv, Stock
    <3>3. ~(witness[r].seen[runs[r].got[o].item] \subseteq Storable)
      BY <3>1, <3>2
    <3> QED
      BY <2>1, <3>2, <3>3 DEF RefusedOnlyForCause, OthersStay
  <2>7. CASE \E p, o \in DOMAIN batch : p # o /\ batch[p].item = batch[o].item
    <3>1. PICK p \in DOMAIN batch, o \in DOMAIN batch :
             p # o /\ batch[p].item = batch[o].item
      BY <2>7
    <3>2. /\ runs[r].written + p # runs[r].written + o
          /\ runs[r].written + p \in DOMAIN runs[r].got
          /\ runs[r].written + o \in DOMAIN runs[r].got
          /\ runs[r].got[runs[r].written + p].item = runs[r].got[runs[r].written + o].item
      <4>1. p \in 1 .. Len(batch) /\ o \in 1 .. Len(batch) /\ p # o
        BY <2>5, <3>1
      <4>2. runs[r].written + p # runs[r].written + o
        BY <2>2, <2>5, <4>1
      <4>3. /\ batch[p] = runs[r].got[runs[r].written + p]
            /\ batch[o] = runs[r].got[runs[r].written + o]
            /\ runs[r].written + p \in DOMAIN runs[r].got
            /\ runs[r].written + o \in DOMAIN runs[r].got
        BY <2>3, <4>1
      <4> QED
        BY <3>1, <4>2, <4>3
    <3>3. witness[r].grew
      BY <3>2 DEF ReadOnce
    <3> QED
      BY <2>1, <3>3 DEF RefusedOnlyForCause, OthersStay
  <2> QED
    BY <2>4, <2>6, <2>7 DEF Refused
<1>4. CASE Notes
  BY <1>4 DEF RefusedOnlyForCause, Notes
<1>5. CASE UNCHANGED <<account, runs, rows, witness>>
  BY <1>5 DEF RefusedOnlyForCause
<1> QED
  BY <1>1, <1>2, <1>3, <1>4, <1>5, NotesKeep

LEMMA InvInit == Init => IInv
<1> SUFFICES ASSUME Init PROVE IInv
  OBVIOUS
<1>1. TypeOK
  BY InventoryAssumption DEF Init, TypeOK
<1>2. ListedOnce
  BY InventoryAssumption DEF Init, ListedOnce
<1>3. DOMAIN runs = {} /\ rows = {}
  BY DEF Init
<1> QED
  BY <1>1, <1>2, <1>3 DEF IInv, SeenInv, ReadOnce, NoneMissed, RowsInv, WrittenInv, PriorInv,
                          RefusedOnlyForCause

THEOREM InvHolds == Spec => []IInv
<1>1. IInv /\ [Next]_vars => IInv'
  <2> SUFFICES ASSUME IInv, [Next]_vars PROVE IInv'
    OBVIOUS
  <2>1. /\ TypeOK /\ ListedOnce /\ SeenInv /\ ReadOnce /\ NoneMissed
        /\ RowsInv /\ WrittenInv /\ PriorInv /\ RefusedOnlyForCause
    BY DEF IInv
  <2>2. TypeOK'
    BY <2>1, StepCases
  <2>3. ListedOnce' /\ SeenInv'
    BY <2>1, ListedOnceStep, SeenStep
  <2>4. ReadOnce' /\ NoneMissed'
    BY <2>1, ReadOnceStep, NoneMissedStep
  <2>5. RowsInv' /\ WrittenInv' /\ PriorInv'
    BY <2>1, RowsStep, WrittenStep, PriorStep
  <2>6. RefusedOnlyForCause'
    BY <2>1, RefusedStep
  <2> QED
    BY <2>2, <2>3, <2>4, <2>5, <2>6 DEF IInv
<1> QED
  BY InvInit, <1>1, PTL DEF Spec

-----------------------------------------------------------------------------
(* When a sync succeeds, and no item was taken off the list while it was   *)
(* reading, each item that was there all along has a row of its day, with  *)
(* a quantity the item had: what is not behind the offset any more was     *)
(* read, and all that was read is written (getAllStocks, syncTenant,       *)
(* upsertBatch).                                                           *)
THEOREM Fresh == Spec => []FreshAfterSuccess
<1>1. IInv => FreshAfterSuccess
  <2> SUFFICES ASSUME IInv, NEW r \in DOMAIN runs, runs[r].phase = "success",
                      ~witness[r].shrunk, NEW i \in witness[r].kept
               PROVE  \E row \in rows : /\ row.item = i /\ row.day = runs[r].day
                                        /\ row.q \in witness[row.by].seen[i]
    BY DEF FreshAfterSuccess
  <2>1. TypeOK /\ NoneMissed /\ RowsInv /\ WrittenInv
    BY DEF IInv
  <2>2. PICK p \in DOMAIN runs[r].got : runs[r].got[p].item = i
    BY <2>1 DEF NoneMissed, Reading
  <2>3. p \in 1 .. runs[r].written
    BY <2>1, Positions DEF WrittenInv
  <2>4. PICK row \in rows : row.item = i /\ row.day = runs[r].day
    BY <2>1, <2>2, <2>3 DEF WrittenInv
  <2> QED
    BY <2>1, <2>4 DEF RowsInv
<1> QED
  BY <1>1, InvHolds, PTL

(* A batch is refused only because of a quantity that cannot be stored or  *)
(* because an item slipped into the list while it was read: otherwise no   *)
(* item is read twice (upsertBatch, getAllStocks).                         *)
THEOREM RefusalsHaveCause == Spec => []RefusedOnlyForCause
<1>1. IInv => RefusedOnlyForCause
  BY DEF IInv
<1> QED
  BY <1>1, InvHolds, PTL

(* Once a sync that read an item succeeds, the item's latest row is never  *)
(* again one of a sync that was over when this one began: such a sync is   *)
(* of no later day, and its rows of the same day are gone (upsertBatch,    *)
(* getByVariant).                                                          *)
THEOREM LatestNeverOlder == Spec => []NeverBackwards
<1>1. IInv => NeverBackwards
  <2> SUFFICES ASSUME IInv, NEW r \in DOMAIN runs, NEW i \in Items \ Officeless,
                      NEW row \in Latest(i), runs[r].phase = "success",
                      NEW p \in DOMAIN runs[r].got, runs[r].got[p].item = i,
                      row.by \in witness[r].prior
               PROVE  FALSE
    BY DEF NeverBackwards, Supersedes
  <2>1. TypeOK /\ RowsInv /\ WrittenInv /\ PriorInv
    BY DEF IInv
  <2>2. p \in 1 .. runs[r].written
    BY <2>1, Positions DEF WrittenInv
  <2>3. PICK own \in rows : own.item = i /\ own.day = runs[r].day
    BY <2>1, <2>2 DEF WrittenInv
  <2>4. row \in rows /\ row.item = i /\ runs[r].day <= row.day
    BY <2>3 DEF Latest
  <2>5. row.day <= runs[r].day
    BY <2>1, <2>4 DEF RowsInv, PriorInv
  <2>6. row.day = runs[r].day
    <3>1. row.day \in Int
      BY <2>1, <2>4 DEF TypeOK, Rows
    <3>2. runs[r].day \in Int
      BY <2>1, Positions DEF RunsType
    <3> QED
      BY <2>4, <2>5, <3>1, <3>2
  <2> QED
    BY <2>1, <2>2, <2>4, <2>6 DEF PriorInv
<1> QED
  BY <1>1, InvHolds, PTL

(***************************************************************************)
(* Induction, stated for sets of numbers.                                  *)
(***************************************************************************)
(* Numbers of some kind have a least one.                                  *)
LEMMA LeastOf ==
    ASSUME NEW T, T \subseteq Nat, T # {}
    PROVE  \E x \in T : \A y \in T : x <= y
<1>1. PICK x \in T : \A y \in T : ~ (<<y, x>> \in OpToRel(<, Nat))
  BY NatLessThanWellFounded, WFMin
<1>2. \A y \in T : ~ (y < x)
  <2> SUFFICES ASSUME NEW y \in T, y < x
               PROVE  FALSE
    OBVIOUS
  <2>1. <<y, x>> \in OpToRel(<, Nat)
    BY DEF OpToRel
  <2> QED
    BY <1>1, <2>1
<1> QED
  BY <1>2

(* A set with 0, and with the successor of each of its numbers, has all.   *)
LEMMA HasAll ==
    ASSUME NEW T, 0 \in T, \A m \in Nat : m \in T => m + 1 \in T
    PROVE  Nat \subseteq T
<1> SUFFICES ASSUME Nat \ T # {}
             PROVE  FALSE
  OBVIOUS
<1>1. PICK m \in Nat \ T : \A k \in Nat \ T : m <= k
  BY LeastOf
<1>2. m - 1 \in Nat /\ m - 1 \in T
  BY <1>1
<1> QED
  BY <1>1, <1>2

(***************************************************************************)
(* Sums.  A sum of numbers over a finite set is a number: SumFunction adds *)
(* one element to the sum of the others.                                   *)
(***************************************************************************)
One(s) == CHOOSE x \in s : TRUE

SumStep(w, g, s) == IF s = {} THEN 0 ELSE w[One(s)] + g[s \ {One(s)}]

LEMMA SumIs ==
    ASSUME NEW w
    PROVE  SumFunction(w)
             = (CHOOSE g : g = [s \in SUBSET DOMAIN w |-> SumStep(w, g, s)])[DOMAIN w]
BY Zenon DEF SumFunction, SumFunctionOnSet, FoldFunctionOnSet, MapThenFoldSet, SumStep, One

LEMMA WithoutOne ==
    ASSUME NEW S, IsFiniteSet(S), NEW s \in SUBSET S, s # {}
    PROVE  /\ One(s) \in s /\ s \ {One(s)} \in SUBSET S
           /\ Cardinality(s) \in Nat /\ Cardinality(s \ {One(s)}) = Cardinality(s) - 1
<1>1. One(s) \in s
  BY DEF One
<1>2. IsFiniteSet(s)
  BY FS_Subset
<1>3. Cardinality(s) \in Nat
  BY <1>2, FS_CardinalityType
<1>4. Cardinality(s \ {One(s)}) = Cardinality(s) - 1
  BY <1>1, <1>2, FS_RemoveElement
<1> QED
  BY <1>1, <1>3, <1>4

(* The subsets of up to n elements                                         *)
UpTo(S, n) == {s \in SUBSET S : Cardinality(s) <= n}

LEMMA PartialSums ==
    ASSUME NEW S, IsFiniteSet(S), NEW w \in [S -> Nat], NEW n \in Nat
    PROVE  \E g \in [UpTo(S, n) -> Nat] : \A s \in UpTo(S, n) : g[s] = SumStep(w, g, s)
<1> DEFINE Has(m) == \E g \in [UpTo(S, m) -> Nat] :
                        \A s \in UpTo(S, m) : g[s] = SumStep(w, g, s)
<1>1. Has(0)
  <2> DEFINE g == [s \in UpTo(S, 0) |-> 0]
  <2>1. ASSUME NEW s \in UpTo(S, 0)
        PROVE  s = {}
    <3>1. IsFiniteSet(s) /\ Cardinality(s) \in Nat /\ Cardinality(s) <= 0
      BY FS_Subset, FS_CardinalityType DEF UpTo
    <3> QED
      BY <3>1, FS_EmptySet
  <2>2. \A s \in UpTo(S, 0) : g[s] = SumStep(w, g, s)
    BY <2>1 DEF SumStep
  <2>3. g \in [UpTo(S, 0) -> Nat]
    OBVIOUS
  <2> QED
    BY <2>2, <2>3
<1>2. ASSUME NEW m \in Nat, Has(m)
      PROVE  Has(m + 1)
  <2>1. PICK g \in [UpTo(S, m) -> Nat] : \A s \in UpTo(S, m) : g[s] = SumStep(w, g, s)
    BY <1>2
  <2> DEFINE h == [s \in UpTo(S, m + 1) |-> SumStep(w, g, s)]
  <2>2. ASSUME NEW s \in UpTo(S, m + 1), s # {}
        PROVE  /\ One(s) \in S /\ s \ {One(s)} \in UpTo(S, m)
               /\ s \ {One(s)} \in UpTo(S, m + 1)
    <3>1. s \in SUBSET S /\ Cardinality(s) <= m + 1
      BY DEF UpTo
    <3>2. /\ One(s) \in s /\ s \ {One(s)} \in SUBSET S
          /\ Cardinality(s) \in Nat /\ Cardinality(s \ {One(s)}) = Cardinality(s) - 1
      BY <2>2, <3>1, WithoutOne
    <3> QED
      BY <3>1, <3>2 DEF UpTo
  <2>3. ASSUME NEW s \in UpTo(S, m + 1)
        PROVE  h[s] \in Nat /\ h[s] = SumStep(w, h, s)
    <3>1. h[s] = SumStep(w, g, s)
      OBVIOUS
    <3>2. CASE s = {}
      BY <3>1, <3>2 DEF SumStep
    <3>3. CASE s # {}
      <4> DEFINE r == s \ {One(s)}
      <4>1. One(s) \in S /\ r \in UpTo(S, m) /\ r \in UpTo(S, m + 1)
        BY <2>2, <3>3
      <4>2. h[r] = SumStep(w, g, r)
        BY <4>1
      <4>3. g[r] = SumStep(w, g, r) /\ g[r] \in Nat
        BY <2>1, <4>1
      <4>4. SumStep(w, g, s) = w[One(s)] + g[r] /\ SumStep(w, h, s) = w[One(s)] + h[r]
        BY <3>3 DEF SumStep
      <4>5. w[One(s)] \in Nat
        BY <4>1
      <4> HIDE DEF h, r
      <4> QED
        BY <3>1, <4>2, <4>3, <4>4, <4>5
    <3> QED
      BY <3>2, <3>3
  <2>4. h \in [UpTo(S, m + 1) -> Nat]
    <3>1. \A s \in UpTo(S, m + 1) : SumStep(w, g, s) \in Nat
      BY <2>3
    <3> QED
      BY <3>1
  <2> QED
    BY <2>3, <2>4
<1> DEFINE T == {m \in Nat : Has(m)}
<1>3. 0 \in T /\ \A m \in Nat : m \in T => m + 1 \in T
  <2> HIDE DEF Has
  <2> QED
    BY <1>1, <1>2
<1>4. Nat \subseteq T
  <2> HIDE DEF T
  <2> QED
    BY <1>3, HasAll
<1> QED
  BY <1>4

LEMMA SumIsNat ==
    ASSUME NEW S, IsFiniteSet(S), NEW w \in [S -> Nat]
    PROVE  SumFunction(w) \in Nat
<1> DEFINE Sums(g) == [s \in SUBSET S |-> SumStep(w, g, s)]
           sum == CHOOSE g : g = Sums(g)
<1>1. \A s \in SUBSET S : /\ IsFiniteSet(s) /\ Cardinality(s) \in Nat
                          /\ s \in UpTo(S, Cardinality(S))
  BY FS_Subset, FS_CardinalityType DEF UpTo
<1>2. UpTo(S, Cardinality(S)) = SUBSET S
  BY <1>1 DEF UpTo
<1>3. \E g : g = Sums(g)
  <2>1. PICK g \in [SUBSET S -> Nat] : \A s \in SUBSET S : g[s] = SumStep(w, g, s)
    <3>1. Cardinality(S) \in Nat
      BY <1>1
    <3>2. \E g \in [UpTo(S, Cardinality(S)) -> Nat] :
              \A s \in UpTo(S, Cardinality(S)) : g[s] = SumStep(w, g, s)
      BY <3>1, PartialSums
    <3> QED
      BY <1>2, <3>2
  <2> QED
    BY <2>1
<1>4. sum = Sums(sum)
  <2> HIDE DEF Sums
  <2> QED
    BY <1>3
<1>5. \A s \in SUBSET S : sum[s] = SumStep(w, sum, s)
  <2> HIDE DEF sum
  <2> QED
    BY <1>4
<1> HIDE DEF sum
<1> DEFINE T == {m \in Nat : \A s \in SUBSET S : Cardinality(s) = m => sum[s] \in Nat}
<1>6. 0 \in T
  <2> SUFFICES ASSUME NEW s \in SUBSET S, Cardinality(s) = 0
               PROVE  sum[s] \in Nat
    OBVIOUS
  <2>1. s = {}
    BY <1>1, FS_EmptySet
  <2>2. sum[s] = SumStep(w, sum, s)
    BY <1>5
  <2> QED
    BY <2>1, <2>2 DEF SumStep
<1>7. ASSUME NEW m \in Nat, m \in T
      PROVE  m + 1 \in T
  <2> SUFFICES ASSUME NEW s \in SUBSET S, Cardinality(s) = m + 1
               PROVE  sum[s] \in Nat
    OBVIOUS
  <2>1. s # {}
    <3>1. ~ (m + 1 = 0)
      OBVIOUS
    <3> QED
      BY <3>1, FS_EmptySet
  <2> DEFINE r == s \ {One(s)}
  <2>2. One(s) \in s /\ r \in SUBSET S /\ Cardinality(r) = m
    BY <2>1, WithoutOne
  <2>3. sum[r] \in Nat
    BY <1>7, <2>2
  <2>4. sum[s] = SumStep(w, sum, s)
    BY <1>5
  <2>5. sum[s] = w[One(s)] + sum[r]
    BY <2>1, <2>4 DEF SumStep
  <2>6. w[One(s)] \in Nat
    BY <2>2
  <2> HIDE DEF r
  <2> QED
    BY <2>3, <2>5, <2>6
<1>8. Nat \subseteq T
  <2> HIDE DEF T
  <2> QED
    BY <1>6, <1>7, HasAll
<1>9. sum[S] \in Nat
  BY <1>1, <1>8
<1>10. SumFunction(w) = sum[S]
  BY SumIs, Zenon DEF sum
<1> QED
  BY <1>9, <1>10

(***************************************************************************)
(* Consumption, whose variables are those of DailyConsumption.             *)
(***************************************************************************)
CONSTANTS Days, OpeningStock, MaxVoided

Sales == INSTANCE Consumption

(***************************************************************************)
(* What Bsale lists.  ListOf follows the recursion of Matching, for any    *)
(* documents, so that two of its lists can be compared.                    *)
(***************************************************************************)
Document == [q : 1 .. MaxQuantity, at : 0 .. MaxTime, valid : BOOLEAN]

Matches(docs, from, until, d) == docs[d].valid /\ from <= docs[d].at /\ docs[d].at <= until

ListStep(docs, from, until, g, d) ==
    IF d = 0 THEN <<>>
    ELSE IF Matches(docs, from, until, d) THEN Append(g[d - 1], d) ELSE g[d - 1]

Lists(docs, from, until) ==
    CHOOSE g : g = [d \in 0 .. Len(docs) |-> ListStep(docs, from, until, g, d)]

ListOf(docs, from, until) == Lists(docs, from, until)[Len(docs)]

LEMMA MatchingIs ==
    ASSUME NEW from, NEW until
    PROVE  Sales!Matching(from, until) = ListOf(documents, from, until)
BY Zenon DEF Sales!Matching, Sales!Within, ListOf, Lists, ListStep, Matches

LEMMA ListsExist ==
    ASSUME NEW docs, NEW from, NEW until, NEW n \in Nat
    PROVE  \E g : g = [d \in 0 .. n |-> ListStep(docs, from, until, g, d)]
<1> DEFINE Has(m) == \E g : g = [d \in 0 .. m |-> ListStep(docs, from, until, g, d)]
           T == {m \in Nat : Has(m)}
<1>1. Has(0)
  <2> DEFINE g == [d \in 0 .. 0 |-> <<>>]
  <2>1. g = [d \in 0 .. 0 |-> ListStep(docs, from, until, g, d)]
    BY DEF ListStep
  <2> QED
    BY <2>1
<1>2. ASSUME NEW m \in Nat, Has(m)
      PROVE  Has(m + 1)
  <2>1. PICK g : g = [d \in 0 .. m |-> ListStep(docs, from, until, g, d)]
    BY <1>2
  <2> DEFINE h == [d \in 0 .. m + 1 |-> ListStep(docs, from, until, g, d)]
  <2>2. ASSUME NEW d \in 0 .. m + 1
        PROVE  ListStep(docs, from, until, h, d) = ListStep(docs, from, until, g, d)
    <3>1. CASE d = 0
      BY <3>1 DEF ListStep
    <3>2. CASE d # 0
      <4>1. d - 1 \in 0 .. m /\ d - 1 \in 0 .. m + 1
        BY <3>2
      <4>2. h[d - 1] = ListStep(docs, from, until, g, d - 1)
        BY <4>1
      <4>3. g[d - 1] = ListStep(docs, from, until, g, d - 1)
        BY <2>1, <4>1
      <4>4. h[d - 1] = g[d - 1]
        BY <4>2, <4>3
      <4> HIDE DEF h
      <4> QED
        BY <3>2, <4>4 DEF ListStep
    <3> QED
      BY <3>1, <3>2
  <2>3. h = [d \in 0 .. m + 1 |-> ListStep(docs, from, until, h, d)]
    BY <2>2
  <2> QED
    BY <2>3
<1>3. 0 \in T /\ \A m \in Nat : m \in T => m + 1 \in T
  <2> HIDE DEF Has
  <2> QED
    BY <1>1, <1>2
<1>4. Nat \subseteq T
  <2> HIDE DEF T
  <2> QED
    BY <1>3, HasAll
<1> QED
  BY <1>4

LEMMA ListsAre ==
    ASSUME NEW docs, NEW from, NEW until, Len(docs) \in Nat
    PROVE  \A d \in 0 .. Len(docs) :
              Lists(docs, from, until)[d]
                 = ListStep(docs, from, until, Lists(docs, from, until), d)
<1> DEFINE F(g) == [d \in 0 .. Len(docs) |-> ListStep(docs, from, until, g, d)]
           lists == CHOOSE g : g = F(g)
<1>1. \E g : g = F(g)
  BY ListsExist
<1>2. lists = F(lists)
  <2> HIDE DEF F
  <2> QED
    BY <1>1
<1>3. Lists(docs, from, until) = lists
  BY DEF Lists
<1> HIDE DEF lists
<1>4. \A d \in 0 .. Len(docs) : lists[d] = ListStep(docs, from, until, lists, d)
  BY <1>2
<1> QED
  BY <1>3, <1>4

(* The list of the first d documents: those that match, once each.         *)
IsListOf(list, docs, from, until, d) ==
    /\ list \in Seq(1 .. d) /\ Len(list) <= d
    /\ \A p, o \in DOMAIN list : list[p] = list[o] => p = o
    /\ \A p \in DOMAIN list : Matches(docs, from, until, list[p])
    /\ \A e \in 1 .. d : Matches(docs, from, until, e) => \E p \in DOMAIN list : list[p] = e

LEMMA AppendIsListOf ==
    ASSUME NEW docs, NEW from, NEW until, NEW d \in Nat, NEW list,
           IsListOf(list, docs, from, until, d), Matches(docs, from, until, d + 1)
    PROVE  IsListOf(Append(list, d + 1), docs, from, until, d + 1)
<1> DEFINE more == Append(list, d + 1)
<1>1. /\ list \in Seq(1 .. d) /\ Len(list) \in Nat /\ DOMAIN list = 1 .. Len(list)
      /\ \A p \in DOMAIN list : list[p] \in 1 .. d
  BY LenProperties, ElementOfSeq DEF IsListOf
<1>2. list \in Seq(1 .. d + 1)
  <2>1. \A p \in 1 .. Len(list) : list[p] \in 1 .. d + 1
    BY <1>1
  <2> QED
    BY <1>1, <2>1, IsASeq
<1>3. /\ more \in Seq(1 .. d + 1) /\ Len(more) = Len(list) + 1
      /\ DOMAIN more = 1 .. Len(list) + 1
      /\ more[Len(list) + 1] = d + 1
      /\ \A p \in 1 .. Len(list) : more[p] = list[p]
  BY <1>1, <1>2, AppendProperties
<1> HIDE DEF more
<1>4. Len(more) <= d + 1
  BY <1>1, <1>3 DEF IsListOf
<1>5. ASSUME NEW p \in DOMAIN more
      PROVE  \/ p \in DOMAIN list /\ more[p] = list[p] /\ list[p] \in 1 .. d
             \/ p = Len(list) + 1 /\ more[p] = d + 1
  BY <1>1, <1>3
<1>6. \A p, o \in DOMAIN more : more[p] = more[o] => p = o
  BY <1>5 DEF IsListOf
<1>7. \A p \in DOMAIN more : Matches(docs, from, until, more[p])
  BY <1>5 DEF IsListOf
<1>8. ASSUME NEW e \in 1 .. d + 1, Matches(docs, from, until, e)
      PROVE  \E p \in DOMAIN more : more[p] = e
  <2>1. CASE e = d + 1
    <3>1. Len(list) + 1 \in DOMAIN more
      BY <1>1, <1>3
    <3> QED
      BY <1>3, <2>1, <3>1
  <2>2. CASE e # d + 1
    <3>1. PICK p \in DOMAIN list : list[p] = e
      BY <1>8, <2>2 DEF IsListOf
    <3>2. p \in DOMAIN more
      BY <1>1, <1>3
    <3> QED
      BY <1>1, <1>3, <3>1, <3>2
  <2> QED
    BY <2>1, <2>2
<1> QED
  BY <1>3, <1>4, <1>6, <1>7, <1>8 DEF IsListOf, more

LEMMA SkipIsListOf ==
    ASSUME NEW docs, NEW from, NEW until, NEW d \in Nat, NEW list,
           IsListOf(list, docs, from, until, d), ~ Matches(docs, from, until, d + 1)
    PROVE  IsListOf(list, docs, from, until, d + 1)
<1>1. /\ list \in Seq(1 .. d) /\ Len(list) \in Nat
      /\ \A p \in 1 .. Len(list) : list[p] \in 1 .. d
  BY LenProperties, ElementOfSeq DEF IsListOf
<1>2. list \in Seq(1 .. d + 1)
  <2>1. \A p \in 1 .. Len(list) : list[p] \in 1 .. d + 1
    BY <1>1
  <2> QED
    BY <1>1, <2>1, IsASeq
<1>3. Len(list) <= d + 1
  BY <1>1 DEF IsListOf
<1>4. \A e \in 1 .. d + 1 : Matches(docs, from, until, e) => e \in 1 .. d
  OBVIOUS
<1> QED
  BY <1>2, <1>3, <1>4 DEF IsListOf

LEMMA ListsHave ==
    ASSUME NEW docs, NEW from, NEW until, Len(docs) \in Nat, NEW d \in 0 .. Len(docs)
    PROVE  IsListOf(Lists(docs, from, until)[d], docs, from, until, d)
<1> DEFINE list(e) == Lists(docs, from, until)[e]
           T == {m \in Nat : m <= Len(docs) => IsListOf(list(m), docs, from, until, m)}
<1>1. 0 \in T
  <2>1. list(0) = <<>>
    BY ListsAre DEF ListStep
  <2>2. IsListOf(<<>>, docs, from, until, 0)
    BY DEF IsListOf
  <2> HIDE DEF list
  <2> QED
    BY <2>1, <2>2
<1>2. ASSUME NEW m \in Nat, m \in T
      PROVE  m + 1 \in T
  <2> SUFFICES ASSUME m + 1 <= Len(docs)
               PROVE  IsListOf(list(m + 1), docs, from, until, m + 1)
    OBVIOUS
  <2>1. IsListOf(list(m), docs, from, until, m)
    BY <1>2
  <2>2. list(m + 1) = IF Matches(docs, from, until, m + 1) THEN Append(list(m), m + 1)
                                                           ELSE list(m)
    <3>1. m + 1 \in 0 .. Len(docs) /\ m + 1 # 0 /\ m + 1 - 1 = m
      OBVIOUS
    <3> QED
      BY <3>1, ListsAre DEF ListStep
  <2> HIDE DEF list
  <2>3. CASE Matches(docs, from, until, m + 1)
    BY <2>1, <2>2, <2>3, AppendIsListOf
  <2>4. CASE ~ Matches(docs, from, until, m + 1)
    BY <2>1, <2>2, <2>4, SkipIsListOf
  <2> QED
    BY <2>3, <2>4
<1>3. Nat \subseteq T
  <2> HIDE DEF T
  <2> QED
    BY <1>1, <1>2, HasAll
<1> QED
  BY <1>3

(* What the first documents contribute does not depend on later ones.      *)
LEMMA ListsAgree ==
    ASSUME NEW docs, NEW more, NEW from, NEW until,
           Len(docs) \in Nat, Len(more) \in Nat, Len(docs) <= Len(more),
           \A d \in 1 .. Len(docs) :
              Matches(docs, from, until, d) <=> Matches(more, from, until, d)
    PROVE  \A d \in 0 .. Len(docs) : Lists(more, from, until)[d] = Lists(docs, from, until)[d]
<1> DEFINE f == Lists(docs, from, until)
           g == Lists(more, from, until)
           T == {m \in Nat : m <= Len(docs) => g[m] = f[m]}
<1>1. /\ \A d \in 0 .. Len(docs) : f[d] = ListStep(docs, from, until, f, d)
      /\ \A d \in 0 .. Len(docs) : g[d] = ListStep(more, from, until, g, d)
  BY ListsAre
<1> HIDE DEF f, g
<1>2. 0 \in T
  BY <1>1 DEF ListStep
<1>3. ASSUME NEW m \in Nat, m \in T
      PROVE  m + 1 \in T
  <2> SUFFICES ASSUME m + 1 <= Len(docs)
               PROVE  g[m + 1] = f[m + 1]
    OBVIOUS
  <2>1. g[m] = f[m]
    BY <1>3
  <2>2. m + 1 \in 0 .. Len(docs) /\ m + 1 # 0 /\ m + 1 - 1 = m /\ m + 1 \in 1 .. Len(docs)
    OBVIOUS
  <2> QED
    BY <1>1, <2>1, <2>2 DEF ListStep
<1>4. Nat \subseteq T
  <2> HIDE DEF T
  <2> QED
    BY <1>2, <1>3, HasAll
<1> QED
  BY <1>4 DEF f, g

LEMMA ListOfIs ==
    ASSUME NEW docs, NEW from, NEW until, Len(docs) \in Nat
    PROVE  /\ IsListOf(ListOf(docs, from, until), docs, from, until, Len(docs))
           /\ Len(ListOf(docs, from, until)) \in Nat
<1>1. IsListOf(ListOf(docs, from, until), docs, from, until, Len(docs))
  BY ListsHave DEF ListOf
<1> QED
  BY <1>1, LenProperties DEF IsListOf

(* A document that is issued is listed last, if at all.                    *)
LEMMA ListGrows ==
    ASSUME NEW docs \in Seq(Document), NEW y \in Document, NEW from, NEW until
    PROVE  LET old == ListOf(docs, from, until)
               new == ListOf(Append(docs, y), from, until)
           IN  /\ Len(old) <= Len(new)
               /\ \A p \in 1 .. Len(old) : new[p] = old[p]
<1> DEFINE more == Append(docs, y)
           n == Len(docs)
<1>1. /\ n \in Nat /\ Len(more) = n + 1 /\ more[n + 1] = y
      /\ \A d \in 1 .. n : more[d] = docs[d]
  BY AppendProperties, LenProperties
<1>2. Len(more) \in Nat /\ n <= Len(more)
  BY <1>1
<1>3. \A d \in 1 .. n : Matches(docs, from, until, d) <=> Matches(more, from, until, d)
  BY <1>1 DEF Matches
<1> HIDE DEF more
<1>4. Lists(more, from, until)[n] = ListOf(docs, from, until)
  <2>1. \A d \in 0 .. n : Lists(more, from, until)[d] = Lists(docs, from, until)[d]
    BY <1>1, <1>2, <1>3, ListsAgree
  <2> QED
    BY <1>1, <2>1 DEF ListOf
<1>5. ListOf(more, from, until) = ListStep(more, from, until, Lists(more, from, until), n + 1)
  <2>1. n + 1 \in 0 .. Len(more)
    BY <1>1
  <2> QED
    BY <1>1, <1>2, <2>1, ListsAre DEF ListOf
<1>6. ListOf(more, from, until) \in {ListOf(docs, from, until),
                                     Append(ListOf(docs, from, until), n + 1)}
  <2>1. n + 1 # 0 /\ n + 1 - 1 = n
    BY <1>1
  <2> QED
    BY <1>4, <1>5, <2>1 DEF ListStep
<1> DEFINE old == ListOf(docs, from, until)
<1>7. old \in Seq(1 .. n) /\ Len(old) \in Nat
  BY <1>1, ListOfIs DEF IsListOf
<1> HIDE DEF old, n
<1>8. /\ Len(Append(old, n + 1)) = Len(old) + 1
      /\ \A p \in 1 .. Len(old) : Append(old, n + 1)[p] = old[p]
  <2>1. n + 1 \in Nat /\ old \in Seq(Nat)
    <3>1. \A p \in 1 .. Len(old) : old[p] \in 1 .. n
      BY <1>7, ElementOfSeq
    <3>2. \A p \in 1 .. Len(old) : old[p] \in Nat
      BY <1>1, <3>1
    <3> QED
      BY <1>1, <1>7, <3>2, IsASeq, LenProperties
  <2> QED
    BY <2>1, AppendProperties
<1> QED
  BY <1>6, <1>7, <1>8 DEF old, more

(***************************************************************************)
(* The invariant of Consumption                                            *)
(***************************************************************************)
(* No document and no snapshot is of a time to come.                       *)
IssuedInv == \A d \in DOMAIN documents : documents[d].at <= now

SnapshotInv == \A s \in snapshots : s.day <= Today

(* What is sold is known when a sync begins, or issued at its until or     *)
(* later; a document that it notes is valid while it reads, unless one was *)
(* voided.                                                                 *)
SoldInv ==
    \A r \in DOMAIN syncs :
        /\ syncs[r].until <= now /\ noted[r].sold \subseteq DOMAIN documents
        /\ \A p \in DOMAIN syncs[r].got : syncs[r].got[p] \in DOMAIN documents
        /\ \A d \in DOMAIN documents :
              documents[d].valid => d \in noted[r].sold \/ documents[d].at >= syncs[r].until
        /\ syncs[r].phase = "paging" /\ ~noted[r].voided =>
              \A d \in noted[r].sold : documents[d].valid

(* What a sync has read is the list up to its offset.                      *)
PagedInv ==
    \A r \in DOMAIN syncs : syncs[r].phase = "paging" /\ ~noted[r].voided =>
        LET list == ListOf(documents, syncs[r].from, syncs[r].until)
        IN  /\ syncs[r].offset <= Len(list) /\ Len(syncs[r].got) = syncs[r].offset
            /\ \A p \in 1 .. syncs[r].offset : syncs[r].got[p] = list[p]

(* What it has read in the end are the documents in its window, once each. *)
ReadWholeInv ==
    \A r \in DOMAIN syncs : syncs[r].phase = "writing" /\ ~noted[r].voided =>
        LET got == syncs[r].got
        IN  /\ \A p, o \in DOMAIN got : got[p] = got[o] => p = o
            /\ \A p \in DOMAIN got :
                  got[p] \in noted[r].sold \/ documents[got[p]].at >= syncs[r].until
            /\ \A d \in noted[r].sold :
                  syncs[r].from <= documents[d].at /\ documents[d].at <= syncs[r].until
                     => \E p \in DOMAIN got : got[p] = d

(* A row is one of a sync that is done.                                    *)
BookedInv ==
    \A row \in consumption : row.by \in DOMAIN syncs /\ syncs[row.by].phase = "done"

SalesInv ==
    /\ ConsumptionTypeOK
    /\ IssuedInv /\ SnapshotInv /\ SoldInv /\ PagedInv /\ ReadWholeInv /\ BookedInv
    /\ CompleteDaysRecorded

LEMMA SyncPositions ==
    ASSUME ConsumptionTypeOK
    PROVE  /\ DOMAIN syncs = 1 .. Len(syncs) /\ DOMAIN noted = 1 .. Len(syncs)
           /\ Len(syncs) \in Nat /\ Len(syncs) <= MaxSyncs
           /\ \A r \in DOMAIN syncs : syncs[r] \in SyncType /\ noted[r] \in NotedType
           /\ documents \in Seq(Document) /\ Len(documents) \in Nat
           /\ DOMAIN documents = 1 .. Len(documents) /\ Len(documents) <= MaxDocuments
           /\ \A d \in DOMAIN documents : documents[d] \in Document
<1>1. documents \in Seq(Document)
  BY DEF ConsumptionTypeOK, Document
<1>2. syncs \in Seq(SyncType) /\ noted \in Seq(NotedType)
  BY DEF ConsumptionTypeOK
<1>3. /\ DOMAIN syncs = 1 .. Len(syncs) /\ Len(syncs) \in Nat
      /\ DOMAIN noted = 1 .. Len(noted)
      /\ DOMAIN documents = 1 .. Len(documents) /\ Len(documents) \in Nat
  BY <1>1, <1>2, LenProperties
<1>4. Len(noted) = Len(syncs) /\ Len(syncs) <= MaxSyncs /\ Len(documents) <= MaxDocuments
  BY DEF ConsumptionTypeOK
<1>5. \A r \in DOMAIN syncs : syncs[r] \in SyncType /\ noted[r] \in NotedType
  BY <1>2, <1>3, <1>4, ElementOfSeq
<1>6. \A d \in DOMAIN documents : documents[d] \in Document
  BY <1>1, <1>3, ElementOfSeq
<1> QED
  BY <1>1, <1>3, <1>4, <1>5, <1>6

LEMMA OneSync ==
    ASSUME ConsumptionTypeOK, NEW r \in DOMAIN syncs, NEW x \in SyncType,
           syncs' = [syncs EXCEPT ![r] = x]
    PROVE  /\ syncs' \in Seq(SyncType) /\ Len(syncs') = Len(syncs)
           /\ DOMAIN syncs' = DOMAIN syncs /\ syncs'[r] = x
           /\ \A o \in DOMAIN syncs : o # r => syncs'[o] = syncs[o]
<1>1. syncs \in Seq(SyncType) /\ r \in 1 .. Len(syncs)
  BY SyncPositions DEF ConsumptionTypeOK
<1>2. syncs' \in Seq(SyncType) /\ Len(syncs') = Len(syncs)
  BY <1>1, ExceptSeq
<1> QED
  BY <1>1, <1>2

Recorded(r, day) ==
    LET sold == OnDay(noted[r].sold, day)
    IN  {row.q : row \in {row \in consumption : row.by = r /\ row.day = day}}
          = IF sold = {} THEN {} ELSE {SumFunction([d \in sold |-> documents[d].q])}

LEMMA RecordedStays ==
    ASSUME NEW r, NEW day, Recorded(r, day), noted'[r].sold = noted[r].sold,
           \A d \in noted[r].sold : /\ documents'[d].q = documents[d].q
                                    /\ documents'[d].at = documents[d].at,
           \A row : row.by = r => (row \in consumption' <=> row \in consumption)
    PROVE  Recorded(r, day)'
<1> DEFINE sold == {d \in noted[r].sold : Day(documents[d].at) = day}
           next == {d \in noted'[r].sold : Day(documents'[d].at) = day}
<1>1. next = sold
  OBVIOUS
<1>2. [d \in next |-> documents'[d].q] = [d \in sold |-> documents[d].q]
  BY <1>1
<1>3. {row \in consumption' : row.by = r /\ row.day = day}
        = {row \in consumption : row.by = r /\ row.day = day}
  OBVIOUS
<1> HIDE DEF sold, next
<1>4. {row.q : row \in {row \in consumption : row.by = r /\ row.day = day}}
        = IF sold = {} THEN {} ELSE {SumFunction([d \in sold |-> documents[d].q])}
  BY DEF Recorded, OnDay, sold
<1>5. {row.q : row \in {row \in consumption' : row.by = r /\ row.day = day}}
        = IF next = {} THEN {} ELSE {SumFunction([d \in next |-> documents'[d].q])}
  BY <1>1, <1>2, <1>3, <1>4
<1> QED
  BY <1>5 DEF Recorded, OnDay, Day, next

(* What a step that ends no sync keeps                                     *)
LEMMA DaysStay ==
    ASSUME SalesInv, consumption' = consumption,
           \A d \in DOMAIN documents : /\ documents'[d].q = documents[d].q
                                       /\ documents'[d].at = documents[d].at,
           \A r \in DOMAIN syncs' : syncs'[r].phase = "done" /\ ~noted'[r].voided =>
              /\ r \in DOMAIN syncs /\ syncs[r].phase = "done" /\ ~noted[r].voided
              /\ syncs'[r].from = syncs[r].from /\ syncs'[r].until = syncs[r].until
              /\ noted'[r].sold = noted[r].sold
    PROVE  CompleteDaysRecorded'
<1> SUFFICES ASSUME NEW r \in DOMAIN syncs', NEW day \in AllDays,
                    syncs'[r].phase = "done", ~noted'[r].voided,
                    syncs'[r].from <= 2 * day, 2 * day + 1 < syncs'[r].until
             PROVE  Recorded(r, day)'
  BY DEF CompleteDaysRecorded, Recorded, AllDays, Day
<1>1. /\ r \in DOMAIN syncs /\ syncs[r].phase = "done" /\ ~noted[r].voided
      /\ syncs[r].from <= 2 * day /\ 2 * day + 1 < syncs[r].until
      /\ noted'[r].sold = noted[r].sold
  OBVIOUS
<1>2. Recorded(r, day)
  BY <1>1 DEF SalesInv, CompleteDaysRecorded, Recorded
<1>3. noted[r].sold \subseteq DOMAIN documents
  BY <1>1 DEF SalesInv, SoldInv
<1> QED
  BY <1>1, <1>2, <1>3, RecordedStays

(***************************************************************************)
(* The steps                                                               *)
(***************************************************************************)
LEMMA SyncBegins ==
    ASSUME SalesInv, Days \in Nat, Sales!Start
    PROVE  SalesInv'
<1> DEFINE n == Len(syncs)
           x == [phase |-> "paging", from |-> now - 2 * Days, until |-> now,
                 offset |-> 0, got |-> <<>>]
           w == [sold |-> {d \in DOMAIN documents : documents[d].valid}, voided |-> FALSE]
<1>1. /\ n < MaxSyncs /\ syncs' = Append(syncs, x) /\ noted' = Append(noted, w)
      /\ snapshots' = {s \in snapshots : s.day # Today} \cup {[day |-> Today, q |-> stock]}
      /\ UNCHANGED <<now, stock, documents, consumption>>
  BY DEF Sales!Start, Sales!Today, Sales!Day, Today, Day
<1>2. ConsumptionTypeOK
  BY DEF SalesInv
<1>3. /\ DOMAIN syncs = 1 .. n /\ n \in Nat /\ Len(noted) = n
      /\ syncs \in Seq(SyncType) /\ noted \in Seq(NotedType)
      /\ Len(documents) \in Nat /\ DOMAIN documents = 1 .. Len(documents)
      /\ Len(documents) <= MaxDocuments /\ now \in 0 .. MaxTime
  BY <1>2, SyncPositions DEF ConsumptionTypeOK
<1>4. x \in SyncType
  BY <1>3 DEF SyncType
<1>5. w \in NotedType
  BY <1>3, DailyConsumptionAssumption DEF NotedType
<1>6. /\ x.phase = "paging" /\ x.until = now /\ x.offset = 0 /\ x.got = <<>>
      /\ w.sold = {d \in DOMAIN documents : documents[d].valid}
  OBVIOUS
<1> HIDE DEF x, w
<1>7. /\ syncs' \in Seq(SyncType) /\ Len(syncs') = n + 1 /\ DOMAIN syncs' = 1 .. n + 1
      /\ syncs'[n + 1] = x /\ \A r \in 1 .. n : syncs'[r] = syncs[r]
  BY <1>1, <1>3, <1>4, AppendProperties
<1>8. /\ noted' \in Seq(NotedType) /\ Len(noted') = n + 1
      /\ noted'[n + 1] = w /\ \A r \in 1 .. n : noted'[r] = noted[r]
  BY <1>1, <1>3, <1>5, AppendProperties
<1> HIDE DEF n
<1>9. ASSUME NEW r \in DOMAIN syncs'
      PROVE  \/ r \in DOMAIN syncs /\ syncs'[r] = syncs[r] /\ noted'[r] = noted[r]
             \/ syncs'[r] = x /\ noted'[r] = w
  BY <1>3, <1>7, <1>8
<1>10. Today \in AllDays
  BY <1>3, DailyConsumptionAssumption DEF Today, Day, AllDays
<1>11. ConsumptionTypeOK'
  <2>1. snapshots' \subseteq [day : AllDays, q : Nat]
    BY <1>1, <1>2, <1>10 DEF ConsumptionTypeOK
  <2>2. Len(syncs') <= MaxSyncs
    BY <1>1, <1>3, <1>7, DailyConsumptionAssumption
  <2> QED
    BY <1>1, <1>2, <1>7, <1>8, <2>1, <2>2 DEF ConsumptionTypeOK, AllDays, Day
<1>12. IssuedInv' /\ SnapshotInv'
  <2>1. Today <= Today
    BY <1>10 DEF AllDays
  <2> QED
    BY <1>1, <2>1 DEF SalesInv, IssuedInv, SnapshotInv, Today, Day
<1>13. SoldInv'
  <2> SUFFICES ASSUME NEW r \in DOMAIN syncs'
               PROVE  /\ syncs'[r].until <= now /\ noted'[r].sold \subseteq DOMAIN documents
                      /\ \A p \in DOMAIN syncs'[r].got : syncs'[r].got[p] \in DOMAIN documents
                      /\ \A d \in DOMAIN documents :
                            documents[d].valid =>
                               d \in noted'[r].sold \/ documents[d].at >= syncs'[r].until
                      /\ syncs'[r].phase = "paging" /\ ~noted'[r].voided =>
                            \A d \in noted'[r].sold : documents[d].valid
    BY <1>1 DEF SoldInv
  <2>1. CASE syncs'[r] = x /\ noted'[r] = w
    BY <1>3, <1>6, <2>1
  <2>2. CASE r \in DOMAIN syncs /\ syncs'[r] = syncs[r] /\ noted'[r] = noted[r]
    BY <2>2 DEF SalesInv, SoldInv
  <2> QED
    BY <1>9, <2>1, <2>2
<1>14. PagedInv'
  <2> SUFFICES ASSUME NEW r \in DOMAIN syncs', syncs'[r].phase = "paging", ~noted'[r].voided
               PROVE  LET list == ListOf(documents, syncs'[r].from, syncs'[r].until)
                      IN  /\ syncs'[r].offset <= Len(list)
                          /\ Len(syncs'[r].got) = syncs'[r].offset
                          /\ \A p \in 1 .. syncs'[r].offset : syncs'[r].got[p] = list[p]
    BY <1>1 DEF PagedInv
  <2>1. CASE syncs'[r] = x /\ noted'[r] = w
    <3>1. Len(ListOf(documents, syncs'[r].from, syncs'[r].until)) \in Nat
      BY <1>3, ListOfIs
    <3> QED
      BY <1>6, <2>1, <3>1
  <2>2. CASE r \in DOMAIN syncs /\ syncs'[r] = syncs[r] /\ noted'[r] = noted[r]
    BY <2>2 DEF SalesInv, PagedInv
  <2> QED
    BY <1>9, <2>1, <2>2
<1>15. ReadWholeInv'
  <2>1. ASSUME NEW r \in DOMAIN syncs', syncs'[r].phase = "writing"
        PROVE  r \in DOMAIN syncs /\ syncs'[r] = syncs[r] /\ noted'[r] = noted[r]
    BY <1>6, <1>9, <2>1
  <2>2. documents' = documents
    BY <1>1
  <2> QED
    BY <2>1, <2>2 DEF SalesInv, ReadWholeInv
<1>16. BookedInv'
  BY <1>1, <1>3, <1>7 DEF SalesInv, BookedInv
<1>17. CompleteDaysRecorded'
  BY <1>1, <1>6, <1>9, DaysStay
<1> QED
  BY <1>11, <1>12, <1>13, <1>14, <1>15, <1>16, <1>17 DEF SalesInv

LEMMA EndedType ==
    ASSUME NEW s \in SyncType, NEW how \in {"paging", "writing", "done", "failed"}
    PROVE  [s EXCEPT !.phase = how, !.offset = 0, !.got = <<>>] \in SyncType
<1> DEFINE S == Seq(1 .. MaxDocuments)
           O == {0} \cup 0 .. MaxDocuments - 1
           U == 0 .. MaxTime
           none == <<>>
           T == [phase : {"paging", "writing", "done", "failed"},
                 from : Int, until : U, offset : O, got : S]
<1>1. none \in S /\ 0 \in O
  OBVIOUS
<1>2. s \in T
  BY DEF SyncType
<1>3. [s EXCEPT !.phase = how, !.offset = 0, !.got = none] \in T
  <2> HIDE DEF S, O, U, none
  <2> QED
    BY <1>1, <1>2
<1> QED
  BY <1>3, Zenon DEF SyncType

(* A step that only changes one sync, which does not page afterwards       *)
LEMMA SyncEnds ==
    ASSUME SalesInv, NEW r \in DOMAIN syncs, NEW how, Sales!Over(r, how),
           how \in {"done", "failed"}
    PROVE  /\ syncs' \in Seq(SyncType) /\ Len(syncs') = Len(syncs)
           /\ DOMAIN syncs' = DOMAIN syncs
           /\ syncs'[r].phase = how /\ syncs'[r].got = <<>>
           /\ syncs'[r].from = syncs[r].from /\ syncs'[r].until = syncs[r].until
           /\ \A o \in DOMAIN syncs : o # r => syncs'[o] = syncs[o]
<1> DEFINE x == [syncs[r] EXCEPT !.phase = how, !.offset = 0, !.got = <<>>]
<1>1. ConsumptionTypeOK
  BY DEF SalesInv
<1>2. syncs[r] \in SyncType
  BY <1>1, SyncPositions
<1>3. syncs' = [syncs EXCEPT ![r] = x]
  BY DEF Sales!Over
<1>4. x \in SyncType
  <2>1. how \in {"paging", "writing", "done", "failed"}
    OBVIOUS
  <2> QED
    BY <1>2, <2>1, EndedType
<1>5. /\ x.phase = how /\ x.got = <<>>
      /\ x.from = syncs[r].from /\ x.until = syncs[r].until
  BY <1>2 DEF SyncType
<1> HIDE DEF x
<1> QED
  BY <1>1, <1>3, <1>4, <1>5, OneSync

(* What an ended sync leaves to the others                                 *)
LEMMA OthersGoOn ==
    ASSUME SalesInv, NEW r \in DOMAIN syncs, NEW how, Sales!Over(r, how),
           how \in {"done", "failed"},
           UNCHANGED <<now, stock, documents, snapshots, noted>>
    PROVE  IssuedInv' /\ SnapshotInv' /\ SoldInv' /\ PagedInv' /\ ReadWholeInv'
<1>1. /\ DOMAIN syncs' = DOMAIN syncs
      /\ syncs'[r].phase = how /\ syncs'[r].got = <<>>
      /\ syncs'[r].until = syncs[r].until
      /\ \A o \in DOMAIN syncs : o # r => syncs'[o] = syncs[o]
  BY SyncEnds
<1>2. /\ syncs'[r].phase \notin {"paging", "writing"} /\ syncs'[r].got = <<>>
      /\ syncs'[r].until = syncs[r].until
  BY <1>1
<1>3. IssuedInv' /\ SnapshotInv'
  BY DEF SalesInv, IssuedInv, SnapshotInv, Today, Day
<1>4. SoldInv'
  BY <1>1, <1>2 DEF SalesInv, SoldInv
<1>5. PagedInv'
  BY <1>1, <1>2 DEF SalesInv, PagedInv
<1>6. ReadWholeInv'
  BY <1>1, <1>2 DEF SalesInv, ReadWholeInv
<1> QED
  BY <1>3, <1>4, <1>5, <1>6

LEMMA SyncFails ==
    ASSUME SalesInv, NEW r \in DOMAIN syncs, Sales!Fails(r)
    PROVE  SalesInv'
<1>1. /\ Sales!Over(r, "failed")
      /\ UNCHANGED <<now, stock, documents, consumption, snapshots, noted>>
      /\ syncs[r].phase # "done"
  BY DEF Sales!Fails
<1>2. /\ syncs' \in Seq(SyncType) /\ Len(syncs') = Len(syncs)
      /\ DOMAIN syncs' = DOMAIN syncs
      /\ syncs'[r].phase = "failed"
      /\ \A o \in DOMAIN syncs : o # r => syncs'[o] = syncs[o]
  BY <1>1, SyncEnds
<1>3. ConsumptionTypeOK'
  BY <1>1, <1>2 DEF SalesInv, ConsumptionTypeOK, AllDays, Day
<1>4. IssuedInv' /\ SnapshotInv' /\ SoldInv' /\ PagedInv' /\ ReadWholeInv'
  BY <1>1, OthersGoOn
<1>5. BookedInv'
  BY <1>1, <1>2 DEF SalesInv, BookedInv
<1>6. CompleteDaysRecorded'
  BY <1>1, <1>2, DaysStay
<1> QED
  BY <1>3, <1>4, <1>5, <1>6 DEF SalesInv

LEMMA SeqIsTyped ==
    ASSUME NEW S, NEW T, NEW list \in Seq(S), \A p \in 1 .. Len(list) : list[p] \in T
    PROVE  list \in Seq(T)
OBVIOUS

(* What a sync has read with one more page: if the list up to its offset   *)
(* was read before, the list up to the next offset, or all of it.          *)
PageAdds(list, got, offset, page, all) ==
    LET last == Sales!IsLast(page, list, offset)
    IN  /\ ~ last => offset + PageSize < Len(list)
        /\ /\ offset <= Len(list) /\ Len(got) = offset
           /\ \A p \in 1 .. offset : got[p] = list[p]
           => /\ last => Len(all) = Len(list)
              /\ ~ last => Len(all) = offset + PageSize
              /\ \A p \in 1 .. Len(all) : all[p] = list[p]

LEMMA OneMorePage ==
    ASSUME NEW S, NEW list \in Seq(S), NEW got \in Seq(S), NEW offset \in Nat,
           NEW page, page = Window(list, offset, PageSize), NEW all, all = got \o page
    PROVE  all \in Seq(S) /\ PageAdds(list, got, offset, page, all)
<1> DEFINE last == Sales!IsLast(page, list, offset)
<1>0. PageSize \in Nat \ {0}
  BY InventoryAssumption
<1>1. /\ page \in Seq(S) /\ Len(page) \in Nat /\ Len(page) <= PageSize
      /\ Len(page) = 0 \/ offset + Len(page) <= Len(list)
      /\ Len(page) < PageSize => Len(list) <= offset + Len(page)
      /\ \A p \in 1 .. Len(page) : page[p] = list[offset + p]
  <2> DEFINE w == Window(list, offset, PageSize)
  <2>1. /\ w \in Seq(S) /\ Len(w) \in Nat /\ Len(w) <= PageSize
        /\ Len(w) = 0 \/ offset + Len(w) <= Len(list)
        /\ Len(w) < PageSize => Len(list) <= offset + Len(w)
        /\ \A p \in 1 .. Len(w) : offset + p \in 1 .. Len(list) /\ w[p] = list[offset + p]
    BY <1>0, WindowOfAny
  <2>2. page = w
    OBVIOUS
  <2> HIDE DEF w
  <2> QED
    BY <2>1, <2>2
<1>2. Len(list) \in Nat /\ Len(got) \in Nat
  BY LenProperties
<1>3. /\ all \in Seq(S) /\ Len(all) = Len(got) + Len(page)
      /\ \A p \in 1 .. Len(got) + Len(page) :
            all[p] = IF p <= Len(got) THEN got[p] ELSE page[p - Len(got)]
  BY <1>1, ConcatProperties
<1>4. ~ last => offset + PageSize < Len(list)
  BY <1>0, <1>1, <1>2 DEF Sales!IsLast
<1>5. ASSUME offset <= Len(list), Len(got) = offset,
             \A p \in 1 .. offset : got[p] = list[p]
      PROVE  /\ last => Len(all) = Len(list)
             /\ ~ last => Len(all) = offset + PageSize
             /\ \A p \in 1 .. Len(all) : all[p] = list[p]
  <2>1. ASSUME last
        PROVE  Len(all) = Len(list)
    <3>1. Len(list) <= offset + Len(page)
      BY <1>0, <1>1, <1>2, <2>1 DEF Sales!IsLast
    <3> QED
      BY <1>1, <1>2, <1>3, <1>5, <3>1
  <2>3. ASSUME ~ last
        PROVE  Len(all) = offset + PageSize
    <3>1. Len(page) = PageSize
      BY <1>0, <1>1, <2>3 DEF Sales!IsLast
    <3> QED
      BY <1>3, <1>5, <3>1
  <2>2. ASSUME NEW p \in 1 .. Len(all)
        PROVE  all[p] = list[p]
    <3>1. CASE p <= offset
      BY <1>1, <1>3, <1>5, <3>1
    <3>2. CASE p > offset
      <4>1. p - offset \in 1 .. Len(page) /\ offset + (p - offset) = p
        BY <1>1, <1>3, <1>5, <3>2
      <4>2. all[p] = page[p - offset]
        BY <1>1, <1>3, <1>5, <3>2
      <4> QED
        BY <1>1, <4>1, <4>2
    <3> QED
      BY <1>1, <1>3, <1>5, <3>1, <3>2
  <2> QED
    BY <2>1, <2>2, <2>3
<1> QED
  BY <1>3, <1>4, <1>5 DEF PageAdds

LEMMA PagedType ==
    ASSUME NEW s \in SyncType, NEW got \in Seq(1 .. MaxDocuments)
    PROVE  /\ [s EXCEPT !.got = got, !.phase = "writing"] \in SyncType
           /\ \A o \in {0} \cup 0 .. MaxDocuments - 1 :
                 [s EXCEPT !.got = got, !.offset = o] \in SyncType
<1> DEFINE S == Seq(1 .. MaxDocuments)
           O == {0} \cup 0 .. MaxDocuments - 1
           U == 0 .. MaxTime
           T == [phase : {"paging", "writing", "done", "failed"},
                 from : Int, until : U, offset : O, got : S]
<1>1. got \in S /\ s \in T
  BY DEF SyncType
<1>2. /\ [s EXCEPT !.got = got, !.phase = "writing"] \in T
      /\ \A o \in O : [s EXCEPT !.got = got, !.offset = o] \in T
  <2> HIDE DEF S, O, U
  <2> QED
    BY <1>1
<1> QED
  BY <1>2, Zenon DEF SyncType

LEMMA SyncPages ==
    ASSUME SalesInv, NEW r \in DOMAIN syncs, Sales!Page(r)
    PROVE  SalesInv'
<1> DEFINE s    == syncs[r]
           list == ListOf(documents, s.from, s.until)
           page == Window(list, s.offset, PageSize)
           all  == s.got \o page
           last == Sales!IsLast(page, list, s.offset)
           x    == IF last THEN [s EXCEPT !.got = all, !.phase = "writing"]
                           ELSE [s EXCEPT !.got = all, !.offset = s.offset + PageSize]
<1>1. /\ s.phase = "paging"
      /\ UNCHANGED <<now, stock, documents, consumption, snapshots, noted>>
  BY DEF Sales!Page
<1>2. syncs' = [syncs EXCEPT ![r] = x]
  <2>1. Sales!Matching(syncs[r].from, syncs[r].until)
          = ListOf(documents, syncs[r].from, syncs[r].until)
    BY MatchingIs
  <2> QED
    BY <2>1, Zenon DEF Sales!Page, Window
<1>3. ConsumptionTypeOK
  BY DEF SalesInv
<1>4. /\ s \in SyncType /\ r \in 1 .. Len(syncs)
      /\ Len(documents) \in Nat /\ DOMAIN documents = 1 .. Len(documents)
      /\ Len(documents) <= MaxDocuments
  BY <1>3, SyncPositions
<1>5. s.offset \in Nat /\ s.got \in Seq(1 .. MaxDocuments)
  BY <1>4, DailyConsumptionAssumption DEF SyncType
<1>6. /\ list \in Seq(1 .. Len(documents)) /\ Len(list) \in Nat
      /\ Len(list) <= Len(documents)
      /\ IsListOf(list, documents, s.from, s.until, Len(documents))
  BY <1>4, ListOfIs DEF IsListOf
<1> HIDE DEF list
<1>7. s.got \in Seq(1 .. Len(documents))
  <2>1. Len(s.got) \in Nat /\ DOMAIN s.got = 1 .. Len(s.got)
    BY <1>5, LenProperties
  <2>2. \A p \in 1 .. Len(s.got) : s.got[p] \in 1 .. Len(documents)
    BY <1>4, <2>1 DEF SalesInv, SoldInv
  <2> QED
    BY <1>5, <2>1, <2>2, IsASeq
<1>8. /\ all \in Seq(1 .. Len(documents))
      /\ ~ last => s.offset + PageSize < Len(list)
      /\ /\ s.offset <= Len(list) /\ Len(s.got) = s.offset
         /\ \A p \in 1 .. s.offset : s.got[p] = list[p]
         => /\ last => Len(all) = Len(list)
            /\ ~ last => Len(all) = s.offset + PageSize
            /\ \A p \in 1 .. Len(all) : all[p] = list[p]
  <2> HIDE DEF s, page, all
  <2>1. page = Window(list, s.offset, PageSize) /\ all = s.got \o page
    BY Zenon DEF page, all
  <2>2. /\ list \in Seq(1 .. Len(documents)) /\ s.got \in Seq(1 .. Len(documents))
        /\ s.offset \in Nat
    BY <1>5, <1>6, <1>7
  <2>3. all \in Seq(1 .. Len(documents)) /\ PageAdds(list, s.got, s.offset, page, all)
    BY <2>1, <2>2, OneMorePage, Zenon
  <2> QED
    BY <2>3, Zenon DEF PageAdds
<1> HIDE DEF page, all
<1>9. all \in Seq(1 .. MaxDocuments) /\ DOMAIN all = 1 .. Len(all) /\ Len(all) \in Nat
      /\ \A p \in DOMAIN all : all[p] \in DOMAIN documents
  <2>1. /\ DOMAIN all = 1 .. Len(all) /\ Len(all) \in Nat
        /\ \A p \in 1 .. Len(all) : all[p] \in 1 .. Len(documents)
    BY <1>8, LenProperties, ElementOfSeq
  <2>2. \A p \in 1 .. Len(all) : all[p] \in 1 .. MaxDocuments
    BY <1>4, <2>1, DailyConsumptionAssumption
  <2>3. all \in Seq(1 .. MaxDocuments)
    <3>1. all \in Seq(1 .. Len(documents))
      BY <1>8
    <3> QED
      BY <2>2, <3>1, SeqIsTyped
  <2> QED
    BY <1>4, <2>1, <2>3
<1> HIDE DEF last
<1>10. x \in SyncType
  <2>1. CASE last
    BY <1>4, <1>9, <2>1, PagedType
  <2>2. CASE ~ last
    <3>1. s.offset + PageSize \in {0} \cup 0 .. MaxDocuments - 1
      <4>1. s.offset + PageSize < Len(list) /\ Len(list) <= MaxDocuments
        BY <1>4, <1>6, <1>8, <2>2, DailyConsumptionAssumption
      <4>2. s.offset + PageSize \in Nat
        BY <1>5, InventoryAssumption
      <4> QED
        BY <1>6, <4>1, <4>2, DailyConsumptionAssumption
    <3> QED
      BY <1>4, <1>9, <2>2, <3>1, PagedType
  <2> QED
    BY <2>1, <2>2
<1>11. /\ x.from = s.from /\ x.until = s.until /\ x.got = all
       /\ last => x.phase = "writing"
       /\ ~ last => x.phase = "paging" /\ x.offset = s.offset + PageSize
  BY <1>1, <1>4 DEF SyncType
<1> HIDE DEF x
<1>12. /\ syncs' \in Seq(SyncType) /\ Len(syncs') = Len(syncs)
       /\ DOMAIN syncs' = DOMAIN syncs /\ syncs'[r] = x
       /\ \A o \in DOMAIN syncs : o # r => syncs'[o] = syncs[o]
  BY <1>2, <1>3, <1>10, OneSync
<1> HIDE DEF s
<1>13. ConsumptionTypeOK'
  BY <1>1, <1>3, <1>12 DEF ConsumptionTypeOK, AllDays, Day
<1>14. IssuedInv' /\ SnapshotInv'
  BY <1>1 DEF SalesInv, IssuedInv, SnapshotInv, Today, Day
<1>15. SoldInv'
  <2>1. /\ s.until <= now /\ noted[r].sold \subseteq DOMAIN documents
        /\ \A d \in DOMAIN documents :
              documents[d].valid => d \in noted[r].sold \/ documents[d].at >= s.until
        /\ ~noted[r].voided => \A d \in noted[r].sold : documents[d].valid
    BY <1>1 DEF SalesInv, SoldInv, s
  <2> QED
    BY <1>1, <1>9, <1>11, <1>12, <2>1 DEF SalesInv, SoldInv
<1>16. ASSUME ~noted[r].voided
       PROVE  /\ last => Len(all) = Len(list)
              /\ ~ last => Len(all) = s.offset + PageSize
              /\ \A p \in 1 .. Len(all) : all[p] = list[p]
  BY <1>1, <1>8, <1>16 DEF SalesInv, PagedInv, s, list
<1>17. PagedInv'
  <2>0. documents' = documents /\ noted' = noted /\ x.from = s.from /\ x.until = s.until
    BY <1>1, <1>11
  <2> SUFFICES ASSUME ~noted[r].voided, x.phase = "paging"
               PROVE  /\ x.offset <= Len(list) /\ Len(x.got) = x.offset
                      /\ \A p \in 1 .. x.offset : x.got[p] = list[p]
    BY <1>12, <2>0 DEF SalesInv, PagedInv, list
  <2>1. ~ last
    BY <1>11
  <2>2. /\ s.offset + PageSize < Len(list) /\ x.offset = s.offset + PageSize
        /\ s.offset + PageSize \in Nat
    BY <1>5, <1>8, <1>11, <2>1, InventoryAssumption
  <2>3. Len(all) = x.offset /\ \A p \in 1 .. x.offset : all[p] = list[p]
    BY <1>16, <2>1, <2>2
  <2> QED
    BY <1>6, <1>11, <2>2, <2>3
<1>18. ReadWholeInv'
  <2> SUFFICES ASSUME ~noted[r].voided, x.phase = "writing"
               PROVE  /\ \A p, o \in DOMAIN all : all[p] = all[o] => p = o
                      /\ \A p \in DOMAIN all :
                            all[p] \in noted[r].sold \/ documents[all[p]].at >= s.until
                      /\ \A d \in noted[r].sold :
                            s.from <= documents[d].at /\ documents[d].at <= s.until
                               => \E p \in DOMAIN all : all[p] = d
    BY <1>1, <1>11, <1>12 DEF SalesInv, ReadWholeInv
  <2>1. last
    BY <1>11
  <2>2. Len(all) = Len(list) /\ \A p \in 1 .. Len(list) : all[p] = list[p]
    BY <1>16, <2>1
  <2>3. DOMAIN all = DOMAIN list /\ \A p \in DOMAIN all : all[p] = list[p]
    BY <1>6, <1>9, <2>2, LenProperties
  <2>4. \A p, o \in DOMAIN all : all[p] = all[o] => p = o
    BY <1>6, <2>3 DEF IsListOf
  <2>5. \A p \in DOMAIN all : documents[all[p]].valid
    BY <1>6, <2>3 DEF IsListOf, Matches
  <2>6. \A p \in DOMAIN all : all[p] \in noted[r].sold \/ documents[all[p]].at >= s.until
    BY <1>9, <2>5 DEF SalesInv, SoldInv, s
  <2>7. ASSUME NEW d \in noted[r].sold,
               s.from <= documents[d].at, documents[d].at <= s.until
        PROVE  \E p \in DOMAIN all : all[p] = d
    <3>1. d \in 1 .. Len(documents) /\ documents[d].valid
      BY <1>1, <1>4 DEF SalesInv, SoldInv, s
    <3>2. Matches(documents, s.from, s.until, d)
      BY <2>7, <3>1 DEF Matches
    <3>3. \E p \in DOMAIN list : list[p] = d
      BY <1>6, <3>1, <3>2 DEF IsListOf
    <3> QED
      BY <2>3, <3>3
  <2> QED
    BY <2>4, <2>6, <2>7
<1>19. BookedInv'
  BY <1>1, <1>12 DEF SalesInv, BookedInv, s
<1>20. CompleteDaysRecorded'
  <2>1. x.phase # "done"
    BY <1>11
  <2> QED
    BY <1>1, <1>12, <2>1, DaysStay
<1> QED
  BY <1>13, <1>14, <1>15, <1>17, <1>18, <1>19, <1>20 DEF SalesInv

(***************************************************************************)
(* What a sync writes                                                      *)
(***************************************************************************)
Read(r, day) == {d \in {syncs[r].got[p] : p \in DOMAIN syncs[r].got} :
                    Day(documents[d].at) = day}

Times(r, d) == Cardinality({p \in DOMAIN syncs[r].got : syncs[r].got[p] = d})

Total(r, day) == SumFunction([d \in Read(r, day) |-> Times(r, d) * documents[d].q])

LEMMA AggregatedIs ==
    ASSUME NEW r
    PROVE  Sales!Aggregated(r) = {[day |-> day, q |-> Total(r, day), by |-> r] :
                                     day \in {day \in AllDays : Read(r, day) # {}}}
<1>1. \A w : Sales!SumFunction(w) = SumFunction(w)
  BY Zenon DEF SumFunction, SumFunctionOnSet, FoldFunctionOnSet, MapThenFoldSet,
               Sales!SumFunction, Sales!SumFunctionOnSet, Sales!FoldFunctionOnSet,
               Sales!MapThenFoldSet
<1>2. \A l : Sales!ToSet(l) = {l[p] : p \in DOMAIN l}
  BY DEF Sales!ToSet
<1>3. \A day : Sales!OnDay(Sales!ToSet(syncs[r].got), day) = Read(r, day)
  BY <1>2, Zenon DEF Sales!OnDay, Sales!Day, Day, Read
<1>4. AllDays = Sales!AllDays
  BY DEF Sales!AllDays, Sales!Day, AllDays, Day
<1>5. \A set : Sales!Cardinality(set) = Cardinality(set)
  BY Zenon DEF Sales!Cardinality, Cardinality
<1> DEFINE Days0(day) == Sales!OnDay(Sales!ToSet(syncs[r].got), day)
           Times0(d) == Sales!Cardinality({p \in DOMAIN syncs[r].got : syncs[r].got[p] = d})
           Row(day, read) ==
               [day |-> day,
                q   |-> Sales!SumFunction([d \in read |-> Times0(d) * documents[d].q]),
                by  |-> r]
<1>6. Sales!Aggregated(r) = {Row(day, Days0(day)) :
                                day \in {day \in Sales!AllDays : Days0(day) # {}}}
  BY Zenon DEF Sales!Aggregated
<1>7. \A day : Row(day, Read(r, day)) = [day |-> day, q |-> Total(r, day), by |-> r]
  <2>1. \A d : Times0(d) = Times(r, d)
    BY <1>5 DEF Times
  <2> HIDE DEF Times0
  <2> QED
    BY <1>1, <2>1 DEF Total
<1>8. \A day : Days0(day) = Read(r, day)
  BY <1>3
<1> HIDE DEF Row, Days0
<1> QED
  BY <1>4, <1>6, <1>7, <1>8

(* What a sync has read is of documents that there are.                    *)
LEMMA ReadIs ==
    ASSUME SalesInv, NEW r \in DOMAIN syncs
    PROVE  /\ DOMAIN syncs[r].got = 1 .. Len(syncs[r].got) /\ Len(syncs[r].got) \in Nat
           /\ \A d : Times(r, d) \in Nat
           /\ \A day : Read(r, day) \subseteq DOMAIN documents /\ IsFiniteSet(Read(r, day))
           /\ \A d \in DOMAIN documents : documents[d].q \in Nat /\ documents[d].at \in Nat
<1>1. ConsumptionTypeOK
  BY DEF SalesInv
<1>2. /\ syncs[r] \in SyncType /\ Len(documents) \in Nat
      /\ DOMAIN documents = 1 .. Len(documents)
      /\ \A d \in DOMAIN documents : documents[d] \in Document
  BY <1>1, SyncPositions
<1>3. DOMAIN syncs[r].got = 1 .. Len(syncs[r].got) /\ Len(syncs[r].got) \in Nat
  <2>1. syncs[r].got \in Seq(1 .. MaxDocuments)
    BY <1>2 DEF SyncType
  <2> QED
    BY <2>1, LenProperties
<1>4. ASSUME NEW d
      PROVE  Times(r, d) \in Nat
  <2>1. IsFiniteSet(DOMAIN syncs[r].got)
    BY <1>3, FS_Interval
  <2>2. IsFiniteSet({p \in DOMAIN syncs[r].got : syncs[r].got[p] = d})
    BY <2>1, FS_Subset
  <2> QED
    BY <2>2, FS_CardinalityType DEF Times
<1>5. ASSUME NEW day
      PROVE  Read(r, day) \subseteq DOMAIN documents /\ IsFiniteSet(Read(r, day))
  <2>1. Read(r, day) \subseteq DOMAIN documents
    BY DEF SalesInv, SoldInv, Read
  <2>2. IsFiniteSet(DOMAIN documents)
    BY <1>2, FS_Interval
  <2> QED
    BY <2>1, <2>2, FS_Subset
<1>6. \A d \in DOMAIN documents : documents[d].q \in Nat /\ documents[d].at \in Nat
  BY <1>2, DailyConsumptionAssumption DEF Document
<1> QED
  BY <1>3, <1>4, <1>5, <1>6

LEMMA TotalIsNat ==
    ASSUME SalesInv, NEW r \in DOMAIN syncs, NEW day
    PROVE  Total(r, day) \in Nat
<1> DEFINE w == [d \in Read(r, day) |-> Times(r, d) * documents[d].q]
<1>1. Read(r, day) \subseteq DOMAIN documents /\ IsFiniteSet(Read(r, day))
  BY ReadIs
<1>2. \A d \in Read(r, day) : Times(r, d) * documents[d].q \in Nat
  <2>1. ASSUME NEW a \in Nat, NEW b \in Nat
        PROVE  a * b \in Nat
    OBVIOUS
  <2> QED
    BY <1>1, <2>1, ReadIs
<1>3. w \in [Read(r, day) -> Nat]
  BY <1>2
<1> HIDE DEF w
<1>4. SumFunction(w) \in Nat
  BY <1>1, <1>3, SumIsNat
<1> QED
  BY <1>4 DEF Total, w

(* On a day inside its window, what a sync has read is what was sold, and  *)
(* nothing of it twice.                                                    *)
LEMMA ReadIsSold ==
    ASSUME SalesInv, NEW r \in DOMAIN syncs, syncs[r].phase = "writing", ~noted[r].voided,
           NEW day \in AllDays, syncs[r].from <= 2 * day, 2 * day + 1 < syncs[r].until
    PROVE  /\ Read(r, day) = OnDay(noted[r].sold, day)
           /\ [d \in Read(r, day) |-> Times(r, d) * documents[d].q]
                = [d \in OnDay(noted[r].sold, day) |-> documents[d].q]
<1> DEFINE got == syncs[r].got
<1>1. /\ \A p, o \in DOMAIN got : got[p] = got[o] => p = o
      /\ \A p \in DOMAIN got :
            got[p] \in noted[r].sold \/ documents[got[p]].at >= syncs[r].until
      /\ \A d \in noted[r].sold :
            syncs[r].from <= documents[d].at /\ documents[d].at <= syncs[r].until
               => \E p \in DOMAIN got : got[p] = d
  BY DEF SalesInv, ReadWholeInv
<1>2. /\ noted[r].sold \subseteq DOMAIN documents
      /\ \A p \in DOMAIN got : got[p] \in DOMAIN documents
  BY DEF SalesInv, SoldInv
<1>3. \A d \in DOMAIN documents : documents[d].q \in Nat /\ documents[d].at \in Nat
  BY ReadIs
<1>4. day \in Int /\ syncs[r].from \in Int /\ syncs[r].until \in Int
  <2>1. syncs[r] \in SyncType
    BY SyncPositions DEF SalesInv
  <2> QED
    BY <2>1, DailyConsumptionAssumption DEF SyncType, AllDays, Day
<1>5. ASSUME NEW d \in DOMAIN documents, Day(documents[d].at) = day
      PROVE  /\ syncs[r].from <= documents[d].at /\ documents[d].at < syncs[r].until
  <2>1. 2 * day <= documents[d].at /\ documents[d].at <= 2 * day + 1
    BY <1>3, <1>5 DEF Day
  <2> QED
    BY <1>3, <1>4, <2>1
<1>6. ASSUME NEW d \in Read(r, day)
      PROVE  /\ d \in OnDay(noted[r].sold, day) /\ d \in DOMAIN documents
             /\ Times(r, d) = 1
  <2>1. PICK p \in DOMAIN got : got[p] = d
    BY DEF Read
  <2>2. d \in DOMAIN documents /\ Day(documents[d].at) = day
    BY <1>2, <2>1 DEF Read
  <2>3. ~ (documents[d].at >= syncs[r].until)
    BY <1>3, <1>4, <1>5, <2>2
  <2>4. d \in noted[r].sold
    BY <1>1, <2>1, <2>3
  <2>5. {o \in DOMAIN got : got[o] = d} = {p}
    BY <1>1, <2>1
  <2>6. Times(r, d) = 1
    BY <2>5, FS_Singleton DEF Times
  <2> QED
    BY <2>2, <2>4, <2>6 DEF OnDay
<1>7. ASSUME NEW d \in OnDay(noted[r].sold, day)
      PROVE  d \in Read(r, day)
  <2>1. d \in noted[r].sold /\ d \in DOMAIN documents /\ Day(documents[d].at) = day
    BY <1>2 DEF OnDay
  <2>2. syncs[r].from <= documents[d].at /\ documents[d].at <= syncs[r].until
    BY <1>3, <1>4, <1>5, <2>1
  <2>3. \E p \in DOMAIN got : got[p] = d
    BY <1>1, <2>1, <2>2
  <2> QED
    BY <2>1, <2>3 DEF Read
<1>8. Read(r, day) = OnDay(noted[r].sold, day)
  BY <1>6, <1>7
<1>9. \A d \in Read(r, day) : Times(r, d) * documents[d].q = documents[d].q
  <2> SUFFICES ASSUME NEW d \in Read(r, day)
               PROVE  Times(r, d) * documents[d].q = documents[d].q
    OBVIOUS
  <2>1. Times(r, d) = 1 /\ documents[d].q \in Nat
    BY <1>3, <1>6
  <2> QED
    BY <2>1
<1> QED
  BY <1>8, <1>9

LEMMA SyncWrites ==
    ASSUME SalesInv, NEW r \in DOMAIN syncs, Sales!Write(r)
    PROVE  SalesInv'
<1> DEFINE new == {[day |-> day, q |-> Total(r, day), by |-> r] :
                      day \in {day \in AllDays : Read(r, day) # {}}}
<1>1. /\ syncs[r].phase = "writing" /\ Sales!Over(r, "done")
      /\ UNCHANGED <<now, stock, documents, snapshots, noted>>
  BY DEF Sales!Write
<1>2. consumption' = consumption \cup new
  BY AggregatedIs DEF Sales!Write
<1>3. /\ syncs' \in Seq(SyncType) /\ Len(syncs') = Len(syncs)
      /\ DOMAIN syncs' = DOMAIN syncs
      /\ syncs'[r].phase = "done"
      /\ syncs'[r].from = syncs[r].from /\ syncs'[r].until = syncs[r].until
      /\ \A o \in DOMAIN syncs : o # r => syncs'[o] = syncs[o]
  BY <1>1, SyncEnds
<1>4. \A row \in new : row \in DayRows /\ row.by = r
  <2> SUFFICES ASSUME NEW day \in AllDays
               PROVE  [day |-> day, q |-> Total(r, day), by |-> r] \in DayRows
    OBVIOUS
  <2>1. Total(r, day) \in Nat
    BY TotalIsNat
  <2>2. r \in 1 .. MaxSyncs
    BY SyncPositions, DailyConsumptionAssumption DEF SalesInv
  <2> QED
    BY <2>1, <2>2 DEF DayRows
<1>5. ConsumptionTypeOK'
  <2>1. consumption' \subseteq DayRows
    BY <1>2, <1>4 DEF SalesInv, ConsumptionTypeOK
  <2> QED
    BY <1>1, <1>3, <2>1 DEF SalesInv, ConsumptionTypeOK, AllDays, Day, DayRows
<1>6. IssuedInv' /\ SnapshotInv' /\ SoldInv' /\ PagedInv' /\ ReadWholeInv'
  BY <1>1, OthersGoOn
<1>7. BookedInv'
  BY <1>2, <1>3, <1>4 DEF SalesInv, BookedInv
<1>8. \A row \in consumption : row.by # r
  BY <1>1 DEF SalesInv, BookedInv
<1>9. CompleteDaysRecorded'
  <2> SUFFICES ASSUME NEW o \in DOMAIN syncs, NEW day \in AllDays,
                      syncs'[o].phase = "done", ~noted[o].voided,
                      syncs'[o].from <= 2 * day, 2 * day + 1 < syncs'[o].until
               PROVE  Recorded(o, day)'
    BY <1>1, <1>3 DEF CompleteDaysRecorded, Recorded, AllDays, Day
  <2>1. CASE o # r
    <3>1. Recorded(o, day)
      BY <1>3, <2>1 DEF SalesInv, CompleteDaysRecorded, Recorded
    <3>2. \A row : row.by = o => (row \in consumption' <=> row \in consumption)
      BY <1>2, <1>4, <2>1
    <3> QED
      BY <1>1, <3>1, <3>2, RecordedStays
  <2>2. CASE o = r
    <3> DEFINE sold == OnDay(noted[r].sold, day)
               rowsOf == {row \in consumption' : row.by = r /\ row.day = day}
    <3>1. /\ Read(r, day) = sold
          /\ [d \in Read(r, day) |-> Times(r, d) * documents[d].q]
               = [d \in sold |-> documents[d].q]
      BY <1>1, <1>3, <2>2, ReadIsSold
    <3>2. Total(r, day) = SumFunction([d \in sold |-> documents[d].q])
      BY <3>1 DEF Total
    <3>3. rowsOf = {row \in new : row.day = day}
      BY <1>2, <1>4, <1>8
    <3>4. {row \in new : row.day = day}
            = IF sold = {} THEN {} ELSE {[day |-> day, q |-> Total(r, day), by |-> r]}
      BY <3>1
    <3> HIDE DEF rowsOf, new
    <3>5. {row.q : row \in rowsOf}
            = IF sold = {} THEN {} ELSE {SumFunction([d \in sold |-> documents[d].q])}
      <4>1. CASE sold = {}
        <5>1. rowsOf = {}
          BY <3>3, <3>4, <4>1
        <5> QED
          BY <4>1, <5>1
      <4>2. CASE sold # {}
        <5>1. rowsOf = {[day |-> day, q |-> Total(r, day), by |-> r]}
          BY <3>3, <3>4, <4>2
        <5>2. {row.q : row \in rowsOf} = {Total(r, day)}
          BY <5>1
        <5> QED
          BY <3>2, <4>2, <5>2
      <4> QED
        BY <4>1, <4>2
    <3>6. documents' = documents /\ noted' = noted
      BY <1>1
    <3> QED
      BY <2>2, <3>5, <3>6, Zenon DEF Recorded, rowsOf, OnDay, Day
  <2> QED
    BY <2>1, <2>2
<1> QED
  BY <1>5, <1>6, <1>7, <1>9 DEF SalesInv

(***************************************************************************)
(* The steps of Bsale and the calendar                                     *)
(***************************************************************************)
LEMMA Sells ==
    ASSUME SalesInv, NEW q \in 1 .. MaxQuantity, Sales!Sell(q)
    PROVE  SalesInv'
<1> DEFINE n == Len(documents)
           y == [q |-> q, at |-> now, valid |-> TRUE]
<1>1. /\ n < MaxDocuments /\ q <= stock /\ documents' = Append(documents, y)
      /\ stock' = stock - q
      /\ UNCHANGED <<now, syncs, consumption, snapshots, noted>>
  BY DEF Sales!Sell
<1>2. ConsumptionTypeOK
  BY DEF SalesInv
<1>3. /\ documents \in Seq(Document) /\ n \in Nat /\ DOMAIN documents = 1 .. n
      /\ now \in 0 .. MaxTime /\ stock \in Nat
  BY <1>2, SyncPositions DEF ConsumptionTypeOK
<1>4. y \in Document /\ y.at = now
  BY <1>3 DEF Document
<1> HIDE DEF y
<1>5. /\ documents' \in Seq(Document) /\ Len(documents') = n + 1
      /\ DOMAIN documents' = 1 .. n + 1 /\ documents'[n + 1] = y
      /\ \A d \in 1 .. n : documents'[d] = documents[d]
  BY <1>1, <1>3, <1>4, AppendProperties
<1> HIDE DEF n
<1>6. ConsumptionTypeOK'
  <2>1. stock' \in Nat
    BY <1>1, <1>3, DailyConsumptionAssumption
  <2>2. Len(documents') <= MaxDocuments
    BY <1>1, <1>3, <1>5, DailyConsumptionAssumption
  <2> QED
    BY <1>1, <1>2, <1>5, <2>1, <2>2 DEF ConsumptionTypeOK, Document, AllDays, Day
<1>7. IssuedInv' /\ SnapshotInv'
  <2>1. now <= now
    BY <1>3
  <2> QED
    BY <1>1, <1>3, <1>4, <1>5, <2>1 DEF SalesInv, IssuedInv, SnapshotInv, Today, Day
<1>8. DOMAIN documents \subseteq DOMAIN documents'
  BY <1>3, <1>5
<1>9. SoldInv'
  <2> SUFFICES ASSUME NEW r \in DOMAIN syncs
               PROVE  /\ syncs[r].until <= now /\ noted[r].sold \subseteq DOMAIN documents'
                      /\ \A p \in DOMAIN syncs[r].got :
                            syncs[r].got[p] \in DOMAIN documents'
                      /\ \A d \in DOMAIN documents' :
                            documents'[d].valid =>
                               d \in noted[r].sold \/ documents'[d].at >= syncs[r].until
                      /\ syncs[r].phase = "paging" /\ ~noted[r].voided =>
                            \A d \in noted[r].sold : documents'[d].valid
    BY <1>1 DEF SoldInv
  <2>1. /\ syncs[r].until <= now /\ noted[r].sold \subseteq DOMAIN documents
        /\ \A p \in DOMAIN syncs[r].got : syncs[r].got[p] \in DOMAIN documents
        /\ \A d \in DOMAIN documents :
              documents[d].valid => d \in noted[r].sold \/ documents[d].at >= syncs[r].until
        /\ syncs[r].phase = "paging" /\ ~noted[r].voided =>
              \A d \in noted[r].sold : documents[d].valid
    BY DEF SalesInv, SoldInv
  <2>2. now >= syncs[r].until
    <3>1. syncs[r].until \in Int
      <4>1. syncs[r] \in SyncType
        BY <1>2, SyncPositions
      <4> QED
        BY <4>1, DailyConsumptionAssumption DEF SyncType
    <3> QED
      BY <1>3, <2>1, <3>1
  <2>3. \A d \in DOMAIN documents' :
            \/ d \in DOMAIN documents /\ documents'[d] = documents[d]
            \/ d = n + 1 /\ documents'[d].at = now
    BY <1>3, <1>4, <1>5
  <2>4. \A d \in DOMAIN documents : documents'[d] = documents[d]
    BY <1>3, <1>5
  <2> QED
    BY <1>8, <2>1, <2>2, <2>3, <2>4
<1>10. PagedInv'
  <2> SUFFICES ASSUME NEW r \in DOMAIN syncs, syncs[r].phase = "paging", ~noted[r].voided
               PROVE  LET list == ListOf(documents', syncs[r].from, syncs[r].until)
                      IN  /\ syncs[r].offset <= Len(list)
                          /\ Len(syncs[r].got) = syncs[r].offset
                          /\ \A p \in 1 .. syncs[r].offset : syncs[r].got[p] = list[p]
    BY <1>1 DEF PagedInv
  <2> DEFINE old == ListOf(documents, syncs[r].from, syncs[r].until)
             new == ListOf(documents', syncs[r].from, syncs[r].until)
  <2>1. /\ syncs[r].offset <= Len(old) /\ Len(syncs[r].got) = syncs[r].offset
        /\ \A p \in 1 .. syncs[r].offset : syncs[r].got[p] = old[p]
    BY DEF SalesInv, PagedInv
  <2>2. Len(old) <= Len(new) /\ \A p \in 1 .. Len(old) : new[p] = old[p]
    BY <1>1, <1>3, <1>4, ListGrows
  <2>3. Len(old) \in Nat /\ Len(new) \in Nat
    BY <1>3, <1>5, ListOfIs DEF n
  <2>4. syncs[r].offset \in Nat
    <3>1. syncs[r] \in SyncType
      BY <1>2, SyncPositions
    <3> QED
      BY <3>1, DailyConsumptionAssumption DEF SyncType
  <2> HIDE DEF old, new
  <2>5. /\ syncs[r].offset <= Len(new)
        /\ \A p \in 1 .. syncs[r].offset : syncs[r].got[p] = new[p]
    BY <2>1, <2>2, <2>3, <2>4
  <2> QED
    BY <2>1, <2>5 DEF new
<1>11. ReadWholeInv'
  <2>1. \A d \in DOMAIN documents : documents'[d] = documents[d]
    BY <1>3, <1>5
  <2>2. \A r \in DOMAIN syncs : /\ noted[r].sold \subseteq DOMAIN documents
                                /\ \A p \in DOMAIN syncs[r].got :
                                      syncs[r].got[p] \in DOMAIN documents
    BY DEF SalesInv, SoldInv
  <2> QED
    BY <1>1, <2>1, <2>2 DEF SalesInv, ReadWholeInv
<1>12. BookedInv'
  BY <1>1 DEF SalesInv, BookedInv
<1>13. CompleteDaysRecorded'
  <2>1. \A d \in DOMAIN documents : documents'[d].q = documents[d].q
                                    /\ documents'[d].at = documents[d].at
    BY <1>3, <1>5
  <2> QED
    BY <1>1, <2>1, DaysStay
<1> QED
  BY <1>6, <1>7, <1>9, <1>10, <1>11, <1>12, <1>13 DEF SalesInv

LEMMA Voids ==
    ASSUME SalesInv, NEW d \in DOMAIN documents, Sales!Void(d)
    PROVE  SalesInv'
<1>1. /\ documents' = [documents EXCEPT ![d].valid = FALSE]
      /\ stock' = stock + documents[d].q
      /\ noted' = [r \in DOMAIN noted |->
                        IF syncs[r].phase = "paging" THEN [noted[r] EXCEPT !.voided = TRUE]
                                                    ELSE noted[r]]
      /\ UNCHANGED <<now, syncs, consumption, snapshots>>
  BY DEF Sales!Void
<1>2. ConsumptionTypeOK
  BY DEF SalesInv
<1>3. /\ documents \in Seq(Document) /\ Len(documents) \in Nat
      /\ DOMAIN documents = 1 .. Len(documents)
      /\ \A e \in DOMAIN documents : documents[e] \in Document
      /\ DOMAIN noted = DOMAIN syncs /\ DOMAIN syncs = 1 .. Len(syncs) /\ Len(syncs) \in Nat
      /\ \A r \in DOMAIN syncs : noted[r] \in NotedType
      /\ stock \in Nat
  BY <1>2, SyncPositions DEF ConsumptionTypeOK
<1>4. [documents[d] EXCEPT !.valid = FALSE] \in Document
  <2>1. documents[d] \in Document
    BY <1>3
  <2> QED
    BY <2>1 DEF Document
<1>5. /\ documents' \in Seq(Document) /\ Len(documents') = Len(documents)
      /\ DOMAIN documents' = DOMAIN documents
      /\ \A e \in DOMAIN documents :
            /\ documents'[e].q = documents[e].q /\ documents'[e].at = documents[e].at
            /\ documents'[e].valid => documents[e].valid
  <2>1. documents' \in Seq(Document) /\ Len(documents') = Len(documents)
    BY <1>1, <1>3, <1>4, ExceptSeq
  <2>2. DOMAIN documents' = DOMAIN documents
    BY <1>1
  <2>3. ASSUME NEW e \in DOMAIN documents
        PROVE  /\ documents'[e].q = documents[e].q /\ documents'[e].at = documents[e].at
               /\ documents'[e].valid => documents[e].valid
    <3>1. documents[e] \in Document
      BY <1>3
    <3>2. CASE e = d
      BY <1>1, <3>1, <3>2 DEF Document
    <3>3. CASE e # d
      BY <1>1, <3>3
    <3> QED
      BY <3>2, <3>3
  <2> QED
    BY <2>1, <2>2, <2>3
<1>6. /\ noted' \in Seq(NotedType) /\ Len(noted') = Len(noted)
      /\ \A r \in DOMAIN syncs :
            /\ noted'[r].sold = noted[r].sold
            /\ ~noted'[r].voided => ~noted[r].voided /\ syncs[r].phase # "paging"
  <2>1. ASSUME NEW r \in DOMAIN syncs
        PROVE  /\ noted'[r] \in NotedType /\ noted'[r].sold = noted[r].sold
               /\ ~noted'[r].voided => ~noted[r].voided /\ syncs[r].phase # "paging"
    <3>1. noted[r] \in NotedType
      BY <1>3
    <3>2. CASE syncs[r].phase = "paging"
      <4>1. noted'[r] = [noted[r] EXCEPT !.voided = TRUE]
        BY <1>1, <1>3, <3>2
      <4> QED
        BY <3>1, <4>1 DEF NotedType
    <3>3. CASE syncs[r].phase # "paging"
      <4>1. noted'[r] = noted[r]
        BY <1>1, <1>3, <3>3
      <4> QED
        BY <3>1, <3>3, <4>1
    <3> QED
      BY <3>2, <3>3
  <2>2. noted \in Seq(NotedType) /\ Len(noted) = Len(syncs)
    BY <1>2 DEF ConsumptionTypeOK
  <2>3. noted' \in Seq(NotedType) /\ Len(noted') = Len(noted)
    <3>1. DOMAIN noted' = 1 .. Len(noted)
      BY <1>1, <1>3, <2>2
    <3>2. noted' \in [1 .. Len(noted) -> NotedType]
      BY <1>1, <1>3, <2>1, <2>2
    <3> QED
      BY <1>3, <2>2, <3>2
  <2> QED
    BY <2>1, <2>3
<1>7. ConsumptionTypeOK'
  <2>1. stock' \in Nat
    <3>1. documents[d] \in Document
      BY <1>3
    <3>2. documents[d].q \in Nat
      BY <3>1, DailyConsumptionAssumption DEF Document
    <3> QED
      BY <1>1, <1>3, <3>2
  <2> QED
    BY <1>1, <1>2, <1>5, <1>6, <2>1 DEF ConsumptionTypeOK, Document, AllDays, Day
<1>8. IssuedInv' /\ SnapshotInv'
  BY <1>1, <1>5 DEF SalesInv, IssuedInv, SnapshotInv, Today, Day
<1>9. SoldInv'
  BY <1>1, <1>5, <1>6 DEF SalesInv, SoldInv
<1>10. PagedInv'
  BY <1>1, <1>6 DEF PagedInv
<1>11. ReadWholeInv'
  <2>1. \A r \in DOMAIN syncs : /\ noted[r].sold \subseteq DOMAIN documents
                                /\ \A p \in DOMAIN syncs[r].got :
                                      syncs[r].got[p] \in DOMAIN documents
    BY DEF SalesInv, SoldInv
  <2> SUFFICES ASSUME NEW r \in DOMAIN syncs, syncs[r].phase = "writing", ~noted[r].voided
               PROVE  LET got == syncs[r].got
                      IN  /\ \A p, o \in DOMAIN got : got[p] = got[o] => p = o
                          /\ \A p \in DOMAIN got :
                                \/ got[p] \in noted[r].sold
                                \/ documents'[got[p]].at >= syncs[r].until
                          /\ \A e \in noted[r].sold :
                                /\ syncs[r].from <= documents'[e].at
                                /\ documents'[e].at <= syncs[r].until
                                => \E p \in DOMAIN got : got[p] = e
    BY <1>1, <1>6 DEF ReadWholeInv
  <2>2. LET got == syncs[r].got
        IN  /\ \A p, o \in DOMAIN got : got[p] = got[o] => p = o
            /\ \A p \in DOMAIN got :
                  got[p] \in noted[r].sold \/ documents[got[p]].at >= syncs[r].until
            /\ \A e \in noted[r].sold :
                  syncs[r].from <= documents[e].at /\ documents[e].at <= syncs[r].until
                     => \E p \in DOMAIN got : got[p] = e
    BY DEF SalesInv, ReadWholeInv
  <2> QED
    BY <1>5, <2>1, <2>2
<1>12. BookedInv'
  BY <1>1 DEF SalesInv, BookedInv
<1>13. CompleteDaysRecorded'
  BY <1>1, <1>5, <1>6, DaysStay
<1> QED
  BY <1>7, <1>8, <1>9, <1>10, <1>11, <1>12, <1>13 DEF SalesInv

LEMMA Ticks ==
    ASSUME SalesInv, Sales!Tick
    PROVE  SalesInv'
<1>1. /\ now < MaxTime /\ now' = now + 1
      /\ UNCHANGED <<stock, documents, syncs, consumption, snapshots, noted>>
  BY DEF Sales!Tick
<1>2. ConsumptionTypeOK
  BY DEF SalesInv
<1>3. now \in 0 .. MaxTime /\ MaxTime \in Nat /\ now <= now'
  BY <1>1, <1>2, DailyConsumptionAssumption DEF ConsumptionTypeOK
<1>4. ConsumptionTypeOK'
  BY <1>1, <1>2, <1>3 DEF ConsumptionTypeOK, AllDays, Day
<1>5. IssuedInv'
  <2>1. \A e \in DOMAIN documents : documents[e].at \in Nat
    <3>1. \A e \in DOMAIN documents : documents[e] \in Document
      BY <1>2, SyncPositions
    <3> QED
      BY <3>1, DailyConsumptionAssumption DEF Document
  <2> QED
    BY <1>1, <1>3, <2>1 DEF SalesInv, IssuedInv
<1>6. SnapshotInv'
  <2>1. Today \in Int /\ Today' \in Int /\ Today <= Today'
    BY <1>1, <1>3 DEF Today, Day
  <2>2. \A s \in snapshots : s.day \in Int /\ s.day <= Today
    BY <1>2, <1>3, DailyConsumptionAssumption
       DEF SalesInv, SnapshotInv, ConsumptionTypeOK, AllDays, Day
  <2>3. \A s \in snapshots : s.day <= Today'
    BY <2>1, <2>2
  <2> QED
    BY <1>1, <2>3 DEF SnapshotInv
<1>7. SoldInv'
  <2>1. \A r \in DOMAIN syncs : syncs[r].until \in Nat
    <3> SUFFICES ASSUME NEW r \in DOMAIN syncs
                 PROVE  syncs[r].until \in Nat
      OBVIOUS
    <3>1. syncs[r] \in SyncType
      BY <1>2, SyncPositions
    <3> QED
      BY <3>1, DailyConsumptionAssumption DEF SyncType
  <2>2. \A r \in DOMAIN syncs : syncs[r].until <= now'
    <3>1. \A r \in DOMAIN syncs : syncs[r].until <= now
      BY DEF SalesInv, SoldInv
    <3>2. now \in Int /\ now' = now + 1
      BY <1>1, <1>3
    <3> QED
      BY <2>1, <3>1, <3>2
  <2> QED
    BY <1>1, <2>2 DEF SalesInv, SoldInv
<1>8. PagedInv' /\ ReadWholeInv' /\ BookedInv'
  BY <1>1 DEF SalesInv, PagedInv, ReadWholeInv, BookedInv
<1>9. CompleteDaysRecorded'
  BY <1>1, DaysStay
<1> QED
  BY <1>4, <1>5, <1>6, <1>7, <1>8, <1>9 DEF SalesInv

LEMMA SalesBegin ==
    ASSUME OpeningStock \in Nat, Sales!Init
    PROVE  SalesInv
<1>1. /\ now = 0 /\ stock = OpeningStock
      /\ documents = <<>> /\ syncs = <<>> /\ noted = <<>>
      /\ consumption = {} /\ snapshots = {}
  BY DEF Sales!Init
<1>2. /\ DOMAIN documents = {} /\ DOMAIN syncs = {}
      /\ Len(documents) = 0 /\ Len(syncs) = 0 /\ Len(noted) = 0
      /\ documents \in Seq(Document) /\ syncs \in Seq(SyncType) /\ noted \in Seq(NotedType)
  BY <1>1
<1>3. ConsumptionTypeOK
  BY <1>1, <1>2, DailyConsumptionAssumption DEF ConsumptionTypeOK, Document
<1>4. IssuedInv /\ SnapshotInv /\ SoldInv /\ PagedInv /\ ReadWholeInv
  BY <1>1, <1>2 DEF IssuedInv, SnapshotInv, SoldInv, PagedInv, ReadWholeInv
<1>5. BookedInv /\ CompleteDaysRecorded
  BY <1>1, <1>2 DEF BookedInv, CompleteDaysRecorded
<1> QED
  BY <1>3, <1>4, <1>5 DEF SalesInv

LEMMA SalesStep ==
    ASSUME Days \in Nat, SalesInv, [Sales!Next]_Sales!vars
    PROVE  SalesInv'
<1>1. CASE Sales!Start
  BY <1>1, SyncBegins
<1>2. ASSUME NEW r \in DOMAIN syncs, Sales!Page(r) \/ Sales!Write(r) \/ Sales!Fails(r)
      PROVE  SalesInv'
  BY <1>2, SyncPages, SyncWrites, SyncFails
<1>3. ASSUME NEW q \in 1 .. MaxQuantity, Sales!Sell(q)
      PROVE  SalesInv'
  BY <1>3, Sells
<1>4. ASSUME NEW d \in DOMAIN documents, Sales!Void(d)
      PROVE  SalesInv'
  BY <1>4, Voids
<1>5. CASE Sales!Tick
  BY <1>5, Ticks
<1>6. CASE UNCHANGED Sales!vars
  <2>1. UNCHANGED <<now, stock, documents, syncs, consumption, snapshots, noted>>
    BY <1>6 DEF Sales!vars
  <2>2. ConsumptionTypeOK'
    BY <2>1 DEF SalesInv, ConsumptionTypeOK, AllDays, Day
  <2>3. IssuedInv' /\ SnapshotInv' /\ SoldInv' /\ BookedInv'
    BY <2>1 DEF SalesInv, IssuedInv, SnapshotInv, SoldInv, BookedInv, Today, Day
  <2>4. PagedInv' /\ ReadWholeInv'
    BY <2>1 DEF SalesInv, PagedInv, ReadWholeInv
  <2>5. CompleteDaysRecorded'
    BY <2>1, DaysStay
  <2> QED
    BY <2>2, <2>3, <2>4, <2>5 DEF SalesInv
<1> QED
  BY <1>1, <1>2, <1>3, <1>4, <1>5, <1>6 DEF Sales!Next

(* What a sync has read, whole pages of it, is the list of Bsale up to its *)
(* offset; in the end it is the documents of its window, once each, and    *)
(* the rows written from it are the sums of their days (getAllDocuments,   *)
(* syncConsumption, upsertBatch).                                          *)
THEOREM SalesHold ==
    ASSUME OpeningStock \in Nat, Days \in Nat
    PROVE  Sales!Spec => []SalesInv
<1>1. Sales!Init => SalesInv
  BY SalesBegin
<1>2. SalesInv /\ [Sales!Next]_Sales!vars => SalesInv'
  BY SalesStep
<1> QED
  BY <1>1, <1>2, PTL DEF Sales!Spec

(* The variables of Consumption keep their types; in particular no page is *)
(* asked for behind the end of the documents, and no total is negative     *)
(* (getAllDocuments, syncConsumption).                                     *)
THEOREM SalesTyped ==
    ASSUME OpeningStock \in Nat, Days \in Nat
    PROVE  Sales!Spec => []ConsumptionTypeOK
<1>1. SalesInv => ConsumptionTypeOK
  BY DEF SalesInv
<1> QED
  BY <1>1, SalesHold, PTL

(* A successful sync has recorded the whole of every day inside its        *)
(* window, once, unless a document was voided while it was paging          *)
(* (getAllDocuments, syncConsumption, upsertBatch).                        *)
THEOREM DaysAreComplete ==
    ASSUME OpeningStock \in Nat, Days \in Nat
    PROVE  Sales!Spec => []CompleteDaysRecorded
<1>1. SalesInv => CompleteDaysRecorded
  BY DEF SalesInv
<1> QED
  BY <1>1, SalesHold, PTL

(***************************************************************************)
(* Velocity, over the snapshots that the syncs of Consumption store.       *)
(***************************************************************************)
LEMMA SnapshotsAre ==
    ASSUME SalesInv
    PROVE  /\ Today \in Nat
           /\ \A s \in snapshots : s.day \in 0 .. Today /\ s.q \in Nat
<1>1. now \in Nat /\ snapshots \subseteq [day : AllDays, q : Nat]
  BY DailyConsumptionAssumption DEF SalesInv, ConsumptionTypeOK
<1>2. Today \in Nat
  BY <1>1 DEF Today, Day
<1>3. \A s \in snapshots : s.day \in Nat /\ s.q \in Nat
  BY <1>1, DailyConsumptionAssumption DEF AllDays, Day
<1>4. \A s \in snapshots : s.day <= Today
  BY DEF SalesInv, SnapshotInv
<1> QED
  BY <1>2, <1>3, <1>4

(* Of the snapshots of the last days there is an oldest and a newest.      *)
LEMMA OldestAndNewest ==
    ASSUME SalesInv, Cardinality(History) >= 2
    PROVE  /\ Oldest \in snapshots /\ Newest \in snapshots
           /\ 0 <= Newest.day - Oldest.day /\ Newest.day - Oldest.day <= HistoryDays
<1>1. History # {}
  <2> SUFFICES ASSUME History = {}
               PROVE  FALSE
    OBVIOUS
  <2>1. Cardinality(History) = 0
    BY FS_EmptySet
  <2> QED
    BY <2>1
<1>2. /\ Today \in Nat
      /\ \A s \in History : s \in snapshots /\ s.day \in 0 .. Today
                            /\ s.day >= Today - HistoryDays
  BY SnapshotsAre DEF History
<1>3. Oldest \in History /\ \A t \in History : Oldest.day <= t.day
  <2>1. PICK x \in {s.day : s \in History} : \A y \in {s.day : s \in History} : x <= y
    <3>1. {s.day : s \in History} \subseteq Nat /\ {s.day : s \in History} # {}
      BY <1>1, <1>2
    <3> QED
      BY <3>1, LeastOf
  <2>2. PICK s \in History : \A t \in History : s.day <= t.day
    BY <2>1
  <2> QED
    BY <2>2 DEF Oldest
<1>4. Newest \in History /\ \A t \in History : Newest.day >= t.day
  <2>1. PICK x \in {Today - s.day : s \in History} :
            \A y \in {Today - s.day : s \in History} : x <= y
    <3>1. /\ {Today - s.day : s \in History} \subseteq Nat
          /\ {Today - s.day : s \in History} # {}
      BY <1>1, <1>2
    <3> QED
      BY <3>1, LeastOf
  <2>2. PICK s \in History : \A t \in History : Today - s.day <= Today - t.day
    BY <2>1
  <2>3. \A t \in History : s.day >= t.day
    BY <1>2, <2>2
  <2> QED
    BY <2>3 DEF Newest
<1>5. HistoryDays \in Int
  BY VelocityAssumption
<1> QED
  BY <1>2, <1>3, <1>4, <1>5

(* Math.round of n over d, compared with w: at half the unit it rounds up. *)
LEMMA RoundedBelow ==
    ASSUME NEW n \in Nat, NEW d \in Nat, d > 0, NEW w \in Int
    PROVE  Rounded(n, d) < w <=> 2 * n + d < w * (2 * d)
<1>1. ASSUME NEW a \in Int, NEW e \in Int, e > 0
      PROVE  a \div e < w <=> a < w * e
  <2> DEFINE k == a \div e
  <2>1. k \in Int /\ k * e <= a /\ a < k * e + e
    BY <1>1
  <2>2. k < w => k + 1 <= w
    BY <2>1
  <2>3. ASSUME NEW x \in Int, NEW y \in Int, x <= y
        PROVE  x * e <= y * e
    BY <1>1, <2>3
  <2>4. CASE k < w
    <3>1. (k + 1) * e <= w * e
      BY <2>1, <2>2, <2>3, <2>4
    <3> QED
      BY <1>1, <2>1, <2>4, <3>1
  <2>5. CASE ~ (k < w)
    <3>1. w * e <= k * e
      BY <2>1, <2>3, <2>5
    <3> QED
      BY <1>1, <2>1, <2>5, <3>1
  <2> QED
    BY <2>4, <2>5
<1>2. 2 * n + d \in Int /\ 2 * d \in Int /\ 2 * d > 0
  OBVIOUS
<1>3. (2 * n + d) \div (2 * d) < w <=> 2 * n + d < w * (2 * d)
  BY <1>1, <1>2
<1> QED
  BY <1>3 DEF Rounded

(* Arithmetic of calculateVelocity, for what it divides: the fall of the   *)
(* stock, f, over some days, d, and the stock left, q.                     *)
LEMMA RateIsNotZero ==
    ASSUME NEW f \in Nat, f > 0, NEW d \in Nat, d > 0, d <= 200
    PROVE  Rounded(100 * f, d) > 0
<1>1. 100 * f \in Nat /\ 1 \in Int
  OBVIOUS
<1>2. Rounded(100 * f, d) < 1 <=> 2 * (100 * f) + d < 1 * (2 * d)
  BY <1>1, RoundedBelow
<1>3. ~ (Rounded(100 * f, d) < 1)
  BY <1>2
<1>4. Rounded(100 * f, d) \in Int
  BY DEF Rounded
<1> QED
  BY <1>3, <1>4

LEMMA DaysBelowWarning ==
    ASSUME NEW L \in Nat, NEW f \in Nat, f > 0, NEW w \in Nat
    PROVE  Rounded(10 * L, f) < 10 * w <=> 20 * L + f < 20 * (w * f)
<1>1. 10 * L \in Nat /\ 10 * w \in Int
  OBVIOUS
<1>2. Rounded(10 * L, f) < 10 * w <=> 2 * (10 * L) + f < (10 * w) * (2 * f)
  BY <1>1, RoundedBelow
<1>3. (10 * w) * (2 * f) = 20 * (w * f)
  OBVIOUS
<1> QED
  BY <1>2, <1>3

(* The rounding of the rate and of the days never turns a decision, but    *)
(* for the half of a tenth of a day.                                       *)
LEMMA Forecast == SalesInv => AlertIsForecast
<1> SUFFICES ASSUME SalesInv, Cardinality(History) >= 2, NEW warning \in Warnings
             PROVE  LET Lasts == Newest.q * (Newest.day - Oldest.day)
                        fall  == Oldest.q - Newest.q
                    IN  /\ ShouldAlert(warning) =>
                              0 < fall /\ 0 < Lasts
                              /\ 20 * Lasts < (20 * warning + 1) * fall
                        /\ 0 < fall /\ 0 < Lasts
                              /\ 20 * Lasts < (20 * warning - 1) * fall
                              => ShouldAlert(warning)
  BY DEF AlertIsForecast
<1> DEFINE f == Oldest.q - Newest.q
           d == Newest.day - Oldest.day
           L == Newest.q * d
<1>1. warning \in Nat /\ HistoryDays \in 0 .. 200
  BY VelocityAssumption
<1>2. Oldest.q \in Nat /\ Newest.q \in Nat
  BY OldestAndNewest, SnapshotsAre
<1>3. Oldest.day \in Int /\ Newest.day \in Int /\ d \in Nat /\ d <= 200
  <2>1. /\ Oldest \in snapshots /\ Newest \in snapshots
        /\ 0 <= d /\ d <= HistoryDays
    BY OldestAndNewest
  <2>2. Oldest.day \in Int /\ Newest.day \in Int
    BY <2>1, SnapshotsAre
  <2>3. d \in Int
    BY <2>2
  <2> QED
    BY <1>1, <2>1, <2>2, <2>3
<1>4. L \in Nat /\ (L > 0 <=> Newest.q > 0 /\ d > 0)
  <2>1. ASSUME NEW q \in Nat, NEW e \in Nat
        PROVE  q * e \in Nat /\ (q * e > 0 <=> q > 0 /\ e > 0)
    OBVIOUS
  <2> QED
    BY <1>2, <1>3, <2>1
<1>5. f \in Int
  BY <1>2
<1>6. 10 * Newest.q * d = 10 * L
  BY <1>2, <1>3
<1>7. ShouldAlert(warning) <=>
          /\ warning # 0
          /\ Newest.q > 0 /\ d > 0 /\ f > 0
          /\ Rounded(100 * f, d) > 0
          /\ Rounded(10 * L, f) < 10 * warning
  BY <1>6 DEF ShouldAlert, DaysBetween
<1>8. f > 0 => (Rounded(10 * L, f) < 10 * warning <=> 20 * L + f < 20 * (warning * f))
  BY <1>1, <1>4, <1>5, DaysBelowWarning
<1>9. f > 0 /\ d > 0 => Rounded(100 * f, d) > 0
  BY <1>3, <1>5, RateIsNotZero
<1>10. /\ warning * f \in Int
       /\ (20 * warning - 1) * f = 20 * (warning * f) - f
       /\ (20 * warning + 1) * f = 20 * (warning * f) + f
  BY <1>1, <1>5
<1>11. warning = 0 => warning * f = 0
  BY <1>5
<1>12. ShouldAlert(warning) => 0 < f /\ 0 < L /\ 20 * L < (20 * warning + 1) * f
  BY <1>4, <1>5, <1>7, <1>8, <1>10
<1>13. 0 < f /\ 0 < L /\ 20 * L < (20 * warning - 1) * f => ShouldAlert(warning)
  BY <1>4, <1>5, <1>7, <1>8, <1>9, <1>10, <1>11
<1> QED
  BY <1>12, <1>13

(* However the syncs, the sales, the voided documents and the days follow  *)
(* one another: a velocity alert is raised when the stock lasts less than  *)
(* the warning time at the rate of the snapshots, and not when it lasts    *)
(* longer, up to the rounding of the days (calculateVelocity,              *)
(* checkVelocityAlert).                                                    *)
THEOREM VelocityIsForecast ==
    ASSUME OpeningStock \in Nat, Days \in Nat
    PROVE  Sales!Spec => []AlertIsForecast
BY Forecast, SalesHold, PTL
=============================================================================
