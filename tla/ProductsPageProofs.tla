------------------------- MODULE ProductsPageProofs -------------------------
(***************************************************************************)
(* Proofs about ProductsPage, for any finite set of rows, any settings and *)
(* any bounds.                                                             *)
(*                                                                         *)
(* The argument.  A request, a target still to be sent and the copy of a   *)
(* row name thresholds of that row only (FlightInv, ShownInv).  A row that *)
(* is not excused has at most one save outstanding, on the mounted page or *)
(* none (OnceInv); so what that save wrote is still in the table when its  *)
(* answer arrives (SavedInv), and as long as the page knows of no          *)
(* threshold of the row, there is none (FewInv).                           *)
(***************************************************************************)
EXTENDS ProductsPage, FiniteSetTheorems, TLAPS

(* id is a threshold of row p, kept or deleted                             *)
Mine(id, p) == id \in Ids /\ table[id] # None /\ table[id].product = p

(* Request r saves row p now or later.                                     *)
Sends(r, p) ==
    \/ r.product = p /\ r.op # "delete"
    \/ \E i \in DOMAIN r.rest : r.rest[i].product = p

Saves(s, p) == s \in Slots /\ flight[s] # None /\ Sends(flight[s], p)

Idle(p) == \A s \in Slots : ~Saves(s, p)

Bare(p) == \A id \in Ids : ~(Mine(id, p) /\ table[id].kept)

(* r saves row p once.                                                     *)
OnceIn(r, p) ==
    /\ r.product = p /\ r.op # "delete" => \A i \in DOMAIN r.rest : r.rest[i].product # p
    /\ \A i, j \in DOMAIN r.rest : r.rest[i].product = p /\ r.rest[j].product = p => i = j

RequestInv(r) ==
    /\ r.id # None => Mine(r.id, r.product)
    /\ \A i \in DOMAIN r.rest : r.rest[i].id # None => Mine(r.rest[i].id, r.rest[i].product)
    /\ r.op = "delete" => r.rest = <<>>
    /\ r.op # "delete" => r.setting \in Settings
    /\ r.op = "create" /\ r.stage = "sent" => r.id = None
    /\ r.live => page = "ready"

BornInv == \A id \in Ids : born < id => table[id] = None

FlightInv == \A s \in Slots : flight[s] # None => RequestInv(flight[s])

PageInv == page # "ready" => shown = Unknown /\ editing = None

ShownInv == \A p \in Products : shown[p] # None => Mine(shown[p].id, p)

OnceInv ==
    \A p \in Products \ excused, s \in Slots : Saves(s, p) =>
        /\ \A t \in Slots : Saves(t, p) => t = s
        /\ OnceIn(flight[s], p)
        /\ page # "away" => flight[s].live

SavedInv ==
    \A p \in Products \ excused :
        /\ Idle(p) /\ shown[p] # None => table[shown[p].id].setting = shown[p].setting
        /\ \A s \in Slots : Saves(s, p) /\ flight[s].product = p /\ flight[s].stage = "done"
               => table[flight[s].id].setting = flight[s].setting

FewInv ==
    \A p \in Products \ excused :
        /\ \A a, b \in Ids :
               Mine(a, p) /\ table[a].kept /\ Mine(b, p) /\ table[b].kept => a = b
        /\ Idle(p) /\ page # "away" /\ shown[p] = None => Bare(p)
        /\ \A s \in Slots : Saves(s, p) =>
               /\ flight[s].product = p /\ flight[s].id = None /\ flight[s].stage = "sent"
                      => Bare(p)
               /\ \A i \in DOMAIN flight[s].rest :
                      flight[s].rest[i] = [product |-> p, id |-> None] => Bare(p)

IInv ==
    /\ TypeOK /\ BornInv /\ FlightInv /\ PageInv /\ ShownInv
    /\ OnceInv /\ SavedInv /\ FewInv

USE BoundsAssumption, ProductsAssumption, NoneAssumption

-----------------------------------------------------------------------------
(* What the operators are made of.                                         *)

(* Saving, without its sets.                                               *)
LEMMA SavingIsSaves ==
    ASSUME TypeOK, NEW p \in Products
    PROVE  Saving(p) = {s \in Slots : Saves(s, p)}
BY DEF Saving, Busy, Saves, Sends, ToSet

(* The fields of a save.                                                   *)
LEMMA SaveFields ==
    ASSUME NEW target \in Targets, NEW setting \in Settings,
           NEW rest \in Seq(Targets), NEW live \in BOOLEAN
    PROVE  LET r == Save(target, setting, rest, live) IN
           /\ r \in Requests
           /\ r.product = target.product /\ r.id = target.id /\ r.setting = setting
           /\ r.rest = rest /\ r.live = live /\ r.stage = "sent"
           /\ r.op \in {"create", "update"}
           /\ r.op = "update" <=> target.id # None
BY DEF Save, Requests, Targets

(* The stage is all that a server step changes of a request.               *)
LEMMA StageFields ==
    ASSUME NEW r \in Requests, NEW stage \in {"sent", "checked", "done", "failed"}
    PROVE  LET q == [r EXCEPT !.stage = stage] IN
           /\ q \in Requests
           /\ q.op = r.op /\ q.product = r.product /\ q.id = r.id /\ q.setting = r.setting
           /\ q.rest = r.rest /\ q.live = r.live /\ q.stage = stage
BY DEF Requests

(* A selection as a sequence has every row of it once.                     *)
LEMMA SelectionOnce ==
    ASSUME NEW chosen \in SUBSET Products, chosen # {}
    PROVE  LET ps == SetToSeq(chosen) IN
           /\ ps \in Seq(Products) /\ Len(ps) > 0
           /\ \A i, j \in 1..Len(ps) : ps[i] = ps[j] => i = j
           /\ ToSet(ps) \subseteq Products
<1>1. IsFiniteSet(chosen)
  BY FS_Subset
<1>2. Cardinality(chosen) \in Nat /\ Cardinality(chosen) # 0
  BY <1>1, FS_CardinalityType, FS_EmptySet
<1>3. \E f \in [1..Cardinality(chosen) -> chosen] :
          \A i, j \in 1..Cardinality(chosen) : f[i] = f[j] => i = j
  BY <1>1, FS_CardinalityType DEF ExistsBijection, Bijection, Injection, IsInjective
<1>4. /\ SetToSeq(chosen) \in [1..Cardinality(chosen) -> chosen]
      /\ \A i, j \in 1..Cardinality(chosen) :
             SetToSeq(chosen)[i] = SetToSeq(chosen)[j] => i = j
  BY <1>3 DEF SetToSeq, IsInjective
<1> QED
  BY <1>2, <1>4 DEF ToSet

-----------------------------------------------------------------------------
(* Steps of the server: a request changes its stage.                       *)

(* A stage changes; what is saved by whom does not.                        *)
LEMMA StageStep ==
    ASSUME TypeOK, NEW s \in Slots, flight[s] # None,
           NEW stage \in {"sent", "checked", "done", "failed"}, Stage(s, stage)
    PROVE  /\ flight' \in [Slots -> Requests \cup {None}]
           /\ \A t \in Slots : t # s => flight'[t] = flight[t]
           /\ flight'[s] # None
           /\ flight'[s].op = flight[s].op /\ flight'[s].product = flight[s].product
           /\ flight'[s].id = flight[s].id /\ flight'[s].setting = flight[s].setting
           /\ flight'[s].rest = flight[s].rest /\ flight'[s].live = flight[s].live
           /\ flight'[s].stage = stage
           /\ \A t, p : Saves(t, p)' <=> Saves(t, p)
           /\ \A p : Idle(p)' <=> Idle(p)
<1> DEFINE q == [flight[s] EXCEPT !.stage = stage]
<1>1. flight[s] \in Requests
  BY DEF TypeOK
<1>2. /\ q \in Requests
      /\ q.op = flight[s].op /\ q.product = flight[s].product /\ q.id = flight[s].id
      /\ q.setting = flight[s].setting /\ q.rest = flight[s].rest
      /\ q.live = flight[s].live /\ q.stage = stage
  BY <1>1, StageFields
<1>3. flight' = [flight EXCEPT ![s] = q]
  BY DEF Stage
<1> HIDE DEF q
<1>4. /\ flight' \in [Slots -> Requests \cup {None}]
      /\ \A t \in Slots : t # s => flight'[t] = flight[t]
      /\ flight'[s] = q
  BY <1>2, <1>3 DEF TypeOK
<1>5. q # None
  BY <1>2
<1>6. \A t, p : Saves(t, p)' <=> Saves(t, p)
  BY <1>2, <1>4, <1>5 DEF Saves, Sends
<1> QED
  BY <1>2, <1>4, <1>5, <1>6 DEF Idle

(* A request that is checked or fails.                                     *)
LEMMA FailStep ==
    ASSUME IInv, NEW s \in Slots, flight[s] # None,
           NEW stage \in {"checked", "failed"}, Stage(s, stage),
           stage = "checked" => flight[s].id # None,
           UNCHANGED <<table, born, saves, page, shown, editing, excused>>
    PROVE  IInv'
<1> USE DEF IInv
<1>0. /\ flight' \in [Slots -> Requests \cup {None}]
      /\ \A t \in Slots : t # s => flight'[t] = flight[t]
      /\ flight'[s] # None
      /\ flight'[s].op = flight[s].op /\ flight'[s].product = flight[s].product
      /\ flight'[s].id = flight[s].id /\ flight'[s].setting = flight[s].setting
      /\ flight'[s].rest = flight[s].rest /\ flight'[s].live = flight[s].live
      /\ flight'[s].stage = stage
      /\ \A t, p : Saves(t, p)' <=> Saves(t, p)
      /\ \A p : Idle(p)' <=> Idle(p)
  BY StageStep
<1>1. TypeOK'
  BY <1>0 DEF TypeOK
<1>2. BornInv'
  BY DEF BornInv
<1>3. FlightInv'
  BY <1>0 DEF FlightInv, RequestInv, Mine
<1>4. PageInv' /\ ShownInv'
  BY DEF PageInv, ShownInv, Mine, Unknown
<1>5. OnceInv'
  BY <1>0 DEF OnceInv, OnceIn
<1>6. SavedInv'
  BY <1>0 DEF SavedInv
<1>7. FewInv'
  BY <1>0 DEF FewInv, Bare, Mine
<1> QED
  BY <1>1, <1>2, <1>3, <1>4, <1>5, <1>6, <1>7

(* A threshold is created, for a request that had none.                    *)
LEMMA CreateStep ==
    ASSUME IInv, NEW s \in Slots, flight[s] # None, Create(s)
    PROVE  IInv'
<1> DEFINE r == flight[s]
           row == [product |-> r.product, setting |-> r.setting, kept |-> TRUE]
           q == [r EXCEPT !.stage = "done", !.id = born + 1]
<1>1. /\ TypeOK /\ BornInv /\ FlightInv /\ PageInv /\ ShownInv
      /\ OnceInv /\ SavedInv /\ FewInv
  BY DEF IInv
<1>2. /\ r.op = "create" /\ r.stage = "sent"
      /\ flight' = [flight EXCEPT ![s] = q]
      /\ table' = [table EXCEPT ![born + 1] = row]
      /\ born < MaxRows /\ born' = born + 1
      /\ UNCHANGED <<saves, page, shown, editing, excused>>
  BY DEF Create
<1>3. born \in Nat /\ born + 1 \in Ids
  BY <1>1, <1>2 DEF TypeOK, Ids
<1>n. PICK new \in Ids : new = born + 1
  BY <1>3
<1>w. PICK w : w = r.product
  OBVIOUS
<1>4. r \in Requests /\ r.setting \in Settings /\ RequestInv(r) /\ r.product \in Products
  BY <1>1, <1>2 DEF TypeOK, FlightInv, RequestInv, Requests
<1>5. /\ q \in Requests
      /\ q.op = "create" /\ q.product = r.product /\ q.id = new /\ q.setting = r.setting
      /\ q.rest = r.rest /\ q.live = r.live /\ q.stage = "done"
  <2> HIDE <1>1
  <2> QED  BY <1>2, <1>n, <1>4 DEF Requests
<1>6. row \in Thresholds /\ row.product = r.product /\ row.setting = r.setting /\ row.kept
  BY <1>4 DEF Thresholds
<1> HIDE DEF q, row
<1>7. /\ flight' \in [Slots -> Requests \cup {None}]
      /\ \A t \in Slots : t # s => flight'[t] = flight[t]
      /\ flight'[s] = q /\ q # None
  BY <1>1, <1>2, <1>5 DEF TypeOK
<1>8. /\ table' \in [Ids -> Thresholds \cup {None}]
      /\ \A id \in Ids : id # new => table'[id] = table[id]
      /\ table'[new] = row /\ row # None
  BY <1>1, <1>2, <1>n, <1>6 DEF TypeOK
<1>9. table[new] = None
  BY <1>1, <1>n, <1>3 DEF BornInv
<1>10. /\ \A t, p : Saves(t, p)' <=> Saves(t, p)
       /\ \A p : Idle(p)' <=> Idle(p)
  BY <1>2, <1>5, <1>7 DEF Saves, Sends, Idle
<1>11. \A id, p : Mine(id, p) => Mine(id, p)' /\ table'[id] = table[id] /\ id # new
  BY <1>8, <1>9 DEF Mine
<1>12. Mine(new, w)'
  BY <1>6, <1>8, <1>w DEF Mine
<1>13. \A id, p : Mine(id, p)' => Mine(id, p) \/ (id = new /\ p = w)
  <2>1. ASSUME NEW id, NEW p, Mine(id, p)', id # new PROVE Mine(id, p)
    BY <2>1, <1>8 DEF Mine
  <2>2. ASSUME NEW p, Mine(new, p)' PROVE p = w
    BY <2>2, <1>6, <1>8, <1>w DEF Mine
  <2> QED  BY <2>1, <2>2
<1>14. Saves(s, w)
  BY <1>2, <1>w DEF Saves, Sends
<1>a. TypeOK'
  BY <1>1, <1>2, <1>3, <1>5, <1>7, <1>8 DEF TypeOK, Ids
<1>b. BornInv'
  BY <1>1, <1>2, <1>3, <1>n, <1>8 DEF BornInv, Ids
<1>c. FlightInv'
  <2>1. ASSUME NEW t \in Slots, flight'[t] # None, t # s PROVE RequestInv(flight[t])'
    <3>1. RequestInv(flight[t]) /\ flight'[t] = flight[t]
      BY <2>1, <1>1, <1>7 DEF FlightInv
    <3> QED  BY <3>1, <1>2, <1>11 DEF RequestInv
  <2>2. RequestInv(flight[s])'
    BY <1>2, <1>4, <1>5, <1>7, <1>11, <1>12, <1>w DEF RequestInv
  <2> QED  BY <2>1, <2>2 DEF FlightInv
<1>d. PageInv' /\ ShownInv'
  BY <1>1, <1>2, <1>11 DEF PageInv, ShownInv, Unknown
<1>e. OnceInv'
  BY <1>1, <1>2, <1>5, <1>7, <1>10 DEF OnceInv, OnceIn
<1>f. SavedInv'
  <2> SUFFICES ASSUME NEW p \in Products \ excused
               PROVE  /\ Idle(p)' /\ shown'[p] # None
                            => table'[shown'[p].id].setting = shown'[p].setting
                      /\ \A t \in Slots : Saves(t, p)' /\ flight'[t].product = p
                              /\ flight'[t].stage = "done"
                            => table'[flight'[t].id].setting = flight'[t].setting
    BY <1>2 DEF SavedInv
  <2>1. Idle(p)' /\ shown'[p] # None => table'[shown'[p].id].setting = shown'[p].setting
    BY <1>1, <1>2, <1>10, <1>11 DEF SavedInv, ShownInv
  <2>2. ASSUME NEW t \in Slots, Saves(t, p)', flight'[t].product = p,
               flight'[t].stage = "done", t # s
        PROVE  table'[flight'[t].id].setting = flight'[t].setting
    <3>1. flight'[t] = flight[t] /\ Saves(t, p) /\ flight[t] # None
      BY <2>2, <1>7, <1>10 DEF Saves
    <3>2. flight[t].id # None
      BY <2>2, <3>1, <1>1 DEF TypeOK
    <3>3. Mine(flight[t].id, p)
      BY <2>2, <3>1, <3>2, <1>1 DEF FlightInv, RequestInv
    <3> QED  BY <2>2, <3>1, <3>3, <1>1, <1>11 DEF SavedInv
  <2>3. table'[q.id].setting = q.setting
    BY <1>5, <1>6, <1>8
  <2> QED  BY <2>1, <2>2, <2>3, <1>7
<1>g. FewInv'
  <2> SUFFICES ASSUME NEW p \in Products \ excused
               PROVE  /\ \A a, b \in Ids :
                             (Mine(a, p) /\ table[a].kept /\ Mine(b, p) /\ table[b].kept)'
                             => a = b
                      /\ Idle(p)' /\ page' # "away" /\ shown'[p] = None => Bare(p)'
                      /\ \A t \in Slots : Saves(t, p)' =>
                            /\ flight'[t].product = p /\ flight'[t].id = None
                                  /\ flight'[t].stage = "sent" => Bare(p)'
                            /\ \A i \in DOMAIN flight'[t].rest :
                                  flight'[t].rest[i] = [product |-> p, id |-> None]
                                  => Bare(p)'
    BY <1>2 DEF FewInv
  <2>1. CASE p = w
    <3>1. Bare(p)
      <4>1. r.id = None
        BY <1>2, <1>4 DEF RequestInv
      <4> QED  BY <4>1, <2>1, <1>1, <1>2, <1>14, <1>w DEF FewInv
    <3>2. \A t \in Slots : Saves(t, p)' => t = s
      BY <2>1, <1>1, <1>10, <1>14 DEF OnceInv
    <3>3. \A i \in DOMAIN q.rest : q.rest[i].product # p
      BY <2>1, <1>1, <1>2, <1>5, <1>14, <1>w DEF OnceInv, OnceIn
    <3>4. \A a \in Ids : (Mine(a, p) /\ table[a].kept)' => a = new
      BY <3>1, <1>11, <1>13 DEF Bare
    <3>5. ~Idle(p)'
      BY <2>1, <1>10, <1>14 DEF Idle
    <3>6. q.id # None
      BY <1>5, <1>n DEF Ids
    <3> QED  BY <3>2, <3>3, <3>4, <3>5, <3>6, <1>7
  <2>2. CASE p # w
    <3>1. \A a \in Ids : Mine(a, p)' <=> Mine(a, p)
      BY <2>2, <1>11, <1>13
    <3>2. \A a \in Ids : Mine(a, p) => table'[a] = table[a]
      BY <1>11
    <3>3. Bare(p) => Bare(p)'
      BY <3>1, <3>2 DEF Bare
    <3>4. \A a, b \in Ids : (Mine(a, p) /\ table[a].kept /\ Mine(b, p) /\ table[b].kept)' => a = b
      BY <3>1, <3>2, <1>1 DEF FewInv
    <3>5. \A t \in Slots : flight'[t].rest = flight[t].rest
      BY <1>5, <1>7
    <3>6. \A t \in Slots : t # s => flight'[t] = flight[t]
      BY <1>7
    <3>7. ASSUME NEW t \in Slots, Saves(t, p)', flight'[t].product = p
          PROVE  flight'[t] = flight[t] /\ Saves(t, p)
      BY <3>6, <3>7, <2>2, <1>5, <1>7, <1>10, <1>w
    <3>8. ASSUME NEW t \in Slots, Saves(t, p)', NEW i \in DOMAIN flight'[t].rest,
                 flight'[t].rest[i] = [product |-> p, id |-> None]
          PROVE  Bare(p)'
      BY <3>3, <3>5, <3>8, <1>1, <1>10 DEF FewInv
    <3>9. Idle(p)' /\ page' # "away" /\ shown'[p] = None => Bare(p)'
      BY <3>3, <1>1, <1>2, <1>10 DEF FewInv
    <3> QED  BY <3>3, <3>4, <3>7, <3>8, <3>9, <1>1 DEF FewInv
  <2> QED  BY <2>1, <2>2
<1> QED
  BY <1>a, <1>b, <1>c, <1>d, <1>e, <1>f, <1>g DEF IInv

(* A threshold's setting changes, for the save that named it.              *)
LEMMA UpdateStep ==
    ASSUME IInv, NEW s \in Slots, flight[s] # None, Update(s)
    PROVE  IInv'
<1> DEFINE r == flight[s]
<1>1. /\ TypeOK /\ BornInv /\ FlightInv /\ PageInv /\ ShownInv
      /\ OnceInv /\ SavedInv /\ FewInv
  BY DEF IInv
<1>2. /\ r.op = "update" /\ r.stage = "checked"
      /\ Stage(s, IF Exists(r.id) THEN "done" ELSE "failed")
      /\ table' = IF Exists(r.id)
                  THEN [table EXCEPT ![r.id].setting = r.setting] ELSE table
      /\ UNCHANGED <<born, saves, page, shown, editing, excused>>
  BY DEF Update
<1>3. CASE ~Exists(r.id)
  <2>1. Stage(s, "failed") /\ UNCHANGED table
    BY <1>2, <1>3
  <2> QED  BY <2>1, <1>2, FailStep
<1>4. CASE Exists(r.id)
  <2>1. PICK id, w, row : id = r.id /\ w = r.product
                          /\ row = [table[id] EXCEPT !.setting = r.setting]
    OBVIOUS
  <2>2. r \in Requests /\ r.setting \in Settings /\ RequestInv(r) /\ w \in Products
    BY <2>1, <1>1, <1>2 DEF TypeOK, FlightInv, RequestInv, Requests
  <2>3. id \in Ids /\ Mine(id, w)
    BY <2>1, <2>2, <1>1, <1>2 DEF TypeOK, RequestInv, Requests
  <2>4. table[id] \in Thresholds
    BY <2>3, <1>1 DEF TypeOK, Mine
  <2>5. /\ row \in Thresholds /\ row.product = table[id].product
        /\ row.setting = r.setting /\ row.kept = table[id].kept
    <3> HIDE <1>1
    <3> QED  BY <2>1, <2>2, <2>4 DEF Thresholds
  <2>6. /\ Stage(s, "done")
        /\ table' = [table EXCEPT ![id] = row]
    BY <2>1, <1>2, <1>4
  <2>7. /\ flight' \in [Slots -> Requests \cup {None}]
        /\ \A t \in Slots : t # s => flight'[t] = flight[t]
        /\ flight'[s] # None
        /\ flight'[s].op = r.op /\ flight'[s].product = r.product
        /\ flight'[s].id = r.id /\ flight'[s].setting = r.setting
        /\ flight'[s].rest = r.rest /\ flight'[s].live = r.live
        /\ flight'[s].stage = "done"
        /\ \A t, p : Saves(t, p)' <=> Saves(t, p)
        /\ \A p : Idle(p)' <=> Idle(p)
    BY <2>6, <1>1, StageStep
  <2>8. /\ table' \in [Ids -> Thresholds \cup {None}]
        /\ \A n \in Ids : n # id => table'[n] = table[n]
        /\ table'[id] = row /\ row # None
    BY <2>3, <2>5, <2>6, <1>1 DEF TypeOK
  <2>9. \A n, p : Mine(n, p)' <=> Mine(n, p)
    BY <2>3, <2>5, <2>8 DEF Mine
  <2>10. \A n, p : Mine(n, p) => table'[n].kept = table[n].kept
    BY <2>5, <2>8 DEF Mine
  <2>11. Saves(s, w)
    BY <2>1, <1>2 DEF Saves, Sends
  <2>12. \A p : Bare(p)' <=> Bare(p)
    BY <2>9, <2>10 DEF Bare
  <2>a. TypeOK'
    BY <2>7, <2>8, <1>1, <1>2 DEF TypeOK
  <2>b. BornInv'
    BY <2>3, <2>8, <1>1, <1>2 DEF BornInv, Mine
  <2>c. FlightInv'
    BY <2>7, <2>9, <1>1, <1>2 DEF FlightInv, RequestInv
  <2>d. PageInv' /\ ShownInv'
    BY <2>9, <1>1, <1>2 DEF PageInv, ShownInv, Unknown
  <2>e. OnceInv'
    BY <2>7, <1>1, <1>2 DEF OnceInv, OnceIn
  <2>f. SavedInv'
    <3> SUFFICES ASSUME NEW p \in Products \ excused
                 PROVE  /\ Idle(p)' /\ shown'[p] # None
                              => table'[shown'[p].id].setting = shown'[p].setting
                        /\ \A t \in Slots : Saves(t, p)' /\ flight'[t].product = p
                                /\ flight'[t].stage = "done"
                              => table'[flight'[t].id].setting = flight'[t].setting
      BY <1>2 DEF SavedInv
    <3>1. CASE p = w
      <4>1. ~Idle(p)' /\ \A t \in Slots : Saves(t, p)' => t = s
        BY <3>1, <2>7, <2>11, <1>1 DEF OnceInv, Idle
      <4>2. table'[flight'[s].id].setting = flight'[s].setting
        BY <2>1, <2>5, <2>7, <2>8
      <4> QED  BY <4>1, <4>2
    <3>2. CASE p # w
      <4>1. \A n : Mine(n, p) => n # id /\ table'[n] = table[n]
        BY <3>2, <2>3, <2>8 DEF Mine
      <4>2. Idle(p)' /\ shown'[p] # None => table'[shown'[p].id].setting = shown'[p].setting
        <5>1. shown[p] # None => Mine(shown[p].id, p)
          BY <1>1 DEF ShownInv
        <5>2. Idle(p) /\ shown[p] # None => table[shown[p].id].setting = shown[p].setting
          BY <1>1 DEF SavedInv
        <5>3. Idle(p)' <=> Idle(p)
          BY <2>7
        <5>4. shown' = shown
          BY <1>2
        <5>5. shown[p] # None => table'[shown[p].id] = table[shown[p].id]
          BY <4>1, <5>1
        <5> QED  BY ONLY <5>2, <5>3, <5>4, <5>5
      <4>3. ASSUME NEW t \in Slots, Saves(t, p)', flight'[t].product = p,
                   flight'[t].stage = "done"
            PROVE  table'[flight'[t].id].setting = flight'[t].setting
        <5>1. flight'[t] = flight[t] /\ Saves(t, p) /\ flight[t] # None
          BY <4>3, <3>2, <2>1, <2>7 DEF Saves
        <5>2. flight[t].id # None
          BY <4>3, <5>1, <1>1 DEF TypeOK
        <5>3. Mine(flight[t].id, p)
          BY <4>3, <5>1, <5>2, <1>1 DEF FlightInv, RequestInv
        <5> QED  BY <4>1, <4>3, <5>1, <5>3, <1>1 DEF SavedInv
      <4> QED  BY <4>2, <4>3
    <3> QED  BY <3>1, <3>2
  <2>g. FewInv'
    <3>1. \A t \in Slots : /\ flight'[t].product = flight[t].product
                           /\ flight'[t].id = flight[t].id /\ flight'[t].rest = flight[t].rest
                           /\ flight'[t].stage = "sent" => flight[t].stage = "sent"
      BY <2>7
    <3>2. \A n, p : (Mine(n, p) /\ table[n].kept)' <=> Mine(n, p) /\ table[n].kept
      BY <2>9, <2>10
    <3> SUFFICES ASSUME NEW p \in Products \ excused
                 PROVE  /\ \A a, b \in Ids :
                               (Mine(a, p) /\ table[a].kept /\ Mine(b, p) /\ table[b].kept)'
                               => a = b
                        /\ Idle(p)' /\ page' # "away" /\ shown'[p] = None => Bare(p)'
                        /\ \A t \in Slots : Saves(t, p)' =>
                              /\ flight'[t].product = p /\ flight'[t].id = None
                                    /\ flight'[t].stage = "sent" => Bare(p)'
                              /\ \A i \in DOMAIN flight'[t].rest :
                                    flight'[t].rest[i] = [product |-> p, id |-> None]
                                    => Bare(p)'
      BY <1>2 DEF FewInv
    <3>3. \A a, b \in Ids :
              (Mine(a, p) /\ table[a].kept /\ Mine(b, p) /\ table[b].kept)' => a = b
      BY <3>2, <1>1 DEF FewInv
    <3>4. Idle(p)' /\ page' # "away" /\ shown'[p] = None => Bare(p)'
      BY <2>7, <2>12, <1>1, <1>2 DEF FewInv
    <3>5. ASSUME NEW t \in Slots, Saves(t, p)' 
          PROVE  /\ flight'[t].product = p /\ flight'[t].id = None
                       /\ flight'[t].stage = "sent" => Bare(p)'
                 /\ \A i \in DOMAIN flight'[t].rest :
                       flight'[t].rest[i] = [product |-> p, id |-> None] => Bare(p)'
      BY <3>1, <3>5, <2>7, <2>12, <1>1 DEF FewInv
    <3> QED  BY <3>3, <3>4, <3>5
  <2> QED
    BY <2>a, <2>b, <2>c, <2>d, <2>e, <2>f, <2>g DEF IInv
<1> QED
  BY <1>3, <1>4

(* A threshold is deleted.                                                 *)
LEMMA DeleteStep ==
    ASSUME IInv, NEW s \in Slots, flight[s] # None, Delete(s)
    PROVE  IInv'
<1> DEFINE r == flight[s]
<1>1. /\ TypeOK /\ BornInv /\ FlightInv /\ PageInv /\ ShownInv
      /\ OnceInv /\ SavedInv /\ FewInv
  BY DEF IInv
<1>2. /\ r.op = "delete" /\ r.stage = "checked"
      /\ Stage(s, IF Exists(r.id) THEN "done" ELSE "failed")
      /\ table' = [table EXCEPT ![r.id].kept = FALSE]
      /\ UNCHANGED <<born, saves, page, shown, editing, excused>>
  BY DEF Delete
<1>3. PICK id, stage : /\ id = r.id
                       /\ stage = IF Exists(r.id) THEN "done" ELSE "failed"
  OBVIOUS
<1>4. r \in Requests /\ RequestInv(r)
  BY <1>1 DEF TypeOK, FlightInv
<1>5. id \in Ids /\ Mine(id, r.product) /\ table[id] \in Thresholds
  BY <1>1, <1>2, <1>3, <1>4 DEF TypeOK, RequestInv, Requests, Mine
<1>6. PICK row : row = [table[id] EXCEPT !.kept = FALSE]
  OBVIOUS
<1>7. /\ row \in Thresholds /\ row.product = table[id].product
      /\ row.setting = table[id].setting /\ row.kept = FALSE
  <2> HIDE <1>1
  <2> QED  BY <1>5, <1>6 DEF Thresholds
<1>8. Stage(s, stage) /\ table' = [table EXCEPT ![id] = row]
  BY <1>2, <1>3, <1>6
<1>9. /\ flight' \in [Slots -> Requests \cup {None}]
      /\ \A t \in Slots : t # s => flight'[t] = flight[t]
      /\ flight'[s] # None
      /\ flight'[s].op = r.op /\ flight'[s].product = r.product
      /\ flight'[s].id = r.id /\ flight'[s].setting = r.setting
      /\ flight'[s].rest = r.rest /\ flight'[s].live = r.live
      /\ flight'[s].stage = stage /\ stage # "sent"
      /\ \A t, p : Saves(t, p)' <=> Saves(t, p)
      /\ \A p : Idle(p)' <=> Idle(p)
  BY <1>3, <1>8, <1>1, StageStep
<1>10. /\ table' \in [Ids -> Thresholds \cup {None}]
       /\ \A n \in Ids : n # id => table'[n] = table[n]
       /\ table'[id] = row /\ row # None
  BY <1>5, <1>7, <1>8, <1>1 DEF TypeOK
<1>11. \A n, p : Mine(n, p)' <=> Mine(n, p)
  BY <1>5, <1>7, <1>10 DEF Mine
<1>12. \A n, p : Mine(n, p) => table'[n].setting = table[n].setting
  BY <1>7, <1>10 DEF Mine
<1>k. \A n, p : (Mine(n, p) /\ table[n].kept)' => Mine(n, p) /\ table[n].kept
  BY <1>5, <1>7, <1>10 DEF Mine
<1>13. \A p : Bare(p) => Bare(p)'
  BY <1>k DEF Bare
<1>14. \A p : ~(Saves(s, p) /\ r.product = p)
  BY <1>2, <1>4 DEF Saves, Sends, RequestInv
<1>a. TypeOK'
  BY <1>2, <1>9, <1>10, <1>1 DEF TypeOK
<1>b. BornInv'
  BY <1>2, <1>5, <1>10, <1>1 DEF BornInv, Mine
<1>c. FlightInv'
  BY <1>2, <1>9, <1>11, <1>1 DEF FlightInv, RequestInv
<1>d. PageInv' /\ ShownInv'
  BY <1>2, <1>11, <1>1 DEF PageInv, ShownInv, Unknown
<1>e. OnceInv'
  BY <1>2, <1>9, <1>1 DEF OnceInv, OnceIn
<1>f. SavedInv'
  <2> SUFFICES ASSUME NEW p \in Products \ excused
               PROVE  /\ Idle(p)' /\ shown'[p] # None
                            => table'[shown'[p].id].setting = shown'[p].setting
                      /\ \A t \in Slots : Saves(t, p)' /\ flight'[t].product = p
                              /\ flight'[t].stage = "done"
                            => table'[flight'[t].id].setting = flight'[t].setting
    BY <1>2 DEF SavedInv
  <2>1. Idle(p)' /\ shown'[p] # None => table'[shown'[p].id].setting = shown'[p].setting
    BY <1>2, <1>9, <1>12, <1>1 DEF SavedInv, ShownInv
  <2>2. ASSUME NEW t \in Slots, Saves(t, p)', flight'[t].product = p,
               flight'[t].stage = "done"
        PROVE  table'[flight'[t].id].setting = flight'[t].setting
    <3>1. flight'[t] = flight[t] /\ Saves(t, p) /\ flight[t] # None
      BY <2>2, <1>9, <1>14 DEF Saves
    <3>2. flight[t].id # None
      BY <2>2, <3>1, <1>1 DEF TypeOK
    <3>3. Mine(flight[t].id, p)
      BY <2>2, <3>1, <3>2, <1>1 DEF FlightInv, RequestInv
    <3>4. table[flight[t].id].setting = flight[t].setting
      BY <2>2, <3>1, <1>1 DEF SavedInv
    <3> QED  BY <1>12, <3>1, <3>3, <3>4
  <2> QED  BY <2>1, <2>2
<1>g. FewInv'
  <2>1. \A t \in Slots : /\ flight'[t].product = flight[t].product
                         /\ flight'[t].id = flight[t].id /\ flight'[t].rest = flight[t].rest
                         /\ flight'[t].stage = "sent" => flight[t].stage = "sent"
    BY <1>9
  <2> SUFFICES ASSUME NEW p \in Products \ excused
               PROVE  /\ \A a, b \in Ids :
                             (Mine(a, p) /\ table[a].kept /\ Mine(b, p) /\ table[b].kept)'
                             => a = b
                      /\ Idle(p)' /\ page' # "away" /\ shown'[p] = None => Bare(p)'
                      /\ \A t \in Slots : Saves(t, p)' =>
                            /\ flight'[t].product = p /\ flight'[t].id = None
                                  /\ flight'[t].stage = "sent" => Bare(p)'
                            /\ \A i \in DOMAIN flight'[t].rest :
                                  flight'[t].rest[i] = [product |-> p, id |-> None]
                                  => Bare(p)'
    BY <1>2 DEF FewInv
  <2>2. \A a, b \in Ids :
            (Mine(a, p) /\ table[a].kept /\ Mine(b, p) /\ table[b].kept)' => a = b
    BY <1>k, <1>1 DEF FewInv
  <2>3. Idle(p)' /\ page' # "away" /\ shown'[p] = None => Bare(p)'
    BY <1>2, <1>9, <1>13, <1>1 DEF FewInv
  <2>4. ASSUME NEW t \in Slots, Saves(t, p)'
        PROVE  /\ flight'[t].product = p /\ flight'[t].id = None
                     /\ flight'[t].stage = "sent" => Bare(p)'
               /\ \A i \in DOMAIN flight'[t].rest :
                     flight'[t].rest[i] = [product |-> p, id |-> None] => Bare(p)'
    BY <2>1, <2>4, <1>9, <1>13, <1>1 DEF FewInv
  <2> QED  BY <2>2, <2>3, <2>4
<1> QED
  BY <1>a, <1>b, <1>c, <1>d, <1>e, <1>f, <1>g DEF IInv

(* PUT and DELETE look the threshold up.                                   *)
LEMMA CheckStep ==
    ASSUME IInv, NEW s \in Slots, flight[s] # None, Check(s)
    PROVE  IInv'
<1>1. flight[s].id # None
  BY DEF Check, IInv, TypeOK
<1>2. CASE Exists(flight[s].id)
  BY <1>1, <1>2, FailStep DEF Check
<1>3. CASE ~Exists(flight[s].id)
  BY <1>3, FailStep DEF Check
<1> QED  BY <1>2, <1>3

-----------------------------------------------------------------------------
(* Steps of the user.                                                      *)

(* The editor opens and closes.                                            *)
LEMMA EditStep ==
    ASSUME IInv, editing' \in Products \cup {None}, page # "ready" => editing' = None,
           UNCHANGED <<table, born, saves, page, shown, flight, excused>>
    PROVE  IInv'
<1>1. \A t, p : Saves(t, p)' <=> Saves(t, p)
  BY DEF Saves
<1> QED
  BY <1>1 DEF IInv, TypeOK, BornInv, FlightInv, RequestInv, PageInv, ShownInv, OnceInv,
              SavedInv, FewInv, Mine, Bare, Idle, Unknown

(* The page is mounted.                                                    *)
LEMMA OpenStep ==
    ASSUME IInv, Open
    PROVE  IInv'
<1>1. /\ TypeOK /\ BornInv /\ FlightInv /\ PageInv /\ ShownInv
      /\ OnceInv /\ SavedInv /\ FewInv
  BY DEF IInv
<1>2. /\ page = "away" /\ page' = "loading"
      /\ excused' = excused \cup {p \in Products : Saving(p) # {} \/ ThresholdsOf(p) # {}}
      /\ UNCHANGED <<table, born, saves, shown, editing, flight>>
  BY DEF Open
<1>3. \A t, p : Saves(t, p)' <=> Saves(t, p)
  BY <1>2 DEF Saves
<1>4. ASSUME NEW p \in Products \ excused'
      PROVE  p \notin excused /\ Idle(p)' /\ Bare(p)'
  <2>1. p \notin excused /\ Saving(p) = {} /\ ThresholdsOf(p) = {}
    BY <1>2, <1>4
  <2>2. Idle(p)
    BY <2>1, <1>1, SavingIsSaves DEF Idle, Saves
  <2>3. Bare(p)
    BY <2>1 DEF Bare, ThresholdsOf, Exists, Mine
  <2> QED  BY <2>1, <2>2, <2>3, <1>2, <1>3 DEF Idle, Bare, Mine
<1>5. TypeOK'
  BY <1>1, <1>2 DEF TypeOK
<1>6. BornInv' /\ PageInv' /\ ShownInv'
  BY <1>1, <1>2 DEF BornInv, PageInv, ShownInv, Mine, Unknown
<1>7. FlightInv'
  BY <1>1, <1>2 DEF FlightInv, RequestInv, Mine
<1>8. OnceInv'
  BY <1>4 DEF OnceInv, Idle
<1>9. SavedInv'
  <2>1. \A p \in Products : shown'[p] = None
    BY <1>1, <1>2 DEF PageInv, Unknown
  <2> QED  BY <2>1, <1>4 DEF SavedInv, Idle
<1>10. FewInv'
  BY <1>4 DEF FewInv, Bare, Idle
<1> QED
  BY <1>5, <1>6, <1>7, <1>8, <1>9, <1>10 DEF IInv

(* Its data arrive.                                                        *)
LEMMA LoadedStep ==
    ASSUME IInv, Loaded
    PROVE  IInv'
<1>1. /\ TypeOK /\ BornInv /\ FlightInv /\ PageInv /\ ShownInv
      /\ OnceInv /\ SavedInv /\ FewInv
  BY DEF IInv
<1>2. /\ page = "loading" /\ page' = "ready"
      /\ UNCHANGED <<table, born, saves, shown, editing, flight, excused>>
  BY <1>1 DEF Loaded, PageInv
<1>3. \A t, p : Saves(t, p)' <=> Saves(t, p)
  BY <1>2 DEF Saves
<1>4. TypeOK' /\ BornInv' /\ PageInv' /\ ShownInv'
  BY <1>1, <1>2 DEF TypeOK, BornInv, PageInv, ShownInv, Mine, Unknown
<1>5. FlightInv'
  BY <1>1, <1>2 DEF FlightInv, RequestInv, Mine
<1>6. OnceInv' /\ SavedInv'
  BY <1>1, <1>2, <1>3 DEF OnceInv, SavedInv, Idle
<1>7. FewInv'
  BY <1>1, <1>2, <1>3 DEF FewInv, Bare, Mine, Idle
<1> QED
  BY <1>4, <1>5, <1>6, <1>7 DEF IInv

(* The user leaves: what waits goes on, what was answered is forgotten.    *)
LEMMA LeaveStep ==
    ASSUME IInv, Leave
    PROVE  IInv'
<1>1. /\ TypeOK /\ BornInv /\ FlightInv /\ PageInv /\ ShownInv
      /\ OnceInv /\ SavedInv /\ FewInv
  BY DEF IInv
<1> DEFINE Goes(s) == s \in Busy /\ (flight[s].stage \in {"sent", "checked"}
                                       \/ flight[s].rest # <<>>)
           Dead(s) == [flight[s] EXCEPT !.live = FALSE]
<1>2. /\ page' = "away" /\ shown' = Unknown /\ editing' = None
      /\ flight' = [s \in Slots |-> IF Goes(s) THEN Dead(s) ELSE None]
      /\ UNCHANGED <<table, born, saves, excused>>
  BY DEF Leave
<1>3. \A s \in Slots : Goes(s) =>
          /\ flight[s] # None /\ Dead(s) \in Requests
          /\ Dead(s).op = flight[s].op /\ Dead(s).product = flight[s].product
          /\ Dead(s).id = flight[s].id /\ Dead(s).setting = flight[s].setting
          /\ Dead(s).rest = flight[s].rest /\ Dead(s).stage = flight[s].stage
          /\ Dead(s).live = FALSE
  <2> SUFFICES ASSUME NEW s \in Slots, Goes(s)
               PROVE  /\ flight[s] # None /\ Dead(s) \in Requests
                      /\ Dead(s).op = flight[s].op /\ Dead(s).product = flight[s].product
                      /\ Dead(s).id = flight[s].id /\ Dead(s).setting = flight[s].setting
                      /\ Dead(s).rest = flight[s].rest /\ Dead(s).stage = flight[s].stage
                      /\ Dead(s).live = FALSE
    OBVIOUS
  <2>1. flight[s] # None /\ flight[s] \in Requests
    BY <1>1 DEF TypeOK, Busy
  <2> HIDE <1>1
  <2> QED  BY <2>1 DEF Requests
<1>4. \A s \in Slots : flight'[s] = IF Goes(s) THEN Dead(s) ELSE None
  BY <1>2
<1> HIDE DEF Goes, Dead
<1>5. ASSUME NEW s \in Slots, flight'[s] # None
      PROVE  /\ flight[s] # None /\ flight'[s] \in Requests
             /\ flight'[s].op = flight[s].op /\ flight'[s].product = flight[s].product
             /\ flight'[s].id = flight[s].id /\ flight'[s].setting = flight[s].setting
             /\ flight'[s].rest = flight[s].rest /\ flight'[s].stage = flight[s].stage
             /\ flight'[s].live = FALSE
  BY <1>3, <1>4, <1>5
<1>6. ASSUME NEW s \in Slots, NEW p, Saves(s, p)'
      PROVE  Saves(s, p) /\ flight'[s] # None
  BY <1>5, <1>6 DEF Saves, Sends
<1>7. \A p \in Products : shown'[p] = None
  BY <1>2 DEF Unknown
<1>8. TypeOK'
  <2>1. flight' \in [Slots -> Requests \cup {None}]
    BY <1>2, <1>3, <1>4
  <2>2. shown' \in [Products -> Copies \cup {None}]
    BY <1>2 DEF Unknown
  <2>3. \A s \in Slots : flight'[s] # None /\ flight'[s].id = None =>
             flight'[s].op = "create" /\ flight'[s].stage \in {"sent", "failed"}
    BY <1>5, <1>1 DEF TypeOK
  <2> QED  BY <2>1, <2>2, <2>3, <1>1, <1>2 DEF TypeOK
<1>9. BornInv' /\ PageInv' /\ ShownInv'
  BY <1>1, <1>2, <1>7 DEF BornInv, PageInv, ShownInv, Unknown
<1>m. (\A n, p : Mine(n, p)' <=> Mine(n, p)) /\ (\A p : Bare(p)' <=> Bare(p))
  BY <1>2 DEF Mine, Bare
<1>10. FlightInv'
  <2> SUFFICES ASSUME NEW s \in Slots, flight'[s] # None PROVE RequestInv(flight[s])'
    BY DEF FlightInv
  <2>1. RequestInv(flight[s])
    BY <1>1, <1>5 DEF FlightInv
  <2> QED  BY <2>1, <1>5, <1>m DEF RequestInv
<1>11. OnceInv'
  <2> SUFFICES ASSUME NEW p \in Products \ excused, NEW s \in Slots, Saves(s, p)'
               PROVE  (\A t \in Slots : Saves(t, p)' => t = s) /\ OnceIn(flight'[s], p)
    BY <1>2 DEF OnceInv
  <2>1. Saves(s, p) /\ flight'[s] # None
    BY <1>6
  <2>2. OnceIn(flight[s], p) /\ \A t \in Slots : Saves(t, p) => t = s
    BY <2>1, <1>1 DEF OnceInv
  <2> QED  BY <2>1, <2>2, <1>5, <1>6 DEF OnceIn
<1>12. SavedInv'
  <2> SUFFICES ASSUME NEW p \in Products \ excused, NEW s \in Slots, Saves(s, p)',
                      flight'[s].product = p, flight'[s].stage = "done"
               PROVE  table'[flight'[s].id].setting = flight'[s].setting
    BY <1>2, <1>7 DEF SavedInv
  <2>1. Saves(s, p) /\ flight'[s] # None
    BY <1>6
  <2>2. flight[s].product = p /\ flight[s].stage = "done"
    BY <2>1, <1>5
  <2>3. table[flight[s].id].setting = flight[s].setting
    BY <2>1, <2>2, <1>1 DEF SavedInv
  <2> QED  BY <2>1, <2>3, <1>2, <1>5
<1>13. FewInv'
  <2> SUFFICES ASSUME NEW p \in Products \ excused
               PROVE  /\ \A x, y \in Ids :
                             (Mine(x, p) /\ table[x].kept /\ Mine(y, p) /\ table[y].kept)'
                             => x = y
                      /\ \A t \in Slots : Saves(t, p)' =>
                            /\ flight'[t].product = p /\ flight'[t].id = None
                                  /\ flight'[t].stage = "sent" => Bare(p)'
                            /\ \A i \in DOMAIN flight'[t].rest :
                                  flight'[t].rest[i] = [product |-> p, id |-> None]
                                  => Bare(p)'
    BY <1>2 DEF FewInv
  <2>1. \A x, y \in Ids :
            (Mine(x, p) /\ table[x].kept /\ Mine(y, p) /\ table[y].kept)' => x = y
    BY <1>1, <1>2, <1>m DEF FewInv
  <2>2. ASSUME NEW t \in Slots, Saves(t, p)'
        PROVE  /\ flight'[t].product = p /\ flight'[t].id = None
                     /\ flight'[t].stage = "sent" => Bare(p)'
               /\ \A i \in DOMAIN flight'[t].rest :
                     flight'[t].rest[i] = [product |-> p, id |-> None] => Bare(p)'
    <3>1. Saves(t, p) /\ flight'[t] # None
      BY <2>2, <1>6
    <3>2. /\ flight[t].product = p /\ flight[t].id = None /\ flight[t].stage = "sent"
                => Bare(p)
          /\ \A i \in DOMAIN flight[t].rest :
                flight[t].rest[i] = [product |-> p, id |-> None] => Bare(p)
      BY <3>1, <1>1 DEF FewInv
    <3> QED  BY <3>1, <3>2, <1>5, <1>m
  <2> QED  BY <2>1, <2>2
<1> QED
  BY <1>8, <1>9, <1>10, <1>11, <1>12, <1>13 DEF IInv

(* A request that saves nothing takes, or leaves, a free slot: how the     *)
(* deletion of a threshold begins and ends.                                *)
LEMMA SlotStep ==
    ASSUME IInv, NEW s \in Slots, NEW r \in Requests \cup {None},
           flight[s] = None \/ flight[s].op = "delete",
           r # None => r.op = "delete" /\ RequestInv(r) /\ r.id # None,
           flight' = [flight EXCEPT ![s] = r],
           saves' \in 0..MaxSaves,
           UNCHANGED <<table, born, page, shown, editing, excused>>
    PROVE  IInv'
<1>1. /\ TypeOK /\ BornInv /\ FlightInv /\ PageInv /\ ShownInv
      /\ OnceInv /\ SavedInv /\ FewInv
  BY DEF IInv
<1>2. /\ flight' \in [Slots -> Requests \cup {None}]
      /\ flight'[s] = r /\ \A t \in Slots : t # s => flight'[t] = flight[t]
  BY <1>1 DEF TypeOK
<1>3. \A p : ~Saves(s, p) /\ ~Saves(s, p)'
  BY <1>1, <1>2 DEF Saves, Sends, FlightInv, RequestInv
<1>4. \A t, p : Saves(t, p)' <=> Saves(t, p)
  <2> SUFFICES ASSUME NEW t \in Slots, NEW p, t # s PROVE Saves(t, p)' <=> Saves(t, p)
    BY <1>3 DEF Saves
  <2> QED  BY <1>2 DEF Saves
<1>5. \A t, p : Saves(t, p) => t \in Slots /\ flight'[t] = flight[t]
  BY <1>2, <1>3 DEF Saves
<1>6. \A p : Idle(p)' <=> Idle(p)
  BY <1>4 DEF Idle
<1>7. (\A n, p : Mine(n, p)' <=> Mine(n, p)) /\ (\A p : Bare(p)' <=> Bare(p))
  BY DEF Mine, Bare
<1>a. TypeOK'
  BY <1>1, <1>2 DEF TypeOK
<1>b. BornInv' /\ PageInv' /\ ShownInv'
  BY <1>1, <1>7 DEF BornInv, PageInv, ShownInv, Unknown
<1>c. FlightInv'
  BY <1>1, <1>2, <1>7 DEF FlightInv, RequestInv
<1>d. OnceInv'
  BY <1>1, <1>4, <1>5 DEF OnceInv, OnceIn
<1>e. SavedInv'
  BY <1>1, <1>4, <1>5, <1>6 DEF SavedInv
<1>f. FewInv'
  <2> SUFFICES ASSUME NEW p \in Products \ excused
               PROVE  /\ \A x, y \in Ids :
                             (Mine(x, p) /\ table[x].kept /\ Mine(y, p) /\ table[y].kept)'
                             => x = y
                      /\ Idle(p)' /\ page' # "away" /\ shown'[p] = None => Bare(p)'
                      /\ \A t \in Slots : Saves(t, p)' =>
                            /\ flight'[t].product = p /\ flight'[t].id = None
                                  /\ flight'[t].stage = "sent" => Bare(p)'
                            /\ \A i \in DOMAIN flight'[t].rest :
                                  flight'[t].rest[i] = [product |-> p, id |-> None]
                                  => Bare(p)'
    BY DEF FewInv
  <2>1. \A x, y \in Ids :
            (Mine(x, p) /\ table[x].kept /\ Mine(y, p) /\ table[y].kept)' => x = y
    BY <1>1, <1>7 DEF FewInv
  <2>2. Idle(p)' /\ page' # "away" /\ shown'[p] = None => Bare(p)'
    BY <1>1, <1>6, <1>7 DEF FewInv
  <2>3. ASSUME NEW t \in Slots, Saves(t, p)'
        PROVE  /\ flight'[t].product = p /\ flight'[t].id = None
                     /\ flight'[t].stage = "sent" => Bare(p)'
               /\ \A i \in DOMAIN flight'[t].rest :
                     flight'[t].rest[i] = [product |-> p, id |-> None] => Bare(p)'
    BY <2>3, <1>1, <1>4, <1>5, <1>7 DEF FewInv
  <2> QED  BY <2>1, <2>2, <2>3
<1> QED
  BY <1>a, <1>b, <1>c, <1>d, <1>e, <1>f DEF IInv

(* The deletion of a threshold begins.                                     *)
LEMMA RemoveStep ==
    ASSUME IInv, NEW p \in Products, RemoveThreshold(p)
    PROVE  IInv'
<1>1. /\ page = "ready" /\ shown[p] # None /\ saves < MaxSaves /\ saves' = saves + 1
      /\ UNCHANGED <<table, born, page, shown, editing, excused>>
  BY DEF RemoveThreshold
<1>2. PICK s \in Slots \ Busy :
          flight' = [flight EXCEPT ![s] =
              [op |-> "delete", product |-> p, id |-> shown[p].id, setting |-> None,
               rest |-> <<>>, live |-> TRUE, stage |-> "sent"]]
  BY DEF RemoveThreshold
<1>3. PICK r : r = [op |-> "delete", product |-> p, id |-> shown[p].id, setting |-> None,
                    rest |-> <<>>, live |-> TRUE, stage |-> "sent"]
  OBVIOUS
<1>4. Mine(shown[p].id, p)
  BY <1>1 DEF IInv, ShownInv
<1>5. shown[p].id \in Ids /\ shown[p].id # None
  BY <1>4 DEF Mine, Ids
<1>6. /\ r \in Requests /\ r.op = "delete" /\ r.id # None /\ r.id = shown[p].id
      /\ r.product = p /\ r.rest = <<>> /\ r.live
  BY <1>3, <1>5 DEF Requests
<1>7. RequestInv(r)
  BY <1>1, <1>4, <1>6 DEF RequestInv
<1>8. flight[s] = None
  BY <1>2 DEF Busy
<1>9. saves' \in 0..MaxSaves
  BY <1>1 DEF IInv, TypeOK
<1> QED
  BY <1>1, <1>2, <1>3, <1>6, <1>7, <1>8, <1>9, SlotStep

(* It is answered.                                                         *)
LEMMA AnswerDeleteStep ==
    ASSUME IInv, NEW s \in Slots, flight[s] # None, AnswerDelete(s),
           UNCHANGED <<table, born, saves, page>>
    PROVE  IInv'
<1>1. saves' \in 0..MaxSaves
  BY DEF IInv, TypeOK
<1> QED
  BY <1>1, SlotStep DEF AnswerDelete

(* What a save that was sent, or is the next of a run, has in its fields:  *)
(* a target's fields, as a record.                                         *)
LEMMA TargetIsRecord ==
    ASSUME NEW x \in Targets, x.id = None
    PROVE  x = [product |-> x.product, id |-> None]
BY DEF Targets

(* What the tail of a sequence of targets holds.                           *)
LEMMA TailOf ==
    ASSUME NEW q \in Seq(Targets), q # <<>>
    PROVE  /\ Head(q) = q[1] /\ q[1] \in Targets /\ 1 \in DOMAIN q
           /\ Tail(q) \in Seq(Targets)
           /\ \A i \in DOMAIN Tail(q) : /\ i \in Nat /\ i + 1 \in DOMAIN q /\ i + 1 # 1
                                       /\ Tail(q)[i] = q[i + 1]
           /\ \A j \in DOMAIN q : j # 1 => \E i \in DOMAIN Tail(q) : j = i + 1
<1>1. Len(q) \in Nat /\ Len(q) > 0 /\ DOMAIN q = 1..Len(q) /\ Head(q) = q[1] /\ q[1] \in Targets
  OBVIOUS
<1>2. Tail(q) \in Seq(Targets) /\ DOMAIN Tail(q) = 1..(Len(q) - 1)
  OBVIOUS
<1>3. \A i \in 1..(Len(q) - 1) : Tail(q)[i] = q[i + 1]
  OBVIOUS
<1>4. \A j \in 1..Len(q) : j # 1 => \E i \in 1..(Len(q) - 1) : j = i + 1
  <2> SUFFICES ASSUME NEW j \in 1..Len(q), j # 1 PROVE \E i \in 1..(Len(q) - 1) : j = i + 1
    OBVIOUS
  <2> WITNESS j - 1 \in 1..(Len(q) - 1)
  <2> QED  BY <1>1
<1>5. \A i \in 1..(Len(q) - 1) : i \in Nat /\ i + 1 \in 1..Len(q) /\ i + 1 # 1
  BY <1>1
<1>6. 1 \in DOMAIN q
  BY <1>1
<1>7. \A i \in DOMAIN Tail(q) : /\ i \in Nat /\ i + 1 \in DOMAIN q /\ i + 1 # 1
                               /\ Tail(q)[i] = q[i + 1]
  BY <1>1, <1>2, <1>3, <1>5
<1>8. \A j \in DOMAIN q : j # 1 => \E i \in DOMAIN Tail(q) : j = i + 1
  BY <1>1, <1>2, <1>4
<1> QED
  BY <1>1, <1>2, <1>6, <1>7, <1>8

(* A save, or a bulk run over ps, begins.                                  *)
LEMMA SendStep ==
    ASSUME IInv, page = "ready",
           NEW setting \in Settings, NEW ps \in Seq(Products), Len(ps) > 0,
           \A i, j \in 1..Len(ps) : ps[i] = ps[j] => i = j,
           Send(ps, setting)
    PROVE  IInv'
<1>1. /\ TypeOK /\ BornInv /\ FlightInv /\ PageInv /\ ShownInv
      /\ OnceInv /\ SavedInv /\ FewInv
  BY DEF IInv
<1>2. PICK targets : targets = [i \in DOMAIN ps |-> [product |-> ps[i], id |-> KnownId(ps[i])]]
  OBVIOUS
<1>3. /\ saves < MaxSaves /\ saves' = saves + 1
      /\ excused' = excused \cup {p \in ToSet(ps) : Saving(p) # {}}
      /\ UNCHANGED <<table, born, page, shown, editing>>
  BY DEF Send
<1>4. PICK s \in Slots \ Busy :
          flight' = [flight EXCEPT ![s] = Save(Head(targets), setting, Tail(targets), TRUE)]
  BY <1>2 DEF Send
<1>5. \A p \in Products : /\ KnownId(p) \in Ids \cup {None}
                          /\ KnownId(p) # None => Mine(KnownId(p), p)
                          /\ KnownId(p) = None => shown[p] = None
  BY <1>1 DEF KnownId, ShownInv, Mine, Ids
<1>6. /\ targets \in Seq(Targets) /\ targets # <<>> /\ DOMAIN targets = 1..Len(ps)
      /\ \A i \in DOMAIN targets :
             /\ ps[i] \in Products /\ targets[i] \in Targets
             /\ targets[i].product = ps[i] /\ targets[i].id = KnownId(ps[i])
  <2>1. Len(ps) \in Nat /\ DOMAIN ps = 1..Len(ps) /\ \A i \in 1..Len(ps) : ps[i] \in Products
    OBVIOUS
  <2>2. \A i \in 1..Len(ps) : [product |-> ps[i], id |-> KnownId(ps[i])] \in Targets
    BY <2>1, <1>5 DEF Targets
  <2>3. \A i \in 1..Len(ps) : targets[i] = [product |-> ps[i], id |-> KnownId(ps[i])]
    BY <2>1, <1>2
  <2>4. DOMAIN targets = 1..Len(ps) /\ \A i \in 1..Len(ps) : targets[i] \in Targets
    BY <2>1, <2>2, <2>3, <1>2
  <2>5. targets = [i \in 1..Len(ps) |-> targets[i]]
    BY <2>1, <1>2, <2>3
  <2>6. targets \in Seq(Targets) /\ Len(targets) = Len(ps)
    BY <2>1, <2>4, <2>5
  <2> QED  BY <2>1, <2>3, <2>4, <2>6
<1>7. PICK r : r = Save(Head(targets), setting, Tail(targets), TRUE)
  OBVIOUS
<1>8. /\ Head(targets) = targets[1] /\ targets[1] \in Targets /\ 1 \in DOMAIN targets
      /\ Tail(targets) \in Seq(Targets)
      /\ \A i \in DOMAIN Tail(targets) :
             /\ i \in Nat /\ i + 1 \in DOMAIN targets /\ i + 1 # 1
             /\ Tail(targets)[i] = targets[i + 1]
      /\ \A j \in DOMAIN targets : j # 1 => \E i \in DOMAIN Tail(targets) : j = i + 1
  BY <1>6, TailOf
<1>9. /\ r \in Requests
      /\ r.product = ps[1] /\ r.id = KnownId(ps[1]) /\ r.setting = setting
      /\ r.rest = Tail(targets) /\ r.live = TRUE /\ r.stage = "sent"
      /\ r.op \in {"create", "update"} /\ (r.op = "update" <=> r.id # None)
  <2>1. /\ r \in Requests
        /\ r.product = Head(targets).product /\ r.id = Head(targets).id /\ r.setting = setting
        /\ r.rest = Tail(targets) /\ r.live = TRUE /\ r.stage = "sent"
        /\ r.op \in {"create", "update"}
        /\ r.op = "update" <=> Head(targets).id # None
    <3>1. Head(targets) \in Targets /\ Tail(targets) \in Seq(Targets) /\ TRUE \in BOOLEAN
      BY <1>8
    <3>2. PICK h, q : h = Head(targets) /\ q = Tail(targets)
      OBVIOUS
    <3>3. r = Save(h, setting, q, TRUE) /\ h \in Targets /\ q \in Seq(Targets)
      BY <3>1, <3>2, <1>7
    <3>4. /\ r \in Requests
          /\ r.product = h.product /\ r.id = h.id /\ r.setting = setting
          /\ r.rest = q /\ r.live = TRUE /\ r.stage = "sent"
          /\ r.op \in {"create", "update"}
          /\ r.op = "update" <=> h.id # None
      BY ONLY <3>3, setting \in Settings DEF Save, Requests, Targets
    <3> QED  BY <3>2, <3>4
  <2>2. Head(targets).product = ps[1] /\ Head(targets).id = KnownId(ps[1])
    BY <1>6, <1>8
  <2> QED  BY <2>1, <2>2
<1>10. /\ flight' \in [Slots -> Requests \cup {None}] /\ r # None
       /\ flight'[s] = r /\ \A t \in Slots : t # s => flight'[t] = flight[t]
  BY <1>1, <1>4, <1>7, <1>9 DEF TypeOK
<1>11. flight[s] = None /\ s \in Slots
  BY <1>4 DEF Busy
<1>12. \A i \in DOMAIN r.rest : /\ i \in Nat /\ i + 1 \in 1..Len(ps) /\ i + 1 # 1
                               /\ ps[i + 1] \in Products
                               /\ r.rest[i].product = ps[i + 1]
                               /\ r.rest[i].id = KnownId(ps[i + 1])
  BY <1>6, <1>8, <1>9
<1>13. 1 \in 1..Len(ps) /\ ps[1] \in Products
  BY <1>6, <1>8
<1>14. \A p \in Products : Sends(r, p) => p \in ToSet(ps)
  BY <1>9, <1>12, <1>13 DEF Sends, ToSet
<1>15. ASSUME NEW p \in Products \ excused', Sends(r, p) PROVE Idle(p)
  <2>1. Saving(p) = {}
    BY <1>3, <1>14, <1>15
  <2> QED  BY <2>1, <1>1, SavingIsSaves DEF Idle, Saves
<1>16. \A p : OnceIn(r, p)
  <2>1. /\ r.product = ps[1]
        /\ \A i \in DOMAIN r.rest : ps[i + 1] # ps[1]
    BY <1>6, <1>9, <1>12, <1>13
  <2>2. \A i, j \in DOMAIN r.rest : ps[i + 1] = ps[j + 1] => i + 1 = j + 1
    BY <1>6, <1>12
  <2>3. \A i, j \in DOMAIN r.rest : i + 1 = j + 1 => i = j
    BY <1>12
  <2>4. \A i \in DOMAIN r.rest : r.rest[i].product = ps[i + 1]
    BY <1>12
  <2> QED  BY ONLY <2>1, <2>2, <2>3, <2>4 DEF OnceIn
<1>17. \A t, p : t # s => (Saves(t, p)' <=> Saves(t, p))
  BY <1>10 DEF Saves
<1>18. \A p : Saves(s, p)' <=> Sends(r, p)
  BY <1>10, <1>11 DEF Saves
<1>19. \A p : Idle(p)' => Idle(p) /\ ~Sends(r, p)
  BY <1>10, <1>11, <1>17, <1>18 DEF Idle, Saves
<1>20. (\A n, p : Mine(n, p)' <=> Mine(n, p)) /\ (\A p : Bare(p)' <=> Bare(p))
  BY <1>3 DEF Mine, Bare
<1>a. TypeOK'
  <2>1. excused' \subseteq Products /\ saves' \in 0..MaxSaves
    BY <1>1, <1>3 DEF TypeOK, ToSet
  <2>2. \A t \in Slots : flight'[t] # None /\ flight'[t].id = None =>
            flight'[t].op = "create" /\ flight'[t].stage \in {"sent", "failed"}
    BY <1>1, <1>9, <1>10 DEF TypeOK
  <2> QED  BY <2>1, <2>2, <1>1, <1>3, <1>10 DEF TypeOK
<1>b. BornInv' /\ PageInv' /\ ShownInv'
  BY <1>1, <1>3, <1>20 DEF BornInv, PageInv, ShownInv, Unknown
<1>c. FlightInv'
  <2>1. RequestInv(flight[s])'
    <3>1. r.id # None => Mine(r.id, r.product)
      BY <1>5, <1>9, <1>13
    <3>2. \A i \in DOMAIN r.rest : r.rest[i].id # None => Mine(r.rest[i].id, r.rest[i].product)
      BY <1>5, <1>12
    <3> QED  BY <3>1, <3>2, <1>3, <1>9, <1>10, <1>20 DEF RequestInv
  <2>2. ASSUME NEW t \in Slots, t # s, flight'[t] # None PROVE RequestInv(flight[t])'
    <3>1. RequestInv(flight[t]) /\ flight'[t] = flight[t]
      BY <2>2, <1>1, <1>10 DEF FlightInv
    <3> QED  BY <3>1, <1>3, <1>20 DEF RequestInv
  <2> QED  BY <2>1, <2>2 DEF FlightInv
<1>d. OnceInv'
  <2> SUFFICES ASSUME NEW p \in Products \ excused', NEW t \in Slots, Saves(t, p)'
               PROVE  /\ \A u \in Slots : Saves(u, p)' => u = t
                      /\ OnceIn(flight'[t], p)
                      /\ page' # "away" => flight'[t].live
    BY DEF OnceInv, OnceIn
  <2>1. p \notin excused
    BY <1>3
  <2>2. CASE Sends(r, p)
    <3>1. Idle(p)
      BY <2>2, <1>15
    <3>2. \A u \in Slots : Saves(u, p)' => u = s
      BY <3>1, <1>17 DEF Idle
    <3> QED  BY <3>2, <1>9, <1>10, <1>16
  <2>3. CASE ~Sends(r, p)
    <3>1. \A u \in Slots : Saves(u, p)' => u # s /\ Saves(u, p) /\ flight'[u] = flight[u]
      BY <2>3, <1>10, <1>17, <1>18
    <3> QED  BY <2>1, <3>1, <1>1, <1>3 DEF OnceInv
  <2> QED  BY <2>2, <2>3
<1>e. SavedInv'
  <2> SUFFICES ASSUME NEW p \in Products \ excused'
               PROVE  /\ Idle(p)' /\ shown'[p] # None
                            => table'[shown'[p].id].setting = shown'[p].setting
                      /\ \A t \in Slots : Saves(t, p)' /\ flight'[t].product = p
                              /\ flight'[t].stage = "done"
                            => table'[flight'[t].id].setting = flight'[t].setting
    BY DEF SavedInv
  <2>1. p \notin excused
    BY <1>3
  <2>2. Idle(p)' /\ shown'[p] # None => table'[shown'[p].id].setting = shown'[p].setting
    BY <2>1, <1>1, <1>3, <1>19 DEF SavedInv
  <2>3. ASSUME NEW t \in Slots, Saves(t, p)', flight'[t].product = p,
               flight'[t].stage = "done"
        PROVE  table'[flight'[t].id].setting = flight'[t].setting
    <3>1. t # s
      BY <2>3, <1>9, <1>10
    <3> QED  BY <2>1, <2>3, <3>1, <1>1, <1>3, <1>10, <1>17 DEF SavedInv
  <2> QED  BY <2>2, <2>3
<1>f. FewInv'
  <2> SUFFICES ASSUME NEW p \in Products \ excused'
               PROVE  /\ \A x, y \in Ids :
                             (Mine(x, p) /\ table[x].kept /\ Mine(y, p) /\ table[y].kept)'
                             => x = y
                      /\ Idle(p)' /\ page' # "away" /\ shown'[p] = None => Bare(p)'
                      /\ \A t \in Slots : Saves(t, p)' =>
                            /\ flight'[t].product = p /\ flight'[t].id = None
                                  /\ flight'[t].stage = "sent" => Bare(p)'
                            /\ \A i \in DOMAIN flight'[t].rest :
                                  flight'[t].rest[i] = [product |-> p, id |-> None]
                                  => Bare(p)'
    BY DEF FewInv
  <2>1. p \notin excused
    BY <1>3
  <2>2. \A x, y \in Ids :
            (Mine(x, p) /\ table[x].kept /\ Mine(y, p) /\ table[y].kept)' => x = y
    BY <2>1, <1>1, <1>3, <1>20 DEF FewInv
  <2>3. Idle(p)' /\ page' # "away" /\ shown'[p] = None => Bare(p)'
    BY <2>1, <1>1, <1>3, <1>19, <1>20 DEF FewInv
  <2>4. Saves(s, p)' /\ KnownId(p) = None => Bare(p)'
    BY <2>1, <1>1, <1>5, <1>15, <1>18, <1>20 DEF FewInv
  <2>5. /\ r.product = p /\ r.id = None => KnownId(p) = None
        /\ \A i \in DOMAIN r.rest : r.rest[i] = [product |-> p, id |-> None] => KnownId(p) = None
    BY <1>9, <1>12
  <2>6. ASSUME NEW t \in Slots, Saves(t, p)', t # s
        PROVE  /\ flight'[t].product = p /\ flight'[t].id = None
                     /\ flight'[t].stage = "sent" => Bare(p)'
               /\ \A i \in DOMAIN flight'[t].rest :
                     flight'[t].rest[i] = [product |-> p, id |-> None] => Bare(p)'
    BY <2>1, <2>6, <1>1, <1>10, <1>17, <1>20 DEF FewInv
  <2> QED  BY <2>2, <2>3, <2>4, <2>5, <2>6, <1>10
<1> QED
  BY <1>a, <1>b, <1>c, <1>d, <1>e, <1>f DEF IInv

-----------------------------------------------------------------------------
(* Answers.                                                                *)

(* What is left of a handler whose save was answered: it saves what was    *)
(* still to be sent.                                                       *)
LEMMA NextFields ==
    ASSUME NEW r \in Requests, r.setting \in Settings
    PROVE  /\ r.rest = <<>> => NextOf(r) = None
           /\ r.rest # <<>> =>
                 /\ NextOf(r) \in Requests /\ NextOf(r) # None
                 /\ NextOf(r).product = r.rest[1].product /\ NextOf(r).id = r.rest[1].id
                 /\ NextOf(r).setting = r.setting /\ NextOf(r).rest = Tail(r.rest)
                 /\ NextOf(r).live = r.live /\ NextOf(r).stage = "sent"
                 /\ NextOf(r).op \in {"create", "update"}
                 /\ NextOf(r).op = "update" <=> NextOf(r).id # None
<1>1. r.rest \in Seq(Targets) /\ r.live \in BOOLEAN
  BY DEF Requests
<1>2. CASE r.rest = <<>>
  BY <1>2 DEF NextOf
<1>3. CASE r.rest # <<>>
  <2>1. PICK h, q, live, n : h = Head(r.rest) /\ q = Tail(r.rest) /\ live = r.live /\ n = NextOf(r)
    OBVIOUS
  <2>2. h = r.rest[1] /\ h \in Targets /\ q \in Seq(Targets) /\ live \in BOOLEAN
    BY <1>1, <1>3, <2>1, TailOf
  <2>3. n = Save(h, r.setting, q, live)
    BY <1>3, <2>1 DEF NextOf
  <2>4. /\ n \in Requests
        /\ n.product = h.product /\ n.id = h.id /\ n.setting = r.setting
        /\ n.rest = q /\ n.live = live /\ n.stage = "sent"
        /\ n.op \in {"create", "update"}
        /\ n.op = "update" <=> h.id # None
    BY <2>2, <2>3, SaveFields
  <2>5. n # None
    BY <2>4
  <2> QED  BY <1>3, <2>1, <2>2, <2>4, <2>5
<1> QED  BY <1>2, <1>3

(* A save is answered; a bulk run goes on to its next row.                 *)
LEMMA AnswerSaveStep ==
    ASSUME IInv, NEW s \in Slots, flight[s] # None, flight[s].stage \in {"done", "failed"},
           AnswerSave(s), UNCHANGED <<table, born, saves, page>>
    PROVE  IInv'
<1>1. /\ TypeOK /\ BornInv /\ FlightInv /\ PageInv /\ ShownInv
      /\ OnceInv /\ SavedInv /\ FewInv
  BY DEF IInv
<1>2. PICK r, n : r = flight[s] /\ n = NextOf(r)
  OBVIOUS
<1>3. /\ r.op \in {"create", "update"} /\ r.stage \in {"done", "failed"}
      /\ shown' = IF r.live /\ r.stage = "done" THEN Landed(r) ELSE shown
      /\ editing' = IF r.live THEN None ELSE editing
      /\ flight' = [flight EXCEPT ![s] = n]
      /\ excused' = IF r.stage = "failed" THEN excused \cup {r.product} ELSE excused
  BY <1>2 DEF AnswerSave
<1>4. PICK w : w = r.product
  OBVIOUS
<1>5. /\ r \in Requests /\ RequestInv(r) /\ r.setting \in Settings
      /\ w \in Products /\ r.rest \in Seq(Targets) /\ r.live \in BOOLEAN
  BY <1>1, <1>2, <1>3, <1>4 DEF TypeOK, FlightInv, RequestInv, Requests
<1>6. /\ r.rest = <<>> => n = None
      /\ r.rest # <<>> =>
            /\ n \in Requests /\ n # None
            /\ n.product = r.rest[1].product /\ n.id = r.rest[1].id
            /\ n.setting = r.setting /\ n.rest = Tail(r.rest)
            /\ n.live = r.live /\ n.stage = "sent"
            /\ n.op \in {"create", "update"} /\ (n.op = "update" <=> n.id # None)
  BY <1>2, <1>5, NextFields
<1>7. n # None => /\ 1 \in DOMAIN r.rest /\ r.rest[1] \in Targets
                  /\ \A i \in DOMAIN n.rest :
                        /\ i \in Nat /\ i + 1 \in DOMAIN r.rest /\ i + 1 # 1
                        /\ n.rest[i] = r.rest[i + 1]
                  /\ \A j \in DOMAIN r.rest : j # 1 => \E i \in DOMAIN n.rest : j = i + 1
  <2> SUFFICES ASSUME n # None
               PROVE  /\ 1 \in DOMAIN r.rest /\ r.rest[1] \in Targets
                      /\ \A i \in DOMAIN n.rest :
                            /\ i \in Nat /\ i + 1 \in DOMAIN r.rest /\ i + 1 # 1
                            /\ n.rest[i] = r.rest[i + 1]
                      /\ \A j \in DOMAIN r.rest : j # 1 => \E i \in DOMAIN n.rest : j = i + 1
    OBVIOUS
  <2>1. r.rest # <<>> /\ n.rest = Tail(r.rest)
    BY <1>6
  <2>2. PICK q \in Seq(Targets) : q = r.rest
    BY <1>5
  <2>3. /\ q[1] \in Targets /\ 1 \in DOMAIN q
        /\ \A i \in DOMAIN Tail(q) : /\ i \in Nat /\ i + 1 \in DOMAIN q /\ i + 1 # 1
                                    /\ Tail(q)[i] = q[i + 1]
        /\ \A j \in DOMAIN q : j # 1 => \E i \in DOMAIN Tail(q) : j = i + 1
    BY <2>1, <2>2, TailOf
  <2> QED  BY <2>1, <2>2, <2>3
<1>8. \A p : n # None /\ Sends(n, p) => \E i \in DOMAIN r.rest : r.rest[i].product = p
  BY <1>6, <1>7 DEF Sends
<1>9. ASSUME NEW p, NEW j \in DOMAIN r.rest, r.rest[j].product = p PROVE n # None /\ Sends(n, p)
  <2>1. r.rest # <<>>
    BY <1>9
  <2>2. CASE j = 1
    BY <2>1, <2>2, <1>6, <1>9 DEF Sends
  <2>3. CASE j # 1
    BY <2>1, <2>3, <1>6, <1>7, <1>9 DEF Sends
  <2> QED  BY <2>2, <2>3
<1>10. /\ flight' \in [Slots -> Requests \cup {None}]
       /\ flight'[s] = n /\ \A t \in Slots : t # s => flight'[t] = flight[t]
  BY <1>1, <1>3, <1>6 DEF TypeOK
<1>11. \A t, p : t # s => (Saves(t, p)' <=> Saves(t, p))
  BY <1>10 DEF Saves
<1>12. \A p : Saves(s, p)' <=> n # None /\ Sends(n, p)
  BY <1>10 DEF Saves
<1>13. \A p : Saves(s, p) <=> p = w \/ \E i \in DOMAIN r.rest : r.rest[i].product = p
  BY <1>2, <1>3, <1>4 DEF Saves, Sends
<1>14. \A t, p : Saves(t, p)' => Saves(t, p)
  BY <1>8, <1>11, <1>12, <1>13
<1>15. \A t, p : p # w /\ Saves(t, p) => Saves(t, p)'
  BY <1>9, <1>11, <1>12, <1>13
<1>16. \A p : p # w => (Idle(p)' <=> Idle(p))
  BY <1>14, <1>15 DEF Idle
<1>17. (\A m, p : Mine(m, p)' <=> Mine(m, p)) /\ (\A p : Bare(p)' <=> Bare(p))
  BY DEF Mine, Bare
<1>18. r.stage = "done" => Mine(r.id, w)
  BY <1>1, <1>2, <1>4, <1>5 DEF TypeOK, RequestInv
<1>19. /\ shown' \in [Products -> Copies \cup {None}]
       /\ \A p \in Products : p # w => shown'[p] = shown[p]
       /\ r.live /\ r.stage = "done" =>
              /\ shown'[w] # None /\ shown'[w].id = r.id /\ shown'[w].setting = r.setting
       /\ ~(r.live /\ r.stage = "done") => shown' = shown
  <2>1. r.stage = "done" => [id |-> r.id, setting |-> r.setting] \in Copies
    BY <1>5, <1>18 DEF Copies, Mine
  <2>2. r.live /\ r.stage = "done" =>
            shown' = [shown EXCEPT ![w] = [id |-> r.id, setting |-> r.setting]]
    BY <1>3, <1>4 DEF Landed
  <2>3. shown \in [Products -> Copies \cup {None}]
    BY <1>1 DEF TypeOK
  <2>4. PICK copy : copy = [id |-> r.id, setting |-> r.setting]
    OBVIOUS
  <2>5. copy.id = r.id /\ copy.setting = r.setting
    BY <2>4
  <2>6. CASE r.live /\ r.stage = "done"
    <3>1. copy \in Copies /\ copy # None /\ shown' = [shown EXCEPT ![w] = copy]
      BY <2>1, <2>2, <2>4, <2>6
    <3> QED  BY <1>5, <2>3, <2>5, <2>6, <3>1
  <2>7. CASE ~(r.live /\ r.stage = "done")
    BY <1>3, <2>3, <2>7
  <2> QED  BY <2>6, <2>7
(* A row that is still not excused and was just saved is idle now.         *)
<1>20. ASSUME w \notin excused'
       PROVE  /\ w \notin excused /\ r.stage = "done" /\ Saves(s, w)
              /\ \A t \in Slots : ~Saves(t, w)'
              /\ r.live \/ page = "away"
              /\ table[r.id].setting = r.setting
  <2>1. w \notin excused /\ r.stage = "done" /\ Saves(s, w)
    BY <1>3, <1>4, <1>13, <1>20
  <2>2. /\ \A t \in Slots : Saves(t, w) => t = s
        /\ OnceIn(r, w) /\ (page # "away" => r.live)
    BY <2>1, <1>1, <1>2, <1>5 DEF OnceInv
  <2>3. ~(n # None /\ Sends(n, w))
    BY <2>2, <1>3, <1>4, <1>8 DEF OnceIn
  <2>4. table[r.id].setting = r.setting
    BY <2>1, <1>1, <1>2, <1>4, <1>5 DEF SavedInv
  <2> QED  BY <2>1, <2>2, <2>3, <2>4, <1>11, <1>12
<1>21. \A p \in Products \ excused' : p \notin excused
  BY <1>3
<1>a. TypeOK'
  <2>1. \A t \in Slots : flight'[t] # None /\ flight'[t].id = None =>
            flight'[t].op = "create" /\ flight'[t].stage \in {"sent", "failed"}
    BY <1>1, <1>6, <1>10 DEF TypeOK
  <2>2. editing' \in Products \cup {None} /\ excused' \subseteq Products
    BY <1>1, <1>3, <1>4, <1>5 DEF TypeOK
  <2> QED  BY <2>1, <2>2, <1>1, <1>10, <1>19 DEF TypeOK
<1>b. BornInv' /\ PageInv'
  <2>1. page # "ready" => ~r.live
    BY <1>5 DEF RequestInv
  <2> QED  BY <2>1, <1>1, <1>3, <1>19 DEF BornInv, PageInv, Unknown
<1>c. ShownInv'
  <2> SUFFICES ASSUME NEW p \in Products, shown'[p] # None PROVE Mine(shown'[p].id, p)
    BY <1>17 DEF ShownInv, Mine
  <2>1. CASE p = w /\ r.live /\ r.stage = "done"
    BY <2>1, <1>18, <1>19
  <2>2. CASE ~(p = w /\ r.live /\ r.stage = "done")
    <3>1. shown'[p] = shown[p]
      BY <2>2, <1>19
    <3> QED  BY <3>1, <1>1 DEF ShownInv
  <2> QED  BY <2>1, <2>2
<1>d. FlightInv'
  <2>1. n # None => RequestInv(flight[s])'
    <3> SUFFICES ASSUME n # None PROVE RequestInv(flight[s])'
      OBVIOUS
    <3>1. r.rest # <<>>
      BY <1>6
    <3>2. n.id # None => Mine(n.id, n.product)
      BY <3>1, <1>5, <1>6, <1>7 DEF RequestInv
    <3>3. \A i \in DOMAIN n.rest : n.rest[i].id # None => Mine(n.rest[i].id, n.rest[i].product)
      BY <1>5, <1>7 DEF RequestInv
    <3>4. n.live => page = "ready"
      BY <3>1, <1>5, <1>6 DEF RequestInv
    <3> QED  BY <3>1, <3>2, <3>3, <3>4, <1>5, <1>6, <1>10, <1>17 DEF RequestInv
  <2>2. ASSUME NEW t \in Slots, t # s, flight'[t] # None PROVE RequestInv(flight[t])'
    <3>1. RequestInv(flight[t]) /\ flight'[t] = flight[t]
      BY <2>2, <1>1, <1>10 DEF FlightInv
    <3> QED  BY <3>1, <1>17 DEF RequestInv
  <2> QED  BY <2>1, <2>2, <1>10 DEF FlightInv
<1>e. OnceInv'
  <2> SUFFICES ASSUME NEW p \in Products \ excused', NEW t \in Slots, Saves(t, p)'
               PROVE  /\ \A u \in Slots : Saves(u, p)' => u = t
                      /\ OnceIn(flight'[t], p)
                      /\ page' # "away" => flight'[t].live
    BY DEF OnceInv, OnceIn
  <2>1. p \notin excused /\ Saves(t, p)
    BY <1>14, <1>21
  <2>2. /\ \A u \in Slots : Saves(u, p) => u = t
        /\ OnceIn(flight[t], p) /\ (page # "away" => flight[t].live)
    BY <2>1, <1>1 DEF OnceInv
  <2>3. CASE t = s
    <3>1. n # None /\ Sends(n, p)
      BY <2>3, <1>12
    <3>2. r.rest # <<>> /\ n.live = r.live
      BY <3>1, <1>6
    <3>3. \A i, j \in DOMAIN r.rest : r.rest[i].product = p /\ r.rest[j].product = p => i = j
      BY <2>2, <2>3, <1>2 DEF OnceIn
    <3>4. n.product = p => \A i \in DOMAIN n.rest : n.rest[i].product # p
      BY <3>1, <3>2, <3>3, <1>6, <1>7
    <3>5. \A i, j \in DOMAIN n.rest : n.rest[i].product = p /\ n.rest[j].product = p => i = j
      BY <3>1, <3>3, <1>7
    <3>6. OnceIn(n, p)
      BY <3>4, <3>5 DEF OnceIn
    <3> QED  BY <2>2, <2>3, <3>2, <3>6, <1>2, <1>10, <1>14
  <2>4. CASE t # s
    BY <2>2, <2>4, <1>10, <1>14
  <2> QED  BY <2>3, <2>4
<1>f. SavedInv'
  <2> SUFFICES ASSUME NEW p \in Products \ excused'
               PROVE  /\ Idle(p)' /\ shown'[p] # None
                            => table'[shown'[p].id].setting = shown'[p].setting
                      /\ \A t \in Slots : Saves(t, p)' /\ flight'[t].product = p
                              /\ flight'[t].stage = "done"
                            => table'[flight'[t].id].setting = flight'[t].setting
    BY DEF SavedInv
  <2>1. CASE p = w
    <3>1. \A t \in Slots : ~Saves(t, p)'
      BY <2>1, <1>20
    <3>2. CASE r.live
      BY <2>1, <3>1, <3>2, <1>19, <1>20
    <3>3. CASE ~r.live
      <4>1. shown'[p] = None
        BY <2>1, <3>3, <1>1, <1>19, <1>20 DEF PageInv, Unknown
      <4> QED  BY <3>1, <4>1
    <3> QED  BY <3>2, <3>3
  <2>2. CASE p # w
    <3>1. Idle(p)' /\ shown'[p] # None => table'[shown'[p].id].setting = shown'[p].setting
      BY <2>2, <1>1, <1>16, <1>19, <1>21 DEF SavedInv
    <3>2. ASSUME NEW t \in Slots, Saves(t, p)', flight'[t].product = p,
                 flight'[t].stage = "done"
          PROVE  table'[flight'[t].id].setting = flight'[t].setting
      <4>1. t # s
        BY <3>2, <1>6, <1>10, <1>12
      <4> QED  BY <3>2, <4>1, <1>1, <1>10, <1>11, <1>21 DEF SavedInv
    <3> QED  BY <3>1, <3>2
  <2> QED  BY <2>1, <2>2
<1>g. FewInv'
  <2> SUFFICES ASSUME NEW p \in Products \ excused'
               PROVE  /\ \A x, y \in Ids :
                             (Mine(x, p) /\ table[x].kept /\ Mine(y, p) /\ table[y].kept)'
                             => x = y
                      /\ Idle(p)' /\ page' # "away" /\ shown'[p] = None => Bare(p)'
                      /\ \A t \in Slots : Saves(t, p)' =>
                            /\ flight'[t].product = p /\ flight'[t].id = None
                                  /\ flight'[t].stage = "sent" => Bare(p)'
                            /\ \A i \in DOMAIN flight'[t].rest :
                                  flight'[t].rest[i] = [product |-> p, id |-> None]
                                  => Bare(p)'
    BY DEF FewInv
  <2>0. p \notin excused
    BY <1>21
  <2>1. \A x, y \in Ids :
            (Mine(x, p) /\ table[x].kept /\ Mine(y, p) /\ table[y].kept)' => x = y
    BY <2>0, <1>1, <1>17 DEF FewInv
  <2>2. Idle(p)' /\ page' # "away" /\ shown'[p] = None => Bare(p)'
    <3>1. CASE p = w
      BY <3>1, <1>19, <1>20
    <3>2. CASE p # w
      BY <3>2, <2>0, <1>1, <1>16, <1>17, <1>19 DEF FewInv
    <3> QED  BY <3>1, <3>2
  <2>3. ASSUME Saves(s, p)'
        PROVE  /\ n.product = p /\ n.id = None => Bare(p)'
               /\ \A i \in DOMAIN n.rest : n.rest[i] = [product |-> p, id |-> None] => Bare(p)'
    <3>1. Saves(s, p) /\ n # None /\ r.rest # <<>>
      BY <2>3, <1>6, <1>12, <1>14
    <3>2. \A i \in DOMAIN r.rest : r.rest[i] = [product |-> p, id |-> None] => Bare(p)
      BY <3>1, <2>0, <1>1, <1>2 DEF FewInv
    <3>3. n.product = p /\ n.id = None => r.rest[1] = [product |-> p, id |-> None]
      BY <3>1, <1>6, <1>7, TargetIsRecord
    <3> QED  BY <3>1, <3>2, <3>3, <1>7, <1>17
  <2>4. ASSUME NEW t \in Slots, Saves(t, p)', t # s
        PROVE  /\ flight'[t].product = p /\ flight'[t].id = None
                     /\ flight'[t].stage = "sent" => Bare(p)'
               /\ \A i \in DOMAIN flight'[t].rest :
                     flight'[t].rest[i] = [product |-> p, id |-> None] => Bare(p)'
    BY <2>0, <2>4, <1>1, <1>10, <1>11, <1>17 DEF FewInv
  <2> QED  BY <2>1, <2>2, <2>3, <2>4, <1>10
<1> QED
  BY <1>a, <1>b, <1>c, <1>d, <1>e, <1>f, <1>g DEF IInv

-----------------------------------------------------------------------------
(* The invariant, and what follows from it.                                *)

(* The page starts in it.                                                  *)
LEMMA InitInv == Init => IInv
<1> SUFFICES ASSUME Init PROVE IInv
  OBVIOUS
<1>1. /\ \A id \in Ids : table[id] = None
      /\ \A s \in Slots : flight[s] = None
      /\ \A p \in Products : shown[p] = None
  BY DEF Init, Unknown
<1>2. TypeOK
  BY <1>1 DEF Init, TypeOK, Unknown
<1> QED
  BY <1>1, <1>2 DEF IInv, Init, BornInv, FlightInv, PageInv, ShownInv, OnceInv,
                    SavedInv, FewInv, Mine, Bare, Saves

(* A step of the user keeps it.                                            *)
LEMMA UserStep == IInv /\ User => IInv'
<1> SUFFICES ASSUME IInv, User PROVE IInv'
  OBVIOUS
<1>1. CASE Open
  BY <1>1, OpenStep
<1>2. CASE Loaded
  BY <1>2, LoadedStep
<1>3. CASE Leave
  BY <1>3, LeaveStep
<1>4. CASE CancelEdit
  <2>1. editing' = None
    BY <1>4 DEF CancelEdit
  <2> QED  BY <1>4, <2>1, EditStep DEF CancelEdit
<1>5. ASSUME NEW p \in Products, StartEdit(p) PROVE IInv'
  <2>1. editing' = p /\ page = "ready"
    BY <1>5 DEF StartEdit
  <2> QED  BY <1>5, <2>1, EditStep DEF StartEdit
<1>6. ASSUME NEW p \in Products, RemoveThreshold(p) PROVE IInv'
  BY <1>6, RemoveStep
<1>7. ASSUME NEW setting \in Settings, SaveEdit(setting) PROVE IInv'
  <2>1. editing # None /\ Send(<<editing>>, setting)
    BY <1>7 DEF SaveEdit
  <2>2. page = "ready" /\ editing \in Products
    BY <2>1 DEF IInv, PageInv, TypeOK
  <2>3. PICK ps : ps = <<editing>>
    OBVIOUS
  <2>4. /\ ps \in Seq(Products) /\ Len(ps) > 0 /\ Send(ps, setting)
        /\ \A i, j \in 1..Len(ps) : ps[i] = ps[j] => i = j
    BY <2>1, <2>2, <2>3
  <2> QED  BY <2>2, <2>4, SendStep
<1>8. ASSUME NEW setting \in Settings, NEW chosen \in (SUBSET Products) \ {{}},
             ApplyToSelection(chosen, setting)
      PROVE  IInv'
  <2>1. page = "ready" /\ Send(SetToSeq(chosen), setting)
    BY <1>8 DEF ApplyToSelection
  <2>2. PICK ps : ps = SetToSeq(chosen)
    OBVIOUS
  <2>3. /\ ps \in Seq(Products) /\ Len(ps) > 0
        /\ \A i, j \in 1..Len(ps) : ps[i] = ps[j] => i = j
    <3>1. chosen \in SUBSET Products /\ chosen # {}
      OBVIOUS
    <3>2. /\ SetToSeq(chosen) \in Seq(Products) /\ Len(SetToSeq(chosen)) > 0
          /\ \A i, j \in 1..Len(SetToSeq(chosen)) :
                 SetToSeq(chosen)[i] = SetToSeq(chosen)[j] => i = j
      BY <3>1, SelectionOnce
    <3> QED  BY <2>2, <3>2
  <2> QED  BY <2>1, <2>2, <2>3, SendStep
<1> QED
  BY <1>1, <1>2, <1>3, <1>4, <1>5, <1>6, <1>7, <1>8 DEF User, Dialogs

(* Every step keeps it.                                                    *)
LEMMA NextInv == IInv /\ [Next]_vars => IInv'
<1> SUFFICES ASSUME IInv, [Next]_vars PROVE IInv'
  OBVIOUS
<1>1. CASE User
  BY <1>1, UserStep
<1>2. ASSUME NEW s \in Slots, Serve(s) PROVE IInv'
  BY <1>2, CreateStep, CheckStep, UpdateStep, DeleteStep DEF Serve
<1>3. ASSUME NEW s \in Slots, Fail(s) PROVE IInv'
  BY <1>3, FailStep DEF Fail
<1>4. ASSUME NEW s \in Slots, Answer(s) PROVE IInv'
  BY <1>4, AnswerSaveStep, AnswerDeleteStep DEF Answer
<1>5. CASE UNCHANGED vars
  BY <1>5 DEF vars, IInv, TypeOK, BornInv, FlightInv, RequestInv, PageInv, ShownInv,
              OnceInv, SavedInv, FewInv, Mine, Bare, Idle, Saves, Unknown
<1> QED
  BY <1>1, <1>2, <1>3, <1>4, <1>5 DEF Next

(* The invariant holds.                                                    *)
THEOREM Invariance == Spec => []IInv
BY InitInv, NextInv, PTL DEF Spec

(* Every variable has its type, whatever the number of rows (see TypeOK).  *)
THEOREM TypeCorrect == Spec => []TypeOK
<1>1. IInv => TypeOK
  BY DEF IInv
<1> QED
  BY <1>1, Invariance, PTL

(* A row shows a threshold of its own, and what the table says of it: for  *)
(* any number of rows, requests and bulk runs (Products.tsx:136).          *)
THEOREM ShownIsTrue == Spec => []RowsShowTheirOwn
<1>1. IInv => RowsShowTheirOwn
  <2> SUFFICES ASSUME IInv, NEW p \in Products, shown[p] # None
               PROVE  /\ table[shown[p].id] # None /\ table[shown[p].id].product = p
                      /\ p \notin excused /\ Saving(p) = {}
                             => table[shown[p].id].setting = shown[p].setting
    BY DEF RowsShowTheirOwn
  <2>1. Mine(shown[p].id, p)
    BY DEF IInv, ShownInv
  <2>2. Saving(p) = {} => Idle(p)
    BY SavingIsSaves DEF IInv, Idle, Saves
  <2> QED  BY <2>1, <2>2 DEF IInv, SavedInv, Mine
<1> QED
  BY <1>1, Invariance, PTL

(* Saving a row again never makes a second threshold, except in the three  *)
(* cases that SavedAgainIsUpdated names (Products.tsx:141).                *)
THEOREM OneThresholdPerRow == Spec => []SavedAgainIsUpdated
<1>1. IInv => SavedAgainIsUpdated
  <2> SUFFICES ASSUME IInv, NEW p \in Products \ excused
               PROVE  Cardinality(ThresholdsOf(p)) <= 1
    BY DEF SavedAgainIsUpdated
  <2>1. \A a, b \in ThresholdsOf(p) : a = b
    BY DEF IInv, FewInv, ThresholdsOf, Exists, Mine
  <2>2. CASE ThresholdsOf(p) = {}
    BY <2>2, FS_EmptySet
  <2>3. CASE ThresholdsOf(p) # {}
    <3>1. PICK a : ThresholdsOf(p) = {a}
      BY <2>1, <2>3
    <3>2. Cardinality({a}) = 1
      BY FS_Singleton
    <3> QED  BY <3>1, <3>2
  <2> QED  BY <2>2, <2>3
<1> QED
  BY <1>1, Invariance, PTL
=============================================================================
