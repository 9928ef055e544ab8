---------------------------- MODULE ProductsPage ----------------------------
(***************************************************************************)
(* The inventory page of the web front end (frontend/pages/Products.tsx),  *)
(* the only page that still edits thresholds, against the threshold routes *)
(* and the thresholds table.                                               *)
(*                                                                         *)
(* The page keeps a copy of what it believes the server holds and every    *)
(* handler awaits its request before it touches that copy, so the user     *)
(* types, opens another row, starts a bulk run or leaves the page while    *)
(* requests are under way, and answers arrive in any order.  A request may *)
(* fail before the server saw it or after it was carried out.              *)
(*                                                                         *)
(* The user stays signed in (Gate and Accounts model sessions) and works   *)
(* in one browser tab.                                                     *)
(***************************************************************************)
EXTENDS Naturals, Sequences, FiniteSets, SequencesExt

CONSTANTS
    Products,     \* the rows of the page: stock snapshots, each with a UUID
    Settings,     \* what a threshold can be set to: its type and its number
    MaxRows,      \* bound: thresholds ever created
    MaxFlight,    \* bound: requests and bulk runs under way at once
    MaxSaves,     \* bound: times the user saves, deletes or starts a bulk run
    None

ASSUME BoundsAssumption == MaxRows \in Nat \ {0} /\ MaxFlight \in Nat \ {0} /\ MaxSaves \in Nat

ASSUME ProductsAssumption == IsFiniteSet(Products) /\ None \notin Products \cup Nat

Ids == 1..MaxRows          \* thresholds, in the order of created_at
Slots == 1..MaxFlight

VARIABLES
    table,     \* the thresholds table; a row deleted is no longer "kept"
    born,      \* thresholds created so far
    saves,     \* times the user sent something
    page,      \* "away", "loading" (or loaded without any product), "ready"
    shown,     \* thresholdData of each row of the page
    editing,   \* the row whose inline editor is open
    flight,    \* the requests under way
    excused    \* history: rows whose copy or threshold may be off for a known cause

vars == <<table, born, saves, page, shown, editing, flight, excused>>

Targets == [product : Products, id : Ids \cup {None}]

\* A handler waiting for its answer.  "rest" is what a bulk run still has to
\* send, with the thresholds the page knew of when the run was started, and
\* "live" tells whether the page that sent it is still mounted.
Requests ==
    [op : {"create", "update", "delete"}, product : Products,
     id : Ids \cup {None}, setting : Settings \cup {None},
     rest : Seq(Targets), live : BOOLEAN,
     stage : {"sent", "checked", "done", "failed"}]

Copies == [id : Ids, setting : Settings]

\* The rows of the table.
Thresholds == [product : Products, setting : Settings, kept : BOOLEAN]

ASSUME NoneAssumption == None \notin Requests /\ None \notin Copies /\ None \notin Thresholds

\* Every variable has its type; a request in flight names a threshold unless
\* it is a creation that has not been carried out.
TypeOK ==
    /\ table \in [Ids -> Thresholds \cup {None}]
    /\ born \in 0..MaxRows
    /\ saves \in 0..MaxSaves
    /\ page \in {"away", "loading", "ready"}
    /\ shown \in [Products -> Copies \cup {None}]
    /\ editing \in Products \cup {None}
    /\ flight \in [Slots -> Requests \cup {None}]
    /\ \A s \in Slots : flight[s] # None /\ flight[s].id = None =>
           flight[s].op = "create" /\ flight[s].stage \in {"sent", "failed"}
    /\ excused \subseteq Products

Unknown == [p \in Products |-> None]

Init ==
    /\ table = [id \in Ids |-> None]
    /\ born = 0
    /\ saves = 0
    /\ page = "away"
    /\ shown = Unknown
    /\ editing = None
    /\ flight = [s \in Slots |-> None]
    /\ excused = {}

-----------------------------------------------------------------------------
(* What the handlers share.                                                *)

Busy == {s \in Slots : flight[s] # None}

\* Handlers with a save of row p under way or still to be sent.
Saving(p) ==
    {s \in Busy : \/ flight[s].product = p /\ flight[s].op # "delete"
                  \/ \E target \in ToSet(flight[s].rest) : target.product = p}

\* Creations the table has to have room for.
Promised ==
    Cardinality({s \in Busy : flight[s].op = "create" /\ flight[s].stage = "sent"})
        + Cardinality({w \in Busy \X Products :
                          [product |-> w[2], id |-> None] \in ToSet(flight[w[1]].rest)})

Exists(id) == table[id] # None /\ table[id].kept

ThresholdsOf(p) == {id \in Ids : Exists(id) /\ table[id].product = p}

KnownId(p) == IF shown[p] = None THEN None ELSE shown[p].id

\* handleSetThreshold decides from the page's copy whether to create or update.
Save(target, setting, rest, live) ==
    [op |-> IF target.id = None THEN "create" ELSE "update",
     product |-> target.product, id |-> target.id, setting |-> setting,
     rest |-> rest, live |-> live, stage |-> "sent"]

\* The handler is called for the rows ps, in that order.
Send(ps, setting) ==
    LET targets == [i \in DOMAIN ps |-> [product |-> ps[i], id |-> KnownId(ps[i])]]
        new == {p \in ToSet(ps) : shown[p] = None}
    IN  /\ saves < MaxSaves
        /\ saves' = saves + 1
        /\ born + Promised + Cardinality(new) <= MaxRows
        /\ \E s \in Slots \ Busy :
               /\ \A t \in Slots \ Busy : s <= t
               /\ flight' = [flight EXCEPT ![s] =
                      Save(Head(targets), setting, Tail(targets), TRUE)]
        /\ excused' = excused \cup {p \in ToSet(ps) : Saving(p) # {}}
        /\ UNCHANGED <<table, born, page, shown, editing>>

-----------------------------------------------------------------------------
(* The user.                                                               *)

\* The page is mounted and asks for its data.  From here on it does not know
\* of the thresholds that a row has, or is about to get: see Loaded.
Open ==
    /\ page = "away"
    /\ page' = "loading"
    /\ excused' = excused \cup
           {p \in Products : Saving(p) # {} \/ ThresholdsOf(p) # {}}
    /\ UNCHANGED <<table, born, saves, shown, editing, flight>>

\* The products are merged with the thresholds by productId = id: a variant
\* number is never equal to a snapshot's UUID, so no row gets its threshold.
\* A load that failed lists no product: there is nothing to do but leave.
Loaded ==
    /\ page = "loading"
    /\ page' = "ready"
    /\ shown' = Unknown
    /\ UNCHANGED <<table, born, saves, editing, flight, excused>>

\* The user goes to another page.  Handlers that wait go on without it; one
\* that was answered and has nothing more to send is of no consequence.
Leave ==
    /\ page # "away"
    /\ page' = "away"
    /\ shown' = Unknown
    /\ editing' = None
    /\ flight' = [s \in Slots |->
           IF s \in Busy /\ (flight[s].stage \in {"sent", "checked"} \/ flight[s].rest # <<>>)
           THEN [flight[s] EXCEPT !.live = FALSE] ELSE None]
    /\ UNCHANGED <<table, born, saves, excused>>

\* The inline editor opens on a row, also when another row's is open.
StartEdit(p) ==
    /\ page = "ready"
    /\ editing # p
    /\ editing' = p
    /\ UNCHANGED <<table, born, saves, page, shown, flight, excused>>

\* Escape, the cross, or a value that is no number closes the editor.
CancelEdit ==
    /\ editing # None
    /\ editing' = None
    /\ UNCHANGED <<table, born, saves, page, shown, flight, excused>>

\* Enter sends the value; the editor stays open until the answer.
SaveEdit(setting) ==
    /\ editing # None
    /\ Send(<<editing>>, setting)

\* "Aplicar a n productos": one value for all the selected rows, one by one.
ApplyToSelection(chosen, setting) ==
    /\ page = "ready"
    /\ Send(SetToSeq(chosen), setting)

\* The confirmed deletion of a row's threshold.
RemoveThreshold(p) ==
    /\ page = "ready"
    /\ shown[p] # None
    /\ saves < MaxSaves
    /\ saves' = saves + 1
    /\ \E s \in Slots \ Busy :
           /\ \A t \in Slots \ Busy : s <= t
           /\ flight' = [flight EXCEPT ![s] =
                  [op |-> "delete", product |-> p, id |-> shown[p].id, setting |-> None,
                   rest |-> <<>>, live |-> TRUE, stage |-> "sent"]]
    /\ UNCHANGED <<table, born, page, shown, editing, excused>>

-----------------------------------------------------------------------------
(* The server: api/routes/thresholds.ts over db/repositories/threshold.ts. *)

Stage(s, stage) == flight' = [flight EXCEPT ![s].stage = stage]

\* POST.  UNIQUE (user, variant, office) never bites: the office is always
\* NULL.  "product" is the row the threshold was set on; the variant stored is
\* what parseInt makes of the row's UUID, see the README.
Create(s) ==
    /\ flight[s].op = "create"
    /\ flight[s].stage = "sent"
    /\ born < MaxRows          \* Send leaves room: see Promised
    /\ born' = born + 1
    /\ table' = [table EXCEPT ![born + 1] =
           [product |-> flight[s].product, setting |-> flight[s].setting, kept |-> TRUE]]
    /\ flight' = [flight EXCEPT ![s] = [@ EXCEPT !.stage = "done", !.id = born + 1]]
    /\ UNCHANGED <<saves, page, shown, editing, excused>>

\* PUT and DELETE first read the threshold: 404 if it is gone.
Check(s) ==
    /\ flight[s].op \in {"update", "delete"}
    /\ flight[s].stage = "sent"
    /\ Stage(s, IF Exists(flight[s].id) THEN "checked" ELSE "failed")
    /\ UNCHANGED <<table, born, saves, page, shown, editing, excused>>

\* PUT then writes: 500 if it went away in between.
Update(s) ==
    LET id == flight[s].id
    IN  /\ flight[s].op = "update"
        /\ flight[s].stage = "checked"
        /\ Stage(s, IF Exists(id) THEN "done" ELSE "failed")
        /\ table' = IF Exists(id)
                    THEN [table EXCEPT ![id].setting = flight[s].setting] ELSE table
        /\ UNCHANGED <<born, saves, page, shown, editing, excused>>

\* DELETE then deletes and answers 204 without a body, or 404.
Delete(s) ==
    /\ flight[s].op = "delete"
    /\ flight[s].stage = "checked"
    /\ Stage(s, IF Exists(flight[s].id) THEN "done" ELSE "failed")
    /\ table' = [table EXCEPT ![flight[s].id].kept = FALSE]
    /\ UNCHANGED <<born, saves, page, shown, editing, excused>>

Serve(s) == flight[s] # None /\ (Create(s) \/ Check(s) \/ Update(s) \/ Delete(s))

\* The connection breaks, before the server acted or after; or the database
\* refuses, as it does when the digits of a UUID are too large for an INTEGER.
Fail(s) ==
    /\ flight[s] # None
    /\ flight[s].stage # "failed"
    /\ Stage(s, "failed")
    /\ UNCHANGED <<table, born, saves, page, shown, editing, excused>>

-----------------------------------------------------------------------------
(* Answers.                                                                *)

\* Variant: an answer is ignored once the user edits another row.
LandedIfEditing(r) ==
    IF r.product = editing
    THEN [shown EXCEPT ![r.product] = [id |-> r.id, setting |-> r.setting]]
    ELSE shown

\* Variant: the answer goes to the row being edited when it arrives.
LandedOnEdited(r) ==
    IF editing = None
    THEN shown
    ELSE [shown EXCEPT ![editing] = [id |-> r.id, setting |-> r.setting]]

\* The answer goes to the row the request was sent for.
Landed(r) == [shown EXCEPT ![r.product] = [id |-> r.id, setting |-> r.setting]]

\* Variant: a failed request ends the bulk run.
NextUntilFailure(r) ==
    IF r.rest = <<>> \/ r.stage = "failed" THEN None
    ELSE Save(Head(r.rest), r.setting, Tail(r.rest), r.live)

\* handleSetThreshold swallows its error, so the bulk run goes on.
NextOf(r) ==
    IF r.rest = <<>> THEN None ELSE Save(Head(r.rest), r.setting, Tail(r.rest), r.live)

\* A save is answered.  On the mounted page it closes whatever editor is open.
AnswerSave(s) ==
    LET r == flight[s]
    IN  /\ r.op \in {"create", "update"}
        /\ shown' = IF r.live /\ r.stage = "done" THEN Landed(r) ELSE shown
        /\ editing' = IF r.live THEN None ELSE editing
        /\ flight' = [flight EXCEPT ![s] = NextOf(r)]
        /\ excused' = IF r.stage = "failed" THEN excused \cup {r.product} ELSE excused

\* A deletion is answered.  The client parses every answer as JSON: the empty
\* 204 throws like an error does, and the row keeps the threshold.
AnswerDelete(s) ==
    /\ flight[s].op = "delete"
    /\ flight' = [flight EXCEPT ![s] = None]
    /\ UNCHANGED <<shown, editing, excused>>

Answer(s) ==
    /\ flight[s] # None
    /\ flight[s].stage \in {"done", "failed"}
    /\ AnswerSave(s) \/ AnswerDelete(s)
    /\ UNCHANGED <<table, born, saves, page>>

-----------------------------------------------------------------------------
\* What is confirmed in the dialogs of a selection and of a deletion.  They
\* stay open while their requests are under way.
Dialogs ==
    \/ \E chosen \in (SUBSET Products) \ {{}}, setting \in Settings :
           ApplyToSelection(chosen, setting)
    \/ \E p \in Products : RemoveThreshold(p)

User ==
    \/ Open \/ Loaded \/ Leave \/ CancelEdit \/ Dialogs
    \/ \E p \in Products : StartEdit(p)
    \/ \E setting \in Settings : SaveEdit(setting)

Next == User \/ \E s \in Slots : Serve(s) \/ Fail(s) \/ Answer(s)

\* The server handles a request that reached it, and the browser runs the
\* handler of a request that ended.  Nothing is assumed of the user.
Fairness == \A s \in Slots : WF_vars(Serve(s)) /\ WF_vars(Answer(s))

Spec == Init /\ [][Next]_vars

FairSpec == Spec /\ Fairness

-----------------------------------------------------------------------------
(* Properties.                                                             *)

\* Whatever the order of the answers, and wherever the user has moved since,
\* a row shows a threshold that was created for this very row; and unless
\* saves of the row overlapped, one failed, or the page was loaded anew since,
\* it shows the setting the alert job will use, once no save is under way
\* (Products.tsx:136, the updates of the copy when an answer arrives).
RowsShowTheirOwn ==
    \A p \in Products : shown[p] # None =>
        LET row == table[shown[p].id]
        IN  /\ row # None /\ row.product = p
            /\ p \notin excused /\ Saving(p) = {} => row.setting = shown[p].setting

\* Saving a row again updates its threshold.  A row gets a second one only if
\* two of its saves overlapped, one failed, or the page was loaded anew after
\* the first (Products.tsx:141, the copy decides).
SavedAgainIsUpdated ==
    \A p \in Products \ excused : Cardinality(ThresholdsOf(p)) <= 1

\* A bulk run reaches every selected row, also after some requests failed or
\* the user left the page (Products.tsx:207).
BulkReachesAll ==
    \A s \in Slots, p \in Products :
        (s \in Busy /\ \E i \in DOMAIN flight[s].rest : flight[s].rest[i].product = p)
            ~> (s \in Busy /\ flight[s].product = p)
=============================================================================
