---------------------------- MODULE BillingProofs ----------------------------
(***************************************************************************)
(* Proofs about Billing, for any number of users and subscriptions and     *)
(* any bounds.                                                             *)
(*                                                                         *)
(* The argument.  The notification of a subscription's latest change stays *)
(* owed until an answer that is at least as new has been written           *)
(* (AckInv).  An answer that is at least as new as that change still says  *)
(* what MercadoPago says (Fresh).  So once the notification is         *)
(* answered, any answer that is older than the change is older than        *)
(* something that was written, and changes the row only by crossing.       *)
(***************************************************************************)
EXTENDS Billing, TLAPS

Ending == {"cancelled", "paused"}

Latest(s) == [sub |-> s, event |-> since[s]]

(* What an answer of event `at` about s still tells.                       *)
Fresh(s, status, d, at) ==
    /\ at <= events
    /\ at >= since[s] => status = mp[s] /\ (mp[s] \in Ending => d = due[s])

(* An answer that s was paid while r, of the same payer, is and was.       *)
Apart(s, status, at) ==
    status = "authorized" =>
        \A r \in Subs \ {s} :
            mp[r] = "authorized" /\ payer[r] = payer[s] /\ since[r] <= at
                => payer[s] \in doubled

KnownInv ==
    /\ \A s \in Subs : mp[s] = "none" <=> payer[s] = None
    /\ \A s \in Subs : since[s] <= events
    /\ \A s \in Subs : since[s] = 0 <=> mp[s] \in {"none", "pending"}
    /\ \A u \in Users : applied[u] <= events
    /\ \A n \in owed : 0 < n.event /\ n.event <= since[n.sub]

RowInv ==
    \A u \in Users :
        /\ row[u].id = None => row[u].status = "none"
        /\ row[u].id # None => /\ payer[row[u].id] = u
                               /\ since[row[u].id] > 0
                               /\ row[u].status # "none"
        /\ row[u].status = "active" => row[u].ends = None

HookInv ==
    \A h \in hooks :
        /\ 0 < h.note.event /\ h.note.event <= h.at
        /\ h.note.event <= since[h.note.sub]
        /\ Fresh(h.note.sub, h.status, h.due, h.at)
        /\ Apart(h.note.sub, h.status, h.at)

PollInv ==
    \A p \in polls :
        /\ payer[p.sub] = p.user
        /\ since[p.sub] > 0
        /\ p.step = "write" => /\ Fresh(p.sub, p.status, p.due, p.at)
                               /\ Apart(p.sub, p.status, p.at)

CancelInv ==
    \A c \in cancels :
        /\ since[c.sub] > 0
        /\ c.step # "get" => /\ c.at <= events
                             /\ c.at >= since[c.sub] /\ mp[c.sub] \in Ending
                                    => c.due = due[c.sub]
        /\ c.step = "write" => mp[c.sub] = "cancelled"

AckInv ==
    \A s \in Subs :
        since[s] > 0 /\ Latest(s) \notin owed => applied[payer[s]] >= since[s]

AgreeInv ==
    \A u \in Users, s \in Subs :
        u \notin crossed /\ row[u].id = s /\ Latest(s) \notin owed
            => /\ row[u].status = "active" => mp[s] = "authorized"
               /\ row[u].status = "cancelled" => mp[s] \in Ending /\ row[u].ends = due[s]

DoubleInv ==
    \A r, s \in Subs :
        r # s /\ mp[r] = "authorized" /\ mp[s] = "authorized" /\ payer[r] = payer[s]
            => payer[s] \in doubled

PlanInv ==
    \A s \in Subs :
        /\ mp[s] = "authorized" /\ Latest(s) \notin owed
        /\ payer[s] \notin crossed \cup doubled
        => row[payer[s]].id = s

IInv ==
    /\ TypeOK /\ KnownInv /\ RowInv /\ HookInv /\ PollInv /\ CancelInv
    /\ AckInv /\ AgreeInv /\ DoubleInv /\ PlanInv

-----------------------------------------------------------------------------
(* The two writes, row by row.                                             *)
LEMMA ActivatedRows ==
    ASSUME TypeOK, NEW s \in Subs, payer[s] \in Users
    PROVE  /\ Activated(s) \in [Users -> Row]
           /\ Activated(s)[payer[s]] = [id |-> s, status |-> "active", ends |-> None]
           /\ \A u \in Users : u # payer[s] => Activated(s)[u] = row[u]
<1> DEFINE new == [id |-> s, status |-> "active", ends |-> None]
<1>1. new \in Row
  BY DEF Row
<1>2. row \in [Users -> Row]
  BY DEF TypeOK
<1>3. Activated(s) = [row EXCEPT ![payer[s]] = new]
  BY DEF Activated
<1> HIDE DEF new
<1>4. /\ Activated(s) \in [Users -> Row]
      /\ Activated(s)[payer[s]] = new
      /\ \A u \in Users : u # payer[s] => Activated(s)[u] = row[u]
  BY <1>1, <1>2, <1>3
<1> QED
  BY <1>4 DEF new

(* The rows that name the subscription are ended, the others stay.         *)
LEMMA EndedRows ==
    ASSUME TypeOK, NEW s \in Subs, NEW d \in Nat
    PROVE  /\ Ended(s, d) \in [Users -> Row]
           /\ \A u \in Users :
                 /\ Ended(s, d)[u].id = row[u].id
                 /\ row[u].id = s => Ended(s, d)[u] = [id |-> s, status |-> "cancelled", ends |-> d]
                 /\ row[u].id # s => Ended(s, d)[u] = row[u]
<1>1. ASSUME NEW u \in Users, row[u].id = s
      PROVE  Ended(s, d)[u] = [id |-> s, status |-> "cancelled", ends |-> d]
  <2>1. Ended(s, d)[u] = [row[u] EXCEPT !.status = "cancelled", !.ends = d]
    BY <1>1 DEF Ended
  <2>2. row[u] \in Row
    BY DEF TypeOK
  <2> QED
    BY <1>1, <2>1, <2>2 DEF Row
<1>2. ASSUME NEW u \in Users, row[u].id # s
      PROVE  Ended(s, d)[u] = row[u]
  BY <1>2 DEF Ended
<1>3. ASSUME NEW u \in Users PROVE Ended(s, d)[u] \in Row
  <2>1. row[u] \in Row /\ [id |-> s, status |-> "cancelled", ends |-> d] \in Row
    BY DEF TypeOK, Row
  <2> QED
    BY <1>1, <1>2, <2>1
<1>4. Ended(s, d) \in [Users -> Row]
  BY <1>3 DEF Ended
<1> QED
  BY <1>1, <1>2, <1>4

(* Recording an answer about somebody's subscription keeps the types.      *)
LEMMA RecordType ==
    ASSUME TypeOK, NEW u \in Users, NEW at \in Nat, NEW rows \in [Users -> Row],
           Record(u, at, rows)
    PROVE  /\ row' \in [Users -> Row]
           /\ applied' \in [Users -> Nat]
           /\ crossed' \in SUBSET Users
           /\ since' = since /\ doubled' = doubled
BY DEF TypeOK, Record

(* Every step keeps the types.                                             *)
LEMMA StepTypeOK == BillingAssumption /\ IInv /\ [Next]_vars => TypeOK'
<1> SUFFICES ASSUME BillingAssumption, TypeOK, KnownInv, HookInv, PollInv, CancelInv,
                      [Next]_vars
               PROVE  TypeOK'
  BY DEF IInv
<1> USE DEF BillingAssumption
<1>1. ASSUME NEW s \in Subs, Authorize(s) PROVE TypeOK'
  <2>1. payer[s] \in Users
    BY <1>1 DEF Authorize, KnownInv, TypeOK
  <2>2. doubled' \in SUBSET Users
    BY <1>1, <2>1 DEF Authorize, TypeOK
  <2> QED
    BY <1>1, <2>2 DEF TypeOK, Authorize, Change, MpStatus, Notification, flights
<1>2. ASSUME NEW s \in Subs, NEW status \in {"paused", "cancelled"},
             Interrupt(s, status)
      PROVE  TypeOK'
  BY <1>2 DEF TypeOK, Interrupt, Change, MpStatus, Notification, flights
<1>3. CASE Tick
  BY <1>3 DEF TypeOK, Tick, flights, ghosts
<1>4. ASSUME NEW u \in Users, Checkout(u) \/ CreateFails(u) PROVE TypeOK'
  BY <1>4 DEF TypeOK, Checkout, CreateFails, Request, mercado, ghosts
<1>5. ASSUME NEW u \in Users, CancelRead(u) PROVE TypeOK'
  <2>1. row[u].id \in Subs
    BY <1>5 DEF CancelRead, TypeOK, Row
  <2>2. cancels' \in SUBSET Cancel
    BY <1>5, <2>1 DEF CancelRead, TypeOK, Cancel
  <2> QED
    BY <1>5, <2>2 DEF TypeOK, CancelRead, Request, mercado, ghosts
<1>6. ASSUME NEW u \in Users, PollRead(u) PROVE TypeOK'
  <2>1. row[u].id \in Subs
    BY <1>6 DEF PollRead, TypeOK, Row
  <2>2. polls' \in SUBSET Poll
    BY <1>6, <2>1 DEF PollRead, TypeOK, Poll, MpStatus
  <2> QED
    BY <1>6, <2>2 DEF TypeOK, PollRead, Request, mercado, ghosts
<1>7. ASSUME NEW u \in Users, NEW s \in Subs, Create(u, s) PROVE TypeOK'
  BY <1>7 DEF TypeOK, Create, MpStatus, ghosts
<1>8. ASSUME NEW c \in cancels, CancelGet(c) PROVE TypeOK'
  <2>1. c \in Cancel /\ due[c.sub] \in Nat /\ events \in Nat
    BY DEF TypeOK, Cancel
  <2>2. cancels' \in SUBSET Cancel
    BY <1>8, <2>1 DEF CancelGet, TypeOK, Cancel
  <2> QED
    BY <1>8, <2>2 DEF TypeOK, CancelGet, mercado, ghosts
<1>9. ASSUME NEW c \in cancels, CancelUpdate(c) PROVE TypeOK'
  <2>1. c \in Cancel
    BY DEF TypeOK
  <2>2. cancels' \in SUBSET Cancel
    BY <1>9, <2>1 DEF CancelUpdate, TypeOK, Cancel
  <2>3. c.sub \in Subs
    BY <2>1 DEF Cancel
  <2>4. /\ mp' \in [Subs -> MpStatus] /\ payer' = payer /\ now' = now
        /\ owed' \in SUBSET Notification /\ events' \in Nat
        /\ since' \in [Subs -> Nat]
    BY <1>9, <2>3 DEF TypeOK, CancelUpdate, Change, MpStatus, Notification
  <2> QED
    BY <1>9, <2>2, <2>4 DEF TypeOK, CancelUpdate
<1>10. ASSUME NEW c \in cancels, CancelWrite(c) PROVE TypeOK'
  <2>1. c.sub \in Subs /\ c.due \in Nat /\ c.at \in Nat
    BY DEF TypeOK, Cancel
  <2>2. payer[c.sub] \in Users
    BY <2>1 DEF CancelInv, KnownInv, TypeOK
  <2>3. Ended(c.sub, c.due) \in [Users -> Row]
    BY <2>1, EndedRows
  <2>4. Record(payer[c.sub], c.at, Ended(c.sub, c.due))
    BY <1>10 DEF CancelWrite
  <2> QED
    BY <1>10, <2>1, <2>2, <2>3, <2>4, RecordType DEF TypeOK, CancelWrite, mercado
<1>11. ASSUME NEW p \in polls, PollAsk(p) PROVE TypeOK'
  <2>1. /\ p \in Poll /\ due[p.sub] \in Nat /\ mp[p.sub] \in MpStatus
        /\ events \in Nat
    BY DEF TypeOK, Poll
  <2>2. polls' \in SUBSET Poll
    BY <1>11, <2>1 DEF PollAsk, TypeOK, Poll
  <2> QED
    BY <1>11, <2>2 DEF TypeOK, PollAsk, mercado, ghosts
<1>12. ASSUME NEW p \in polls, PollWrite(p) PROVE TypeOK'
  <2>1. p.sub \in Subs /\ p.user \in Users /\ p.due \in Nat /\ p.at \in Nat
    BY DEF TypeOK, Poll
  <2>2. payer[p.sub] = p.user
    BY DEF PollInv
  <2> DEFINE rows == IF p.status = "authorized" THEN Activated(p.sub)
                                                ELSE Ended(p.sub, p.due)
  <2>3. rows \in [Users -> Row]
    BY <2>1, <2>2, EndedRows, ActivatedRows
  <2>4. Record(p.user, p.at, rows)
    BY <1>12 DEF PollWrite
  <2> HIDE DEF rows
  <2> QED
    BY <1>12, <2>1, <2>3, <2>4, RecordType DEF TypeOK, PollWrite, mercado
<1>13. ASSUME NEW n \in owed, HookRead(n) PROVE TypeOK'
  <2>1. n \in Notification /\ due[n.sub] \in Nat /\ mp[n.sub] \in MpStatus
    BY DEF TypeOK, Notification
  <2>2. hooks' \in SUBSET Hook
    BY <1>13, <2>1 DEF HookRead, TypeOK, Hook
  <2> QED
    BY <1>13, <2>2 DEF TypeOK, HookRead, mercado, ghosts
<1>14. ASSUME NEW h \in hooks, NEW acked \in BOOLEAN, HookWrite(h, acked) PROVE TypeOK'
  <2>1. h.note \in Notification /\ h.due \in Nat /\ h.at \in Nat /\ h.note.sub \in Subs
    BY DEF TypeOK, Hook, Notification
  <2>2. payer[h.note.sub] \in Users
    BY <2>1 DEF HookInv, KnownInv, TypeOK, Notification
  <2>3. Effect(h) \in [Users -> Row]
    BY <2>1, <2>2, EndedRows, ActivatedRows DEF Effect, TypeOK
  <2>4. Record(payer[h.note.sub], h.at, Effect(h))
    BY <1>14 DEF HookWrite
  <2> QED
    BY <1>14, <2>1, <2>2, <2>3, <2>4, RecordType DEF TypeOK, HookWrite
<1>15. ASSUME NEW c \in cancels, CancelFails(c) PROVE TypeOK'
  BY <1>15 DEF TypeOK, CancelFails, mercado, ghosts
<1>16. ASSUME NEW p \in polls, PollFails(p) PROVE TypeOK'
  BY <1>16 DEF TypeOK, PollFails, mercado, ghosts
<1>17. ASSUME NEW h \in hooks, HookFails(h) PROVE TypeOK'
  BY <1>17 DEF TypeOK, HookFails, OwedAfterFailure, ghosts
<1>18. CASE UNCHANGED vars
  BY <1>18 DEF TypeOK, vars, mercado, flights, ghosts
<1> QED
  BY <1>1, <1>2, <1>3, <1>4, <1>5, <1>6, <1>7, <1>8, <1>9, <1>10, <1>11, <1>12,
     <1>13, <1>14, <1>15, <1>16, <1>17, <1>18 DEF Next

-----------------------------------------------------------------------------
(* A change of status at MercadoPago makes every older answer outdated and *)
(* owes its notification, so nothing that is known becomes wrong.          *)
LEMMA ChangeKeeps ==
    ASSUME BillingAssumption, IInv, TypeOK', NEW s \in Subs,
           NEW status \in {"authorized", "paused", "cancelled"},
           mp[s] \in {"pending", "authorized", "paused"},
           Change(s, status),
           \A r \in Subs \ {s} : due'[r] = due[r],
           doubled \subseteq doubled',
           status = "authorized" =>
               \A r \in Subs \ {s} :
                   mp[r] = "authorized" /\ payer[r] = payer[s] => payer[s] \in doubled',
           row' = row, hooks' = hooks, polls' = polls,
           applied' = applied, crossed' = crossed
    PROVE  /\ KnownInv' /\ RowInv' /\ HookInv' /\ PollInv' /\ AckInv' /\ AgreeInv'
           /\ DoubleInv' /\ PlanInv'
<1> USE DEF BillingAssumption
<1>1. /\ mp'[s] = status /\ since'[s] = events + 1 /\ payer' = payer
      /\ events' = events + 1 /\ events \in Nat
      /\ owed' = owed \cup {[sub |-> s, event |-> events + 1]}
      /\ \A r \in Subs \ {s} : mp'[r] = mp[r] /\ since'[r] = since[r]
  BY DEF Change, IInv, TypeOK
<1>2. \A r \in Subs : since[r] \in Nat /\ since[r] <= events /\ since[r] <= since'[r]
  BY <1>1 DEF IInv, KnownInv, TypeOK
<1>3. Latest(s)' \in owed' /\ \A r \in Subs \ {s} : Latest(r)' = Latest(r)
  BY <1>1 DEF Latest
<1>4. KnownInv'
  <2>1. \A n \in owed : n.sub \in Subs /\ n.event \in Nat /\ 0 < n.event /\ n.event <= since[n.sub]
    BY DEF IInv, KnownInv, TypeOK, Notification
  <2>2. \A n \in owed' : 0 < n.event /\ n.event <= since'[n.sub]
    <3> TAKE n \in owed'
    <3>1. CASE n \in owed
      <4>1. /\ n.sub \in Subs /\ n.event \in Nat /\ 0 < n.event /\ n.event <= since[n.sub]
            /\ since[n.sub] \in Nat /\ since[n.sub] <= since'[n.sub]
            /\ since'[n.sub] \in Nat
        BY <3>1, <2>1, <1>2 DEF TypeOK
      <4> QED
        BY <4>1
    <3>2. CASE n = [sub |-> s, event |-> events + 1]
      BY <3>2, <1>1
    <3> QED
      BY <3>1, <3>2, <1>1
  <2>3. \A u \in Users : applied[u] \in Nat /\ applied[u] <= events
    BY DEF IInv, KnownInv, TypeOK
  <2>4. \A r \in Subs : since'[r] <= events'
    BY <1>1, <1>2
  <2>5. \A r \in Subs : since'[r] = 0 <=> mp'[r] \in {"none", "pending"}
    BY <1>1 DEF IInv, KnownInv
  <2>6. \A r \in Subs : mp'[r] = "none" <=> payer'[r] = None
    BY <1>1 DEF IInv, KnownInv
  <2> QED
    BY <1>1, <2>2, <2>3, <2>4, <2>5, <2>6 DEF KnownInv
<1>5. RowInv'
  <2>1. \A u \in Users : row[u].id \in Subs \cup {None}
    BY DEF IInv, TypeOK, Row
  <2> QED
    BY <1>1, <1>2, <2>1 DEF IInv, RowInv
<1>6. ASSUME NEW r \in Subs, NEW st, NEW d, NEW at \in Nat,
             Fresh(r, st, d, at), Apart(r, st, at)
      PROVE  Fresh(r, st, d, at)' /\ Apart(r, st, at)'
  <2>1. at <= events /\ ~(at >= since'[s]) /\ at <= events'
    BY <1>6, <1>1 DEF Fresh
  <2>2. Fresh(r, st, d, at)'
    BY <1>6, <1>1, <2>1 DEF Fresh
  <2>3. Apart(r, st, at)'
    <3> SUFFICES ASSUME st = "authorized", NEW q \in Subs \ {r},
                        mp'[q] = "authorized", payer[q] = payer[r], since'[q] <= at
                 PROVE  payer[r] \in doubled'
      BY <1>1 DEF Apart
    <3>1. q # s
      BY <2>1, <1>1
    <3>2. mp[q] = "authorized" /\ since[q] <= at
      BY <3>1, <1>1
    <3> QED
      BY <3>2, <1>6 DEF Apart
  <2> QED
    BY <2>2, <2>3
<1>7. HookInv'
  <2> SUFFICES ASSUME NEW h \in hooks
               PROVE  /\ 0 < h.note.event /\ h.note.event <= h.at
                      /\ h.note.event <= since'[h.note.sub]
                      /\ Fresh(h.note.sub, h.status, h.due, h.at)'
                      /\ Apart(h.note.sub, h.status, h.at)'
    BY DEF HookInv
  <2>1. h.note.sub \in Subs /\ h.note.event \in Nat /\ h.at \in Nat
    BY DEF IInv, TypeOK, Hook, Notification
  <2>2. since'[h.note.sub] \in Nat
    BY <2>1 DEF TypeOK
  <2>3. h.note.event <= since'[h.note.sub]
    BY <2>1, <2>2, <1>2 DEF IInv, HookInv
  <2> QED
    BY <2>1, <2>3, <1>6 DEF IInv, HookInv
<1>8. PollInv'
  <2> SUFFICES ASSUME NEW p \in polls
               PROVE  /\ payer[p.sub] = p.user
                      /\ since'[p.sub] > 0
                      /\ p.step = "write" => /\ Fresh(p.sub, p.status, p.due, p.at)'
                                             /\ Apart(p.sub, p.status, p.at)'
    BY <1>1 DEF PollInv
  <2>1. p.sub \in Subs /\ p.at \in Nat
    BY DEF IInv, TypeOK, Poll
  <2>2. since'[p.sub] \in Nat
    BY <2>1 DEF TypeOK
  <2>3. since'[p.sub] > 0
    BY <2>1, <2>2, <1>2 DEF IInv, PollInv
  <2> QED
    BY <2>1, <2>3, <1>6 DEF IInv, PollInv
<1>9. AckInv'
  BY <1>1, <1>3 DEF IInv, AckInv
<1>10. AgreeInv'
  BY <1>1, <1>3 DEF IInv, AgreeInv
<1>11. DoubleInv'
  BY <1>1 DEF IInv, DoubleInv
<1>12. PlanInv'
  BY <1>1, <1>3 DEF IInv, PlanInv
<1> QED
  BY <1>4, <1>5, <1>7, <1>8, <1>9, <1>10, <1>11, <1>12

(* What an answer about s, given at event `at`, may be written as: the     *)
(* plan, its end, or nothing when it is outdated and says neither.         *)
Writable(s, at, rows) ==
    \/ /\ rows = Activated(s)
       /\ at >= since[s] => mp[s] = "authorized"
       /\ Apart(s, "authorized", at)
    \/ \E d \in Nat : /\ rows = Ended(s, d)
                      /\ at >= since[s] => mp[s] \in Ending /\ d = due[s]
    \/ rows = row /\ at < since[s]

(* Writing such an answer, and taking it as the reply to notifications     *)
(* that are not newer, keeps the table and the debts consistent.           *)
LEMMA WriteKeeps ==
    ASSUME BillingAssumption, IInv, TypeOK', NEW s \in Subs, since[s] > 0,
           NEW at \in Nat, at <= events, NEW rows, Writable(s, at, rows),
           Record(payer[s], at, rows),
           mp' = mp, payer' = payer, due' = due, events' = events,
           owed' \subseteq owed,
           \A n \in owed \ owed' : n.sub = s /\ n.event <= at
    PROVE  /\ KnownInv' /\ RowInv' /\ AckInv' /\ AgreeInv' /\ DoubleInv' /\ PlanInv'
<1> USE DEF BillingAssumption
<1> DEFINE u == payer[s]
<1>1. u \in Users /\ u # None /\ mp[s] \notin {"none", "pending"}
  BY DEF IInv, KnownInv, TypeOK
<1>2. /\ row' = rows /\ since' = since /\ doubled' = doubled
      /\ at < applied[u] /\ row' # row => u \in crossed'
      /\ crossed \subseteq crossed'
  BY DEF Record
<1>3. \A v \in Users : applied[v] \in Nat /\ applied'[v] \in Nat /\ applied'[v] >= applied[v]
  BY <1>1 DEF Record, IInv, TypeOK
<1>4. applied'[u] >= at
  BY <1>1 DEF Record, IInv, TypeOK
<1>5. \A r \in Subs : since[r] \in Nat /\ since[r] <= events
  BY DEF IInv, KnownInv, TypeOK
<1>6. \A r \in Subs : Latest(r)' = Latest(r)
  BY <1>2 DEF Latest
<1>7. \A r \in Subs : Latest(r)' \notin owed' /\ Latest(r) \in owed => r = s /\ since[s] <= at
  BY <1>6 DEF Latest
<1>8. /\ row[u] \in Row
      /\ \A v \in Users : row[v].id \in Subs \cup {None}
  BY <1>1 DEF IInv, TypeOK, Row
<1> HIDE DEF u
<1>9. \/ /\ rows = Activated(s)
         /\ at >= since[s] => mp[s] = "authorized"
         /\ Apart(s, "authorized", at)
         /\ rows[u] = [id |-> s, status |-> "active", ends |-> None]
         /\ \A v \in Users : v # u => rows[v] = row[v]
      \/ \E d \in Nat :
            /\ rows = Ended(s, d)
            /\ at >= since[s] => mp[s] \in Ending /\ d = due[s]
            /\ \A v \in Users :
                  /\ rows[v].id = row[v].id
                  /\ row[v].id = s => rows[v] = [id |-> s, status |-> "cancelled", ends |-> d]
                  /\ row[v].id # s => rows[v] = row[v]
      \/ rows = row /\ at < since[s]
  BY <1>1, ActivatedRows, EndedRows DEF Writable, IInv, u
<1>10. KnownInv'
  <2>1. \A v \in Users : applied'[v] <= events
    BY <1>1 DEF Record, IInv, KnownInv, TypeOK, u
  <2> QED
    BY <1>2, <2>1 DEF IInv, KnownInv
<1>11. \A v \in Users : row[v].id = s => v = u
  BY <1>1 DEF IInv, RowInv, u
<1>12. RowInv'
  <2>1. CASE rows = row
    BY <2>1, <1>2 DEF IInv, RowInv
  <2>2. CASE /\ rows[u] = [id |-> s, status |-> "active", ends |-> None]
             /\ \A v \in Users : v # u => rows[v] = row[v]
    BY <2>2, <1>1, <1>2 DEF IInv, RowInv, u
  <2>3. ASSUME NEW d \in Nat,
               \A v \in Users :
                  /\ rows[v].id = row[v].id
                  /\ row[v].id = s => rows[v] = [id |-> s, status |-> "cancelled", ends |-> d]
                  /\ row[v].id # s => rows[v] = row[v]
        PROVE  RowInv'
    BY <2>3, <1>2 DEF IInv, RowInv
  <2> QED
    BY <1>9, <2>1, <2>2, <2>3
<1>13. AckInv'
  <2> SUFFICES ASSUME NEW r \in Subs, since[r] > 0, Latest(r)' \notin owed'
               PROVE  applied'[payer[r]] >= since[r]
    BY <1>2 DEF AckInv
  <2>1. payer[r] \in Users
    BY DEF IInv, KnownInv, TypeOK
  <2>2. CASE Latest(r) \in owed
    BY <2>2, <1>7, <1>4, <1>3, <1>5, <2>1 DEF u
  <2>3. CASE Latest(r) \notin owed
    <3>1. applied[payer[r]] >= since[r]
      BY <2>3 DEF IInv, AckInv
    <3> QED
      BY <3>1, <2>1, <1>3, <1>5
  <2> QED
    BY <2>2, <2>3
<1>14. ASSUME NEW r \in Subs, payer[r] = u, u \notin crossed', Latest(r)' \notin owed',
              at < since[r]
       PROVE  row' = row
  <2>1. Latest(r) \notin owed
    BY <1>14, <1>7, <1>5
  <2>2. applied[u] >= since[r]
    BY <2>1, <1>14, <1>5 DEF IInv, AckInv
  <2>3. at < applied[u]
    BY <2>2, <1>14, <1>1, <1>3, <1>5
  <2> QED
    BY <2>3, <1>2, <1>14
<1>15. AgreeInv'
  <2> SUFFICES ASSUME NEW v \in Users, NEW r \in Subs,
                      v \notin crossed', row'[v].id = r, Latest(r)' \notin owed'
               PROVE  /\ row'[v].status = "active" => mp[r] = "authorized"
                      /\ row'[v].status = "cancelled" => mp[r] \in Ending /\ row'[v].ends = due[r]
    BY DEF AgreeInv
  <2>1. payer[r] = v
    BY <1>12, <1>8 DEF RowInv, BillingAssumption
  <2>2. CASE row'[v] = row[v] /\ Latest(r) \notin owed
    BY <2>2, <1>2 DEF IInv, AgreeInv
  <2>3. CASE row'[v] = row[v] /\ Latest(r) \in owed
    <3>1. r = s /\ since[s] <= at /\ v = u
      BY <2>3, <1>7, <1>11
    <3>2. CASE rows[u] = [id |-> s, status |-> "active", ends |-> None] /\ mp[s] = "authorized"
      BY <3>1, <3>2, <1>2
    <3>3. ASSUME NEW d \in Nat, mp[s] \in Ending, d = due[s],
                 row[u].id = s => rows[u] = [id |-> s, status |-> "cancelled", ends |-> d]
          PROVE  /\ row'[v].status = "active" => mp[r] = "authorized"
                 /\ row'[v].status = "cancelled" => mp[r] \in Ending /\ row'[v].ends = due[r]
      BY <3>1, <3>3, <2>3, <1>2
    <3>4. at >= since[s] /\ ~(at < since[s])
      BY <3>1, <1>5
    <3>5. \/ rows[u] = [id |-> s, status |-> "active", ends |-> None] /\ mp[s] = "authorized"
          \/ \E d \in Nat :
                /\ mp[s] \in Ending /\ d = due[s]
                /\ row[u].id = s => rows[u] = [id |-> s, status |-> "cancelled", ends |-> d]
      BY <3>4, <1>9, <1>1
    <3> QED
      BY <3>2, <3>3, <3>5
  <2>4. CASE row'[v] # row[v]
    <3>1. row' # row
      BY <2>4
    <3>2. v = u /\ r = s
      <4>1. CASE /\ rows[u] = [id |-> s, status |-> "active", ends |-> None]
                 /\ \A w \in Users : w # u => rows[w] = row[w]
        BY <4>1, <2>4, <1>2
      <4>2. ASSUME NEW d \in Nat,
                   \A w \in Users :
                      /\ rows[w].id = row[w].id
                      /\ row[w].id # s => rows[w] = row[w]
            PROVE  v = u /\ r = s
        BY <4>2, <2>4, <1>2, <1>11
      <4> QED
        BY <4>1, <4>2, <3>1, <1>2, <1>9
    <3>3. at >= since[s]
      BY <3>1, <3>2, <1>14, <1>5, <2>1
    <3>4. CASE rows[u] = [id |-> s, status |-> "active", ends |-> None] /\ mp[s] = "authorized"
      BY <3>2, <3>4, <1>2
    <3>5. ASSUME NEW d \in Nat, mp[s] \in Ending, d = due[s],
                 rows[u] = [id |-> s, status |-> "cancelled", ends |-> d]
          PROVE  /\ row'[v].status = "active" => mp[r] = "authorized"
                 /\ row'[v].status = "cancelled" => mp[r] \in Ending /\ row'[v].ends = due[r]
      BY <3>2, <3>5, <1>2
    <3> QED
      BY <3>1, <3>2, <3>3, <3>4, <3>5, <2>4, <1>9, <1>1, <1>2
  <2> QED
    BY <2>2, <2>3, <2>4
<1>16. DoubleInv'
  BY <1>2 DEF IInv, DoubleInv
<1>17. PlanInv'
  <2> SUFFICES ASSUME NEW r \in Subs, mp[r] = "authorized", Latest(r)' \notin owed',
                      payer[r] \notin crossed', payer[r] \notin doubled
               PROVE  row'[payer[r]].id = r
    BY <1>2 DEF PlanInv
  <2>1. payer[r] \in Users /\ payer[r] \notin crossed
    BY <1>2 DEF IInv, KnownInv, TypeOK
  <2>2. Latest(r) \notin owed => row[payer[r]].id = r
    BY <2>1 DEF IInv, PlanInv
  <2>3. CASE rows = row /\ at < since[s]
    BY <2>2, <2>3, <1>2, <1>5, <1>7
  <2>4. ASSUME NEW d \in Nat,
               at >= since[s] => mp[s] \in Ending,
               \A v \in Users : rows[v].id = row[v].id
        PROVE  row'[payer[r]].id = r
    <3>1. Latest(r) \notin owed
      BY <2>4, <1>7, <1>5 DEF Ending
    <3> QED
      BY <3>1, <2>1, <2>2, <2>4, <1>2
  <2>5. CASE /\ Apart(s, "authorized", at)
             /\ rows[u] = [id |-> s, status |-> "active", ends |-> None]
             /\ \A v \in Users : v # u => rows[v] = row[v]
    <3>1. CASE r = s
      BY <3>1, <2>5, <1>2 DEF u
    <3>2. CASE r # s /\ payer[r] # u
      BY <3>2, <2>1, <2>2, <2>5, <1>2, <1>7
    <3>3. CASE r # s /\ payer[r] = u
      <4>1. at < since[r]
        BY <3>3, <2>5, <1>5 DEF Apart, u
      <4>2. row' = row
        BY <4>1, <3>3, <1>14
      <4> QED
        BY <4>2, <3>3, <2>2, <1>7
    <3> QED
      BY <3>1, <3>2, <3>3
  <2> QED
    BY <1>9, <2>3, <2>4, <2>5
<1> QED
  BY <1>10, <1>12, <1>13, <1>15, <1>16, <1>17

-----------------------------------------------------------------------------
(* The requests that read, ask, fail or only create keep the invariant.    *)
LEMMA QuietSteps ==
    ASSUME BillingAssumption, IInv, TypeOK',
           \/ Tick
           \/ \E u \in Users : Checkout(u) \/ CreateFails(u) \/ CancelRead(u) \/ PollRead(u)
           \/ \E c \in cancels : CancelGet(c) \/ CancelFails(c)
           \/ \E p \in polls : PollAsk(p) \/ PollFails(p)
           \/ \E n \in owed : HookRead(n)
           \/ \E h \in hooks : HookFails(h)
           \/ UNCHANGED vars
    PROVE  IInv'
<1> USE DEF BillingAssumption
<1>1. CASE Tick
  <2>1. /\ \A s \in Subs : mp[s] # "authorized" => due'[s] = due[s]
        /\ UNCHANGED <<mp, payer, owed, events, row, flights, ghosts>>
    BY <1>1 DEF Tick, IInv, TypeOK
  <2>2. KnownInv' /\ RowInv' /\ AckInv' /\ DoubleInv' /\ PlanInv'
    BY <2>1 DEF IInv, KnownInv, RowInv, AckInv, DoubleInv, PlanInv, Latest, ghosts
  <2>3. \A h \in hooks : h.note.sub \in Subs
    BY DEF IInv, TypeOK, Hook, Notification
  <2>4. HookInv'
    BY <2>1, <2>3 DEF IInv, HookInv, Fresh, Apart, Ending, flights, ghosts
  <2>5. PollInv'
    BY <2>1 DEF IInv, PollInv, Fresh, Apart, Ending, flights, ghosts, TypeOK, Poll
  <2>6. CancelInv'
    BY <2>1 DEF IInv, CancelInv, Ending, flights, ghosts, TypeOK, Cancel
  <2>7. AgreeInv'
    BY <2>1 DEF IInv, AgreeInv, Latest, Ending, ghosts
  <2> QED
    BY <2>2, <2>4, <2>5, <2>6, <2>7 DEF IInv
<1>2. ASSUME UNCHANGED <<mp, payer, due, owed, events, row, since, applied, crossed, doubled>>
      PROVE  /\ KnownInv' /\ RowInv' /\ AckInv' /\ AgreeInv' /\ DoubleInv' /\ PlanInv'
             /\ hooks' \subseteq hooks => HookInv'
             /\ polls' \subseteq polls => PollInv'
             /\ cancels' \subseteq cancels => CancelInv'
  <2>1. KnownInv' /\ RowInv' /\ AckInv' /\ AgreeInv' /\ DoubleInv' /\ PlanInv'
    BY <1>2 DEF IInv, KnownInv, RowInv, AckInv, AgreeInv, DoubleInv, PlanInv, Latest
  <2>2. hooks' \subseteq hooks => HookInv'
    BY <1>2 DEF IInv, HookInv, Fresh, Apart
  <2>3. polls' \subseteq polls => PollInv'
    BY <1>2 DEF IInv, PollInv, Fresh, Apart
  <2>4. cancels' \subseteq cancels => CancelInv'
    BY <1>2 DEF IInv, CancelInv
  <2> QED
    BY <2>1, <2>2, <2>3, <2>4
<1>3. ASSUME NEW u \in Users, Checkout(u) \/ CreateFails(u) PROVE IInv'
  BY <1>2, <1>3 DEF Checkout, CreateFails, Request, mercado, ghosts, IInv
<1>4. ASSUME NEW u \in Users, CancelRead(u) PROVE IInv'
  <2>1. since[row[u].id] > 0
    BY <1>4 DEF CancelRead, IInv, RowInv
  <2>2. CancelInv'
    BY <1>4, <2>1 DEF CancelRead, IInv, CancelInv, mercado, ghosts
  <2> QED
    BY <1>2, <1>4, <2>2 DEF CancelRead, mercado, ghosts, IInv
<1>5. ASSUME NEW u \in Users, PollRead(u) PROVE IInv'
  <2>1. since[row[u].id] > 0 /\ payer[row[u].id] = u
    BY <1>5 DEF PollRead, IInv, RowInv
  <2>2. PollInv'
    BY <1>5, <2>1 DEF PollRead, IInv, PollInv, Fresh, Apart, mercado, ghosts
  <2> QED
    BY <1>2, <1>5, <2>2 DEF PollRead, mercado, ghosts, IInv
<1>6. ASSUME NEW c \in cancels, CancelGet(c) PROVE IInv'
  <2>1. c \in Cancel /\ events \in Nat
    BY DEF IInv, TypeOK
  <2> DEFINE d == [c EXCEPT !.step = "update", !.due = due[c.sub], !.at = events]
  <2>2. d.sub = c.sub /\ d.step = "update" /\ d.due = due[c.sub] /\ d.at = events
    BY <2>1 DEF Cancel
  <2>3. cancels' = (cancels \ {c}) \cup {d}
    BY <1>6 DEF CancelGet
  <2> HIDE DEF d
  <2>4. CancelInv'
    <3>1. UNCHANGED <<events, since, mp, due>>
      BY <1>6 DEF CancelGet, mercado, ghosts
    <3>2. since[d.sub] > 0 /\ d.at <= events /\ d.due = due[d.sub] /\ d.step # "write"
      BY <2>1, <2>2 DEF IInv, CancelInv
    <3>3. CancelInv
      BY DEF IInv
    <3> QED
      BY <2>3, <3>1, <3>2, <3>3 DEF CancelInv
  <2> QED
    BY <1>2, <1>6, <2>4 DEF CancelGet, mercado, ghosts, IInv
<1>7. ASSUME NEW p \in polls, PollAsk(p) PROVE IInv'
  <2>1. p \in Poll /\ events \in Nat /\ p.sub \in Subs
    BY DEF IInv, TypeOK, Poll
  <2> DEFINE d == [p EXCEPT !.step = "write", !.status = mp[p.sub],
                            !.due = due[p.sub], !.at = events]
  <2>2. /\ d.sub = p.sub /\ d.user = p.user /\ d.step = "write"
        /\ d.status = mp[p.sub] /\ d.due = due[p.sub] /\ d.at = events
    BY <2>1 DEF Poll
  <2>3. polls' = (polls \ {p}) \cup {d}
    BY <1>7 DEF PollAsk
  <2> HIDE DEF d
  <2>4. Fresh(p.sub, mp[p.sub], due[p.sub], events) /\ Apart(p.sub, mp[p.sub], events)
    BY <2>1 DEF Fresh, Apart, IInv, DoubleInv
  <2>5. PollInv'
    <3>1. UNCHANGED <<mp, payer, due, events, since, doubled>>
      BY <1>7 DEF PollAsk, mercado, ghosts
    <3>2. /\ payer[d.sub] = d.user /\ since[d.sub] > 0
          /\ Fresh(d.sub, d.status, d.due, d.at) /\ Apart(d.sub, d.status, d.at)
      BY <2>2, <2>4 DEF IInv, PollInv
    <3>3. PollInv
      BY DEF IInv
    <3> QED
      BY <2>3, <3>1, <3>2, <3>3 DEF PollInv, Fresh, Apart
  <2> QED
    BY <1>2, <1>7, <2>5 DEF PollAsk, mercado, ghosts, IInv
<1>8. ASSUME NEW n \in owed, HookRead(n) PROVE IInv'
  <2>1. n.sub \in Subs /\ n.event \in Nat /\ events \in Nat /\ since[n.sub] \in Nat
    BY DEF IInv, TypeOK, Notification
  <2>2. 0 < n.event /\ n.event <= since[n.sub] /\ n.event <= events
    BY <2>1 DEF IInv, KnownInv
  <2>3. Fresh(n.sub, mp[n.sub], due[n.sub], events) /\ Apart(n.sub, mp[n.sub], events)
    BY <2>1 DEF Fresh, Apart, IInv, DoubleInv
  <2>4. HookInv'
    BY <1>8, <2>1, <2>2, <2>3 DEF HookRead, IInv, HookInv, Fresh, Apart, mercado, ghosts
  <2> QED
    BY <1>2, <1>8, <2>4 DEF HookRead, mercado, ghosts, IInv
<1>9. ASSUME NEW c \in cancels, CancelFails(c) PROVE IInv'
  BY <1>2, <1>9 DEF CancelFails, mercado, ghosts, IInv
<1>10. ASSUME NEW p \in polls, PollFails(p) PROVE IInv'
  BY <1>2, <1>10 DEF PollFails, mercado, ghosts, IInv
<1>11. ASSUME NEW h \in hooks, HookFails(h) PROVE IInv'
  BY <1>2, <1>11 DEF HookFails, OwedAfterFailure, ghosts, IInv
<1>12. CASE UNCHANGED vars
  BY <1>2, <1>12 DEF vars, mercado, flights, ghosts, IInv
<1> QED
  BY <1>1, <1>3, <1>4, <1>5, <1>6, <1>7, <1>8, <1>9, <1>10, <1>11, <1>12

(* A preapproval that is created has no row, no request and no debt yet.   *)
LEMMA CreateStep ==
    ASSUME BillingAssumption, IInv, TypeOK', NEW u \in Users, NEW s \in Subs, Create(u, s)
    PROVE  IInv'
<1> USE DEF BillingAssumption
<1>1. /\ mp[s] = "none" /\ mp'[s] = "pending" /\ payer'[s] = u /\ since[s] = 0
      /\ \A r \in Subs \ {s} : mp'[r] = mp[r] /\ payer'[r] = payer[r] /\ due'[r] = due[r]
      /\ UNCHANGED <<owed, events, row, hooks, cancels, polls, since, applied, crossed, doubled>>
  BY DEF Create, IInv, TypeOK, KnownInv, ghosts
<1>2. KnownInv'
  BY <1>1 DEF IInv, KnownInv
<1>3. RowInv'
  <2>1. \A v \in Users : row[v].id \in Subs \cup {None}
    BY DEF IInv, TypeOK, Row
  <2> QED
    BY <1>1, <2>1 DEF IInv, RowInv
<1>4. \A h \in hooks : h.note.sub \in Subs \ {s}
  <2> TAKE h \in hooks
  <2>1. h.note.sub \in Subs /\ h.note.event \in Nat
    BY DEF IInv, TypeOK, Hook, Notification
  <2> QED
    BY <1>1, <2>1 DEF IInv, HookInv
<1>5. \A p \in polls : p.sub \in Subs \ {s}
  BY <1>1 DEF IInv, PollInv, TypeOK, Poll
<1>6. \A c \in cancels : c.sub \in Subs \ {s}
  BY <1>1 DEF IInv, CancelInv, TypeOK, Cancel
<1>7. ASSUME NEW r \in Subs \ {s}, NEW st, NEW at, Apart(r, st, at)
      PROVE  Apart(r, st, at)'
  BY <1>1, <1>7 DEF Apart
<1>8. HookInv'
  BY <1>1, <1>4, <1>7 DEF IInv, HookInv, Fresh
<1>9. PollInv'
  BY <1>1, <1>5, <1>7 DEF IInv, PollInv, Fresh
<1>10. CancelInv'
  BY <1>1, <1>6 DEF IInv, CancelInv
<1>11. AckInv'
  BY <1>1 DEF IInv, AckInv, Latest
<1>12. AgreeInv'
  <2>1. \A v \in Users : row[v].id # s
    BY <1>1 DEF IInv, RowInv
  <2> QED
    BY <1>1, <2>1 DEF IInv, AgreeInv, Latest
<1>13. DoubleInv'
  BY <1>1 DEF IInv, DoubleInv
<1>14. PlanInv'
  BY <1>1 DEF IInv, PlanInv, Latest
<1> QED
  BY <1>2, <1>3, <1>8, <1>9, <1>10, <1>11, <1>12, <1>13, <1>14 DEF IInv

(* The changes of a subscription keep the invariant, whoever made them.    *)
LEMMA ChangeSteps ==
    ASSUME BillingAssumption, IInv, TypeOK',
           \/ \E s \in Subs : Authorize(s)
           \/ \E s \in Subs, status \in {"paused", "cancelled"} : Interrupt(s, status)
           \/ \E c \in cancels : CancelUpdate(c)
    PROVE  IInv'
<1> USE DEF BillingAssumption
<1>1. ASSUME NEW s \in Subs, NEW status, Change(s, status), mp[s] # "cancelled",
             \A r \in Subs \ {s} : due'[r] = due[r], NEW c \in cancels
      PROVE  /\ since'[c.sub] > 0
             /\ c.step # "get" => /\ c.at <= events'
                                  /\ c.at >= since'[c.sub] /\ mp'[c.sub] \in Ending
                                         => c.due = due'[c.sub]
             /\ c.step = "write" => mp'[c.sub] = "cancelled"
  <2>1. /\ since'[s] = events + 1 /\ events' = events + 1 /\ events \in Nat
        /\ \A r \in Subs \ {s} : mp'[r] = mp[r] /\ since'[r] = since[r]
    BY <1>1 DEF Change, IInv, TypeOK
  <2>2. c.sub \in Subs /\ c.at \in Nat
    BY DEF IInv, TypeOK, Cancel
  <2>3. CASE c.sub = s
    BY <2>1, <2>2, <2>3, <1>1 DEF IInv, CancelInv
  <2>4. CASE c.sub # s
    <3>1. /\ mp'[c.sub] = mp[c.sub] /\ since'[c.sub] = since[c.sub]
          /\ due'[c.sub] = due[c.sub]
      BY <2>1, <2>2, <2>4, <1>1
    <3>2. c.step # "get" => c.at <= events'
      BY <2>1, <2>2 DEF IInv, CancelInv
    <3> QED
      BY <3>1, <3>2 DEF IInv, CancelInv
  <2> QED
    BY <2>3, <2>4
<1>2. ASSUME NEW s \in Subs, Authorize(s) PROVE IInv'
  <2>1. /\ mp[s] \in {"pending", "paused"} /\ Change(s, "authorized")
        /\ \A r \in Subs \ {s} : due'[r] = due[r]
        /\ doubled \subseteq doubled'
        /\ \A r \in Subs \ {s} :
              mp[r] = "authorized" /\ payer[r] = payer[s] => payer[s] \in doubled'
        /\ row' = row /\ hooks' = hooks /\ polls' = polls /\ cancels' = cancels
        /\ applied' = applied /\ crossed' = crossed
    BY <1>2 DEF Authorize, IInv, TypeOK, flights
  <2>2. /\ KnownInv' /\ RowInv' /\ HookInv' /\ PollInv' /\ AckInv' /\ AgreeInv'
        /\ DoubleInv' /\ PlanInv'
    BY <2>1, ChangeKeeps
  <2>3. CancelInv'
    BY <2>1, <1>1 DEF CancelInv
  <2> QED
    BY <2>2, <2>3 DEF IInv
<1>3. ASSUME NEW s \in Subs, NEW status \in {"paused", "cancelled"}, Interrupt(s, status)
      PROVE  IInv'
  <2>1. /\ mp[s] \in {"pending", "authorized", "paused"} /\ mp[s] # "cancelled"
        /\ Change(s, status)
        /\ due' = due /\ doubled' = doubled
        /\ row' = row /\ hooks' = hooks /\ polls' = polls /\ cancels' = cancels
        /\ applied' = applied /\ crossed' = crossed
    BY <1>3 DEF Interrupt, flights
  <2>2. /\ KnownInv' /\ RowInv' /\ HookInv' /\ PollInv' /\ AckInv' /\ AgreeInv'
        /\ DoubleInv' /\ PlanInv'
    BY <2>1, ChangeKeeps
  <2>3. CancelInv'
    BY <2>1, <1>1 DEF CancelInv
  <2> QED
    BY <2>2, <2>3 DEF IInv
<1>4. ASSUME NEW c \in cancels, CancelUpdate(c) PROVE IInv'
  <2> DEFINE d == [c EXCEPT !.step = "write"]
  <2>1. c \in Cancel /\ c.sub \in Subs
    BY DEF IInv, TypeOK, Cancel
  <2>2. d.sub = c.sub /\ d.step = "write" /\ d.due = c.due /\ d.at = c.at
    BY <2>1 DEF Cancel
  <2>3. /\ c.step = "update" /\ cancels' = (cancels \ {c}) \cup {d}
        /\ due' = due /\ doubled' = doubled
        /\ row' = row /\ hooks' = hooks /\ polls' = polls
        /\ applied' = applied /\ crossed' = crossed
    BY <1>4 DEF CancelUpdate
  <2> HIDE DEF d
  <2>4. mp[c.sub] \in {"authorized", "paused", "cancelled"}
    <3>1. since[c.sub] > 0 /\ since[c.sub] \in Nat
      BY <2>1 DEF IInv, CancelInv, TypeOK
    <3>2. mp[c.sub] \in MpStatus /\ mp[c.sub] \notin {"none", "pending"}
      BY <2>1, <3>1 DEF IInv, KnownInv, TypeOK
    <3> QED
      BY <3>2 DEF MpStatus
  <2>5. CASE mp[c.sub] = "cancelled"
    <3>1. UNCHANGED <<mp, payer, owed, events, since>>
      BY <1>4, <2>5 DEF CancelUpdate
    <3>2. /\ KnownInv' /\ RowInv' /\ HookInv' /\ PollInv' /\ AckInv' /\ AgreeInv'
          /\ DoubleInv' /\ PlanInv'
      BY <2>3, <3>1 DEF IInv, KnownInv, RowInv, HookInv, PollInv, AckInv, AgreeInv,
                        DoubleInv, PlanInv, Latest, Fresh, Apart
    <3>3. CancelInv'
      BY <2>2, <2>3, <2>5, <3>1 DEF IInv, CancelInv
    <3> QED
      BY <3>2, <3>3 DEF IInv
  <2>6. CASE mp[c.sub] # "cancelled"
    <3>1. Change(c.sub, "cancelled")
      BY <1>4, <2>6 DEF CancelUpdate
    <3>2. /\ KnownInv' /\ RowInv' /\ HookInv' /\ PollInv' /\ AckInv' /\ AgreeInv'
          /\ DoubleInv' /\ PlanInv'
      BY <2>1, <2>3, <2>4, <2>6, <3>1, ChangeKeeps
    <3>3. mp'[c.sub] = "cancelled"
      BY <2>1, <3>1 DEF Change, IInv, TypeOK
    <3>4. CancelInv'
      BY <1>1, <2>1, <2>2, <2>3, <2>6, <3>1, <3>3 DEF CancelInv
    <3> QED
      BY <3>2, <3>4 DEF IInv
  <2> QED
    BY <2>5, <2>6
<1> QED
  BY <1>2, <1>3, <1>4

-----------------------------------------------------------------------------
(* The writes of cancellation, poll and webhook keep the invariant.        *)
LEMMA WriteSteps ==
    ASSUME BillingAssumption, IInv, TypeOK',
           \/ \E c \in cancels : CancelWrite(c)
           \/ \E p \in polls : PollWrite(p)
           \/ \E h \in hooks, acked \in BOOLEAN : HookWrite(h, acked)
    PROVE  IInv'
<1> USE DEF BillingAssumption
<1>1. ASSUME UNCHANGED <<mp, payer, due, events, since, doubled>>
      PROVE  /\ hooks' \subseteq hooks => HookInv'
             /\ polls' \subseteq polls => PollInv'
             /\ cancels' \subseteq cancels => CancelInv'
  <2>1. hooks' \subseteq hooks => HookInv'
    BY <1>1 DEF IInv, HookInv, Fresh, Apart
  <2>2. polls' \subseteq polls => PollInv'
    BY <1>1 DEF IInv, PollInv, Fresh, Apart
  <2>3. cancels' \subseteq cancels => CancelInv'
    BY <1>1 DEF IInv, CancelInv
  <2> QED
    BY <2>1, <2>2, <2>3
<1>2. ASSUME NEW c \in cancels, CancelWrite(c) PROVE IInv'
  <2>1. c.sub \in Subs /\ c.due \in Nat /\ c.at \in Nat /\ c.step = "write"
    BY <1>2 DEF CancelWrite, IInv, TypeOK, Cancel
  <2>2. since[c.sub] > 0 /\ c.at <= events
    BY <2>1 DEF IInv, CancelInv
  <2>3. Writable(c.sub, c.at, Ended(c.sub, c.due))
    BY <2>1 DEF Writable, IInv, CancelInv, Ending
  <2>4. /\ Record(payer[c.sub], c.at, Ended(c.sub, c.due))
        /\ UNCHANGED <<mp, payer, due, events, owed, since, doubled, hooks, polls>>
        /\ cancels' \subseteq cancels
    BY <1>2 DEF CancelWrite, Record, mercado
  <2>5. KnownInv' /\ RowInv' /\ AckInv' /\ AgreeInv' /\ DoubleInv' /\ PlanInv'
    BY <2>1, <2>2, <2>3, <2>4, WriteKeeps
  <2> QED
    BY <1>1, <2>4, <2>5 DEF IInv
<1>3. ASSUME NEW p \in polls, PollWrite(p) PROVE IInv'
  <2> DEFINE rows == IF p.status = "authorized" THEN Activated(p.sub)
                                                ELSE Ended(p.sub, p.due)
  <2>1. /\ p.sub \in Subs /\ p.due \in Nat /\ p.at \in Nat /\ p.step = "write"
        /\ p.status \in MpStatus
    BY <1>3 DEF PollWrite, IInv, TypeOK, Poll
  <2>2. /\ since[p.sub] > 0 /\ payer[p.sub] = p.user
        /\ Fresh(p.sub, p.status, p.due, p.at) /\ Apart(p.sub, p.status, p.at)
    BY <2>1 DEF IInv, PollInv
  <2>3. mp[p.sub] \in {"authorized", "paused", "cancelled"}
    BY <2>1, <2>2 DEF IInv, KnownInv, TypeOK, MpStatus
  <2>4. Writable(p.sub, p.at, rows)
    BY <2>1, <2>2, <2>3 DEF Writable, Fresh, Apart, Ending
  <2>5. /\ Record(p.user, p.at, rows)
        /\ UNCHANGED <<mp, payer, due, events, owed, since, doubled, hooks, cancels>>
        /\ polls' \subseteq polls
    BY <1>3 DEF PollWrite, Record, mercado
  <2>6. p.at <= events
    BY <2>2 DEF Fresh
  <2> HIDE DEF rows
  <2>7. KnownInv' /\ RowInv' /\ AckInv' /\ AgreeInv' /\ DoubleInv' /\ PlanInv'
    BY <2>1, <2>2, <2>4, <2>5, <2>6, WriteKeeps
  <2> QED
    BY <1>1, <2>5, <2>7 DEF IInv
<1>4. ASSUME NEW h \in hooks, NEW acked \in BOOLEAN, HookWrite(h, acked) PROVE IInv'
  <2> DEFINE s == h.note.sub
  <2>1. /\ s \in Subs /\ h.due \in Nat /\ h.at \in Nat /\ h.status \in MpStatus
        /\ h.note.event \in Nat /\ since[s] \in Nat
    BY DEF IInv, TypeOK, Hook, Notification
  <2>2. /\ since[s] > 0 /\ h.at <= events /\ h.note.event <= h.at
        /\ Fresh(s, h.status, h.due, h.at) /\ Apart(s, h.status, h.at)
    BY <2>1 DEF IInv, HookInv, Fresh
  <2>3. mp[s] \in {"authorized", "paused", "cancelled"}
    BY <2>1, <2>2 DEF IInv, KnownInv, TypeOK, MpStatus
  <2>4. Writable(s, h.at, Effect(h))
    <3>1. CASE h.status = "authorized"
      BY <3>1, <2>2 DEF Writable, Effect, Fresh
    <3>2. CASE h.status \in EndingStatus
      BY <3>2, <2>1, <2>2 DEF Writable, Effect, Fresh, Ending, EndingStatus
    <3>3. CASE h.status # "authorized" /\ h.status \notin EndingStatus
      BY <3>3, <2>1, <2>2, <2>3 DEF Writable, Effect, Fresh, EndingStatus
    <3> QED
      BY <3>1, <3>2, <3>3
  <2>5. /\ Record(payer[s], h.at, Effect(h))
        /\ UNCHANGED <<mp, payer, due, events, since, doubled, cancels, polls>>
        /\ hooks' \subseteq hooks
        /\ owed' \subseteq owed
        /\ \A n \in owed \ owed' : n = h.note
    BY <1>4 DEF HookWrite, Record
  <2>6. \A n \in owed \ owed' : n.sub = s /\ n.event <= h.at
    BY <2>2, <2>5
  <2> HIDE DEF s
  <2>7. KnownInv' /\ RowInv' /\ AckInv' /\ AgreeInv' /\ DoubleInv' /\ PlanInv'
    BY <2>1, <2>2, <2>4, <2>5, <2>6, WriteKeeps
  <2> QED
    BY <1>1, <2>5, <2>7 DEF IInv
<1> QED
  BY <1>2, <1>3, <1>4

-----------------------------------------------------------------------------
(* The invariant holds at the start.                                       *)
LEMMA InitIInv == BillingAssumption /\ Init => IInv
<1> SUFFICES ASSUME BillingAssumption, Init PROVE IInv
  OBVIOUS
<1>1. TypeOK
  BY DEF BillingAssumption, Init, TypeOK, Row, MpStatus
<1>2. KnownInv /\ RowInv
  BY DEF BillingAssumption, Init, KnownInv, RowInv
<1>3. HookInv /\ PollInv /\ CancelInv
  BY DEF Init, HookInv, PollInv, CancelInv
<1>4. AckInv /\ AgreeInv /\ DoubleInv /\ PlanInv
  BY DEF BillingAssumption, Init, AckInv, AgreeInv, DoubleInv, PlanInv
<1> QED
  BY <1>1, <1>2, <1>3, <1>4 DEF IInv

(* Every step keeps the invariant.                                         *)
LEMMA StepIInv == BillingAssumption /\ IInv /\ [Next]_vars => IInv'
<1> SUFFICES ASSUME BillingAssumption, IInv, [Next]_vars PROVE IInv'
  OBVIOUS
<1>1. TypeOK'
  BY StepTypeOK
<1>2. \/ Tick
      \/ \E u \in Users : Checkout(u) \/ CreateFails(u) \/ CancelRead(u) \/ PollRead(u)
      \/ \E c \in cancels : CancelGet(c) \/ CancelFails(c)
      \/ \E p \in polls : PollAsk(p) \/ PollFails(p)
      \/ \E n \in owed : HookRead(n)
      \/ \E h \in hooks : HookFails(h)
      \/ UNCHANGED vars
      \/ \E u \in Users, s \in Subs : Create(u, s)
      \/ \E s \in Subs : Authorize(s)
      \/ \E s \in Subs, status \in {"paused", "cancelled"} : Interrupt(s, status)
      \/ \E c \in cancels : CancelUpdate(c)
      \/ \E c \in cancels : CancelWrite(c)
      \/ \E p \in polls : PollWrite(p)
      \/ \E h \in hooks, acked \in BOOLEAN : HookWrite(h, acked)
  BY DEF Next
<1>3. CASE \/ Tick
           \/ \E u \in Users : Checkout(u) \/ CreateFails(u) \/ CancelRead(u) \/ PollRead(u)
           \/ \E c \in cancels : CancelGet(c) \/ CancelFails(c)
           \/ \E p \in polls : PollAsk(p) \/ PollFails(p)
           \/ \E n \in owed : HookRead(n)
           \/ \E h \in hooks : HookFails(h)
           \/ UNCHANGED vars
  BY <1>1, <1>3, QuietSteps
<1>4. CASE \E u \in Users, s \in Subs : Create(u, s)
  BY <1>1, <1>4, CreateStep
<1>5. CASE \/ \E s \in Subs : Authorize(s)
           \/ \E s \in Subs, status \in {"paused", "cancelled"} : Interrupt(s, status)
           \/ \E c \in cancels : CancelUpdate(c)
  BY <1>1, <1>5, ChangeSteps
<1>6. CASE \/ \E c \in cancels : CancelWrite(c)
           \/ \E p \in polls : PollWrite(p)
           \/ \E h \in hooks, acked \in BOOLEAN : HookWrite(h, acked)
  BY <1>1, <1>6, WriteSteps
<1> QED
  BY <1>2, <1>3, <1>4, <1>5, <1>6

(* The inductive invariant.                                                *)
THEOREM Inductive == Spec => []IInv
<1>1. Init => IInv
  BY BillingAssumption, InitIInv
<1>2. IInv /\ [Next]_vars => IInv'
  BY BillingAssumption, StepIInv
<1> QED
  BY <1>1, <1>2, PTL DEF Spec

(* The variables keep their types.                                         *)
THEOREM TypeCorrect == Spec => []TypeOK
<1>1. IInv => TypeOK
  BY DEF IInv
<1> QED
  BY <1>1, Inductive, PTL

(* Once every notification about a user's subscriptions is answered, the   *)
(* row repeats MercadoPago, unless an older answer crossed a newer one.    *)
THEOREM RowsAgree == Spec => []RowAgrees
<1>1. IInv => RowAgrees
  <2> SUFFICES ASSUME IInv, NEW u \in Users, NEW s \in Subs,
                      Answered(u), u \notin crossed, row[u].id = s
               PROVE  /\ row[u].status = "active" => mp[s] = "authorized"
                      /\ row[u].status = "cancelled"
                             => mp[s] \in {"cancelled", "paused"} /\ row[u].ends = due[s]
    BY DEF RowAgrees
  <2>1. payer[s] = u
    BY BillingAssumption DEF IInv, RowInv
  <2>2. Latest(s) \notin owed
    BY <2>1 DEF Answered, Latest
  <2> QED
    BY <2>2 DEF IInv, AgreeInv, Ending
<1> QED
  BY <1>1, Inductive, PTL

(* Under the same conditions a subscription that is paid for is the plan   *)
(* of its payer, unless two were once paid for at the same time.           *)
THEOREM PayersHavePlan == Spec => []PayerHasPlan
<1>1. IInv => PayerHasPlan
  <2> SUFFICES ASSUME IInv, NEW u \in Users, NEW s \in Subs,
                      mp[s] = "authorized", payer[s] = u, Answered(u),
                      u \notin crossed, u \notin doubled
               PROVE  row[u] = [id |-> s, status |-> "active", ends |-> None]
    BY DEF PayerHasPlan
  <2>1. Latest(s) \notin owed
    BY DEF Answered, Latest
  <2>2. row[u].id = s
    BY <2>1 DEF IInv, PlanInv
  <2>3. row[u] \in Row /\ s # None
    BY BillingAssumption DEF IInv, TypeOK
  <2>4. row[u].status = "active"
    <3>1. row[u].status # "cancelled"
      BY <2>1, <2>2 DEF IInv, AgreeInv, Ending
    <3>2. row[u].status # "none"
      BY <2>2, <2>3 DEF IInv, RowInv
    <3> QED
      BY <2>3, <3>1, <3>2 DEF Row
  <2>5. row[u].ends = None
    BY <2>4 DEF IInv, RowInv
  <2> QED
    BY <2>2, <2>3, <2>4, <2>5 DEF Row
<1> QED
  BY <1>1, Inductive, PTL
=============================================================================
