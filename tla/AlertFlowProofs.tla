--------------------------- MODULE AlertFlowProofs ---------------------------
(***************************************************************************)
(* Proofs about AlertFlow: its properties hold for every set of users,     *)
(* thresholds and jobs, and for every number of runs and faults.           *)
(***************************************************************************)
EXTENDS AlertFlow, TLAPS

(* What a job knows outside of and inside of a call for a user.            *)
CallInv ==
    \A j \in Jobs :
        /\ pc[j] = "call" => \E u \in Users : whom[j] = {u}
        /\ pc[j] # "call" => whom[j] = {} /\ todo[j] = {} /\ asking[j] = {}
                             /\ batch[j] = {} /\ read[j] = {}
        /\ \A r \in todo[j] : r.user \in whom[j]
        /\ \A a \in asking[j] \cup batch[j] : a[1].user \in whom[j]

(* Runs are numbered as they begin, and no number is used twice.           *)
RunInv ==
    /\ \A j \in Jobs : pc[j] # "idle" => run[j] \in 1 .. runs
    /\ \A j, k \in Jobs :
          pc[j] # "idle" /\ pc[k] # "idle" /\ run[j] = run[k] => j = k

(* A run has no alerts yet for the users it has not come to, nor for the   *)
(* one whose call is under way.                                            *)
FreshInv ==
    /\ \A i \in Alert : i.run > runs => state[i] = "none"
    /\ \A j \in Jobs : pc[j] \in {"listed", "sync"} =>
          \A i \in Alert : i.run = run[j] => state[i] = "none"
    /\ \A j \in Jobs : pc[j] \in {"users", "call"} =>
          \A i \in Alert : i.run = run[j] /\ UserOf(i) \in users[j] \cup whom[j]
                              => state[i] = "none"
    /\ \A j \in Jobs : users[j] \cap whom[j] = {}

(* Calls for one user that are under way together have been noted, and so  *)
(* has every call that put in its batch what is pending by now.            *)
OverlapInv ==
    /\ \A j, k \in Jobs : \A u \in Users :
          j # k /\ u \in whom[j] /\ u \in whom[k] => <<u, run[j], run[k]>> \in overlap
    /\ \A j \in Jobs, a \in Thresholds \X AlertType, i \in Alert :
          /\ a \in batch[j]
          /\ state[i] = "pending"
          /\ i.rule.user = a[1].user /\ i.rule.product = a[1].product /\ i.type = a[2]
          /\ i.run # run[j]
          => /\ <<a[1].user, i.run, run[j]>> \in overlap
             /\ <<a[1].user, run[j], i.run>> \in overlap

(* The digest mails what exists, and what it mailed it is about to mark,   *)
(* has marked or has noted as lost.                                        *)
DigestInv ==
    /\ dpc \in {"idle", "read"} => carried = {} /\ audience = {}
    /\ dpc # "mark" => reader = {}
    /\ dpc = "mark" => \E u \in Users : reader = {u}
    /\ reader \cap audience = {}
    /\ \A i \in carried : state[i] # "none"
    /\ \A i \in Alert : mailed[i] > 0 =>
          /\ state[i] # "none"
          /\ i \in lost \/ state[i] \in {"sent", "dismissed"} \/ i \in Marked
    /\ \A i \in Marked : mailed[i] > 0
    /\ \A i \in carried : UserOf(i) \in audience => mailed[i] = 0 \/ i \in lost

(* What was read and not given up is asked for, in the batch, or known.    *)
ReadInv ==
    \A j \in Jobs : \A x \in read[j] :
        x.rule.type = "quantity" /\ x.qty < x.rule.min /\ x.qty # NoSnapshot
        => LET type == IF x.qty = 0 THEN "out_of_stock" ELSE "low_stock" IN
           \/ <<x.rule, type>> \in asking[j] \cup batch[j]
           \/ \E i \in Alert : /\ state[i] # "none"
                               /\ SameKey(i, [run |-> 1, rule |-> x.rule, type |-> type])

IInv ==
    /\ TypeOK
    /\ CallInv
    /\ RunInv
    /\ FreshInv
    /\ OverlapInv
    /\ DuplicatesOnlyFromOverlap
    /\ DigestInv
    /\ RemailOnlyAfterLostMark
    /\ ReadInv

-----------------------------------------------------------------------------
(* Marking, delivering and inserting keep the columns in their types.      *)
LEMMA DeliverType ==
  ASSUME mailed \in [Alert -> 0 .. 2], NEW S, NEW copies \in 0 .. 2, Deliver(S, copies)
  PROVE  mailed' \in [Alert -> 0 .. 2]
BY DEF Deliver

(* Every step keeps every variable in its type.                            *)
LEMMA TypeInvariance == TypeOK /\ CallInv /\ RunInv /\ [Next]_vars => TypeOK'
<1> SUFFICES ASSUME TypeOK, CallInv, RunInv, [Next]_vars PROVE TypeOK'
  OBVIOUS
<1>0. 0 \in 0 .. MaxRuns
  BY AlertFlowAssumption
<1> USE AlertFlowAssumption DEF TypeOK, tenant, Jobs, Runs, NoSnapshot, Frequency
<1>1. ASSUME NEW j \in Jobs, List(j) PROVE TypeOK'
  BY <1>1 DEF List, Goto, tables, call, digest
<1>2. ASSUME NEW j \in Jobs, NEW p \in Products, NEW qty \in 0 .. MaxQty, Store(j, p, qty)
      PROVE TypeOK'
  BY <1>2 DEF Store, call, digest, bounds
<1>3. ASSUME NEW j \in Jobs, SyncBegin(j) \/ SyncEnd(j) PROVE TypeOK'
  BY <1>3 DEF SyncBegin, SyncEnd, Notified, Goto, tables, call, digest, bounds
<1>4. ASSUME NEW j \in Jobs, SyncFails(j) \/ SyncAborts(j) PROVE TypeOK'
  BY <1>0, <1>4 DEF SyncFails, SyncAborts, Fault, Goto, tables, call, digest, bounds
<1>5. ASSUME NEW j \in Jobs, NEW u \in Users, LoadRules(j, u) PROVE TypeOK'
  <2>1. \A k \in Jobs : pc[k] # "idle" => run[k] \in Runs
    BY DEF RunInv
  <2>2. \A k \in Jobs : u \in whom[k] => run[k] \in Runs
    BY <2>1 DEF CallInv
  <2>3. overlap' \in SUBSET (Users \X Runs \X Runs)
    BY <1>5, <2>1, <2>2 DEF LoadRules
  <2> QED
    BY <1>5, <2>3 DEF LoadRules, Goto, tables, digest, bounds
<1>6. ASSUME NEW j \in Jobs, NEW u \in Users, LoadFails(j, u) PROVE TypeOK'
  BY <1>6 DEF LoadFails, Fault, tables, call, digest
<1>7. ASSUME NEW j \in Jobs, NEW r \in Thresholds, NEW alarming \in BOOLEAN, Examine(j, r, alarming)
      PROVE TypeOK'
  BY <1>7 DEF Examine, Breaches, tables, digest, bounds
<1>8. ASSUME NEW j \in Jobs, NEW r \in Thresholds, ExamineFails(j, r) PROVE TypeOK'
  BY <1>8 DEF ExamineFails, Fault, tables, digest
<1>9. ASSUME NEW j \in Jobs, NEW r \in Thresholds, NEW type \in AlertType, Ask(j, r, type)
      PROVE TypeOK'
  BY <1>9 DEF Ask, tables, digest, bounds
<1>10. ASSUME NEW j \in Jobs, AskFails(j) PROVE TypeOK'
  BY <1>10 DEF AskFails, Fault, tables, digest
<1>11. ASSUME NEW j \in Jobs, Insert(j) PROVE TypeOK'
  BY <1>11 DEF Insert, EndCall, RaisedAs, Goto, digest, bounds
<1>12. ASSUME NEW j \in Jobs, InsertFails(j) PROVE TypeOK'
  BY <1>12 DEF InsertFails, EndCall, Fault, Goto, tables, digest
<1>13. ASSUME NEW j \in Jobs, EndRun(j) PROVE TypeOK'
  BY <1>13 DEF EndRun, Goto, tables, call, digest, bounds
<1>14. CASE StartDigest
  BY <1>14 DEF StartDigest, tables, call, bounds
<1>15. CASE ReadPending
  BY <1>15 DEF ReadPending, DigestUsers, Pending, tables, call, bounds
<1>16. ASSUME NEW u \in Users, NEW copies \in 1 .. 2, SendWorks(u, copies) PROVE TypeOK'
  <2>1. mailed' \in [Alert -> 0 .. 2]
    BY <1>16, DeliverType DEF SendWorks
  <2> QED
    BY <1>16, <2>1 DEF SendWorks, Letter, tables, call, bounds
<1>17. ASSUME NEW u \in Users, NEW copies \in 0 .. 2, SendFails(u, copies) PROVE TypeOK'
  <2>1. mailed' \in [Alert -> 0 .. 2]
    BY <1>17, DeliverType DEF SendFails
  <2> QED
    BY <1>17, <2>1 DEF SendFails, Letter, tables, call, bounds
<1>18. CASE MarkSent
  BY <1>18 DEF MarkSent, call, bounds
<1>19. CASE MarkFails
  BY <1>19 DEF MarkFails, Marked, Fault, tables, call
<1>20. CASE EndDigest
  BY <1>20 DEF EndDigest, tables, call, bounds
<1>21. CASE Crash
  BY <1>21 DEF Crash, Marked, Fault, tables
<1>22. ASSUME NEW i \in Alert, Dismiss(i) PROVE TypeOK'
  BY <1>22 DEF Dismiss, call, digest, bounds
<1>23. ASSUME NEW u \in Users, NEW f \in Frequency \cup {"off"}, SetPref(u, f) PROVE TypeOK'
  BY <1>23 DEF SetPref, UpdateUser, Change, call, digest
<1>24. ASSUME NEW r \in Thresholds, CreateThreshold(r) \/ DeleteThreshold(r) PROVE TypeOK'
  BY <1>24 DEF CreateThreshold, DeleteThreshold, Change, call, digest
<1>25. ASSUME NEW r \in Thresholds, NEW s \in Thresholds, UpdateThreshold(r, s) PROVE TypeOK'
  BY <1>25 DEF UpdateThreshold, Change, call, digest
<1>26. CASE Disconnect \/ Connect \/ Login
  <2>1. Change /\ UNCHANGED <<rules, pref>>
    BY <1>26 DEF Disconnect, Connect, Login
  <2>2. status' \in {"ready", "syncing", "not_connected"} /\ token' \in BOOLEAN
    BY <1>26 DEF Disconnect, Connect, Login
  <2> QED
    BY <2>1, <2>2 DEF Change, call, digest
<1>27. CASE UNCHANGED vars
  BY <1>27 DEF vars, tables, call, digest, bounds
<1>28. ASSUME NEW j \in Jobs, JobStep(j) PROVE TypeOK'
  BY <1>3, <1>4, <1>5, <1>6, <1>7, <1>8, <1>9, <1>10, <1>11, <1>12, <1>13, <1>28 DEF JobStep
<1>29. CASE DigestStep
  BY <1>15, <1>16, <1>17, <1>18, <1>19, <1>20, <1>29 DEF DigestStep
<1>30. CASE Request
  BY <1>22, <1>23, <1>24, <1>25, <1>26, <1>30 DEF Request
<1> QED
  BY <1>1, <1>2, <1>14, <1>21, <1>27, <1>28, <1>29, <1>30 DEF Next

-----------------------------------------------------------------------------
(* The digest, requests and stored batches leave every job where it is.    *)
LEMMA OthersKeepJobs ==
  ASSUME TypeOK,
         \/ StartDigest
         \/ DigestStep
         \/ Request
         \/ \E j \in Jobs, p \in Products, qty \in 0 .. MaxQty : Store(j, p, qty)
         \/ UNCHANGED vars
  PROVE  UNCHANGED <<pc, run, users, call, runs, overlap>>
<1>1. CASE StartDigest
  BY <1>1 DEF StartDigest, bounds
<1>2. CASE DigestStep
  BY <1>2 DEF DigestStep, ReadPending, SendWorks, SendFails, MarkSent, MarkFails, EndDigest, bounds
<1>3. CASE Request
  BY <1>3 DEF Request, Dismiss, SetPref, UpdateUser, CreateThreshold, DeleteThreshold, UpdateThreshold,
              Disconnect, Connect, Login, Change, bounds
<1>4. CASE \E j \in Jobs, p \in Products, qty \in 0 .. MaxQty : Store(j, p, qty)
  BY <1>4 DEF Store, bounds
<1>5. CASE UNCHANGED vars
  BY <1>5 DEF vars, bounds
<1> QED
  BY <1>1, <1>2, <1>3, <1>4, <1>5

(* A job enters and leaves a call as a whole.                              *)
LEMMA CallInvariance == TypeOK /\ CallInv /\ [Next]_vars => CallInv'
<1> SUFFICES ASSUME TypeOK, CallInv, [Next]_vars PROVE CallInv'
  OBVIOUS
<1> USE DEF CallInv, TypeOK
<1>1. ASSUME NEW j \in Jobs, List(j) PROVE CallInv'
  BY <1>1 DEF List, Goto, call
<1>2. ASSUME NEW j \in Jobs, SyncBegin(j) \/ SyncEnd(j) PROVE CallInv'
  BY <1>2 DEF SyncBegin, SyncEnd, Goto, call
<1>3. ASSUME NEW j \in Jobs, SyncFails(j) \/ SyncAborts(j) PROVE CallInv'
  BY <1>3 DEF SyncFails, SyncAborts, Fault, Goto, call
<1>4. ASSUME NEW j \in Jobs, NEW u \in Users, LoadRules(j, u) PROVE CallInv'
  BY <1>4 DEF LoadRules, Goto
<1>5. ASSUME NEW j \in Jobs, NEW u \in Users, LoadFails(j, u) PROVE CallInv'
  BY <1>5 DEF LoadFails, call
<1>6. ASSUME NEW j \in Jobs, NEW r \in Thresholds, NEW alarming \in BOOLEAN, Examine(j, r, alarming)
      PROVE CallInv'
  BY <1>6 DEF Examine, Breaches
<1>7. ASSUME NEW j \in Jobs, NEW r \in Thresholds, ExamineFails(j, r) PROVE CallInv'
  BY <1>7 DEF ExamineFails
<1>8. ASSUME NEW j \in Jobs, NEW r \in Thresholds, NEW type \in AlertType, Ask(j, r, type)
      PROVE CallInv'
  BY <1>8 DEF Ask
<1>9. ASSUME NEW j \in Jobs, AskFails(j) PROVE CallInv'
  BY <1>9 DEF AskFails
<1>10. ASSUME NEW j \in Jobs, EndCall(j), UNCHANGED <<todo, asking>> PROVE CallInv'
  BY <1>10 DEF EndCall, Goto
<1>11. ASSUME NEW j \in Jobs, EndRun(j) PROVE CallInv'
  BY <1>11 DEF EndRun, Goto, call
<1>12. CASE Crash
  BY <1>12 DEF Crash
<1>13. CASE UNCHANGED <<pc, run, users, call, runs, overlap>>
  BY <1>13 DEF call
<1>14. ASSUME NEW j \in Jobs, JobStep(j) PROVE CallInv'
  BY <1>2, <1>3, <1>4, <1>5, <1>6, <1>7, <1>8, <1>9, <1>10, <1>11, <1>14
  DEF JobStep, Insert, InsertFails
<1> QED
  BY <1>1, <1>12, <1>13, <1>14, OthersKeepJobs DEF Next

(* No run number is given out twice.                                       *)
LEMMA RunInvariance == TypeOK /\ RunInv /\ [Next]_vars => RunInv'
<1> SUFFICES ASSUME TypeOK, RunInv, [Next]_vars PROVE RunInv'
  OBVIOUS
<1> USE DEF RunInv, TypeOK, Goto
<1>1. ASSUME NEW j \in Jobs, List(j) PROVE RunInv'
  BY <1>1, AlertFlowAssumption DEF List
<1>2. ASSUME NEW j \in Jobs, SyncBegin(j) \/ SyncEnd(j) PROVE RunInv'
  BY <1>2 DEF SyncBegin, SyncEnd, bounds
<1>3. ASSUME NEW j \in Jobs, SyncFails(j) \/ SyncAborts(j) PROVE RunInv'
  BY <1>3 DEF SyncFails, SyncAborts, bounds
<1>4. ASSUME NEW j \in Jobs, NEW u \in Users, LoadRules(j, u) PROVE RunInv'
  BY <1>4 DEF LoadRules, bounds
<1>5. ASSUME NEW j \in Jobs, EndCall(j), UNCHANGED <<run, runs>> PROVE RunInv'
  BY <1>5 DEF EndCall
<1>6. ASSUME NEW j \in Jobs, EndRun(j) PROVE RunInv'
  BY <1>6 DEF EndRun, bounds
<1>7. CASE Crash
  BY <1>7 DEF Crash
<1>8. CASE UNCHANGED <<pc, run, runs>>
  BY <1>8
<1>9. ASSUME NEW j \in Jobs, JobStep(j) PROVE RunInv'
  BY <1>2, <1>3, <1>4, <1>5, <1>6, <1>8, <1>9
  DEF JobStep, LoadFails, Examine, ExamineFails, Ask, AskFails, Insert, InsertFails, bounds
<1> QED
  BY <1>1, <1>7, <1>8, <1>9, OthersKeepJobs DEF Next

-----------------------------------------------------------------------------
(* Only an insert brings rows into being or makes them pending.            *)
LEMMA OnlyInsertRaises ==
  ASSUME TypeOK, DigestInv, [Next]_vars,
         \A j \in Jobs : ~Insert(j)
  PROVE  \A i \in Alert : /\ state[i] = "none" <=> state'[i] = "none"
                          /\ state'[i] = "pending" => state[i] = "pending"
<1> USE DEF TypeOK
<1>1. CASE UNCHANGED state
  BY <1>1
<1>2. CASE MarkSent
  BY <1>2 DEF MarkSent, DigestInv, Marked
<1>3. ASSUME NEW i \in Alert, Dismiss(i)
      PROVE  \A k \in Alert : /\ state[k] = "none" <=> state'[k] = "none"
                              /\ state'[k] = "pending" => state[k] = "pending"
  BY <1>3 DEF Dismiss
<1>4. ASSUME NEW j \in Jobs, JobStep(j) PROVE UNCHANGED state
  BY <1>4 DEF JobStep, SyncBegin, SyncEnd, SyncFails, SyncAborts, LoadRules, LoadFails,
                  Examine,
              ExamineFails, Ask, AskFails, InsertFails, EndRun, tables
<1>5. CASE DigestStep
  <2>1. CASE \/ ReadPending \/ MarkFails \/ EndDigest
             \/ \E u \in Users, copies \in 0 .. 2 : SendWorks(u, copies) \/ SendFails(u, copies)
    BY <1>1, <2>1 DEF ReadPending, MarkFails, EndDigest, SendWorks, SendFails, tables
  <2> QED
    BY <1>2, <1>5, <2>1 DEF DigestStep
<1>6. CASE Request
  BY <1>1, <1>3, <1>6 DEF Request, SetPref, UpdateUser, CreateThreshold, DeleteThreshold, UpdateThreshold,
  Disconnect, Connect, Login, Change
<1>7. CASE \/ \E j \in Jobs : List(j)
           \/ \E j \in Jobs, p \in Products, qty \in 0 .. MaxQty : Store(j, p, qty)
           \/ StartDigest \/ Crash \/ UNCHANGED vars
  BY <1>1, <1>7 DEF List, Store, StartDigest, Crash, tables, vars
<1> QED
  BY <1>1, <1>4, <1>5, <1>6, <1>7 DEF Next

(* What an insert writes.                                                  *)
LEMMA InsertWrites ==
  ASSUME TypeOK, CallInv, NEW j \in Jobs, Insert(j), NEW i \in Alert
  PROVE  \/ /\ i.run = run[j] /\ <<i.rule, i.type>> \in batch[j]
            /\ whom[j] = {UserOf(i)}
            /\ state'[i] = "pending"
         \/ /\ ~(i.run = run[j] /\ <<i.rule, i.type>> \in batch[j])
            /\ state'[i] = state[i]
<1>1. \E u \in Users : whom[j] = {u}
  BY DEF Insert, EndCall, CallInv
<1>2. <<i.rule, i.type>> \in batch[j] => i.rule.user \in whom[j]
  BY DEF CallInv
<1> QED
  BY <1>1, <1>2 DEF Insert, RaisedAs, UserOf, TypeOK

(* A run's rows appear only by its own insert, one user after the other.   *)
LEMMA FreshInvariance ==
  TypeOK /\ CallInv /\ RunInv /\ FreshInv /\ DigestInv /\ [Next]_vars => FreshInv'
<1> SUFFICES ASSUME TypeOK, CallInv, RunInv, FreshInv, DigestInv, [Next]_vars PROVE FreshInv'
  OBVIOUS
<1> USE DEF TypeOK, Goto
<1>1. ASSUME NEW j \in Jobs, Insert(j) PROVE FreshInv'
  <2>1. /\ runs' = runs /\ run' = run /\ users' = users
        /\ pc[j] = "call" /\ pc' = [pc EXCEPT ![j] = "users"]
        /\ whom' = [whom EXCEPT ![j] = {}]
    BY <1>1 DEF Insert, EndCall, bounds
  <2>2. run[j] \in 1 .. runs
    BY <2>1 DEF RunInv
  <2>3. ASSUME NEW i \in Alert, i.run > runs PROVE state'[i] = "none"
    <3>1. i.run # run[j]
      BY <2>2, <2>3, AlertFlowAssumption DEF Alert, Runs
    <3>2. state[i] = "none"
      BY <2>3 DEF FreshInv
    <3> QED
      BY <1>1, <3>1, <3>2, InsertWrites
  <2>4. ASSUME NEW k \in Jobs, NEW i \in Alert, i.run = run[k], pc[k] # "idle", state[i] = "none",
               k # j \/ UserOf(i) \in users[j]
        PROVE  state'[i] = "none"
    <3>1. k # j => run[k] # run[j]
      BY <2>1, <2>4 DEF RunInv
    <3>2. users[j] \cap whom[j] = {}
      BY DEF FreshInv
    <3>3. ~(i.run = run[j] /\ whom[j] = {UserOf(i)})
      BY <2>4, <3>1, <3>2
    <3>4. state'[i] = state[i]
      BY <1>1, <3>3, InsertWrites
    <3> QED
      BY <2>4, <3>4
  <2>5. ASSUME NEW k \in Jobs, pc'[k] \in {"listed", "sync"}, NEW i \in Alert, i.run = run'[k]
        PROVE  state'[i] = "none"
    BY <2>1, <2>4, <2>5 DEF FreshInv
  <2>6. ASSUME NEW k \in Jobs, pc'[k] \in {"users", "call"}, NEW i \in Alert, i.run = run'[k],
               UserOf(i) \in users'[k] \cup whom'[k]
        PROVE  state'[i] = "none"
    <3>1. k = j => UserOf(i) \in users[j]
      BY <2>1, <2>6
    <3>2. pc[k] \in {"users", "call"} /\ i.run = run[k] /\ UserOf(i) \in users[k] \cup whom[k]
      BY <2>1, <2>6
    <3>3. state[i] = "none"
      BY <3>2 DEF FreshInv
    <3> QED
      BY <2>4, <3>1, <3>2, <3>3
  <2>7. \A k \in Jobs : users'[k] \cap whom'[k] = {}
    BY <2>1 DEF FreshInv
  <2>8. \A i \in Alert : i.run > runs' => state'[i] = "none"
    BY <2>1, <2>3
  <2> QED
    BY <2>5, <2>6, <2>7, <2>8 DEF FreshInv
<1>2. CASE \A j \in Jobs : ~Insert(j)
  <2>0. \A i \in Alert : state[i] = "none" => state'[i] = "none"
    BY <1>2, OnlyInsertRaises
  <2> USE DEF FreshInv
  <2>1. ASSUME NEW j \in Jobs, List(j) PROVE FreshInv'
    <3>1. /\ runs' = runs + 1 /\ run' = [run EXCEPT ![j] = runs + 1]
          /\ pc[j] = "idle" /\ pc' = [pc EXCEPT ![j] = "listed"]
          /\ users' = users /\ whom' = whom
      BY <2>1 DEF List, call
    <3>2. \A i \in Alert : i.run > runs' => i.run > runs
      BY <3>1, AlertFlowAssumption DEF Alert, Runs
    <3>3. \A i \in Alert : i.run = runs + 1 => state[i] = "none"
      BY AlertFlowAssumption DEF Alert, Runs
    <3> QED
      BY <2>0, <3>1, <3>2, <3>3
  <2>2. ASSUME NEW j \in Jobs, SyncBegin(j) \/ SyncEnd(j) PROVE FreshInv'
    BY <2>0, <2>2 DEF SyncBegin, SyncEnd, CallInv, call, bounds
  <2>3. ASSUME NEW j \in Jobs, SyncFails(j) \/ SyncAborts(j) PROVE FreshInv'
    BY <2>0, <2>3 DEF SyncFails, SyncAborts, CallInv, call, bounds
  <2>4. ASSUME NEW j \in Jobs, NEW u \in Users, LoadRules(j, u) PROVE FreshInv'
    BY <2>0, <2>4 DEF LoadRules, CallInv, bounds
  <2>5. ASSUME NEW j \in Jobs, NEW u \in Users, LoadFails(j, u) PROVE FreshInv'
    BY <2>0, <2>5 DEF LoadFails, call
  <2>6. ASSUME NEW j \in Jobs, InsertFails(j) PROVE FreshInv'
    BY <2>0, <2>6 DEF InsertFails, EndCall
  <2>7. ASSUME NEW j \in Jobs, EndRun(j) PROVE FreshInv'
    BY <2>0, <2>7 DEF EndRun, call, bounds
  <2>8. CASE Crash
    BY <2>0, <2>8 DEF Crash
  <2>9. CASE UNCHANGED <<pc, run, users, whom, runs>>
    BY <2>0, <2>9
  <2>10. ASSUME NEW j \in Jobs, JobStep(j) PROVE FreshInv'
    BY <1>2, <2>2, <2>3, <2>4, <2>5, <2>6, <2>7, <2>9, <2>10
    DEF JobStep, Examine, ExamineFails, Ask, AskFails, bounds
  <2>11. CASE UNCHANGED <<pc, run, users, call, runs, overlap>>
    BY <2>9, <2>11 DEF call
  <2> QED
    BY <2>1, <2>8, <2>10, <2>11, OthersKeepJobs DEF Next
<1> QED
  BY <1>1, <1>2

-----------------------------------------------------------------------------
(* A batch is only blind to what overlapping calls insert.                 *)
LEMMA OverlapInvariance ==
  TypeOK /\ CallInv /\ RunInv /\ OverlapInv /\ DigestInv /\ [Next]_vars => OverlapInv'
<1> SUFFICES ASSUME TypeOK, CallInv, RunInv, OverlapInv, DigestInv, [Next]_vars PROVE OverlapInv'
  OBVIOUS
<1> USE DEF TypeOK, Goto
<1>1. ASSUME NEW j \in Jobs, Insert(j) PROVE OverlapInv'
  <2>1. /\ run' = run /\ overlap' = overlap
        /\ pc[j] = "call"
        /\ whom' = [whom EXCEPT ![j] = {}]
        /\ batch' = [batch EXCEPT ![j] = {}]
    BY <1>1 DEF Insert, EndCall
  <2>2. ASSUME NEW k \in Jobs, NEW l \in Jobs, NEW u \in Users,
               k # l, u \in whom'[k], u \in whom'[l]
        PROVE  <<u, run'[k], run'[l]>> \in overlap'
    BY <2>1, <2>2 DEF OverlapInv
  <2>3. ASSUME NEW k \in Jobs, NEW a \in Thresholds \X AlertType, NEW i \in Alert,
               a \in batch'[k], state'[i] = "pending",
               i.rule.user = a[1].user, i.rule.product = a[1].product, i.type = a[2],
               i.run # run'[k]
        PROVE  /\ <<a[1].user, i.run, run'[k]>> \in overlap'
               /\ <<a[1].user, run'[k], i.run>> \in overlap'
    <3>1. k # j /\ a \in batch[k] /\ i.run # run[k]
      BY <2>1, <2>3
    <3>2. CASE state'[i] = state[i]
      BY <2>1, <2>3, <3>1, <3>2 DEF OverlapInv
    <3>3. CASE i.run = run[j] /\ whom[j] = {UserOf(i)}
      <4>1. a[1].user \in whom[k] /\ a[1].user \in whom[j]
        BY <2>3, <3>1, <3>3 DEF CallInv, UserOf
      <4>2. a[1].user \in Users
        BY <4>1
      <4>3. /\ <<a[1].user, run[j], run[k]>> \in overlap
            /\ <<a[1].user, run[k], run[j]>> \in overlap
        BY <3>1, <4>1, <4>2 DEF OverlapInv
      <4> QED
        BY <2>1, <3>3, <4>3
    <3> QED
      BY <1>1, <3>2, <3>3, InsertWrites
  <2> QED
    BY <2>2, <2>3 DEF OverlapInv
<1>2. CASE \A j \in Jobs : ~Insert(j)
  <2>0. \A i \in Alert : state'[i] = "pending" => state[i] = "pending"
    BY <1>2, OnlyInsertRaises
  <2>1. ASSUME NEW j \in Jobs, List(j) PROVE OverlapInv'
    <3>1. /\ UNCHANGED <<whom, batch, overlap>>
          /\ run' = [run EXCEPT ![j] = runs + 1]
      BY <2>1 DEF List, call
    <3>2. whom[j] = {} /\ batch[j] = {}
      BY <2>1 DEF List, CallInv
    <3> QED
      BY <2>0, <3>1, <3>2 DEF OverlapInv
  <2>2. ASSUME NEW j \in Jobs, SyncFails(j) \/ SyncAborts(j) \/ EndRun(j) PROVE OverlapInv'
    <3>1. /\ UNCHANGED <<whom, batch, overlap>>
          /\ run' = [run EXCEPT ![j] = 0]
      BY <2>2 DEF SyncFails, SyncAborts, EndRun, call
    <3>2. whom[j] = {} /\ batch[j] = {}
      BY <2>2 DEF SyncFails, SyncAborts, EndRun, CallInv
    <3> QED
      BY <2>0, <3>1, <3>2 DEF OverlapInv
  <2>3. ASSUME NEW j \in Jobs, NEW u \in Users, LoadRules(j, u) PROVE OverlapInv'
    <3>1. /\ run' = run /\ batch' = batch /\ overlap \subseteq overlap'
          /\ pc[j] = "users" /\ whom' = [whom EXCEPT ![j] = {u}]
      BY <2>3 DEF LoadRules
    <3>2. \A k \in Jobs \ {j} : u \in whom[k] =>
             <<u, run[j], run[k]>> \in overlap' /\ <<u, run[k], run[j]>> \in overlap'
      BY <2>3 DEF LoadRules
    <3>3. batch[j] = {}
      BY <3>1 DEF CallInv
    <3> QED
      BY <2>0, <3>1, <3>2, <3>3 DEF OverlapInv
  <2>4. ASSUME NEW j \in Jobs, NEW r \in Thresholds, NEW type \in AlertType, Ask(j, r, type)
        PROVE OverlapInv'
    <3>1. /\ UNCHANGED <<state, run, whom, overlap>>
          /\ batch' = [batch EXCEPT ![j] =
                         IF HasPendingAlert(r.user, r.product, type)
                         THEN @ ELSE @ \cup {<<r, type>>}]
      BY <2>4 DEF Ask, tables
    <3>2. ASSUME NEW k \in Jobs, NEW a \in Thresholds \X AlertType, NEW i \in Alert,
                 a \in batch'[k], state[i] = "pending",
                 i.rule.user = a[1].user, i.rule.product = a[1].product, i.type = a[2]
          PROVE  a \in batch[k]
      <4>1. CASE HasPendingAlert(r.user, r.product, type)
        BY <3>1, <3>2, <4>1
      <4>2. CASE ~HasPendingAlert(r.user, r.product, type)
        <5>1. a # <<r, type>>
          BY <3>2, <4>2 DEF HasPendingAlert
        <5> QED
          BY <3>1, <3>2, <4>2, <5>1
      <4> QED
        BY <4>1, <4>2
    <3> QED
      BY <3>1, <3>2 DEF OverlapInv
  <2>5. ASSUME NEW j \in Jobs, InsertFails(j) PROVE OverlapInv'
    BY <2>0, <2>5 DEF OverlapInv, InsertFails, EndCall
  <2>6. CASE Crash
    BY <2>0, <2>6 DEF OverlapInv, Crash
  <2>7. CASE UNCHANGED <<run, whom, batch, overlap>>
    BY <2>0, <2>7 DEF OverlapInv
  <2>8. ASSUME NEW j \in Jobs, JobStep(j) PROVE OverlapInv'
    BY <1>2, <2>2, <2>3, <2>4, <2>5, <2>7, <2>8
    DEF JobStep, SyncBegin, SyncEnd, LoadFails, Examine, ExamineFails, AskFails, call
  <2>9. CASE UNCHANGED <<pc, run, users, call, runs, overlap>>
    BY <2>7, <2>9 DEF call
  <2> QED
    BY <2>1, <2>6, <2>8, <2>9, OthersKeepJobs DEF Next
<1> QED
  BY <1>1, <1>2

(* Hence pending rows about one thing come from overlapping calls.         *)
LEMMA DuplicateInvariance ==
  TypeOK /\ CallInv /\ OverlapInv /\ DuplicatesOnlyFromOverlap /\ DigestInv /\ [Next]_vars
    => DuplicatesOnlyFromOverlap'
<1> SUFFICES ASSUME TypeOK, CallInv, OverlapInv, DuplicatesOnlyFromOverlap, DigestInv, [Next]_vars,
                    NEW i \in Alert, NEW k \in Alert,
                    state'[i] = "pending", state'[k] = "pending", SameKey(i, k), i.run # k.run
             PROVE  <<UserOf(i), i.run, k.run>> \in overlap'
  BY DEF DuplicatesOnlyFromOverlap
<1>1. overlap \subseteq overlap'
  <2>1. ASSUME NEW j \in Jobs, List(j) \/ JobStep(j) PROVE overlap \subseteq overlap'
    BY <2>1 DEF List, JobStep, SyncBegin, SyncEnd, SyncFails, SyncAborts, LoadRules, LoadFails,
                Examine, ExamineFails,
                Ask, AskFails, Insert, InsertFails, EndRun
  <2> QED
    BY <2>1, OthersKeepJobs DEF Next, Crash
<1>2. CASE state[i] = "pending" /\ state[k] = "pending"
  BY <1>1, <1>2 DEF DuplicatesOnlyFromOverlap
<1>3. ASSUME NEW j \in Jobs, Insert(j) PROVE <<UserOf(i), i.run, k.run>> \in overlap'
  <2>1. i.rule \in Thresholds /\ i.type \in AlertType /\ k.rule \in Thresholds /\ k.type \in AlertType
    BY DEF Alert
  <2>2. CASE state'[i] # state[i]
    <3>1. i.run = run[j] /\ <<i.rule, i.type>> \in batch[j]
      BY <1>3, <2>2, InsertWrites
    <3>2. state[k] = "pending"
      BY <1>3, <3>1, InsertWrites
    <3> DEFINE a == <<i.rule, i.type>>
    <3>3. /\ a \in Thresholds \X AlertType /\ a \in batch[j]
          /\ k.rule.user = a[1].user /\ k.rule.product = a[1].product /\ k.type = a[2]
          /\ k.run # run[j]
      BY <2>1, <3>1 DEF SameKey
    <3>4. /\ <<a[1].user, k.run, run[j]>> \in overlap
          /\ <<a[1].user, run[j], k.run>> \in overlap
      BY <3>2, <3>3 DEF OverlapInv
    <3> QED
      BY <1>1, <3>1, <3>4 DEF SameKey, UserOf
  <2>3. CASE state'[k] # state[k]
    <3>1. k.run = run[j] /\ <<k.rule, k.type>> \in batch[j]
      BY <1>3, <2>3, InsertWrites
    <3>2. state[i] = "pending"
      BY <1>3, <3>1, InsertWrites
    <3> DEFINE a == <<k.rule, k.type>>
    <3>3. /\ a \in Thresholds \X AlertType /\ a \in batch[j]
          /\ i.rule.user = a[1].user /\ i.rule.product = a[1].product /\ i.type = a[2]
          /\ i.run # run[j]
      BY <2>1, <3>1 DEF SameKey
    <3>4. /\ <<a[1].user, i.run, run[j]>> \in overlap
          /\ <<a[1].user, run[j], i.run>> \in overlap
      BY <3>2, <3>3 DEF OverlapInv
    <3> QED
      BY <1>1, <3>1, <3>4 DEF SameKey, UserOf
  <2> QED
    BY <1>2, <2>2, <2>3
<1> QED
  BY <1>2, <1>3, OnlyInsertRaises

-----------------------------------------------------------------------------
(* An insert writes rows that did not exist.                               *)
LEMMA InsertIsFresh ==
  ASSUME TypeOK, CallInv, FreshInv, NEW j \in Jobs, Insert(j), NEW i \in Alert
  PROVE  state'[i] = state[i] \/ (state[i] = "none" /\ state'[i] = "pending")
<1>1. pc[j] = "call"
  BY DEF Insert, EndCall
<1>2. CASE i.run = run[j] /\ whom[j] = {UserOf(i)} /\ state'[i] = "pending"
  <2>1. UserOf(i) \in users[j] \cup whom[j]
    BY <1>2
  <2> QED
    BY <1>1, <1>2, <2>1 DEF FreshInv
<1> QED
  BY <1>2, InsertWrites

(* The digest's bookkeeping survives every step, a dismissal between the   *)
(* mail and its mark included.                                             *)
LEMMA DigestInvariance ==
  TypeOK /\ CallInv /\ FreshInv /\ DigestInv /\ [Next]_vars => DigestInv'
<1> SUFFICES ASSUME TypeOK, CallInv, FreshInv, DigestInv, [Next]_vars PROVE DigestInv'
  OBVIOUS
<1> USE DEF TypeOK
<1>1. ASSUME UNCHANGED <<digest, mailed, lost>>,
             \A i \in Alert :
                \/ state'[i] = state[i]
                \/ state[i] = "none" /\ state'[i] = "pending"
                \/ state[i] # "none" /\ state'[i] = "dismissed"
      PROVE  DigestInv'
  <2>1. Marked' = Marked
    BY <1>1 DEF Marked, digest
  <2> QED
    BY <1>1, <2>1 DEF DigestInv, digest
<1>2. ASSUME NEW j \in Jobs, List(j) \/ JobStep(j) PROVE DigestInv'
  <2>1. UNCHANGED <<digest, mailed, lost>>
    BY <1>2 DEF List, JobStep, SyncBegin, SyncEnd, SyncFails, SyncAborts, LoadRules, LoadFails,
                Examine, ExamineFails,
                Ask, AskFails, Insert, InsertFails, EndRun
  <2>2. Insert(j) \/ UNCHANGED state
    BY <1>2 DEF List, JobStep, SyncBegin, SyncEnd, SyncFails, SyncAborts, LoadRules, LoadFails,
                Examine, ExamineFails,
                Ask, AskFails, InsertFails, EndRun, tables
  <2> QED
    <3>1. CASE Insert(j)
      BY <1>1, <2>1, <3>1, InsertIsFresh
    <3>2. CASE UNCHANGED state
      BY <1>1, <2>1, <3>2
    <3> QED
      BY <2>2, <3>1, <3>2
<1>3. CASE StartDigest
  BY <1>3 DEF StartDigest, DigestInv, Marked, tables
<1>4. CASE ReadPending
  BY <1>4 DEF ReadPending, DigestUsers, DigestInv, Marked, Pending, tables
<1>5. ASSUME NEW u \in Users, NEW copies \in 1 .. 2, SendWorks(u, copies) PROVE DigestInv'
  <2>1. /\ dpc = "send" /\ dpc' = "mark" /\ u \in audience /\ audience' = audience \ {u}
        /\ carried' = carried /\ reader' = {u} /\ state' = state /\ lost \subseteq lost'
    BY <1>5 DEF SendWorks, tables
  <2>2. \A i \in Alert :
           \/ UserOf(i) = u /\ i \in carried /\ mailed'[i] > 0
           \/ ~(UserOf(i) = u /\ i \in carried) /\ mailed'[i] = mailed[i]
    <3> SUFFICES ASSUME NEW i \in Alert
                 PROVE  \/ UserOf(i) = u /\ i \in carried /\ mailed'[i] > 0
                        \/ ~(UserOf(i) = u /\ i \in carried) /\ mailed'[i] = mailed[i]
      OBVIOUS
    <3>1. mailed'[i] = IF i \notin Letter(u) THEN mailed[i]
                       ELSE IF mailed[i] + copies > 2 THEN 2 ELSE mailed[i] + copies
      BY <1>5 DEF SendWorks, Deliver
    <3>2. mailed[i] \in 0 .. 2
      OBVIOUS
    <3>3. i \in Letter(u) <=> UserOf(i) = u /\ i \in carried
      BY DEF Letter
    <3> QED
      BY <3>1, <3>2, <3>3
  <2>3. Marked' = Letter(u) /\ Marked = {}
    BY <2>1 DEF Marked, Letter, DigestInv
  <2>4. \A i \in Alert : mailed'[i] > 0 =>
           /\ state'[i] # "none"
           /\ i \in lost' \/ state'[i] \in {"sent", "dismissed"} \/ i \in Marked'
    BY <2>1, <2>2, <2>3 DEF DigestInv, Letter
  <2>5. \A i \in Marked' : mailed'[i] > 0
    BY <2>2, <2>3 DEF Letter
  <2>6. \A i \in carried' : UserOf(i) \in audience' => mailed'[i] = 0 \/ i \in lost'
    BY <2>1, <2>2 DEF DigestInv
  <2>7. \A i \in carried' : state'[i] # "none"
    BY <2>1 DEF DigestInv
  <2> QED
    BY <2>1, <2>4, <2>5, <2>6, <2>7 DEF DigestInv
<1>6. ASSUME NEW u \in Users, NEW copies \in 0 .. 2, SendFails(u, copies) PROVE DigestInv'
  <2>1. /\ dpc = "send" /\ dpc' = dpc /\ u \in audience /\ audience' = audience \ {u}
        /\ carried' = carried /\ reader' = reader /\ state' = state /\ lost \subseteq lost'
    BY <1>6 DEF SendFails, tables
  <2>2. \A i \in Alert :
           \/ i \in Letter(u) /\ i \in lost'
           \/ mailed'[i] = mailed[i]
    BY <1>6 DEF SendFails, Deliver
  <2>3. Marked' = {} /\ Marked = {}
    BY <2>1 DEF Marked, DigestInv
  <2> QED
    BY <2>1, <2>2, <2>3 DEF DigestInv, Letter
<1>7. CASE MarkSent
  <2>1. /\ dpc' = "send" /\ reader' = {} /\ UNCHANGED <<audience, carried, mailed, lost>>
        /\ state' = [i \in Alert |-> IF i \in Marked THEN "sent" ELSE state[i]]
    BY <1>7 DEF MarkSent
  <2>2. Marked' = {}
    BY <2>1 DEF Marked
  <2> QED
    BY <2>1, <2>2 DEF DigestInv
<1>8. CASE MarkFails
  <2>1. Marked' = {}
    BY <1>8 DEF MarkFails, Marked
  <2> QED
    BY <1>8, <2>1 DEF MarkFails, DigestInv, tables
<1>9. CASE EndDigest
  <2>1. Marked' = {} /\ Marked = {}
    BY <1>9 DEF EndDigest, Marked, DigestInv
  <2> QED
    BY <1>9, <2>1 DEF EndDigest, DigestInv, tables
<1>10. CASE Crash
  <2>1. Marked' = {} /\ (dpc # "mark" => Marked = {})
    BY <1>10 DEF Crash, Marked, DigestInv
  <2> QED
    BY <1>10, <2>1 DEF Crash, DigestInv, tables
<1>11. CASE Request
  <2>1. UNCHANGED <<digest, mailed, lost>>
    BY <1>11 DEF Request, Dismiss, SetPref, UpdateUser, CreateThreshold, DeleteThreshold, UpdateThreshold,
  Disconnect, Connect, Login, Change
  <2>2. (\E i \in Alert : Dismiss(i)) \/ UNCHANGED state
    BY <1>11 DEF Request, SetPref, UpdateUser, CreateThreshold, DeleteThreshold, UpdateThreshold,
  Disconnect, Connect, Login, Change
  <2>3. \A i \in Alert : state'[i] = state[i] \/ (state[i] # "none" /\ state'[i] = "dismissed")
    BY <2>2 DEF Dismiss
  <2> QED
    BY <1>1, <2>1, <2>3
<1>12. CASE (\E j \in Jobs, p \in Products, qty \in 0 .. MaxQty : Store(j, p, qty)) \/ UNCHANGED vars
  <2>1. UNCHANGED <<digest, mailed, lost, state>>
    BY <1>12 DEF Store, vars, tables
  <2> QED
    BY <1>1, <2>1
<1>13. CASE DigestStep
  BY <1>4, <1>5, <1>6, <1>7, <1>8, <1>9, <1>13 DEF DigestStep
<1> QED
  BY <1>2, <1>3, <1>10, <1>11, <1>12, <1>13 DEF Next

(* Only a letter is mailed, and what is in it was never mailed or is noted *)
(* as lost.                                                                *)
LEMMA RemailInvariance ==
  TypeOK /\ DigestInv /\ RemailOnlyAfterLostMark /\ [Next]_vars => RemailOnlyAfterLostMark'
<1> SUFFICES ASSUME TypeOK, DigestInv, RemailOnlyAfterLostMark, [Next]_vars
             PROVE  RemailOnlyAfterLostMark'
  OBVIOUS
<1> USE DEF TypeOK, RemailOnlyAfterLostMark
<1>1. CASE mailed' = mailed /\ lost \subseteq lost'
  BY <1>1
<1>2. ASSUME NEW u \in Users, NEW copies \in 1 .. 2, SendWorks(u, copies)
      PROVE  RemailOnlyAfterLostMark'
  <2>1. \A i \in Letter(u) : mailed[i] = 0 \/ i \in lost
    BY <1>2 DEF SendWorks, Letter, DigestInv
  <2>2. \A i \in Alert : mailed'[i] = mailed[i] \/ (i \in Letter(u) /\ mailed'[i] <= mailed[i] + copies)
    BY <1>2 DEF SendWorks, Deliver
  <2>3. lost \subseteq lost' /\ (copies > 1 => Letter(u) \subseteq lost')
    BY <1>2 DEF SendWorks
  <2>4. ASSUME NEW i \in Alert, mailed'[i] > 1 PROVE i \in lost'
    <3>1. mailed[i] \in 0 .. 2 /\ mailed[i] > 1 => i \in lost
      OBVIOUS
    <3>2. CASE mailed'[i] = mailed[i]
      BY <2>3, <2>4, <3>1, <3>2
    <3>3. CASE i \in Letter(u) /\ mailed'[i] <= mailed[i] + copies
      <4>1. CASE i \in lost
        BY <2>3, <4>1
      <4>2. CASE mailed[i] = 0
        <5>1. mailed'[i] \in 0 .. 2
          BY <1>2, DeliverType DEF SendWorks
        <5>2. copies > 1
          BY <2>4, <3>3, <4>2, <5>1
        <5> QED
          BY <2>3, <3>3, <5>2
      <4> QED
        BY <2>1, <3>3, <4>1, <4>2
    <3> QED
      BY <2>2, <3>2, <3>3
  <2> QED
    BY <2>4
<1>3. ASSUME NEW u \in Users, NEW copies \in 0 .. 2, SendFails(u, copies)
      PROVE  RemailOnlyAfterLostMark'
  <2>1. \A i \in Alert : mailed'[i] = mailed[i] \/ i \in lost'
    BY <1>3 DEF SendFails, Deliver
  <2>2. lost \subseteq lost'
    BY <1>3 DEF SendFails
  <2> QED
    BY <2>1, <2>2
<1>4. ASSUME NEW j \in Jobs, List(j) \/ JobStep(j) PROVE mailed' = mailed /\ lost' = lost
  BY <1>4 DEF List, JobStep, SyncBegin, SyncEnd, SyncFails, SyncAborts, LoadRules, LoadFails,
                Examine, ExamineFails,
              Ask, AskFails, Insert, InsertFails, EndRun
<1>5. CASE \/ StartDigest \/ ReadPending \/ MarkSent \/ MarkFails \/ EndDigest \/ Crash
           \/ UNCHANGED vars
  BY <1>1, <1>5 DEF StartDigest, ReadPending, MarkSent, MarkFails, EndDigest, Crash, vars
<1>6. CASE Request \/ \E j \in Jobs, p \in Products, qty \in 0 .. MaxQty : Store(j, p, qty)
  BY <1>1, <1>6 DEF Store, Request, Dismiss, SetPref, UpdateUser, CreateThreshold, DeleteThreshold,
                    UpdateThreshold, Disconnect, Connect, Login, Change
<1> QED
  BY <1>1, <1>2, <1>3, <1>4, <1>5, <1>6 DEF Next, DigestStep

-----------------------------------------------------------------------------
(* No row is ever deleted.                                                 *)
LEMMA RowsStay ==
  ASSUME TypeOK, CallInv, FreshInv, DigestInv, [Next]_vars, NEW i \in Alert, state[i] # "none"
  PROVE  state'[i] # "none"
<1>1. CASE \E j \in Jobs : Insert(j)
  BY <1>1, InsertIsFresh
<1>2. CASE \A j \in Jobs : ~Insert(j)
  BY <1>2, OnlyInsertRaises
<1> QED
  BY <1>1, <1>2

(* What a call has read it follows up, however its questions go.           *)
LEMMA ReadInvariance ==
  TypeOK /\ CallInv /\ FreshInv /\ DigestInv /\ ReadInv /\ [Next]_vars => ReadInv'
<1> DEFINE Kind(qty) == IF qty = 0 THEN "out_of_stock" ELSE "low_stock"
           Known(r, qty) == \E i \in Alert : /\ state[i] # "none"
                                             /\ SameKey(i, [run |-> 1, rule |-> r, type |-> Kind(qty)])
           Short(x) == x.rule.type = "quantity" /\ x.qty < x.rule.min /\ x.qty # NoSnapshot
<1> SUFFICES ASSUME TypeOK, CallInv, FreshInv, DigestInv, ReadInv, [Next]_vars,
                    NEW j \in Jobs, NEW x \in read'[j], Short(x)
             PROVE  <<x.rule, Kind(x.qty)>> \in asking'[j] \cup batch'[j] \/ Known(x.rule, x.qty)'
  BY DEF ReadInv
<1>1. ASSUME Known(x.rule, x.qty) PROVE Known(x.rule, x.qty)'
  <2>1. PICK i \in Alert : /\ state[i] # "none"
                           /\ SameKey(i, [run |-> 1, rule |-> x.rule, type |-> Kind(x.qty)])
    BY <1>1
  <2>2. state'[i] # "none"
    BY <2>1, RowsStay
  <2> QED
    BY <2>1, <2>2
<1>2. ASSUME x \in read[j]
      PROVE  <<x.rule, Kind(x.qty)>> \in asking[j] \cup batch[j] \/ Known(x.rule, x.qty)
  BY <1>2 DEF ReadInv
<1>3. CASE x \in read[j] /\ asking[j] \cup batch[j] \subseteq asking'[j] \cup batch'[j]
  BY <1>1, <1>2, <1>3
<1>4. CASE read'[j] = {}
  BY <1>4
<1> USE DEF TypeOK, Goto
<1>5. ASSUME NEW k \in Jobs, NEW r \in Thresholds, NEW alarming \in BOOLEAN, Examine(k, r, alarming)
      PROVE  <<x.rule, Kind(x.qty)>> \in asking'[j] \cup batch'[j] \/ Known(x.rule, x.qty)'
  <2>1. CASE j # k \/ x \in read[j]
    <3>1. x \in read[j] /\ asking[j] \cup batch[j] \subseteq asking'[j] \cup batch'[j]
      BY <1>5, <2>1 DEF Examine
    <3> QED
      BY <1>3, <3>1
  <2>2. CASE j = k /\ x \notin read[j]
    <3>1. x = [rule |-> r, qty |-> level[r.product], alarming |-> alarming]
      BY <1>5, <2>2 DEF Examine
    <3>2. Kind(x.qty) \in Breaches(r, x.qty, alarming)
      BY <3>1 DEF Breaches, Breached, BreachType, AlertType
    <3>3. asking'[j] = {r} \X Breaches(r, x.qty, alarming)
      BY <1>5, <2>2, <3>1 DEF Examine
    <3> QED
      BY <3>1, <3>2, <3>3
  <2> QED
    BY <2>1, <2>2
<1>6. ASSUME NEW k \in Jobs, NEW r \in Thresholds, NEW type \in AlertType, Ask(k, r, type)
      PROVE  <<x.rule, Kind(x.qty)>> \in asking'[j] \cup batch'[j] \/ Known(x.rule, x.qty)'
  <2>1. x \in read[j]
    BY <1>6 DEF Ask
  <2>2. CASE \/ j # k
             \/ <<x.rule, Kind(x.qty)>> # <<r, type>>
             \/ ~HasPendingAlert(r.user, r.product, type)
    <3>1. <<x.rule, Kind(x.qty)>> \in asking[j] \cup batch[j]
             => <<x.rule, Kind(x.qty)>> \in asking'[j] \cup batch'[j]
      BY <1>6, <2>2 DEF Ask
    <3> QED
      BY <1>1, <1>2, <2>1, <3>1
  <2>3. CASE /\ j = k /\ <<x.rule, Kind(x.qty)>> = <<r, type>>
             /\ HasPendingAlert(r.user, r.product, type)
    <3>1. x.rule = r /\ Kind(x.qty) = type
      BY <2>3
    <3>2. Known(x.rule, x.qty)
      BY <2>3, <3>1 DEF HasPendingAlert, SameKey
    <3> QED
      BY <1>1, <3>2
  <2> QED
    BY <2>2, <2>3
<1>7. ASSUME NEW k \in Jobs, AskFails(k)
      PROVE  <<x.rule, Kind(x.qty)>> \in asking'[j] \cup batch'[j] \/ Known(x.rule, x.qty)'
  <2>1. x \in read[j] /\ batch'[j] = batch[j]
    BY <1>7 DEF AskFails
  <2>2. j # k => asking'[j] = asking[j]
    BY <1>7 DEF AskFails
  <2>3. j = k => <<x.rule, Kind(x.qty)>> \notin asking[j]
    BY <1>7 DEF AskFails
  <2> QED
    BY <1>1, <1>2, <2>1, <2>2, <2>3
<1>8. ASSUME NEW k \in Jobs, EndCall(k), UNCHANGED asking
      PROVE  <<x.rule, Kind(x.qty)>> \in asking'[j] \cup batch'[j] \/ Known(x.rule, x.qty)'
  BY <1>3, <1>4, <1>8 DEF EndCall
<1>9. CASE UNCHANGED <<asking, batch, read>>
  BY <1>3, <1>9
<1>10. CASE Crash
  BY <1>4, <1>10 DEF Crash
<1>11. ASSUME NEW k \in Jobs, JobStep(k)
       PROVE  <<x.rule, Kind(x.qty)>> \in asking'[j] \cup batch'[j] \/ Known(x.rule, x.qty)'
  <2>1. CASE \/ SyncBegin(k) \/ SyncEnd(k) \/ SyncFails(k) \/ SyncAborts(k) \/ EndRun(k)
             \/ \E u \in Users : LoadRules(k, u) \/ LoadFails(k, u)
             \/ \E r \in Thresholds : ExamineFails(k, r)
    BY <1>9, <2>1 DEF SyncBegin, SyncEnd, SyncFails, SyncAborts, EndRun, LoadRules, LoadFails,
                      ExamineFails, call
  <2> QED
    BY <1>5, <1>6, <1>7, <1>8, <1>11, <2>1 DEF JobStep, Insert, InsertFails
<1>12. ASSUME NEW k \in Jobs, List(k)
       PROVE  <<x.rule, Kind(x.qty)>> \in asking'[j] \cup batch'[j] \/ Known(x.rule, x.qty)'
  BY <1>9, <1>12 DEF List, call
<1>13. CASE UNCHANGED call
  BY <1>9, <1>13 DEF call
<1> QED
  BY <1>10, <1>11, <1>12, <1>13, OthersKeepJobs DEF Next

-----------------------------------------------------------------------------
(* The inductive invariant.                                                *)
THEOREM Invariance == Spec => []IInv
<1>1. Init => IInv
  <2> SUFFICES ASSUME Init PROVE IInv
    OBVIOUS
  <2> USE AlertFlowAssumption
  <2>1. TypeOK
    <3>1. 0 \in 0 .. MaxRuns /\ 0 \in 0 .. MaxChanges /\ 0 \in 0 .. MaxFaults
          /\ NoSnapshot \in 0 .. NoSnapshot
      BY DEF NoSnapshot
    <3>2. "daily" \in Frequency \cup {"off"}
      BY DEF Frequency
    <3>3. /\ status \in {"ready", "syncing", "not_connected"}
          /\ token \in BOOLEAN
          /\ level \in [Products -> 0 .. NoSnapshot]
          /\ rules \in SUBSET Thresholds
          /\ pref \in [Users -> Frequency \cup {"off"}]
          /\ state \in [Alert -> {"none", "pending", "sent", "dismissed", "resolved"}]
      BY <3>1, <3>2 DEF Init
    <3>4. /\ pc \in [Jobs -> {"idle", "listed", "sync", "users", "call"}]
          /\ run \in [Jobs -> 0 .. MaxRuns]
          /\ users \in [Jobs -> SUBSET Users]
          /\ whom \in [Jobs -> SUBSET Users]
          /\ todo \in [Jobs -> SUBSET Thresholds]
          /\ asking \in [Jobs -> SUBSET (Thresholds \X AlertType)]
          /\ batch \in [Jobs -> SUBSET (Thresholds \X AlertType)]
      BY <3>1 DEF Init
    <3>5. mailed \in [Alert -> 0 .. 2]
      BY DEF Init
    <3>6. read \in [Jobs -> SUBSET [rule : Thresholds, qty : 0 .. NoSnapshot, alarming : BOOLEAN]]
      BY DEF Init
    <3>7. /\ dpc \in {"idle", "read", "send", "mark"}
          /\ audience \in SUBSET Users
          /\ carried \in SUBSET Alert
          /\ reader \in SUBSET Users
          /\ runs \in 0 .. MaxRuns
          /\ changes \in 0 .. MaxChanges
          /\ faults \in 0 .. MaxFaults
          /\ overlap \in SUBSET (Users \X Runs \X Runs)
          /\ lost \in SUBSET Alert
      BY <3>1 DEF Init
    <3> QED
      BY <3>3, <3>4, <3>5, <3>6, <3>7 DEF TypeOK
  <2>2. CallInv /\ RunInv /\ ReadInv
    BY DEF Init, CallInv, RunInv, ReadInv
  <2>3. FreshInv /\ OverlapInv /\ DuplicatesOnlyFromOverlap
    BY DEF Init, FreshInv, OverlapInv, DuplicatesOnlyFromOverlap
  <2>4. DigestInv /\ RemailOnlyAfterLostMark
    BY DEF Init, DigestInv, RemailOnlyAfterLostMark, Marked
  <2> QED
    BY <2>1, <2>2, <2>3, <2>4 DEF IInv
<1>2. IInv /\ [Next]_vars => IInv'
  BY TypeInvariance, CallInvariance, RunInvariance, FreshInvariance, OverlapInvariance,
     DuplicateInvariance, DigestInvariance, RemailInvariance, ReadInvariance
  DEF IInv
<1> QED
  BY <1>1, <1>2, PTL DEF Spec

(* Every variable keeps its type.                                          *)
THEOREM TypeCorrect == Spec => []TypeOK
BY Invariance, PTL DEF IInv

(* Two pending alerts about one thing come from overlapping calls only.    *)
THEOREM DuplicatesNeedOverlap == Spec => []DuplicatesOnlyFromOverlap
BY Invariance, PTL DEF IInv

(* An alert is mailed twice only if its first mail was not recorded.       *)
THEOREM RemailNeedsLoss == Spec => []RemailOnlyAfterLostMark
BY Invariance, PTL DEF IInv

(* Every shortage a call read is in its batch or in the table.             *)
THEOREM BreachesRecorded == Spec => []BreachIsRecorded
<1>1. IInv => BreachIsRecorded
  BY DEF IInv, ReadInv, BreachIsRecorded
<1> QED
  BY <1>1, Invariance, PTL

-----------------------------------------------------------------------------
(* A call's insert raises alerts of one user that did not exist.           *)
LEMMA InsertRaises ==
  ASSUME TypeOK, CallInv, FreshInv, NEW j \in Jobs, Insert(j)
  PROVE  Lifecycle!Next \/ UNCHANGED <<state, mailed>>
<1> DEFINE S == {i \in Alert : state'[i] # state[i]}
<1>1. mailed' = mailed /\ state' = [i \in Alert |-> state'[i]] /\ state = [i \in Alert |-> state[i]]
  BY DEF Insert, TypeOK
<1>2. \A i \in S : state[i] = "none" /\ state'[i] = "pending"
  BY InsertIsFresh
<1>3. state' = [i \in Alert |-> IF i \in S THEN "pending" ELSE state[i]]
  BY <1>1, <1>2
<1>4. CASE S = {}
  BY <1>1, <1>4
<1>5. CASE S # {}
  <2>1. PICK i \in S : TRUE
    BY <1>5
  <2>2. \A k \in S : whom[j] = {UserOf(k)}
    BY InsertWrites
  <2>3. \A k \in S : UserOf(k) = UserOf(i)
    BY <2>1, <2>2
  <2>4. S \in SUBSET Lifecycle!Letter(UserOf(i)) /\ UserOf(i) \in Lifecycle!Readers
    BY <2>1, <2>3 DEF Lifecycle!Letter, Lifecycle!Readers, UserOf
  <2>5. Lifecycle!Raise(S)
    BY <1>1, <1>2, <1>3 DEF Lifecycle!Raise
  <2> QED
    BY <2>4, <2>5 DEF Lifecycle!Next
<1> QED
  BY <1>4, <1>5

(* A mail carries alerts of one user that exist.                           *)
LEMMA DeliverMails ==
  ASSUME TypeOK, DigestInv, NEW u \in Users, NEW copies \in 0 .. 2, dpc = "send",
         Deliver(Letter(u), copies), UNCHANGED state
  PROVE  Lifecycle!Next \/ UNCHANGED <<state, mailed>>
<1> DEFINE S == Letter(u)
<1>1. mailed = [i \in Alert |-> mailed[i]] /\ \A i \in Alert : mailed[i] \in 0 .. 2
  BY DEF TypeOK
<1>2. mailed' = [i \in Alert |-> IF i \notin S THEN mailed[i]
                                 ELSE IF mailed[i] + copies > 2 THEN 2 ELSE mailed[i] + copies]
  BY DEF Deliver
<1>3. CASE S = {} \/ copies = 0
  <2>1. \A i \in Alert : mailed'[i] = mailed[i]
    BY <1>1, <1>2, <1>3
  <2> QED
    BY <1>1, <1>2, <2>1
<1>4. CASE S # {} /\ copies # 0
  <2>1. u \in Lifecycle!Readers
    BY <1>4 DEF Lifecycle!Readers, Letter, UserOf, TypeOK
  <2>2. S \in SUBSET Lifecycle!Letter(u)
    BY DEF Lifecycle!Letter, Letter, UserOf, TypeOK
  <2>3. \A i \in S : state[i] # "none"
    BY DEF Letter, DigestInv
  <2>4. copies \in 1 .. 2
    BY <1>4
  <2>5. Lifecycle!Mail(S, copies)
    BY <1>2, <2>3 DEF Lifecycle!Mail
  <2> QED
    BY <2>1, <2>2, <2>4, <2>5 DEF Lifecycle!Next
<1> QED
  BY <1>3, <1>4

(* What is marked sent was mailed, to one user.                            *)
LEMMA MarkSentMarks ==
  ASSUME TypeOK, DigestInv, MarkSent
  PROVE  Lifecycle!Next \/ UNCHANGED <<state, mailed>>
<1>1. PICK u \in Users : reader = {u}
  BY DEF MarkSent, DigestInv
<1>2. Marked \in SUBSET Lifecycle!Letter(u)
  BY <1>1 DEF Marked, Lifecycle!Letter, UserOf, TypeOK
<1>3. Lifecycle!MarkSent(Marked)
  BY DEF MarkSent, Lifecycle!MarkSent, DigestInv
<1>4. CASE Marked # {}
  <2>1. u \in Lifecycle!Readers
    BY <1>1, <1>4 DEF Marked, Lifecycle!Readers, UserOf, TypeOK
  <2> QED
    BY <1>2, <1>3, <2>1 DEF Lifecycle!Next
<1>5. CASE Marked = {}
  BY <1>5 DEF MarkSent, TypeOK
<1> QED
  BY <1>4, <1>5

(* Jobs, digest and requests together do to the rows what AlertLifecycle   *)
(* allows, and nothing else.                                               *)
THEOREM ImplementsLifecycle == Spec => LifecycleSpec
<1>1. Init => Lifecycle!Init
  BY DEF Init, Lifecycle!Init
<1>2. ASSUME IInv, [Next]_vars PROVE Lifecycle!Next \/ UNCHANGED <<state, mailed>>
  <2> USE <1>2 DEF IInv
  <2>1. ASSUME NEW j \in Jobs, List(j) \/ JobStep(j)
        PROVE  Lifecycle!Next \/ UNCHANGED <<state, mailed>>
    <3>1. Insert(j) \/ UNCHANGED <<state, mailed>>
      BY <2>1 DEF List, JobStep, SyncBegin, SyncEnd, SyncFails, SyncAborts, LoadRules, LoadFails,
                  Examine, ExamineFails, Ask, AskFails, InsertFails, EndRun, tables
    <3> QED
      BY <3>1, InsertRaises
  <2>2. ASSUME NEW u \in Users, NEW copies \in 1 .. 2, SendWorks(u, copies)
        PROVE  Lifecycle!Next \/ UNCHANGED <<state, mailed>>
    <3>1. dpc = "send" /\ Deliver(Letter(u), copies) /\ UNCHANGED state /\ copies \in 0 .. 2
      BY <2>2 DEF SendWorks, tables
    <3> QED
      BY <3>1, DeliverMails
  <2>3. ASSUME NEW u \in Users, NEW copies \in 0 .. 2, SendFails(u, copies)
        PROVE  Lifecycle!Next \/ UNCHANGED <<state, mailed>>
    <3>1. dpc = "send" /\ Deliver(Letter(u), copies) /\ UNCHANGED state
      BY <2>3 DEF SendFails, tables
    <3> QED
      BY <3>1, DeliverMails
  <2>4. ASSUME NEW i \in Alert, Dismiss(i) PROVE Lifecycle!Next
    BY <2>4 DEF Dismiss, Lifecycle!Next, Lifecycle!Dismiss
  <2>5. CASE \/ StartDigest \/ ReadPending \/ MarkFails \/ EndDigest \/ Crash \/ UNCHANGED vars
             \/ \E j \in Jobs, p \in Products, qty \in 0 .. MaxQty : Store(j, p, qty)
    BY <2>5 DEF StartDigest, ReadPending, MarkFails, EndDigest, Crash, Store, vars, tables
  <2>6. CASE Request
    BY <2>4, <2>6 DEF Request, SetPref, UpdateUser, CreateThreshold, DeleteThreshold, UpdateThreshold,
  Disconnect, Connect, Login, Change
  <2>7. CASE DigestStep
    BY <2>2, <2>3, <2>5, <2>7, MarkSentMarks DEF DigestStep
  <2> QED
    BY <2>1, <2>5, <2>6, <2>7 DEF Next
<1>3. IInv /\ [Next]_vars => [Lifecycle!Next]_(Lifecycle!vars)
  BY <1>2 DEF Lifecycle!vars
<1> QED
  BY <1>1, <1>3, Invariance, PTL DEF Spec, LifecycleSpec, Lifecycle!Spec
=============================================================================
