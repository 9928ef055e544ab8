--------------------------- MODULE TenantSyncProofs ---------------------------
(***************************************************************************)
(* TenantSync's invariants, for any tenants, accounts and jobs and for any *)
(* bounds.                                                                 *)
(***************************************************************************)
EXTENDS TenantSync, TLAPS

(* What the labels say of a job's other variables.                         *)
WorkInv ==
    \A j \in Jobs :
        /\ pc[j] \in {"lookup", "work", "catch", "consume", "generate"} => serving[j] \in Tenants
        /\ pc[j] = "work" => account[j] \in Accounts

Typed == TypeOK /\ WorkInv

(* The steps a job takes, named for the proofs below.                      *)
Kinds == {"auth", "rate_limit", "connection", "other"}

(* A job that has no rows has a typed set of rows.                         *)
LEMMA NoRowsType == NoRows \in [Tenants -> Accounts \cup {None}]
BY DEF NoRows

(* A job that is reset is in a typed state.                                *)
LEMMA ResetTyped ==
    ASSUME Typed, NEW J, Reset(J)
    PROVE  /\ pc' \in [Jobs -> Label]
           /\ rows' \in [Jobs -> [Tenants -> Accounts \cup {None}]]
           /\ serving' \in [Jobs -> Tenants \cup {None}]
           /\ account' \in [Jobs -> Accounts \cup {None}]
           /\ left' \in [Jobs -> 0 .. MaxBatches]
           /\ verdict' \in [Jobs -> {"pending", "failed"}]
           /\ good' \in [Jobs -> SUBSET Tenants]
           /\ WorkInv'
<1>1. 0 \in 0 .. MaxBatches
  BY TenantSyncAssumption
<1>2. WorkInv'
  BY DEF Typed, WorkInv, Reset
<1> QED
  BY <1>1, <1>2, NoRowsType DEF Typed, TypeOK, Label, Reset

(* Every step of a job or a handler keeps columns and locals in their      *)
(* types.                                                                  *)
LEMMA TypeInvariance == Typed /\ [Next]_vars => Typed'
<1> SUFFICES ASSUME Typed, [Next]_vars PROVE Typed'
  OBVIOUS
<1> USE DEF TypeOK, Typed, WorkInv, SyncStatus, Label, database, locals, ghosts
<1>1. CASE ListActive
  BY <1>1 DEF ListActive, Goto, Jobs
<1>2. ASSUME NEW j \in Jobs, Lookup(j) PROVE Typed'
  <2>1. CASE token[serving[j]] = None
    BY <1>2, <2>1, ResetTyped DEF Lookup
  <2>2. CASE token[serving[j]] # None
    <3>1. serving[j] \in Tenants /\ token[serving[j]] \in Accounts
      BY <1>2, <2>2 DEF Lookup
    <3>2. rows' \in [Jobs -> [Tenants -> Accounts \cup {None}]]
      <4>1. [rows[j] EXCEPT ![serving[j]] = token[serving[j]]] \in [Tenants -> Accounts \cup {None}]
        BY <3>1
      <4>2. rows' = [rows EXCEPT ![j] = [rows[j] EXCEPT ![serving[j]] = token[serving[j]]]]
        BY <1>2, <2>2 DEF Lookup
      <4> QED
        BY <4>1, <4>2
    <3>3. pc' \in [Jobs -> Label] /\ WorkInv'
      BY <1>2, <2>2, <3>1 DEF Lookup, Goto
    <3> QED
      BY <1>2, <2>2, <3>2, <3>3 DEF Lookup
  <2> QED
    BY <2>1, <2>2
<1>3. ASSUME NEW j \in Jobs, NEW t \in Tenants, NEW n \in 0 .. MaxBatches, Begin(j, t, n)
      PROVE  Typed'
  BY <1>3 DEF Begin, ClientToken, Write, Goto
<1>4. ASSUME NEW j \in Jobs, Store(j) PROVE Typed'
  <2>1. left[j] - 1 \in 0 .. MaxBatches
    BY <1>4, TenantSyncAssumption DEF Store
  <2> QED
    BY <1>4, <2>1 DEF Store, StoreFor
<1>5. ASSUME NEW j \in Jobs, Commit(j) PROVE Typed'
  BY <1>5 DEF Commit, Write, Goto
<1>6. ASSUME NEW j \in Jobs, NEW kind \in Kinds, Fail(j, kind) PROVE Typed'
  BY <1>6 DEF Fail, StatusAfter, Goto
<1>7. ASSUME NEW j \in Jobs, NEW t \in Tenants, NEW kind \in Kinds, FailAtOnce(j, t, kind)
      PROVE  Typed'
  BY <1>7 DEF FailAtOnce, StatusAfter, Goto
<1>8. ASSUME NEW j \in Jobs, Catch(j) PROVE Typed'
  BY <1>8 DEF Catch, Records, Write, Goto
<1>9. ASSUME NEW j \in Jobs, CatchThrows(j) PROVE Typed'
  <2>1. faults' \in 0 .. MaxFaults
    BY <1>9, TenantSyncAssumption DEF CatchThrows, Fault
  <2> QED
    BY <1>9, <2>1, ResetTyped DEF CatchThrows
<1>10. ASSUME NEW j \in Jobs, EndLoop(j) PROVE Typed'
  BY <1>10 DEF EndLoop, Goto
<1>11. ASSUME NEW j \in Jobs, NEW t \in Tenants, ReadToken(j, t) PROVE Typed'
  BY <1>11 DEF ReadToken, Goto
<1>12. ASSUME NEW j \in Jobs, Consume(j) PROVE Typed'
  <2>1. pc' \in [Jobs -> Label] /\ WorkInv'
    BY <1>12 DEF Consume, Goto
  <2>2. account[j] # None => account[j] \in Accounts
    OBVIOUS
  <2>3. data' \in [Tenants -> SUBSET Accounts]
    BY <1>12, <2>2 DEF Consume, StoreFor
  <2> QED
    BY <1>12, <2>1, <2>3 DEF Consume
<1>13. ASSUME NEW j \in Jobs, Generate(j) PROVE Typed'
  BY <1>13 DEF Generate, Goto
<1>14. ASSUME NEW j \in Jobs, GenerateThrows(j) PROVE Typed'
  <2>1. faults' \in 0 .. MaxFaults
    BY <1>14, TenantSyncAssumption DEF GenerateThrows, Fault
  <2> QED
    BY <1>14, <2>1, ResetTyped DEF GenerateThrows
<1>15. ASSUME NEW j \in Jobs, Finish(j) PROVE Typed'
  BY <1>15, ResetTyped DEF Finish
<1>16. ASSUME NEW j \in Jobs, NEW t \in Tenants, Trigger(j, t) PROVE Typed'
  <2>1. requests' \in 0 .. MaxRequests
    BY <1>16, TenantSyncAssumption DEF Trigger
  <2> QED
    BY <1>16, <2>1 DEF Trigger, Goto
<1>17. ASSUME NEW t \in Tenants, NEW a \in Accounts, ConnectCheck(t, a) PROVE Typed'
  <2>1. requests' \in 0 .. MaxRequests
    BY <1>17, TenantSyncAssumption DEF ConnectCheck
  <2> QED
    BY <1>17, <2>1 DEF ConnectCheck, Callback
<1>18. ASSUME NEW t \in Tenants, NEW a \in Accounts, ConnectWrite(t, a) PROVE Typed'
  <2>1. CASE CodeIsFree(t, a)
    <3>1. code' \in [Tenants -> Accounts \cup {None}] /\ token' \in [Tenants -> Accounts \cup {None}]
      BY <1>18, <2>1 DEF ConnectWrite
    <3>2. status' \in [Tenants -> SyncStatus] /\ abandoned' \in SUBSET Tenants
      BY <1>18, <2>1 DEF ConnectWrite, StatusOfConnected, Write
    <3>3. held' \in [Tenants -> SUBSET Accounts]
      <4>1. held' = [held EXCEPT ![t] = @ \cup {a}]
        BY <1>18, <2>1 DEF ConnectWrite
      <4> QED
        BY <4>1
    <3>4. misfiled' \in SUBSET Tenants
      BY <1>18, <2>1 DEF ConnectWrite
    <3>5. crossed' \in SUBSET Tenants
      BY <1>18, <2>1 DEF ConnectWrite, Crosses
    <3>6. callback' \in SUBSET Callback
      BY <1>18 DEF ConnectWrite
    <3> QED
      BY <1>18, <3>1, <3>2, <3>3, <3>4, <3>5, <3>6 DEF ConnectWrite
  <2>2. CASE ~CodeIsFree(t, a)
    BY <1>18, <2>2 DEF ConnectWrite, Callback
  <2> QED
    BY <2>1, <2>2
<1>19. ASSUME NEW t \in Tenants, LoginFind(t) PROVE Typed'
  <2>1. requests' \in 0 .. MaxRequests
    BY <1>19, TenantSyncAssumption DEF LoginFind
  <2> QED
    BY <1>19, <2>1 DEF LoginFind, Callback
<1>20. ASSUME NEW t \in Tenants, NEW a \in Accounts, LoginWrite(t, a) PROVE Typed'
  BY <1>20 DEF LoginWrite, Callback
<1>21. ASSUME NEW t \in Tenants, Disconnect(t) PROVE Typed'
  <2>1. requests' \in 0 .. MaxRequests
    BY <1>21, TenantSyncAssumption DEF Disconnect
  <2> QED
    BY <1>21, <2>1 DEF Disconnect, Write, Crosses
<1>22. CASE Crash
  <2>1. faults' \in 0 .. MaxFaults
    BY <1>22, TenantSyncAssumption DEF Crash, Fault
  <2> QED
    BY <1>22, <2>1, ResetTyped DEF Crash
<1>23. CASE UNCHANGED vars
  BY <1>23 DEF vars
<1> HIDE DEF TypeOK, Typed, WorkInv, SyncStatus, Label, database, locals, ghosts
<1>24. CASE \E j \in Jobs : JobStep(j)
  BY <1>2, <1>3, <1>4, <1>5, <1>6, <1>7, <1>8, <1>9, <1>10, <1>11, <1>12, <1>13, <1>14,
     <1>15, <1>24 DEF JobStep, Kinds
<1>25. CASE Request
  BY <1>16, <1>17, <1>18, <1>19, <1>20, <1>21, <1>25 DEF Request, Jobs
<1> QED
  BY <1>1, <1>22, <1>23, <1>24, <1>25 DEF Next

-----------------------------------------------------------------------------
(* Nothing a job does changes a connection.                                *)
LEMMA JobsKeepConnections ==
    ASSUME NEW j \in Jobs, JobStep(j)
    PROVE  UNCHANGED <<token, code, callback, held, misfiled>>
BY DEF JobStep, Lookup, Begin, Store, Commit, Fail, FailAtOnce, Catch, CatchThrows, EndLoop,
       ReadToken, Consume, Generate, GenerateThrows, Finish, database, ghosts

(* No handler touches a job that is under way.                             *)
LEMMA RequestsKeepJobs ==
    ASSUME Request
    PROVE  /\ UNCHANGED <<data, whole, good>>
           /\ UNCHANGED <<rows, account, left>>
           /\ \/ UNCHANGED <<pc, serving>>
              \/ \E j \in Manuals, t \in Tenants : Trigger(j, t)
BY DEF Request, Trigger, ConnectCheck, ConnectWrite, LoginFind, LoginWrite, Disconnect,
       database, locals, ghosts

(* Every token in use, or about to be, was once the tenant's own.          *)
IsolationInv ==
    /\ Isolation
    /\ \A t \in Tenants : token[t] = None \/ token[t] \in held[t]
    /\ \A j \in Jobs, t \in Tenants : rows[j][t] = None \/ rows[j][t] \in held[t]
    /\ \A j \in Jobs :
          /\ pc[j] = "work" => account[j] \in held[serving[j]]
          /\ pc[j] = "consume" => account[j] = None \/ account[j] \in held[serving[j]]

(* No step breaks it: jobs only copy such tokens, handlers only add to     *)
(* what a tenant held.                                                     *)
LEMMA IsolationInvariance == Typed /\ IsolationInv /\ [Next]_vars => IsolationInv'
<1> SUFFICES ASSUME Typed, IsolationInv, [Next]_vars PROVE IsolationInv'
  OBVIOUS
<1> USE DEF Typed, TypeOK, WorkInv, IsolationInv, Isolation
<1>1. CASE ListActive
  BY <1>1 DEF ListActive, Goto, database, ghosts, Jobs
<1>2. ASSUME NEW j \in Jobs, JobStep(j) PROVE IsolationInv'
  <2>0. UNCHANGED <<token, code, callback, held, misfiled>>
    BY <1>2, JobsKeepConnections
  <2>1. ASSUME NEW J, Reset(J), UNCHANGED data PROVE IsolationInv'
    BY <2>0, <2>1 DEF Reset, NoRows
  <2>2. CASE Lookup(j)
    <3>1. CASE token[serving[j]] = None
      BY <2>1, <2>2, <3>1 DEF Lookup, database
    <3>2. CASE token[serving[j]] # None
      <4>1. \A k \in Jobs, t \in Tenants : rows'[k][t] \in {rows[k][t], token[t]}
        <5>1. rows' = [rows EXCEPT ![j] = [rows[j] EXCEPT ![serving[j]] = token[serving[j]]]]
          BY <2>2, <3>2 DEF Lookup
        <5>2. ASSUME NEW t \in Tenants
              PROVE  [rows[j] EXCEPT ![serving[j]] = token[serving[j]]][t] \in {rows[j][t], token[t]}
          OBVIOUS
        <5> QED
          BY <5>1, <5>2
      <4>2. \A k \in Jobs : pc'[k] \in {"work", "consume"} => pc'[k] = pc[k]
        BY <2>2, <3>2 DEF Lookup, Goto
      <4>3. UNCHANGED <<data, serving, account>>
        BY <2>2, <3>2 DEF Lookup, database
      <4> QED
        BY <2>0, <4>1, <4>2, <4>3
    <3> QED
      BY <3>1, <3>2
  <2>3. ASSUME NEW t \in Tenants, NEW n \in 0 .. MaxBatches, Begin(j, t, n) PROVE IsolationInv'
    BY <2>0, <2>3 DEF Begin, ClientToken, Goto
  <2>4. CASE Store(j)
    BY <2>0, <2>4 DEF Store, StoreFor
  <2>5. CASE Commit(j)
    BY <2>0, <2>5 DEF Commit, Goto
  <2>6. ASSUME NEW kind, Fail(j, kind) PROVE IsolationInv'
    BY <2>0, <2>6 DEF Fail, Goto, database
  <2>7. ASSUME NEW t \in Tenants, NEW kind, FailAtOnce(j, t, kind) PROVE IsolationInv'
    BY <2>0, <2>7 DEF FailAtOnce, Goto, database
  <2>8. CASE Catch(j)
    BY <2>0, <2>8 DEF Catch, Goto
  <2>9. CASE CatchThrows(j)
    BY <2>1, <2>9 DEF CatchThrows, database
  <2>10. CASE EndLoop(j)
    BY <2>0, <2>10 DEF EndLoop, Goto, database
  <2>11. ASSUME NEW t \in Tenants, ReadToken(j, t) PROVE IsolationInv'
    BY <2>0, <2>11 DEF ReadToken, Goto, database
  <2>12. CASE Consume(j)
    <3>1. CASE UNCHANGED data
      BY <2>0, <2>12, <3>1 DEF Consume, Goto
    <3>2. CASE account[j] # None /\ StoreFor(serving[j], account[j])
      BY <2>0, <2>12, <3>2 DEF Consume, StoreFor, Goto
    <3> QED
      BY <2>12, <3>1, <3>2 DEF Consume
  <2>13. CASE Generate(j)
    BY <2>0, <2>13 DEF Generate, Goto, database
  <2>14. CASE GenerateThrows(j)
    BY <2>1, <2>14 DEF GenerateThrows, database
  <2>15. CASE Finish(j)
    BY <2>1, <2>15 DEF Finish, database
  <2> QED
    BY <1>2, <2>2, <2>3, <2>4, <2>5, <2>6, <2>7, <2>8, <2>9, <2>10, <2>11, <2>12, <2>13,
       <2>14, <2>15 DEF JobStep
<1>3. CASE Request
  <2>1. UNCHANGED <<data, rows, account>>
    BY <1>3, RequestsKeepJobs
  <2>2. \A t \in Tenants :
           /\ held[t] \subseteq held'[t]
           /\ token'[t] = token[t] \/ token'[t] = None \/ token'[t] \in held'[t]
    <3>1. ASSUME NEW t \in Tenants, NEW a \in Accounts, ConnectWrite(t, a)
          PROVE  \A u \in Tenants :
                    /\ held[u] \subseteq held'[u]
                    /\ token'[u] = token[u] \/ token'[u] = None \/ token'[u] \in held'[u]
      BY <3>1 DEF ConnectWrite
    <3>2. ASSUME NEW t \in Tenants, NEW a \in Accounts, LoginWrite(t, a)
          PROVE  \A u \in Tenants :
                    /\ held[u] \subseteq held'[u]
                    /\ token'[u] = token[u] \/ token'[u] = None \/ token'[u] \in held'[u]
      BY <3>2 DEF LoginWrite
    <3> QED
      BY <1>3, <3>1, <3>2 DEF Request, Trigger, ConnectCheck, LoginFind, Disconnect,
                              database, ghosts
  <2>3. \A j \in Jobs : pc'[j] \in {"work", "consume"}
                          => pc'[j] = pc[j] /\ serving'[j] = serving[j]
    <3>1. CASE UNCHANGED <<pc, serving>>
      BY <3>1
    <3>2. ASSUME NEW j \in Manuals, NEW t \in Tenants, Trigger(j, t)
          PROVE  \A k \in Jobs : pc'[k] \in {"work", "consume"}
                                 => pc'[k] = pc[k] /\ serving'[k] = serving[k]
      BY <3>2 DEF Trigger, Goto, Jobs
    <3> QED
      BY <1>3, <3>1, <3>2, RequestsKeepJobs
  <2> QED
    BY <2>1, <2>2, <2>3
<1>4. CASE Crash
  BY <1>4 DEF Crash, Reset, NoRows, database
<1>5. CASE UNCHANGED vars
  BY <1>5 DEF vars, database, locals, ghosts
<1> QED
  BY <1>1, <1>2, <1>3, <1>4, <1>5 DEF Next

-----------------------------------------------------------------------------
(* "syncing" has an owner, or a fault to explain it: every way out of      *)
(* "work" and "catch" writes another status or is counted as abandoning.   *)
LEMMA LockInvariance == Typed /\ LockedOutOnlyByFault /\ [Next]_vars => LockedOutOnlyByFault'
<1> SUFFICES ASSUME Typed, LockedOutOnlyByFault, [Next]_vars, NEW t \in Tenants,
                    status'[t] = "syncing"
             PROVE  InService(t)' \/ t \in abandoned'
  BY DEF LockedOutOnlyByFault
<1> USE DEF Typed, TypeOK, WorkInv, InService
<1>0. status[t] = "syncing" => InService(t) \/ t \in abandoned
  BY DEF LockedOutOnlyByFault
<1>1. CASE ListActive
  BY <1>0, <1>1 DEF ListActive, Goto, database, ghosts, Jobs
<1>2. ASSUME NEW j \in Jobs, JobStep(j) PROVE InService(t)' \/ t \in abandoned'
  <2>1. ASSUME pc[j] \notin {"work", "catch"}, Reset({j}), UNCHANGED <<status, abandoned>>
        PROVE  InService(t)' \/ t \in abandoned'
    BY <1>0, <2>1 DEF Reset
  <2>2. ASSUME pc[j] \notin {"work", "catch"}, UNCHANGED <<status, abandoned>>,
               \A k \in Jobs \ {j} : pc'[k] = pc[k] /\ serving'[k] = serving[k]
        PROVE  InService(t)' \/ t \in abandoned'
    BY <1>0, <2>2
  <2>3. CASE Lookup(j)
    BY <1>0, <2>1, <2>2, <2>3 DEF Lookup, Goto, database, ghosts
  <2>4. ASSUME NEW u \in Tenants, NEW n \in 0 .. MaxBatches, Begin(j, u, n)
        PROVE  InService(t)' \/ t \in abandoned'
    BY <1>0, <2>4 DEF Begin, Write, Goto
  <2>5. CASE Store(j)
    BY <1>0, <2>5 DEF Store
  <2>6. CASE Commit(j)
    BY <1>0, <2>6 DEF Commit, Write, Goto
  <2>7. ASSUME NEW kind, Fail(j, kind) PROVE InService(t)' \/ t \in abandoned'
    BY <1>0, <2>7 DEF Fail, Goto, database, ghosts
  <2>8. ASSUME NEW u \in Tenants, NEW kind, FailAtOnce(j, u, kind)
        PROVE  InService(t)' \/ t \in abandoned'
    BY <1>0, <2>8 DEF FailAtOnce, Goto, database, ghosts
  <2>9. CASE Catch(j)
    BY <1>0, <2>9 DEF Catch, Records, Write, Goto
  <2>10. CASE CatchThrows(j)
    BY <1>0, <2>10 DEF CatchThrows, Reset, database
  <2>11. CASE EndLoop(j)
    BY <2>2, <2>11 DEF EndLoop, Goto, database, ghosts
  <2>12. ASSUME NEW u \in Tenants, ReadToken(j, u) PROVE InService(t)' \/ t \in abandoned'
    BY <2>2, <2>12 DEF ReadToken, Goto, database, ghosts
  <2>13. CASE Consume(j)
    BY <2>2, <2>13 DEF Consume, Goto, ghosts
  <2>14. CASE Generate(j)
    BY <2>2, <2>14 DEF Generate, Goto, database, ghosts
  <2>15. CASE GenerateThrows(j)
    BY <2>1, <2>15 DEF GenerateThrows, database, ghosts
  <2>16. CASE Finish(j)
    BY <2>1, <2>16 DEF Finish, database, ghosts
  <2> QED
    BY <1>2, <2>3, <2>4, <2>5, <2>6, <2>7, <2>8, <2>9, <2>10, <2>11, <2>12, <2>13, <2>14,
       <2>15, <2>16 DEF JobStep
<1>3. CASE Request
  <2>1. CASE UNCHANGED <<pc, serving>>
    BY <1>0, <1>3, <2>1 DEF Request, Trigger, ConnectCheck, ConnectWrite, LoginFind, LoginWrite,
                            Disconnect, StatusOfConnected, Write, database, ghosts
  <2>2. ASSUME NEW j \in Manuals, NEW u \in Tenants, Trigger(j, u)
        PROVE  InService(t)' \/ t \in abandoned'
    BY <1>0, <2>2 DEF Trigger, Goto, database, ghosts, Jobs
  <2> QED
    BY <1>3, <2>1, <2>2, RequestsKeepJobs
<1>4. CASE Crash
  BY <1>4 DEF Crash, database
<1>5. CASE UNCHANGED vars
  BY <1>0, <1>5 DEF vars, database, locals, ghosts
<1> QED
  BY <1>1, <1>2, <1>3, <1>4, <1>5 DEF Next

(* What holds of a token that a job has in hand, or a status, of tenant t: *)
(* it is the tenant's token, or does no harm, or is excused.               *)
Fits(t, a) == a = token[t] \/ token[t] \in whole[t] \/ t \in crossed

(* A sync whose last batch is stored has made its account whole, and every *)
(* token that a job has in hand fits its tenant.                           *)
WholeInv ==
    /\ SuccessIsOfConnected
    /\ \A j \in Jobs : pc[j] = "work" /\ left[j] = 0 => account[j] \in whole[serving[j]]
    /\ \A j \in Jobs, t \in Tenants : rows[j][t] # None => Fits(t, rows[j][t])
    /\ \A j \in Jobs : pc[j] = "work" => Fits(serving[j], account[j])

(* A job writes success of an account that is whole; if this is not the    *)
(* tenant's, then by Fits the tenant's is, or was changed under the job.   *)
LEMMA WholeByJobs ==
    ASSUME Typed, WholeInv, NEW j \in Jobs, JobStep(j)
    PROVE  WholeInv'
<1> USE DEF Typed, TypeOK, WorkInv, WholeInv, SuccessIsOfConnected, Fits
<1>0. UNCHANGED token
  BY JobsKeepConnections
<1>1. ASSUME NEW J, Reset(J), UNCHANGED <<status, whole, crossed>> PROVE WholeInv'
  BY <1>0, <1>1 DEF Reset, NoRows
<1>2. ASSUME UNCHANGED <<status, whole, crossed>>, pc'[j] # "work",
             \A k \in Jobs, t \in Tenants : rows'[k][t] \in {rows[k][t], None, token[t]},
             \A k \in Jobs \ {j} : /\ pc'[k] = pc[k] /\ serving'[k] = serving[k]
                                   /\ left'[k] = left[k] /\ account'[k] = account[k]
      PROVE  WholeInv'
  <2>1. \A k \in Jobs, t \in Tenants : (rows[k][t] # None => Fits(t, rows[k][t]))'
    BY <1>0, <1>2
  <2>2. \A k \in Jobs : pc'[k] = "work" => k # j
    BY <1>2
  <2>3. ASSUME NEW k \in Jobs, pc'[k] = "work"
        PROVE  /\ Fits(serving[k], account[k])'
               /\ left'[k] = 0 => account'[k] \in whole'[serving'[k]]
    BY <1>0, <1>2, <2>2, <2>3
  <2>4. SuccessIsOfConnected'
    BY <1>0, <1>2
  <2> QED
    BY <2>1, <2>3, <2>4
<1>3. CASE Lookup(j)
  <2>1. CASE token[serving[j]] = None
    BY <1>1, <1>3, <2>1 DEF Lookup, database, ghosts
  <2>2. CASE token[serving[j]] # None
    <3>1. \A k \in Jobs, t \in Tenants : rows'[k][t] \in {rows[k][t], token[t]}
      <4>1. rows' = [rows EXCEPT ![j] = [rows[j] EXCEPT ![serving[j]] = token[serving[j]]]]
        BY <1>3, <2>2 DEF Lookup
      <4>2. ASSUME NEW t \in Tenants
            PROVE  [rows[j] EXCEPT ![serving[j]] = token[serving[j]]][t] \in {rows[j][t], token[t]}
        OBVIOUS
      <4> QED
        BY <4>1, <4>2
    <3> QED
      BY <1>2, <1>3, <2>2, <3>1 DEF Lookup, Goto, database, ghosts
  <2> QED
    BY <2>1, <2>2
<1>4. ASSUME NEW u \in Tenants, NEW n \in 0 .. MaxBatches, Begin(j, u, n) PROVE WholeInv'
  <2>1. /\ whole' = [whole EXCEPT ![u] = IF n = 0 THEN @ \cup {rows[j][u]} ELSE @]
        /\ rows' = [rows EXCEPT ![j][u] = None]
        /\ status' = [status EXCEPT ![u] = "syncing"]
        /\ pc' = [pc EXCEPT ![j] = "work"]
        /\ serving' = [serving EXCEPT ![j] = u]
        /\ account' = [account EXCEPT ![j] = rows[j][u]]
        /\ left' = [left EXCEPT ![j] = n]
        /\ rows[j][u] # None
        /\ UNCHANGED crossed
    BY <1>4 DEF Begin, ClientToken, Write, Goto
  <2>2. \A t \in Tenants : whole[t] \subseteq whole'[t]
    BY <2>1
  <2>3. SuccessIsOfConnected'
    BY <1>0, <2>1, <2>2
  <2>4. \A k \in Jobs, t \in Tenants : (rows[k][t] # None => Fits(t, rows[k][t]))'
    <3>1. \A k \in Jobs, t \in Tenants : rows'[k][t] \in {rows[k][t], None}
      BY <2>1
    <3> QED
      BY <1>0, <2>1, <2>2, <3>1
  <2>5. ASSUME NEW k \in Jobs, pc'[k] = "work"
        PROVE  /\ Fits(serving[k], account[k])'
               /\ left'[k] = 0 => account'[k] \in whole'[serving'[k]]
    <3>1. CASE k = j
      BY <1>0, <2>1, <2>2, <3>1
    <3>2. CASE k # j
      BY <1>0, <2>1, <2>2, <2>5, <3>2
    <3> QED
      BY <3>1, <3>2
  <2> QED
    BY <2>3, <2>4, <2>5
<1>5. CASE Store(j)
  <2>1. \A k \in Jobs : left'[k] = 0 => IF k = j THEN left[j] = 1 ELSE left[k] = 0
    <3>1. left[j] \in Nat /\ left'[j] = left[j] - 1
      BY <1>5, TenantSyncAssumption DEF Store
    <3>2. \A k \in Jobs \ {j} : left'[k] = left[k]
      BY <1>5 DEF Store
    <3> QED
      BY <3>1, <3>2
  <2>2. whole' = [whole EXCEPT ![serving[j]] =
                    IF left[j] = 1 THEN @ \cup {account[j]} ELSE @]
    BY <1>5 DEF Store
  <2>3. \A u \in Tenants : whole[u] \subseteq whole'[u]
    BY <2>2
  <2>4. left[j] = 1 => account[j] \in whole'[serving[j]]
    <3>1. serving[j] \in Tenants
      BY <1>5 DEF Store
    <3>2. left[j] = 1 => whole'[serving[j]] = whole[serving[j]] \cup {account[j]}
      BY <2>2, <3>1
    <3> QED
      BY <3>2
  <2>5. UNCHANGED <<status, rows, account, pc, serving, crossed>>
    BY <1>5 DEF Store
  <2>6. \A k \in Jobs : pc[k] = "work" => serving[k] \in Tenants
    OBVIOUS
  <2>7. SuccessIsOfConnected'
    BY <1>0, <2>3, <2>5
  <2>8. ASSUME NEW k \in Jobs, pc'[k] = "work", left'[k] = 0
        PROVE  account'[k] \in whole'[serving'[k]]
    BY <2>1, <2>3, <2>4, <2>5, <2>6, <2>8
  <2>9. \A k \in Jobs, t \in Tenants : (rows[k][t] # None => Fits(t, rows[k][t]))'
    BY <1>0, <2>3, <2>5
  <2>10. \A k \in Jobs : pc'[k] = "work" => Fits(serving[k], account[k])'
    BY <1>0, <2>3, <2>5, <2>6
  <2> QED
    BY <2>7, <2>8, <2>9, <2>10
<1>6. CASE Commit(j)
  <2>1. /\ pc[j] = "work" /\ left[j] = 0
        /\ serving[j] \in Tenants
        /\ status' = [status EXCEPT ![serving[j]] = "success"]
        /\ pc' = [pc EXCEPT ![j] = "loop"]
        /\ crossed' = crossed \ {t \in {serving[j]} : account[j] = token[t]}
        /\ UNCHANGED <<rows, serving, account, left, whole>>
    BY <1>6 DEF Commit, AllStored, Write, Goto
  <2>2. account[j] \in whole[serving[j]] /\ Fits(serving[j], account[j])
    BY <2>1
  <2>3. \A t \in Tenants : t \in crossed => t \in crossed' \/ token[t] \in whole[t]
    BY <2>1, <2>2
  <2>4. token[serving[j]] \in whole[serving[j]] \/ serving[j] \in crossed'
    BY <2>1, <2>2
  <2>5. SuccessIsOfConnected'
    BY <1>0, <2>1, <2>3, <2>4
  <2>6. \A k \in Jobs, t \in Tenants : (rows[k][t] # None => Fits(t, rows[k][t]))'
    BY <1>0, <2>1, <2>3
  <2>7. \A k \in Jobs : pc'[k] = "work" => pc[k] = "work" /\ k # j
    BY <2>1
  <2>8. \A k \in Jobs : pc'[k] = "work" =>
           /\ Fits(serving[k], account[k])'
           /\ left'[k] = 0 => account'[k] \in whole'[serving'[k]]
    BY <1>0, <2>1, <2>3, <2>7
  <2> QED
    BY <2>5, <2>6, <2>8
<1>7. ASSUME NEW kind, Fail(j, kind) PROVE WholeInv'
  BY <1>2, <1>7 DEF Fail, Goto, database, ghosts
<1>8. ASSUME NEW u \in Tenants, NEW kind, FailAtOnce(j, u, kind) PROVE WholeInv'
  BY <1>2, <1>8 DEF FailAtOnce, Goto, database, ghosts
<1>9. CASE Catch(j)
  <2>1. \A t \in Tenants : status'[t] = "success" => status[t] = "success"
    BY <1>9 DEF Catch, Records, Write
  <2>2. /\ pc' = [pc EXCEPT ![j] = "loop"]
        /\ UNCHANGED <<rows, serving, account, left, whole, crossed>>
    BY <1>9 DEF Catch, Goto
  <2>3. SuccessIsOfConnected'
    BY <1>0, <2>1, <2>2
  <2>4. \A k \in Jobs : pc'[k] = "work" => pc[k] = "work"
    BY <2>2
  <2> QED
    BY <1>0, <2>2, <2>3, <2>4
<1>10. CASE CatchThrows(j)
  BY <1>1, <1>10 DEF CatchThrows, database
<1>11. CASE EndLoop(j)
  BY <1>2, <1>11 DEF EndLoop, Goto, database, ghosts
<1>12. ASSUME NEW u \in Tenants, ReadToken(j, u) PROVE WholeInv'
  BY <1>2, <1>12 DEF ReadToken, Goto, database, ghosts
<1>13. CASE Consume(j)
  BY <1>2, <1>13 DEF Consume, Goto, ghosts
<1>14. CASE Generate(j)
  BY <1>2, <1>14 DEF Generate, Goto, database, ghosts
<1>15. CASE GenerateThrows(j)
  BY <1>1, <1>15 DEF GenerateThrows, database, ghosts
<1>16. CASE Finish(j)
  BY <1>1, <1>16 DEF Finish, database, ghosts
<1> QED
  BY <1>3, <1>4, <1>5, <1>6, <1>7, <1>8, <1>9, <1>10, <1>11, <1>12, <1>13, <1>14, <1>15, <1>16
     DEF JobStep

(* A handler that changes a token finds every token in hand to be the new  *)
(* one, or marks the tenant as crossed.                                    *)
LEMMA WholeByRequests ==
    ASSUME Typed, WholeInv, Request
    PROVE  WholeInv'
<1> USE DEF Typed, TypeOK, WorkInv, WholeInv, SuccessIsOfConnected, Fits
<1>1. UNCHANGED <<whole, rows, account, left>>
  BY RequestsKeepJobs
<1>2. \A k \in Jobs : pc'[k] = "work" => pc[k] = "work" /\ serving'[k] = serving[k]
  BY RequestsKeepJobs DEF Trigger, Goto, Jobs
<1>3. SUFFICES ASSUME NEW t \in Tenants
               PROVE  /\ status'[t] = "success" => token'[t] \in whole[t] \/ t \in crossed'
                      /\ \A j \in Jobs : rows[j][t] # None => Fits(t, rows[j][t])'
                      /\ \A j \in Jobs : pc[j] = "work" /\ serving[j] = t
                                              => Fits(t, account[j])'
  <2>1. \A j \in Jobs : pc[j] = "work" => serving[j] \in Tenants
    OBVIOUS
  <2>2. SuccessIsOfConnected' /\ \A j \in Jobs, t \in Tenants :
                                    (rows[j][t] # None => Fits(t, rows[j][t]))'
    BY <1>1, <1>3
  <2>3. \A j \in Jobs : pc'[j] = "work" => Fits(serving[j], account[j])'
    BY <1>1, <1>2, <1>3, <2>1
  <2> QED
    BY <1>1, <1>2, <2>2, <2>3
<1>4. CASE status'[t] = status[t] /\ token'[t] = token[t] /\ (t \in crossed => t \in crossed')
  BY <1>1, <1>4
<1>5. ASSUME status'[t] # "success",
             IF Overtaken(t, token'[t]) THEN t \in crossed' ELSE TRUE
      PROVE  /\ \A j \in Jobs : rows[j][t] # None => Fits(t, rows[j][t])'
             /\ \A j \in Jobs : pc[j] = "work" /\ serving[j] = t => Fits(t, account[j])'
  BY <1>1, <1>5 DEF Overtaken
<1>6. ASSUME NEW u \in Tenants, NEW a \in Accounts, ConnectWrite(u, a)
      PROVE  \/ status'[t] = status[t] /\ token'[t] = token[t] /\ (t \in crossed => t \in crossed')
             \/ status'[t] # "success" /\ (IF Overtaken(t, token'[t]) THEN t \in crossed' ELSE TRUE)
  BY <1>6 DEF ConnectWrite, StatusOfConnected, Write, Crosses
<1>7. ASSUME NEW u \in Tenants, Disconnect(u)
      PROVE  \/ status'[t] = status[t] /\ token'[t] = token[t] /\ (t \in crossed => t \in crossed')
             \/ status'[t] # "success" /\ (IF Overtaken(t, token'[t]) THEN t \in crossed' ELSE TRUE)
  BY <1>7 DEF Disconnect, Write, Crosses
<1>8. ASSUME NEW u \in Tenants, NEW a \in Accounts, LoginWrite(u, a)
      PROVE  /\ status'[t] = "success" => token'[t] \in whole[t] \/ t \in crossed'
             /\ \A j \in Jobs : rows[j][t] # None => Fits(t, rows[j][t])'
             /\ \A j \in Jobs : pc[j] = "work" /\ serving[j] = t => Fits(t, account[j])'
  <2>1. /\ token' = [token EXCEPT ![u] = a]
        /\ UNCHANGED status
        /\ crossed \subseteq crossed'
        /\ token[u] # a /\ (token[u] # None \/ Overtaken(u, a)) => u \in crossed'
    BY <1>8 DEF LoginWrite
  <2>2. CASE t # u \/ token[t] = a
    BY <1>4, <2>1, <2>2
  <2>3. CASE t = u /\ t \in crossed'
    BY <1>1, <2>1, <2>3
  <2>4. CASE t = u /\ token[t] = None /\ t \notin crossed'
    <3>1. status[t] # "success"
      <4>1. None \notin whole[t]
        BY TenantSyncAssumption
      <4>2. t \notin crossed
        BY <2>1, <2>4
      <4> QED
        BY <2>4, <4>1, <4>2
    <3>2. ~Overtaken(t, a) \/ token[t] = a
      BY <2>1, <2>4
    <3> QED
      BY <1>1, <1>5, <2>1, <2>4, <3>1, <3>2, TenantSyncAssumption
  <2> QED
    BY <2>1, <2>2, <2>3, <2>4
<1> QED
  BY <1>4, <1>5, <1>6, <1>7, <1>8 DEF Request, Trigger, ConnectCheck, LoginFind, database, ghosts

(* Listing takes the tenants' own tokens, and a crash leaves none in hand. *)
LEMMA WholeInvariance == Typed /\ WholeInv /\ [Next]_vars => WholeInv'
<1> SUFFICES ASSUME Typed, WholeInv, [Next]_vars PROVE WholeInv'
  OBVIOUS
<1> USE DEF Typed, TypeOK, WorkInv, WholeInv, SuccessIsOfConnected, Fits
<1>1. CASE ListActive
  BY <1>1 DEF ListActive, Goto, database, ghosts, Jobs
<1>2. CASE \E j \in Jobs : JobStep(j)
  BY <1>2, WholeByJobs
<1>3. CASE Request
  BY <1>3, WholeByRequests
<1>4. CASE Crash
  BY <1>4 DEF Crash, Reset, NoRows, database
<1>5. CASE UNCHANGED vars
  BY <1>5 DEF vars, database, locals, ghosts
<1> QED
  BY <1>1, <1>2, <1>3, <1>4, <1>5 DEF Next

(* A token belongs to the tenant's client code, which is unique.           *)
CodeInv ==
    /\ \A t, u \in Tenants : code[t] = code[u] /\ code[t] # None => t = u
    /\ \A t \in Tenants : token[t] = None \/ token[t] = code[t] \/ t \in misfiled

(* No step breaks it: the constraint guards the one write of a code.       *)
LEMMA CodeInvariance == Typed /\ CodeInv /\ [Next]_vars => CodeInv'
<1> SUFFICES ASSUME Typed, CodeInv, [Next]_vars PROVE CodeInv'
  OBVIOUS
<1> USE DEF Typed, TypeOK, CodeInv
<1>1. ASSUME UNCHANGED <<token, code, misfiled>> PROVE CodeInv'
  BY <1>1
<1>2. ASSUME NEW t \in Tenants, NEW a \in Accounts, ConnectWrite(t, a) PROVE CodeInv'
  <2>1. CASE CodeIsFree(t, a)
    <3>1. /\ code' = [code EXCEPT ![t] = a]
          /\ token' = [token EXCEPT ![t] = a]
          /\ misfiled' = misfiled \ {t}
          /\ \A u \in Tenants \ {t} : code[u] # a
      BY <1>2, <2>1 DEF ConnectWrite, CodeIsFree
    <3> QED
      BY <3>1
  <2>2. CASE ~CodeIsFree(t, a)
    BY <1>1, <1>2, <2>2 DEF ConnectWrite
  <2> QED
    BY <2>1, <2>2
<1>3. ASSUME NEW t \in Tenants, NEW a \in Accounts, LoginWrite(t, a) PROVE CodeInv'
  BY <1>3 DEF LoginWrite
<1>4. ASSUME NEW t \in Tenants, Disconnect(t) PROVE CodeInv'
  BY <1>4 DEF Disconnect
<1>5. CASE ListActive
  BY <1>1, <1>5 DEF ListActive, database, ghosts
<1>6. CASE \E j \in Jobs : JobStep(j)
  BY <1>1, <1>6, JobsKeepConnections
<1>7. CASE Request
  BY <1>1, <1>2, <1>3, <1>4, <1>7 DEF Request, Trigger, ConnectCheck, LoginFind, database, ghosts
<1>8. CASE Crash
  BY <1>1, <1>8 DEF Crash, database
<1>9. CASE UNCHANGED vars
  BY <1>1, <1>9 DEF vars, database, ghosts
<1> QED
  BY <1>5, <1>6, <1>7, <1>8, <1>9 DEF Next

-----------------------------------------------------------------------------
IInv == Typed /\ IsolationInv /\ LockedOutOnlyByFault /\ WholeInv /\ CodeInv

(* The inductive invariant holds in every reachable state.                 *)
THEOREM Invariance == Spec => []IInv
<1>1. Init => IInv
  <2> SUFFICES ASSUME Init PROVE IInv
    OBVIOUS
  <2>1. Typed
    <3>1. 0 \in 0 .. MaxBatches /\ 0 \in 0 .. MaxRequests /\ 0 \in 0 .. MaxFaults
      BY TenantSyncAssumption
    <3> QED
      BY <3>1, NoRowsType DEF Init, Typed, TypeOK, WorkInv, SyncStatus, Label
  <2>2. IsolationInv
    BY <2>1 DEF Init, IsolationInv, Isolation, NoRows
  <2>3. LockedOutOnlyByFault
    BY DEF Init, LockedOutOnlyByFault
  <2>4. WholeInv
    BY DEF Init, WholeInv, SuccessIsOfConnected, NoRows
  <2>5. CodeInv
    BY DEF Init, CodeInv
  <2> QED
    BY <2>1, <2>2, <2>3, <2>4, <2>5 DEF IInv
<1>2. IInv /\ [Next]_vars => IInv'
  BY TypeInvariance, IsolationInvariance, LockInvariance, WholeInvariance, CodeInvariance DEF IInv
<1> QED
  BY <1>1, <1>2, PTL DEF Spec

(* Every column and every local variable keeps its type.                   *)
THEOREM TypeCorrect == Spec => []TypeOK
<1>1. IInv => TypeOK
  BY DEF IInv, Typed
<1> QED
  BY <1>1, Invariance, PTL

(* A tenant only ever stores what came from an account it was connected    *)
(* to, for any number of tenants, accounts and concurrent jobs.            *)
THEOREM TenantsAreIsolated == Spec => []Isolation
<1>1. IInv => Isolation
  BY DEF IInv, IsolationInv
<1> QED
  BY <1>1, Invariance, PTL

(* A tenant that the nightly job skips as "syncing" is being synced or was *)
(* abandoned by a fault.                                                   *)
THEOREM NoSilentLockout == Spec => []LockedOutOnlyByFault
<1>1. IInv => LockedOutOnlyByFault
  BY DEF IInv
<1> QED
  BY <1>1, Invariance, PTL

(* "success" is of the account the tenant is connected to and of its whole *)
(* inventory, unless the token changed under a job that had the old one.   *)
THEOREM SuccessMeansConnected == Spec => []SuccessIsOfConnected
<1>1. IInv => SuccessIsOfConnected
  BY DEF IInv, WholeInv
<1> QED
  BY <1>1, Invariance, PTL

(* Two tenants share a Bsale account only after a login that raced with a  *)
(* change of account.                                                      *)
THEOREM AccountsAreExclusive == Spec => []OneTenantPerAccount
<1>1. IInv => OneTenantPerAccount
  BY DEF IInv, CodeInv, OneTenantPerAccount
<1> QED
  BY <1>1, Invariance, PTL
=============================================================================
