--------------------------- MODULE AccountsProofs ---------------------------
(***************************************************************************)
(* Proofs about Accounts, for any sets of e-mails, accounts, ids and       *)
(* browsers and any limits.                                                *)
(***************************************************************************)
EXTENDS Accounts, FiniteSetTheorems, TLAPS

LinkStages == {"found", "used", "signup", "user", "owner"}

(* What a request's variables refer to at each stage.                      *)
RequestRefs(b) ==
    LET r == req[b]
    IN  /\ r.at = "asked" => r.address \in Emails
        /\ r.at \in LinkStages => r.link # None /\ links[r.link] # None
        /\ r.at \in {"signup", "user"} => r.address \in Emails
        /\ r.at \in {"user", "owner"} => r.tenant # None /\ tenants[r.tenant] # None
        /\ r.at = "owner" => /\ r.user # None /\ users[r.user] # None
                             /\ users[r.user].home = r.tenant
        /\ r.at \in {"access", "token", "adding", "member", "session"}
               => r.user # None /\ users[r.user] # None
        /\ r.at = "callback" /\ r.user # None => users[r.user] # None
        /\ r.at \in {"access", "token", "member", "login", "admin"} => r.tenant # None
        /\ r.at \in {"adding", "login", "admin"} => r.address \in Codes
        /\ r.at = "refresh" => r.session # None /\ sessions[r.session] # None

RefInv ==
    /\ \A b \in Browsers : RequestRefs(b)
    /\ \A s \in Sessions : sessions[s] # None => users[sessions[s].user] # None

Typed == TypeOK /\ RefInv

(* A request that moves on stays a request.                                *)
LEMMA Moves ==
    /\ Idle \in Request
    /\ \A b \in Browsers, stage \in Stage :
          req[b] \in Request => [req[b] EXCEPT !.at = stage] \in Request
    /\ req \in [Browsers -> Request] =>
          \A b \in Browsers, r \in Request : Move(b, r) => req' \in [Browsers -> Request]
<1>1. Idle \in Request
  BY DEF Idle, Request, Stage
<1>2. ASSUME NEW b \in Browsers, NEW stage \in Stage, req[b] \in Request
      PROVE  [req[b] EXCEPT !.at = stage] \in Request
  BY <1>2 DEF Request
<1>3. ASSUME req \in [Browsers -> Request], NEW b \in Browsers, NEW r \in Request, Move(b, r)
      PROVE  req' \in [Browsers -> Request]
  BY <1>3 DEF Move
<1> QED
  BY <1>1, <1>2, <1>3

(* ... whatever else it sets.                                              *)
LEMMA Updates ==
    ASSUME NEW r \in Request, NEW stage \in Stage, NEW address \in Emails \cup Codes \cup {None},
           NEW user \in Users \cup {None}, NEW tenant \in Tenants \cup {None}
    PROVE  /\ [r EXCEPT !.at = stage, !.address = address] \in Request
           /\ [r EXCEPT !.at = stage, !.user = user] \in Request
           /\ [r EXCEPT !.at = stage, !.tenant = tenant] \in Request
           /\ [r EXCEPT !.tenant = tenant, !.at = stage] \in Request
           /\ [r EXCEPT !.at = stage, !.tenant = tenant, !.address = address] \in Request
<1>1. [r EXCEPT !.at = stage, !.address = address] \in Request
  BY DEF Request
<1>2. [r EXCEPT !.at = stage, !.user = user] \in Request
  BY DEF Request
<1>3. [r EXCEPT !.at = stage, !.tenant = tenant] \in Request
  BY DEF Request
<1>4. [r EXCEPT !.tenant = tenant, !.at = stage] \in Request
  BY DEF Request
<1>5. [r EXCEPT !.at = stage, !.tenant = tenant, !.address = address] \in Request
  BY DEF Request
<1> QED
  BY <1>1, <1>2, <1>3, <1>4, <1>5

(* The requests keep their type ...                                        *)
LEMMA RequestTyping ==
    AccountsAssumption /\ Typed /\ [Next]_vars => req' \in [Browsers -> Request]
<1> SUFFICES ASSUME AccountsAssumption, Typed, [Next]_vars PROVE req' \in [Browsers -> Request]
  OBVIOUS
<1>0. req \in [Browsers -> Request]
  BY DEF Typed, TypeOK
<1>1. ASSUME NEW b \in Browsers, End(b) PROVE req' \in [Browsers -> Request]
  BY <1>0, <1>1, Moves DEF End
<1>2. ASSUME NEW b \in Browsers, NEW stage \in Stage, Goto(b, stage)
      PROVE  req' \in [Browsers -> Request]
  <2>1. [req[b] EXCEPT !.at = stage] \in Request
    BY <1>0, Moves
  <2> QED
    BY <1>0, <1>2, <2>1, Moves DEF Goto
<1>3. ASSUME NEW b \in Browsers, MagicLink(b) PROVE req' \in [Browsers -> Request]
  <2>1. ASSUME NEW e \in Emails PROVE [Idle EXCEPT !.at = "asked", !.address = e] \in Request
    BY DEF Idle, Request, Stage
  <2>2. ASSUME NEW l \in Links PROVE [Idle EXCEPT !.at = "found", !.link = l] \in Request
    BY DEF Idle, Request, Stage
  <2>3. ASSUME NEW u \in Users PROVE [req[b] EXCEPT !.at = "session", !.user = u] \in Request
    BY <1>0, Updates DEF Stage
  <2>4. ASSUME NEW e \in Emails PROVE [req[b] EXCEPT !.at = "signup", !.address = e] \in Request
    BY <1>0, Updates DEF Stage
  <2>5. ASSUME NEW t \in Tenants PROVE [req[b] EXCEPT !.at = "user", !.tenant = t] \in Request
    BY <1>0, Updates DEF Stage
  <2>6. ASSUME NEW u \in Users PROVE [req[b] EXCEPT !.at = "owner", !.user = u] \in Request
    BY <1>0, Updates DEF Stage
  <2>7. [req[b] EXCEPT !.at = "session", !.tenant = None] \in Request
    BY <1>0, Updates DEF Stage
  <2>8. CASE \/ \E e \in Emails : Ask(b, e)
             \/ \E l \in Links : CreateLink(b, l) \/ VerifyFind(b, l)
    BY <1>0, <1>1, <2>1, <2>2, <2>8, Moves DEF Ask, CreateLink, VerifyFind
  <2>9. CASE MarkUsed(b)
    BY <1>2, <2>9 DEF MarkUsed, Stage
  <2>10. CASE VerifyLookup(b)
    <3>1. links[req[b].link].email \in Emails
      BY <1>0, <2>10 DEF VerifyLookup, Typed, TypeOK, RefInv, RequestRefs, LinkStages, Link, Request
    <3>2. \A e : WithEmail(e) \in SUBSET Users
      BY DEF WithEmail, Rows, Typed, TypeOK
    <3> QED
      BY <1>0, <2>3, <2>4, <2>10, <3>1, <3>2, Moves DEF VerifyLookup
  <2>11. CASE SignUpOwner(b)
    BY <1>0, <2>7, <2>11, Moves DEF SignUpOwner
  <2>12. CASE \/ \E t \in Tenants : SignUpTenant(b, t)
              \/ \E u \in Users : SignUpUser(b, u)
    BY <1>0, <2>5, <2>6, <2>12, Moves DEF SignUpTenant, SignUpUser
  <2> QED
    BY <1>3, <2>8, <2>9, <2>10, <2>11, <2>12 DEF MagicLink
<1>4. ASSUME NEW b \in Browsers, OAuth(b) PROVE req' \in [Browsers -> Request]
  <2>1. CASE OAuthStart(b) \/ Forget(b)
    BY <1>0, <2>1 DEF OAuthStart, Forget
  <2>2. ASSUME NEW sent \in BOOLEAN, CallbackBegin(b, sent) PROVE req' \in [Browsers -> Request]
    <3>1. ASSUME NEW u \in Users \cup {None}
          PROVE  [Idle EXCEPT !.at = "callback", !.user = u] \in Request
      BY DEF Idle, Request, Stage
    <3>2. sent /\ Live(cookie[b]) => sessions[cookie[b]].user \in Users
      BY DEF Live, Typed, TypeOK, Session
    <3> QED
      BY <1>0, <2>2, <3>1, <3>2, Moves DEF CallbackBegin
  <2>3. ASSUME NEW c \in Codes, CallbackFind(b, c) PROVE req' \in [Browsers -> Request]
    <3>1. ASSUME NEW t \in Tenants, NEW stage \in {"token", "access"}
          PROVE  [req[b] EXCEPT !.tenant = t, !.at = stage] \in Request
      BY <1>0, Updates DEF Stage
    <3>2. [req[b] EXCEPT !.at = "adding", !.address = c] \in Request
      BY <1>0, Updates DEF Stage
    <3>3. ASSUME NEW t \in Tenants
          PROVE  [req[b] EXCEPT !.at = "login", !.tenant = t, !.address = c] \in Request
      BY <1>0, Updates DEF Stage
    <3>4. WithCode(c) \in SUBSET Tenants
      BY DEF WithCode, Rows, Typed, TypeOK
    <3> QED
      BY <1>0, <1>1, <2>3, <3>1, <3>2, <3>3, <3>4, Moves DEF CallbackFind
  <2>4. CASE CheckAccess(b) \/ AddToken(b) \/ AddMember(b)
    BY <1>1, <1>2, <2>4 DEF CheckAccess, AddToken, AddMember, Added, Stage
  <2>5. CASE LoginFind(b)
    <3>1. ASSUME NEW u \in Users PROVE [req[b] EXCEPT !.at = "session", !.user = u] \in Request
      BY <1>0, Updates DEF Stage
    <3>2. \A t, e : InTenant(t, e) \in SUBSET Users
      BY DEF InTenant, WithEmail, Rows, Typed, TypeOK
    <3> QED
      BY <1>0, <1>2, <2>5, <3>1, <3>2, Moves DEF LoginFind, Stage
  <2>6. ASSUME NEW t \in Tenants, AddTenant(b, t) PROVE req' \in [Browsers -> Request]
    <3>1. [req[b] EXCEPT !.at = "member", !.tenant = t] \in Request
      BY <1>0, Updates DEF Stage
    <3> QED
      BY <1>0, <1>1, <2>6, <3>1, Moves DEF AddTenant
  <2>7. ASSUME NEW u \in Users, LoginCreate(b, u) PROVE req' \in [Browsers -> Request]
    <3>1. [req[b] EXCEPT !.at = "session", !.user = u] \in Request
      BY <1>0, Updates DEF Stage
    <3> QED
      BY <1>0, <1>1, <2>7, <3>1, Moves DEF LoginCreate
  <2> QED
    BY <1>4, <2>1, <2>2, <2>3, <2>4, <2>5, <2>6, <2>7 DEF OAuth
<1>5. ASSUME NEW b \in Browsers, SessionStep(b) PROVE req' \in [Browsers -> Request]
  <2>1. ASSUME NEW s \in Sessions
        PROVE  [Idle EXCEPT !.at = "refresh", !.session = s] \in Request
    BY DEF Idle, Request, Stage
  <2>3. Live(cookie[b]) => cookie[b] \in Sessions
    BY DEF Live, Typed, TypeOK
  <2>4. CASE Authenticate(b)
    BY <1>0, <2>1, <2>3, <2>4, Moves DEF Authenticate
  <2>6. CASE \/ \E s \in Sessions : OpenSession(b, s)
             \/ Refresh(b) \/ Logout(b)
    BY <1>0, <1>1, <2>6 DEF OpenSession, Refresh, Logout
  <2> QED
    BY <1>5, <2>4, <2>6 DEF SessionStep
<1>6. CASE \/ \E b \in Browsers : Fail(b)
           \/ \E l \in Links : LinkAges(l)
           \/ \E s \in Sessions : SessionAges(s)
           \/ \E t \in Tenants, c \in Codes : Connect(t, c)
           \/ Cleanup
           \/ UNCHANGED vars
  BY <1>0, <1>1, <1>6 DEF Fail, LinkAges, SessionAges, Connect, Cleanup, vars
<1> QED
  BY <1>3, <1>4, <1>5, <1>6 DEF Next
-----------------------------------------------------------------------------
(* The steps that write each table.                                        *)

WritesUsers == \E b \in Browsers, u \in Users : SignUpUser(b, u) \/ LoginCreate(b, u)

WritesTenants ==
    \/ \E b \in Browsers : SignUpOwner(b)
    \/ \E b \in Browsers, t \in Tenants : SignUpTenant(b, t) \/ AddTenant(b, t)
    \/ \E t \in Tenants, c \in Codes : Connect(t, c)

WritesLinks ==
    \/ \E b \in Browsers : MarkUsed(b)
    \/ \E b \in Browsers, l \in Links : CreateLink(b, l)
    \/ \E l \in Links : LinkAges(l)

WritesSessions ==
    \/ \E b \in Browsers : Refresh(b)
    \/ \E b \in Browsers, s \in Sessions : OpenSession(b, s)
    \/ \E s \in Sessions : SessionAges(s)
    \/ Cleanup

(* Every other step leaves the table as it is.                             *)
LEMMA Writers ==
    [Next]_vars =>
        /\ users' = users \/ WritesUsers
        /\ tenants' = tenants \/ WritesTenants
        /\ links' = links \/ WritesLinks
        /\ sessions' = sessions \/ WritesSessions
        /\ members' = members \/ \E b \in Browsers : AddMember(b)
<1> DEFINE Writes == /\ users' = users \/ WritesUsers
                     /\ tenants' = tenants \/ WritesTenants
                     /\ links' = links \/ WritesLinks
                     /\ sessions' = sessions \/ WritesSessions
                     /\ members' = members \/ \E b \in Browsers : AddMember(b)
<1>1. ASSUME NEW b \in Browsers, MagicLink(b) PROVE Writes
  <2>1. CASE \/ \E e \in Emails : Ask(b, e)
             \/ \E l \in Links : VerifyFind(b, l)
             \/ VerifyLookup(b)
    BY <2>1 DEF Ask, VerifyFind, VerifyLookup, tables
  <2>2. CASE MarkUsed(b) \/ \E l \in Links : CreateLink(b, l)
    BY <2>2 DEF MarkUsed, CreateLink, WritesLinks
  <2>3. CASE SignUpOwner(b) \/ \E t \in Tenants : SignUpTenant(b, t)
    BY <2>3 DEF SignUpOwner, SignUpTenant, WritesTenants
  <2>4. CASE \E u \in Users : SignUpUser(b, u)
    BY <2>4 DEF SignUpUser, WritesUsers
  <2> QED
    BY <1>1, <2>1, <2>2, <2>3, <2>4 DEF MagicLink
<1>2. ASSUME NEW b \in Browsers, OAuth(b) PROVE Writes
  <2>1. CASE \/ OAuthStart(b) \/ Forget(b)
             \/ \E sent \in BOOLEAN : CallbackBegin(b, sent)
             \/ \E c \in Codes : CallbackFind(b, c)
             \/ CheckAccess(b) \/ AddToken(b) \/ LoginFind(b)
    BY <2>1 DEF OAuthStart, Forget, CallbackBegin, CallbackFind, CheckAccess, AddToken,
                LoginFind, tables
  <2>2. CASE \E t \in Tenants : AddTenant(b, t)
    BY <2>2 DEF AddTenant, WritesTenants
  <2>3. CASE AddMember(b)
    BY <2>3 DEF AddMember
  <2>4. CASE \E u \in Users : LoginCreate(b, u)
    BY <2>4 DEF LoginCreate, WritesUsers
  <2> QED
    BY <1>2, <2>1, <2>2, <2>3, <2>4 DEF OAuth
<1>3. ASSUME NEW b \in Browsers, SessionStep(b) PROVE Writes
  <2>1. CASE Authenticate(b) \/ Logout(b)
    BY <2>1 DEF Authenticate, Logout, tables
  <2>2. CASE Refresh(b) \/ \E s \in Sessions : OpenSession(b, s)
    BY <2>2 DEF Refresh, OpenSession, WritesSessions
  <2> QED
    BY <1>3, <2>1, <2>2 DEF SessionStep
<1>4. CASE (\E b \in Browsers : Fail(b)) \/ UNCHANGED vars
  BY <1>4 DEF Fail, tables, vars
<1>5. CASE \/ \E l \in Links : LinkAges(l)
           \/ \E s \in Sessions : SessionAges(s)
           \/ \E t \in Tenants, c \in Codes : Connect(t, c)
           \/ Cleanup
  BY <1>5 DEF LinkAges, SessionAges, Connect, Cleanup, WritesLinks, WritesSessions, WritesTenants
<1> QED
  BY <1>1, <1>2, <1>3, <1>4, <1>5 DEF Next

(* Rows of users are only added.                                           *)
LEMMA UserRows ==
    AccountsAssumption /\ Typed /\ [Next]_vars =>
        /\ users' \in [Users -> User \cup {None}]
        /\ \A u \in Users : users[u] # None => users'[u] = users[u]
<1> SUFFICES ASSUME AccountsAssumption, Typed, WritesUsers
             PROVE  /\ users' \in [Users -> User \cup {None}]
                    /\ \A u \in Users : users[u] # None => users'[u] = users[u]
  BY Writers DEF Typed, TypeOK
<1>1. users \in [Users -> User \cup {None}] /\ req \in [Browsers -> Request]
  BY DEF Typed, TypeOK
<1>2. ASSUME NEW u \in Users, NEW t \in Tenants, NEW a \in Emails \cup Codes, NewUser(u, t, a)
      PROVE  /\ users' \in [Users -> User \cup {None}]
             /\ \A v \in Users : users[v] # None => users'[v] = users[v]
  <2>1. [home |-> t, email |-> a] \in User
    BY DEF User
  <2>2. users[u] = None
    BY <1>1, <1>2 DEF NewUser, NewId, Free
  <2> QED
    BY <1>1, <1>2, <2>1, <2>2 DEF NewUser
<1>3. PICK b \in Browsers, u \in Users : SignUpUser(b, u) \/ LoginCreate(b, u)
  BY DEF WritesUsers
<1>4. RequestRefs(b)
  BY DEF Typed, RefInv
<1>5. req[b].tenant \in Tenants /\ req[b].address \in Emails \cup Codes
  BY <1>1, <1>3, <1>4 DEF SignUpUser, LoginCreate, RequestRefs, Request
<1> QED
  BY <1>1, <1>2, <1>3, <1>5 DEF SignUpUser, LoginCreate

(* Rows of tenants stay.                                                   *)
LEMMA TenantRows ==
    AccountsAssumption /\ Typed /\ [Next]_vars =>
        /\ tenants' \in [Tenants -> Tenant \cup {None}]
        /\ \A t \in Tenants : tenants[t] # None => tenants'[t] # None
<1> SUFFICES ASSUME AccountsAssumption, Typed, WritesTenants
             PROVE  /\ tenants' \in [Tenants -> Tenant \cup {None}]
                    /\ \A t \in Tenants : tenants[t] # None => tenants'[t] # None
  BY Writers DEF Typed, TypeOK
<1>1. tenants \in [Tenants -> Tenant \cup {None}] /\ req \in [Browsers -> Request]
  BY DEF Typed, TypeOK
<1>2. ASSUME NEW t \in Tenants, NEW owner \in Users \cup {None}, NEW c \in Codes \cup {None},
             NewTenant(t, owner, c)
      PROVE  /\ tenants' \in [Tenants -> Tenant \cup {None}]
             /\ \A v \in Tenants : tenants[v] # None => tenants'[v] # None
  <2>1. [owner |-> owner, code |-> c] \in Tenant
    BY DEF Tenant
  <2> QED
    BY <1>1, <1>2, <2>1 DEF NewTenant, AccountsAssumption
<1>3. ASSUME NEW t \in Tenants, tenants[t] # None, NEW row \in Tenant,
             tenants' = [tenants EXCEPT ![t] = row]
      PROVE  /\ tenants' \in [Tenants -> Tenant \cup {None}]
             /\ \A v \in Tenants : tenants[v] # None => tenants'[v] # None
  BY <1>1, <1>3 DEF AccountsAssumption
<1>4. CASE \E b \in Browsers : SignUpOwner(b)
  <2>1. PICK b \in Browsers : SignUpOwner(b)
    BY <1>4
  <2>2. /\ req[b].tenant \in Tenants /\ req[b].user \in Users
        /\ tenants[req[b].tenant] # None
    <3>1. RequestRefs(b)
      BY DEF Typed, RefInv
    <3> QED
      BY <1>1, <2>1, <3>1 DEF SignUpOwner, RequestRefs, Request
  <2>3. [tenants[req[b].tenant] EXCEPT !.owner = req[b].user] \in Tenant
    <3>1. tenants[req[b].tenant] \in Tenant
      BY <1>1, <2>2
    <3> QED
      BY <2>2, <3>1 DEF Tenant
  <2>4. tenants' = [tenants EXCEPT ![req[b].tenant] =
                       [tenants[req[b].tenant] EXCEPT !.owner = req[b].user]]
    BY <2>1 DEF SignUpOwner
  <2> QED
    BY <1>3, <2>2, <2>3, <2>4
<1>5. CASE \E b \in Browsers, t \in Tenants : SignUpTenant(b, t) \/ AddTenant(b, t)
  <2>1. PICK b \in Browsers, t \in Tenants : SignUpTenant(b, t) \/ AddTenant(b, t)
    BY <1>5
  <2>2. CASE SignUpTenant(b, t)
    BY <1>2, <2>2 DEF SignUpTenant
  <2>3. CASE AddTenant(b, t)
    <3>1. RequestRefs(b)
      BY DEF Typed, RefInv
    <3>2. req[b].user \in Users /\ req[b].address \in Codes
      BY <1>1, <2>3, <3>1 DEF AddTenant, RequestRefs, Request
    <3> QED
      BY <1>1, <1>2, <2>3, <3>2 DEF AddTenant
  <2> QED
    BY <2>1, <2>2, <2>3
<1>6. CASE \E t \in Tenants, c \in Codes : Connect(t, c)
  <2>1. PICK t \in Tenants, c \in Codes : Connect(t, c)
    BY <1>6
  <2>2. tenants[t] # None /\ tenants[t] \in Tenant
    BY <1>1, <2>1 DEF Connect, Rows
  <2>3. [tenants[t] EXCEPT !.code = c] \in Tenant
    BY <2>2 DEF Tenant
  <2>4. tenants' = [tenants EXCEPT ![t] = [tenants[t] EXCEPT !.code = c]]
    BY <2>1 DEF Connect
  <2> QED
    BY <1>3, <2>2, <2>3, <2>4
<1> QED
  BY <1>4, <1>5, <1>6 DEF WritesTenants

(* Links stay, with their e-mail, and are used for good.                   *)
LEMMA LinkRows ==
    AccountsAssumption /\ Typed /\ [Next]_vars =>
        /\ links' \in [Links -> Link \cup {None}]
        /\ \A l \in Links : links[l] # None =>
               /\ links'[l] # None
               /\ links'[l].email = links[l].email
               /\ links[l].used => links'[l].used
<1> DEFINE Stay == /\ links' \in [Links -> Link \cup {None}]
                   /\ \A l \in Links : links[l] # None =>
                          /\ links'[l] # None
                          /\ links'[l].email = links[l].email
                          /\ links[l].used => links'[l].used
<1> SUFFICES ASSUME AccountsAssumption, Typed, WritesLinks PROVE Stay
  BY Writers DEF Typed, TypeOK
<1>1. links \in [Links -> Link \cup {None}] /\ req \in [Browsers -> Request]
  BY DEF Typed, TypeOK
<1>2. ASSUME NEW l \in Links, NEW row \in Link, links' = [links EXCEPT ![l] = row],
             links[l] # None => row.email = links[l].email /\ (links[l].used => row.used)
      PROVE  Stay
  BY <1>1, <1>2 DEF AccountsAssumption
<1>3. CASE \E b \in Browsers : MarkUsed(b)
  <2>1. PICK b \in Browsers : MarkUsed(b)
    BY <1>3
  <2>2. RequestRefs(b)
    BY DEF Typed, RefInv
  <2> DEFINE l == req[b].link
             row == [links[l] EXCEPT !.used = TRUE]
  <2>3. l \in Links /\ links[l] \in Link
    BY <1>1, <2>1, <2>2 DEF MarkUsed, RequestRefs, LinkStages, Request
  <2>4. row \in Link /\ row.email = links[l].email /\ row.used
    BY <2>3 DEF Link
  <2>5. links' = [links EXCEPT ![l] = row]
    BY <2>1 DEF MarkUsed
  <2> HIDE DEF row, l, Stay
  <2> QED
    BY <1>2, <2>3, <2>4, <2>5
<1>4. CASE \E b \in Browsers, l \in Links : CreateLink(b, l)
  <2>1. PICK b \in Browsers, l \in Links : CreateLink(b, l)
    BY <1>4
  <2>2. RequestRefs(b)
    BY DEF Typed, RefInv
  <2>3. req[b].address \in Emails
    BY <2>1, <2>2 DEF CreateLink, RequestRefs
  <2>4. [email |-> req[b].address, used |-> FALSE, age |-> "valid"] \in Link
    BY <2>3 DEF Link
  <2>5. links[l] = None
    BY <2>1 DEF CreateLink, NewId, Free
  <2>6. links' = [links EXCEPT ![l] = [email |-> req[b].address, used |-> FALSE, age |-> "valid"]]
    BY <2>1 DEF CreateLink
  <2> QED
    BY <1>2, <2>4, <2>5, <2>6
<1>5. CASE \E l \in Links : LinkAges(l)
  <2>1. PICK l \in Links : LinkAges(l)
    BY <1>5
  <2> DEFINE age == IF links[l].age = "valid" THEN "expired" ELSE "uncounted"
             row == [links[l] EXCEPT !.age = age]
  <2>2. links[l] \in Link /\ age \in {"valid", "expired", "uncounted"}
    BY <1>1, <2>1 DEF LinkAges
  <2>3. links' = [links EXCEPT ![l] = row]
    BY <2>1 DEF LinkAges
  <2> HIDE DEF age
  <2>4. row \in Link /\ row.email = links[l].email /\ row.used = links[l].used
    BY <2>2 DEF Link
  <2> HIDE DEF row, Stay
  <2> QED
    BY <1>2, <2>2, <2>3, <2>4
<1> QED
  BY <1>3, <1>4, <1>5 DEF WritesLinks

(* Sessions stay those of their user and tenant.                           *)
LEMMA SessionRows ==
    AccountsAssumption /\ Typed /\ [Next]_vars =>
        /\ sessions' \in [Sessions -> Session \cup {None}]
        /\ \A s \in Sessions : sessions[s] # None =>
               /\ sessions'[s] # None
               /\ sessions'[s].user = sessions[s].user
               /\ sessions'[s].tenant = sessions[s].tenant
        /\ \A s \in Sessions : sessions'[s] # None =>
               \/ sessions[s] # None
               \/ \E b \in Browsers : OpenSession(b, s)
<1> DEFINE Stay == /\ sessions' \in [Sessions -> Session \cup {None}]
                   /\ \A s \in Sessions : sessions[s] # None =>
                          /\ sessions'[s] # None
                          /\ sessions'[s].user = sessions[s].user
                          /\ sessions'[s].tenant = sessions[s].tenant
                   /\ \A s \in Sessions : sessions'[s] # None =>
                          \/ sessions[s] # None
                          \/ \E b \in Browsers : OpenSession(b, s)
<1> SUFFICES ASSUME AccountsAssumption, Typed, WritesSessions PROVE Stay
  BY Writers DEF Typed, TypeOK
<1>1. /\ sessions \in [Sessions -> Session \cup {None}] /\ req \in [Browsers -> Request]
      /\ cookie \in [Browsers -> Sessions \cup {None}]
  BY DEF Typed, TypeOK
<1>2. ASSUME NEW s \in Sessions, NEW row \in Session, sessions[s] # None,
             sessions' = [sessions EXCEPT ![s] = row],
             row.user = sessions[s].user, row.tenant = sessions[s].tenant
      PROVE  Stay
  BY <1>1, <1>2 DEF AccountsAssumption
<1>3. ASSUME NEW row \in Session, NEW age \in {"fresh", "old", "expired", "deleted"}
      PROVE  /\ [row EXCEPT !.age = age] \in Session
             /\ [row EXCEPT !.age = age].user = row.user
             /\ [row EXCEPT !.age = age].tenant = row.tenant
  BY <1>3 DEF Session
<1>4. ASSUME NEW b \in Browsers, req[b].at = "refresh"
      PROVE  /\ req[b].session \in Sessions /\ sessions[req[b].session] # None
             /\ sessions[req[b].session] \in Session
  <2>1. RequestRefs(b)
    BY DEF Typed, RefInv
  <2> QED
    BY <1>1, <1>4, <2>1 DEF RequestRefs, Request
<1>5. CASE \E b \in Browsers : Refresh(b)
  <2>1. PICK b \in Browsers : Refresh(b)
    BY <1>5
  <2> DEFINE s == req[b].session
             age == IF sessions[s].age = "deleted" THEN "deleted" ELSE "fresh"
             row == [sessions[s] EXCEPT !.age = age]
  <2>2. s \in Sessions /\ sessions[s] # None /\ sessions[s] \in Session
    BY <1>4, <2>1 DEF Refresh
  <2>3. sessions' = [sessions EXCEPT ![s] = row]
    BY <2>1 DEF Refresh
  <2>4. age \in {"fresh", "old", "expired", "deleted"}
    OBVIOUS
  <2> HIDE DEF s, age
  <2>5. row \in Session /\ row.user = sessions[s].user /\ row.tenant = sessions[s].tenant
    BY <1>1, <1>3, <2>2, <2>4
  <2> HIDE DEF row, Stay
  <2> QED
    BY <1>2, <2>2, <2>3, <2>5
<1>7. CASE \E b \in Browsers, s \in Sessions : OpenSession(b, s)
  <2>1. PICK b \in Browsers, s \in Sessions : OpenSession(b, s)
    BY <1>7
  <2>2. RequestRefs(b)
    BY DEF Typed, RefInv
  <2>3. req[b].user \in Users /\ req[b].tenant \in Tenants \cup {None}
    BY <1>1, <2>1, <2>2 DEF OpenSession, RequestRefs, Request
  <2> DEFINE row == [user |-> req[b].user, tenant |-> req[b].tenant, age |-> "fresh"]
  <2>4. row \in Session
    BY <2>3 DEF Session
  <2>5. sessions[s] = None
    BY <2>1 DEF OpenSession, NewId, Free
  <2>6. sessions' = [sessions EXCEPT ![s] = row]
    BY <2>1 DEF OpenSession
  <2> HIDE DEF row
  <2> QED
    BY <1>1, <2>1, <2>4, <2>5, <2>6 DEF AccountsAssumption
<1>8. CASE \E s \in Sessions : SessionAges(s)
  <2>1. PICK s \in Sessions : SessionAges(s)
    BY <1>8
  <2> DEFINE age == IF sessions[s].age = "fresh" THEN "old" ELSE "expired"
             row == [sessions[s] EXCEPT !.age = age]
  <2>2. sessions[s] # None /\ sessions[s] \in Session
    BY <1>1, <2>1 DEF SessionAges, Live
  <2>3. sessions' = [sessions EXCEPT ![s] = row]
    BY <2>1 DEF SessionAges
  <2>4. age \in {"fresh", "old", "expired", "deleted"}
    OBVIOUS
  <2> HIDE DEF age
  <2>5. row \in Session /\ row.user = sessions[s].user /\ row.tenant = sessions[s].tenant
    BY <1>1, <1>3, <2>2, <2>4
  <2> HIDE DEF row, Stay
  <2> QED
    BY <1>2, <2>2, <2>3, <2>5
<1>9. CASE Cleanup
  <2>1. ASSUME NEW row \in Session
        PROVE  /\ [row EXCEPT !.age = "deleted"] \in Session
               /\ [row EXCEPT !.age = "deleted"].user = row.user
               /\ [row EXCEPT !.age = "deleted"].tenant = row.tenant
    BY DEF Session
  <2>2. ASSUME NEW s \in Sessions
        PROVE  /\ sessions'[s] \in Session \cup {None}
               /\ sessions[s] # None => /\ sessions'[s] # None
                                        /\ sessions'[s].user = sessions[s].user
                                        /\ sessions'[s].tenant = sessions[s].tenant
               /\ sessions'[s] # None => sessions[s] # None
    <3>1. \/ sessions'[s] = sessions[s]
          \/ /\ sessions[s] # None
             /\ sessions'[s] = [sessions[s] EXCEPT !.age = "deleted"]
      BY <1>1, <1>9 DEF Cleanup, Rows
    <3>2. CASE sessions'[s] = sessions[s]
      BY <1>1, <3>2
    <3>3. CASE sessions[s] # None /\ sessions'[s] = [sessions[s] EXCEPT !.age = "deleted"]
      <4>1. sessions[s] \in Session
        BY <1>1, <3>3
      <4> QED
        BY <2>1, <3>3, <4>1 DEF AccountsAssumption
    <3> QED
      BY <3>1, <3>2, <3>3
  <2>3. sessions' \in [Sessions -> Session \cup {None}]
    <3>1. sessions' = [s \in Sessions |-> sessions'[s]]
      BY <1>9 DEF Cleanup
    <3> QED
      BY <2>2, <3>1
  <2> QED
    BY <2>2, <2>3
<1> QED
  BY <1>5, <1>7, <1>8, <1>9 DEF WritesSessions

(* Members stay members, and pair users with tenants.                      *)
LEMMA MemberRows ==
    Typed /\ [Next]_vars => members' \in SUBSET (Users \X Tenants) /\ members \subseteq members'
<1> SUFFICES ASSUME Typed, [Next]_vars
             PROVE  members' \in SUBSET (Users \X Tenants) /\ members \subseteq members'
  OBVIOUS
<1>1. members \in SUBSET (Users \X Tenants) /\ req \in [Browsers -> Request]
  BY DEF Typed, TypeOK
<1>2. ASSUME NEW b \in Browsers, AddMember(b)
      PROVE  members' \in SUBSET (Users \X Tenants) /\ members \subseteq members'
  <2>1. RequestRefs(b)
    BY DEF Typed, RefInv
  <2>2. req[b].user \in Users /\ req[b].tenant \in Tenants
    BY <1>1, <1>2, <2>1 DEF AddMember, RequestRefs, Request
  <2> QED
    BY <1>1, <1>2, <2>2 DEF AddMember
<1> QED
  BY <1>1, <1>2, Writers

RestTypes ==
    /\ states \in SUBSET Browsers
    /\ cookie \in [Browsers -> Sessions \cup {None}]
    /\ requests \in Nat
    /\ overlapped \in SUBSET ({"ask", "verify", "signup"} \X (Emails \cup Links))
    /\ opened \in SUBSET Links
    /\ reopened \in SUBSET Links
    /\ told \in SUBSET (Users \X Tenants)

(* ... and so does what is neither a table nor a request.                  *)
LEMMA RestTyping == Typed /\ [Next]_vars => RestTypes'
<1> SUFFICES ASSUME Typed, [Next]_vars PROVE RestTypes'
  OBVIOUS
<1>0. RestTypes /\ req \in [Browsers -> Request]
  BY DEF Typed, TypeOK, RestTypes
<1>1. CASE UNCHANGED <<memory, ghosts>>
  BY <1>0, <1>1 DEF RestTypes, memory, ghosts
<1>2. \A b \in Browsers : RequestRefs(b)
  BY DEF Typed, RefInv
<1>8. ASSUME UNCHANGED ghosts, Count \/ UNCHANGED requests,
             states' \in SUBSET Browsers, cookie' \in [Browsers -> Sessions \cup {None}]
      PROVE  RestTypes'
  BY <1>0, <1>8 DEF Count, ghosts, RestTypes
<1>3. ASSUME NEW b \in Browsers, MagicLink(b) PROVE RestTypes'
  <2>1. CASE \E e \in Emails : Ask(b, e)
    BY <1>0, <2>1 DEF Ask, Overlap, Count, RestTypes
  <2>2. CASE \E l \in Links : VerifyFind(b, l)
    BY <1>0, <2>2 DEF VerifyFind, Overlap, Count, RestTypes
  <2>3. CASE VerifyLookup(b)
    <3>1. links[req[b].link].email \in Emails
      BY <1>0, <1>2, <2>3 DEF VerifyLookup, Typed, TypeOK, RequestRefs, LinkStages, Link, Request
    <3> DEFINE asked == <<"signup", links[req[b].link].email>>
    <3>2. overlapped' = overlapped \/ overlapped' = overlapped \cup {asked}
      BY <2>3 DEF VerifyLookup, Overlap
    <3>3. asked \in {"ask", "verify", "signup"} \X (Emails \cup Links)
      BY <3>1
    <3>4. UNCHANGED <<states, cookie, requests, opened, reopened, told>>
      BY <2>3 DEF VerifyLookup, memory
    <3> HIDE DEF asked
    <3> QED
      BY <1>0, <3>2, <3>3, <3>4 DEF RestTypes
  <2>4. CASE \/ MarkUsed(b) \/ SignUpOwner(b)
             \/ \E l \in Links : CreateLink(b, l)
             \/ \E t \in Tenants : SignUpTenant(b, t)
             \/ \E u \in Users : SignUpUser(b, u)
    BY <1>1, <2>4 DEF MarkUsed, SignUpOwner, CreateLink, SignUpTenant, SignUpUser
  <2> QED
    BY <1>3, <2>1, <2>2, <2>3, <2>4 DEF MagicLink
<1>4. ASSUME NEW b \in Browsers, OAuth(b) PROVE RestTypes'
  <2>1. CASE \/ OAuthStart(b) \/ Forget(b)
             \/ \E sent \in BOOLEAN : CallbackBegin(b, sent)
    <3>1. /\ UNCHANGED <<ghosts, cookie>>
          /\ Count \/ UNCHANGED requests
          /\ states' = states \cup {b} \/ states' = states \ {b}
      BY <2>1 DEF OAuthStart, Forget, CallbackBegin
    <3> QED
      BY <1>0, <1>8, <3>1 DEF RestTypes
  <2>2. CASE \/ CheckAccess(b) \/ LoginFind(b)
             \/ \E c \in Codes : CallbackFind(b, c)
             \/ \E t \in Tenants : AddTenant(b, t)
             \/ \E u \in Users : LoginCreate(b, u)
    BY <1>1, <2>2 DEF CheckAccess, LoginFind, CallbackFind, AddTenant, LoginCreate
  <2>3. CASE AddToken(b) \/ AddMember(b)
    <3>1. req[b].user \in Users /\ req[b].tenant \in Tenants
      BY <1>0, <1>2, <2>3 DEF AddToken, AddMember, RequestRefs, Request
    <3> QED
      BY <1>0, <2>3, <3>1 DEF AddToken, AddMember, Added, RestTypes
  <2> QED
    BY <1>4, <2>1, <2>2, <2>3 DEF OAuth
<1>5. ASSUME NEW b \in Browsers, SessionStep(b) PROVE RestTypes'
  <2>1. CASE \E s \in Sessions : OpenSession(b, s)
    <3>1. req[b].link \in Links \cup {None}
      BY <1>0 DEF Request
    <3> QED
      BY <1>0, <2>1, <3>1 DEF OpenSession, RestTypes
  <2>2. CASE Authenticate(b) \/ Logout(b)
    <3>1. /\ UNCHANGED <<ghosts, states>>
          /\ Count
          /\ UNCHANGED cookie \/ cookie' = [cookie EXCEPT ![b] = None]
      BY <2>2 DEF Authenticate, Logout
    <3> QED
      BY <1>0, <1>8, <3>1 DEF RestTypes
  <2>3. CASE Refresh(b)
    BY <1>1, <2>3 DEF Refresh
  <2> QED
    BY <1>5, <2>1, <2>2, <2>3 DEF SessionStep
<1>6. ASSUME NEW b \in Browsers, Fail(b) PROVE RestTypes'
  BY <1>1, <1>6 DEF Fail
<1>7. CASE \/ \E l \in Links : LinkAges(l)
           \/ \E s \in Sessions : SessionAges(s)
           \/ \E t \in Tenants, c \in Codes : Connect(t, c)
           \/ Cleanup
           \/ UNCHANGED vars
  BY <1>1, <1>7 DEF LinkAges, SessionAges, Connect, Cleanup, vars
<1> QED
  BY <1>3, <1>4, <1>5, <1>6, <1>7 DEF Next

(* All of them together.                                                   *)
LEMMA Typing == AccountsAssumption /\ Typed /\ [Next]_vars => TypeOK'
BY UserRows, TenantRows, LinkRows, SessionRows, MemberRows, RequestTyping, RestTyping
   DEF TypeOK, RestTypes

-----------------------------------------------------------------------------
(* The references stay good.                                               *)

(* Rows stay, with what the references rely on.                            *)
RowsStay ==
    /\ \A u \in Users : users[u] # None => users'[u] # None /\ users'[u].home = users[u].home
    /\ \A t \in Tenants : tenants[t] # None => tenants'[t] # None
    /\ \A l \in Links : links[l] # None => links'[l] # None
    /\ \A s \in Sessions : sessions[s] # None =>
           sessions'[s] # None /\ sessions'[s].user = sessions[s].user
    /\ members \subseteq members'

(* No step removes a row.                                                  *)
LEMMA Stays == AccountsAssumption /\ Typed /\ [Next]_vars => RowsStay
BY UserRows, TenantRows, LinkRows, SessionRows, MemberRows DEF RowsStay

(* References of a request that a step leaves alone stay good.             *)
LEMMA RefsStay ==
    ASSUME Typed, RowsStay, NEW b \in Browsers, req'[b] = req[b]
    PROVE  RequestRefs(b)'
<1>1. RequestRefs(b) /\ req[b] \in Request
  BY DEF Typed, TypeOK, RefInv
<1> QED
  BY <1>1 DEF RowsStay, RequestRefs, Request

(* A request that is over refers to nothing.                               *)
LEMMA RefsIdle ==
    ASSUME NEW b \in Browsers, req \in [Browsers -> Request], End(b)
    PROVE  RequestRefs(b)'
BY DEF End, Move, Idle, RequestRefs, LinkStages

Fields(r, at, address, link, user, tenant, session) ==
    /\ r.at = at /\ r.address = address /\ r.link = link
    /\ r.user = user /\ r.tenant = tenant /\ r.session = session

(* Where each step of a request leads: magic links, ...                    *)
LEMMA MagicLinkFields ==
    ASSUME req \in [Browsers -> Request], NEW b \in Browsers
    PROVE  LET r == req[b] IN
           /\ \A e \in Emails : Ask(b, e) =>
                 Fields(req'[b], "asked", e, None, None, None, None)
           /\ \A l \in Links : VerifyFind(b, l) =>
                 Fields(req'[b], "found", None, l, None, None, None)
           /\ MarkUsed(b) =>
                 Fields(req'[b], "used", r.address, r.link, r.user, r.tenant, r.session)
           /\ VerifyLookup(b) =>
                 \/ \E u \in WithEmail(links[r.link].email) :
                       Fields(req'[b], "session", r.address, r.link, u, r.tenant, r.session)
                 \/ Fields(req'[b], "signup", links[r.link].email, r.link, r.user, r.tenant,
                           r.session)
           /\ \A t \in Tenants : SignUpTenant(b, t) =>
                 Fields(req'[b], "user", r.address, r.link, r.user, t, r.session)
           /\ \A u \in Users : SignUpUser(b, u) =>
                 Fields(req'[b], "owner", r.address, r.link, u, r.tenant, r.session)
           /\ SignUpOwner(b) =>
                 Fields(req'[b], "session", r.address, r.link, r.user, None, r.session)
<1> DEFINE r == req[b]
           e1 == links[r.link].email
<1>1. r \in Request /\ \A n : Move(b, n) => req'[b] = n
  BY DEF Move
<1>2. \A e : Fields([Idle EXCEPT !.at = "asked", !.address = e],
                    "asked", e, None, None, None, None)
  BY DEF Fields, Idle
<1>3. \A l : Fields([Idle EXCEPT !.at = "found", !.link = l],
                    "found", None, l, None, None, None)
  BY DEF Fields, Idle
<1>4. Fields([r EXCEPT !.at = "used"],
             "used", r.address, r.link, r.user, r.tenant, r.session)
  BY <1>1 DEF Fields, Request
<1>5. \A u : Fields([r EXCEPT !.at = "session", !.user = u],
                    "session", r.address, r.link, u, r.tenant, r.session)
  BY <1>1 DEF Fields, Request
<1>6. Fields([r EXCEPT !.at = "signup", !.address = e1],
             "signup", e1, r.link, r.user, r.tenant, r.session)
  BY <1>1 DEF Fields, Request
<1>7. \A t : Fields([r EXCEPT !.at = "user", !.tenant = t],
                    "user", r.address, r.link, r.user, t, r.session)
  BY <1>1 DEF Fields, Request
<1>8. \A u : Fields([r EXCEPT !.at = "owner", !.user = u],
                    "owner", r.address, r.link, u, r.tenant, r.session)
  BY <1>1 DEF Fields, Request
<1>9. Fields([r EXCEPT !.at = "session", !.tenant = None],
             "session", r.address, r.link, r.user, None, r.session)
  BY <1>1 DEF Fields, Request
<1> QED
  BY <1>1, <1>2, <1>3, <1>4, <1>5, <1>6, <1>7, <1>8, <1>9
     DEF Ask, VerifyFind, MarkUsed, VerifyLookup, SignUpTenant, SignUpUser, SignUpOwner, Goto

(* ... the Bsale login, ...                                                *)
LEMMA OAuthFields ==
    ASSUME req \in [Browsers -> Request], NEW b \in Browsers
    PROVE  LET r == req[b] IN
           /\ \A sent \in BOOLEAN : CallbackBegin(b, sent) =>
                 Fields(req'[b], "callback", None, None,
                        IF sent /\ Live(cookie[b]) THEN sessions[cookie[b]].user ELSE None,
                        None, None)
           /\ \A c \in Codes : CallbackFind(b, c) =>
                 \/ /\ r.user # None
                    /\ \E t \in WithCode(c), stage \in {"token", "access"} :
                          /\ stage = "token" => tenants[t].owner = r.user
                          /\ Fields(req'[b], stage, r.address, r.link, r.user, t, r.session)
                 \/ /\ r.user # None
                    /\ Fields(req'[b], "adding", c, r.link, r.user, r.tenant, r.session)
                 \/ \E t \in WithCode(c) :
                       Fields(req'[b], "login", c, r.link, r.user, t, r.session)
                 \/ End(b)
           /\ CheckAccess(b) =>
                 \/ /\ <<r.user, r.tenant>> \in members
                    /\ Fields(req'[b], "token", r.address, r.link, r.user, r.tenant, r.session)
                 \/ End(b)
           /\ \A t \in Tenants : AddTenant(b, t) =>
                 \/ Fields(req'[b], "member", r.address, r.link, r.user, t, r.session)
                 \/ End(b)
           /\ LoginFind(b) =>
                 \/ \E u \in InTenant(r.tenant, r.address) :
                          Fields(req'[b], "session", r.address, r.link, u, r.tenant, r.session)
                 \/ Fields(req'[b], "admin", r.address, r.link, r.user, r.tenant, r.session)
           /\ \A u \in Users : LoginCreate(b, u) =>
                 \/ /\ NewUser(u, r.tenant, r.address)
                    /\ Fields(req'[b], "session", r.address, r.link, u, r.tenant, r.session)
                 \/ End(b)
<1> DEFINE r == req[b]
<1>1. r \in Request /\ \A n : Move(b, n) => req'[b] = n
  BY DEF Move
<1>2. \A u : Fields([Idle EXCEPT !.at = "callback", !.user = u],
                    "callback", None, None, u, None, None)
  BY DEF Fields, Idle
<1>4. \A c : Fields([r EXCEPT !.at = "adding", !.address = c],
                    "adding", c, r.link, r.user, r.tenant, r.session)
  BY <1>1 DEF Fields, Request
<1>6. \A stage : Fields([r EXCEPT !.at = stage],
                        stage, r.address, r.link, r.user, r.tenant, r.session)
  BY <1>1 DEF Fields, Request
<1>7. \A t : Fields([r EXCEPT !.at = "member", !.tenant = t],
                    "member", r.address, r.link, r.user, t, r.session)
  BY <1>1 DEF Fields, Request
<1>8. \A u : Fields([r EXCEPT !.at = "session", !.user = u],
                    "session", r.address, r.link, u, r.tenant, r.session)
  BY <1>1 DEF Fields, Request
<1>9. ASSUME NEW sent \in BOOLEAN, CallbackBegin(b, sent)
      PROVE  Fields(req'[b], "callback", None, None,
                    IF sent /\ Live(cookie[b]) THEN sessions[cookie[b]].user ELSE None, None, None)
  BY <1>1, <1>2, <1>9 DEF CallbackBegin
<1>10. ASSUME NEW c \in Codes, CallbackFind(b, c)
       PROVE  \/ /\ r.user # None
                 /\ \E t \in WithCode(c), stage \in {"token", "access"} :
                       /\ stage = "token" => tenants[t].owner = r.user
                       /\ Fields(req'[b], stage, r.address, r.link, r.user, t, r.session)
              \/ /\ r.user # None
                 /\ Fields(req'[b], "adding", c, r.link, r.user, r.tenant, r.session)
              \/ \E t \in WithCode(c) :
                    Fields(req'[b], "login", c, r.link, r.user, t, r.session)
              \/ End(b)
  <2>1. ASSUME NEW t \in WithCode(c)
        PROVE  LET stage == IF tenants[t].owner = r.user THEN "token" ELSE "access" IN
               Move(b, [r EXCEPT !.tenant = t, !.at = stage]) =>
                   /\ stage \in {"token", "access"}
                   /\ stage = "token" => tenants[t].owner = r.user
                   /\ Fields(req'[b], stage, r.address, r.link, r.user, t, r.session)
    <3> DEFINE stage == IF tenants[t].owner = r.user THEN "token" ELSE "access"
    <3>1. stage \in {"token", "access"} /\ (stage = "token" => tenants[t].owner = r.user)
      OBVIOUS
    <3> HIDE DEF stage
    <3>2. Fields([r EXCEPT !.tenant = t, !.at = stage],
                 stage, r.address, r.link, r.user, t, r.session)
      BY <1>1 DEF Fields, Request
    <3>3. Move(b, [r EXCEPT !.tenant = t, !.at = stage]) =>
             Fields(req'[b], stage, r.address, r.link, r.user, t, r.session)
      BY <1>1, <3>2
    <3> QED
      BY <3>1, <3>3 DEF stage
  <2>2. Move(b, [r EXCEPT !.at = "adding", !.address = c])
           => Fields(req'[b], "adding", c, r.link, r.user, r.tenant, r.session)
    BY <1>1, <1>4
  <2>3. ASSUME NEW t \in WithCode(c), Move(b, [r EXCEPT !.at = "login", !.tenant = t, !.address = c])
        PROVE  Fields(req'[b], "login", c, r.link, r.user, t, r.session)
    <3>1. Fields([r EXCEPT !.at = "login", !.tenant = t, !.address = c],
                 "login", c, r.link, r.user, t, r.session)
      BY <1>1 DEF Fields, Request
    <3> QED
      BY <1>1, <2>3, <3>1
  <2>4. ASSUME r.user # None, NEW t \in WithCode(c),
               Move(b, [r EXCEPT !.tenant = t,
                                 !.at = IF tenants[t].owner = r.user THEN "token" ELSE "access"])
        PROVE  \E stage \in {"token", "access"} :
                  /\ stage = "token" => tenants[t].owner = r.user
                  /\ Fields(req'[b], stage, r.address, r.link, r.user, t, r.session)
    <3> DEFINE stage == IF tenants[t].owner = r.user THEN "token" ELSE "access"
    <3>1. /\ stage \in {"token", "access"}
          /\ stage = "token" => tenants[t].owner = r.user
          /\ Fields(req'[b], stage, r.address, r.link, r.user, t, r.session)
      BY <2>1, <2>4
    <3> HIDE DEF stage
    <3> QED
      BY <3>1
  <2> QED
    BY <1>10, <2>2, <2>3, <2>4 DEF CallbackFind
<1>11. ASSUME CheckAccess(b)
       PROVE  \/ /\ <<r.user, r.tenant>> \in members
                 /\ Fields(req'[b], "token", r.address, r.link, r.user, r.tenant, r.session)
              \/ End(b)
  BY <1>1, <1>6, <1>11 DEF CheckAccess, HasAccess, Goto
<1>12. ASSUME LoginFind(b)
       PROVE  \/ \E u \in InTenant(r.tenant, r.address) :
                       Fields(req'[b], "session", r.address, r.link, u, r.tenant, r.session)
              \/ Fields(req'[b], "admin", r.address, r.link, r.user, r.tenant, r.session)
  BY <1>1, <1>6, <1>8, <1>12 DEF LoginFind, Goto
<1> QED
  BY <1>1, <1>7, <1>8, <1>9, <1>10, <1>11, <1>12 DEF AddTenant, LoginCreate

(* ... and sessions.                                                       *)
LEMMA SessionFields ==
    ASSUME req \in [Browsers -> Request], NEW b \in Browsers
    PROVE  Authenticate(b) => Fields(req'[b], "refresh", None, None, None, None, cookie[b])
<1>1. \A n : Move(b, n) => req'[b] = n
  BY DEF Move
<1>2. Fields([Idle EXCEPT !.at = "refresh", !.session = cookie[b]],
             "refresh", None, None, None, None, cookie[b])
  BY DEF Fields, Idle
<1> QED
  BY <1>1, <1>2 DEF Authenticate

(* A step by which b verifies a link keeps b's references good ...         *)
LEMMA MagicLinkRefs ==
    ASSUME AccountsAssumption, Typed, RowsStay, NEW b \in Browsers, MagicLink(b)
    PROVE  RequestRefs(b)'
<1> DEFINE r == req[b]
<1>1. r \in Request /\ RequestRefs(b)
  BY DEF Typed, TypeOK, RefInv
<1>2. /\ users \in [Users -> User \cup {None}] /\ links \in [Links -> Link \cup {None}]
      /\ req \in [Browsers -> Request]
  BY DEF Typed, TypeOK
<1>3. CASE \E e \in Emails : Ask(b, e)
  BY <1>2, <1>3, MagicLinkFields DEF Fields, RequestRefs, LinkStages
<1>4. CASE \E l \in Links : CreateLink(b, l)
  BY <1>2, <1>4, RefsIdle DEF CreateLink
<1>5. CASE \E l \in Links : VerifyFind(b, l)
  <2>1. PICK l \in Links : VerifyFind(b, l)
    BY <1>5
  <2>2. Fields(req'[b], "found", None, l, None, None, None)
    BY <1>2, <2>1, MagicLinkFields
  <2>3. links[l] # None /\ l # None
    BY <2>1 DEF VerifyFind, ValidLinks, Rows, AccountsAssumption
  <2> QED
    BY <2>2, <2>3 DEF Fields, RequestRefs, LinkStages, RowsStay
<1>6. CASE MarkUsed(b)
  <2>1. Fields(req'[b], "used", r.address, r.link, r.user, r.tenant, r.session)
    BY <1>2, <1>6, MagicLinkFields
  <2>2. r.link \in Links /\ r.link # None /\ links[r.link] # None
    BY <1>1, <1>6 DEF MarkUsed, RequestRefs, LinkStages, Request
  <2> QED
    BY <2>1, <2>2 DEF Fields, RequestRefs, LinkStages, RowsStay
<1>7. CASE VerifyLookup(b)
  <2> DEFINE e == links[r.link].email
  <2>1. r.link \in Links /\ r.link # None /\ links[r.link] # None
    BY <1>1, <1>7 DEF VerifyLookup, RequestRefs, LinkStages, Request
  <2>2. e \in Emails
    BY <1>2, <2>1 DEF Link
  <2>3. CASE \E u \in WithEmail(e) :
                Fields(req'[b], "session", r.address, r.link, u, r.tenant, r.session)
    <3>1. PICK u \in WithEmail(e) :
                  Fields(req'[b], "session", r.address, r.link, u, r.tenant, r.session)
      BY <2>3
    <3>2. u \in Users /\ users[u] # None /\ u # None
      BY <1>2, <3>1 DEF WithEmail, Rows, AccountsAssumption
    <3> QED
      BY <3>1, <3>2 DEF Fields, RequestRefs, LinkStages, RowsStay
  <2>4. CASE Fields(req'[b], "signup", e, r.link, r.user, r.tenant, r.session)
    BY <2>1, <2>2, <2>4 DEF Fields, RequestRefs, LinkStages, RowsStay
  <2> QED
    BY <1>2, <1>7, <2>3, <2>4, MagicLinkFields
<1>8. CASE \E t \in Tenants : SignUpTenant(b, t)
  <2>1. PICK t \in Tenants : SignUpTenant(b, t)
    BY <1>8
  <2>2. Fields(req'[b], "user", r.address, r.link, r.user, t, r.session)
    BY <1>2, <2>1, MagicLinkFields
  <2>3. t # None /\ tenants'[t] # None
    <3>1. [owner |-> None, code |-> None] \in Tenant
      BY DEF Tenant
    <3> QED
      BY <2>1, <3>1 DEF SignUpTenant, NewTenant, AccountsAssumption, Typed, TypeOK
  <2>4. r.link \in Links /\ r.link # None /\ links[r.link] # None /\ r.address \in Emails
    BY <1>1, <2>1 DEF SignUpTenant, RequestRefs, LinkStages, Request
  <2> QED
    BY <2>2, <2>3, <2>4 DEF Fields, RequestRefs, LinkStages, RowsStay
<1>9. CASE \E u \in Users : SignUpUser(b, u)
  <2>1. PICK u \in Users : SignUpUser(b, u)
    BY <1>9
  <2>2. Fields(req'[b], "owner", r.address, r.link, u, r.tenant, r.session)
    BY <1>2, <2>1, MagicLinkFields
  <2>3. /\ r.link \in Links /\ r.link # None /\ links[r.link] # None
        /\ r.tenant \in Tenants /\ r.tenant # None /\ tenants[r.tenant] # None
        /\ r.address \in Emails
    BY <1>1, <2>1 DEF SignUpUser, RequestRefs, LinkStages, Request
  <2>4. u # None /\ users'[u] # None /\ users'[u].home = r.tenant
    <3>1. [home |-> r.tenant, email |-> r.address] \in User
      BY <2>3 DEF User
    <3>2. users'[u] = [home |-> r.tenant, email |-> r.address]
      BY <1>2, <2>1 DEF SignUpUser, NewUser
    <3> QED
      BY <3>1, <3>2 DEF AccountsAssumption
  <2> QED
    BY <2>2, <2>3, <2>4 DEF Fields, RequestRefs, LinkStages, RowsStay
<1>10. CASE SignUpOwner(b)
  <2>1. Fields(req'[b], "session", r.address, r.link, r.user, None, r.session)
    BY <1>2, <1>10, MagicLinkFields
  <2>2. r.user \in Users /\ r.user # None /\ users[r.user] # None
    BY <1>1, <1>10 DEF SignUpOwner, RequestRefs, LinkStages, Request
  <2> QED
    BY <2>1, <2>2 DEF Fields, RequestRefs, LinkStages, RowsStay
<1> QED
  BY <1>3, <1>4, <1>5, <1>6, <1>7, <1>8, <1>9, <1>10 DEF MagicLink

(* ... and so does a step of its Bsale login ...                           *)
LEMMA OAuthRefs ==
    ASSUME AccountsAssumption, Typed, RowsStay, NEW b \in Browsers, OAuth(b)
    PROVE  RequestRefs(b)'
<1> DEFINE r == req[b]
<1>1. r \in Request /\ RequestRefs(b)
  BY DEF Typed, TypeOK, RefInv
<1>2. /\ users \in [Users -> User \cup {None}] /\ tenants \in [Tenants -> Tenant \cup {None}]
      /\ req \in [Browsers -> Request]
  BY DEF Typed, TypeOK
<1>3. \A e : \A u \in WithEmail(e) : u \in Users /\ users[u] # None /\ u # None
  BY <1>2 DEF WithEmail, Rows, AccountsAssumption
<1>4. CASE OAuthStart(b) \/ Forget(b)
  <2>1. req'[b] = req[b]
    BY <1>4 DEF OAuthStart, Forget
  <2> QED
    BY <2>1, RefsStay
<1>5. CASE \E sent \in BOOLEAN : CallbackBegin(b, sent)
  <2>1. PICK sent \in BOOLEAN : CallbackBegin(b, sent)
    BY <1>5
  <2> DEFINE u == IF sent /\ Live(cookie[b]) THEN sessions[cookie[b]].user ELSE None
  <2>2. u # None => u \in Users /\ users[u] # None
    BY DEF Live, Typed, TypeOK, RefInv, Session
  <2>3. Fields(req'[b], "callback", None, None, u, None, None)
    BY <1>2, <2>1, OAuthFields
  <2> HIDE DEF u
  <2> QED
    BY <2>2, <2>3 DEF Fields, RequestRefs, LinkStages, RowsStay
<1>6. CASE \E c \in Codes : CallbackFind(b, c)
  <2>1. PICK c \in Codes : CallbackFind(b, c)
    BY <1>6
  <2>2. r.user # None => r.user \in Users /\ users[r.user] # None
    BY <1>1, <2>1 DEF CallbackFind, RequestRefs, Request
  <2>3. \A t \in WithCode(c) : t \in Tenants /\ t # None
    BY <1>2 DEF WithCode, Rows, AccountsAssumption
  <2>4. ASSUME r.user # None, NEW t \in WithCode(c), NEW stage \in {"token", "access"},
               Fields(req'[b], stage, r.address, r.link, r.user, t, r.session)
        PROVE  RequestRefs(b)'
    BY <2>2, <2>3, <2>4 DEF Fields, RequestRefs, LinkStages, RowsStay
  <2>5. ASSUME r.user # None,
               Fields(req'[b], "adding", c, r.link, r.user, r.tenant, r.session)
        PROVE  RequestRefs(b)'
    BY <2>2, <2>5 DEF Fields, RequestRefs, LinkStages, RowsStay
  <2>6. ASSUME NEW t \in WithCode(c),
               Fields(req'[b], "login", c, r.link, r.user, t, r.session)
        PROVE  RequestRefs(b)'
    BY <2>3, <2>6 DEF Fields, RequestRefs, LinkStages
  <2>7. \/ r.user # None /\ \E t \in WithCode(c), stage \in {"token", "access"} :
              /\ stage = "token" => tenants[t].owner = r.user
              /\ Fields(req'[b], stage, r.address, r.link, r.user, t, r.session)
        \/ r.user # None /\ Fields(req'[b], "adding", c, r.link, r.user, r.tenant, r.session)
        \/ \E t \in WithCode(c) : Fields(req'[b], "login", c, r.link, r.user, t, r.session)
        \/ End(b)
    BY <1>2, <2>1, OAuthFields
  <2> QED
    BY <1>2, <2>4, <2>5, <2>6, <2>7, RefsIdle
<1>7. CASE CheckAccess(b)
  <2>1. CASE Fields(req'[b], "token", r.address, r.link, r.user, r.tenant, r.session)
    <3>1. r.user \in Users /\ r.user # None /\ users[r.user] # None /\ r.tenant # None
      BY <1>1, <1>7 DEF CheckAccess, RequestRefs, Request
    <3> QED
      BY <2>1, <3>1 DEF Fields, RequestRefs, LinkStages, RowsStay
  <2> QED
    BY <1>2, <1>7, <2>1, RefsIdle, OAuthFields
<1>8. CASE AddToken(b) \/ AddMember(b)
  BY <1>2, <1>8, RefsIdle DEF AddToken, AddMember, Added
<1>9. CASE LoginFind(b)
  <2>1. r.tenant # None /\ r.address \in Codes
    BY <1>1, <1>9 DEF LoginFind, RequestRefs
  <2>2. CASE Fields(req'[b], "admin", r.address, r.link, r.user, r.tenant, r.session)
    BY <2>1, <2>2 DEF Fields, RequestRefs, LinkStages
  <2>3. ASSUME NEW u \in InTenant(r.tenant, r.address),
               Fields(req'[b], "session", r.address, r.link, u, r.tenant, r.session)
        PROVE  RequestRefs(b)'
    BY <1>3, <2>3 DEF InTenant, Fields, RequestRefs, LinkStages, RowsStay
  <2> QED
    BY <1>2, <1>9, <2>2, <2>3, OAuthFields
<1>10. CASE \E t \in Tenants : AddTenant(b, t)
  <2>1. PICK t \in Tenants : AddTenant(b, t)
    BY <1>10
  <2>2. CASE Fields(req'[b], "member", r.address, r.link, r.user, t, r.session)
    <3>1. r.user \in Users /\ r.user # None /\ users[r.user] # None /\ t # None
      BY <1>1, <2>1 DEF AddTenant, RequestRefs, Request, AccountsAssumption
    <3> QED
      BY <2>2, <3>1 DEF Fields, RequestRefs, LinkStages, RowsStay
  <2> QED
    BY <1>2, <2>1, <2>2, RefsIdle, OAuthFields
<1>11. CASE \E u \in Users : LoginCreate(b, u)
  <2>1. PICK u \in Users : LoginCreate(b, u)
    BY <1>11
  <2>2. CASE /\ NewUser(u, r.tenant, r.address)
             /\ Fields(req'[b], "session", r.address, r.link, u, r.tenant, r.session)
    <3>1. r.tenant \in Tenants /\ r.address \in Codes
      BY <1>1, <2>1 DEF LoginCreate, RequestRefs, Request
    <3>2. [home |-> r.tenant, email |-> r.address] \in User
      BY <3>1 DEF User
    <3>3. u # None /\ users'[u] = [home |-> r.tenant, email |-> r.address]
      BY <1>2, <2>2 DEF NewUser, AccountsAssumption
    <3>4. users'[u] # None
      BY <3>2, <3>3 DEF AccountsAssumption
    <3> QED
      BY <2>2, <3>3, <3>4 DEF Fields, RequestRefs, LinkStages
  <2> QED
    BY <1>2, <2>1, <2>2, RefsIdle, OAuthFields
<1> QED
  BY <1>4, <1>5, <1>6, <1>7, <1>8, <1>9, <1>10, <1>11 DEF OAuth

(* ... and of its session.                                                 *)
LEMMA SessionRefs ==
    ASSUME AccountsAssumption, Typed, RowsStay, NEW b \in Browsers, SessionStep(b)
    PROVE  RequestRefs(b)'
<1> DEFINE s == cookie[b]
<1>1. req \in [Browsers -> Request]
  BY DEF Typed, TypeOK
<1>2. Live(s) => s \in Sessions /\ s # None /\ sessions[s] # None
  BY DEF Live, Typed, TypeOK
<1>3. CASE Authenticate(b)
  <2>1. Fields(req'[b], "refresh", None, None, None, None, s)
    BY <1>1, <1>3, SessionFields
  <2> QED
    BY <1>2, <1>3, <2>1 DEF Authenticate, Fields, RequestRefs, LinkStages, RowsStay
<1>5. CASE Refresh(b) \/ \E t \in Sessions : OpenSession(b, t)
  BY <1>1, <1>5, RefsIdle DEF Refresh, OpenSession
<1>6. CASE Logout(b)
  BY <1>6, RefsStay DEF Logout
<1> QED
  BY <1>3, <1>5, <1>6 DEF SessionStep

OthersWait(b) == \A o \in Browsers \ {b} : req'[o] = req[o]

(* A browser's step leaves the requests of the others alone.               *)
LEMMA OthersStay ==
    ASSUME req \in [Browsers -> Request], NEW b \in Browsers,
           MagicLink(b) \/ OAuth(b) \/ SessionStep(b) \/ Fail(b)
    PROVE  OthersWait(b)
<1>1. \A n : Move(b, n) => OthersWait(b)
  BY DEF Move, OthersWait
<1>2. UNCHANGED req => OthersWait(b)
  BY DEF OthersWait
<1>3. CASE MagicLink(b)
  BY <1>1, <1>3 DEF MagicLink, Ask, CreateLink, VerifyFind, MarkUsed, VerifyLookup, SignUpOwner,
                    SignUpTenant, SignUpUser, Goto, End
<1>4. CASE OAuth(b)
  <2>1. CASE \/ OAuthStart(b) \/ Forget(b)
             \/ \E sent \in BOOLEAN : CallbackBegin(b, sent)
             \/ \E c \in Codes : CallbackFind(b, c)
    BY <1>1, <1>2, <2>1 DEF OAuthStart, Forget, CallbackBegin, CallbackFind, End
  <2>2. CASE \/ CheckAccess(b) \/ AddToken(b) \/ AddMember(b) \/ LoginFind(b)
             \/ \E t \in Tenants : AddTenant(b, t)
             \/ \E u \in Users : LoginCreate(b, u)
    BY <1>1, <2>2 DEF CheckAccess, AddToken, AddMember, Added, LoginFind, AddTenant, LoginCreate,
                      Goto, End
  <2> QED
    BY <1>4, <2>1, <2>2 DEF OAuth
<1>5. CASE SessionStep(b)
  BY <1>1, <1>2, <1>5 DEF SessionStep, OpenSession, Authenticate, Refresh, Logout, End
<1>6. CASE Fail(b)
  BY <1>1, <1>6 DEF Fail, End
<1> QED
  BY <1>3, <1>4, <1>5, <1>6

(* Every step keeps the references of requests and sessions good.          *)
LEMMA Refs == AccountsAssumption /\ Typed /\ [Next]_vars => RefInv'
<1> SUFFICES ASSUME AccountsAssumption, Typed, [Next]_vars PROVE RefInv'
  OBVIOUS
<1>1. RowsStay /\ req \in [Browsers -> Request]
  BY Stays DEF Typed, TypeOK
<1>2. ASSUME NEW o \in Browsers PROVE RequestRefs(o)'
  <2>1. CASE \E b \in Browsers : MagicLink(b) \/ OAuth(b) \/ SessionStep(b) \/ Fail(b)
    <3>1. PICK b \in Browsers : MagicLink(b) \/ OAuth(b) \/ SessionStep(b) \/ Fail(b)
      BY <2>1
    <3>2. Fail(b) => RequestRefs(b)'
      BY <1>1, RefsIdle DEF Fail
    <3>3. RequestRefs(b)'
      BY <1>1, <3>1, <3>2, MagicLinkRefs, OAuthRefs, SessionRefs
    <3>4. o # b => req'[o] = req[o]
      BY <1>1, <3>1, OthersStay DEF OthersWait
    <3>5. o # b => RequestRefs(o)'
      BY <1>1, <3>4, RefsStay
    <3> QED
      BY <3>3, <3>5
  <2>2. CASE \/ \E l \in Links : LinkAges(l)
             \/ \E s \in Sessions : SessionAges(s)
             \/ \E t \in Tenants, c \in Codes : Connect(t, c)
             \/ Cleanup
             \/ UNCHANGED vars
    <3>1. UNCHANGED req
      BY <2>2 DEF LinkAges, SessionAges, Connect, Cleanup, vars
    <3> QED
      BY <1>1, <3>1, RefsStay
  <2> QED
    BY <2>1, <2>2 DEF Next
<1>3. ASSUME NEW s \in Sessions, sessions'[s] # None PROVE users'[sessions'[s].user] # None
  <2>1. CASE sessions[s] # None
    BY <1>1, <2>1 DEF RowsStay, Typed, TypeOK, RefInv, Session
  <2>2. CASE \E b \in Browsers : OpenSession(b, s)
    <3>1. PICK b \in Browsers : OpenSession(b, s)
      BY <2>2
    <3>2. RequestRefs(b) /\ req[b] \in Request
      BY DEF Typed, TypeOK, RefInv
    <3>3. req[b].user \in Users /\ users[req[b].user] # None
      BY <3>1, <3>2 DEF OpenSession, RequestRefs, Request
    <3>4. sessions'[s].user = req[b].user
      BY <3>1 DEF OpenSession, Typed, TypeOK
    <3> QED
      BY <1>1, <3>3, <3>4 DEF RowsStay
  <2> QED
    BY <1>3, <2>1, <2>2, SessionRows
<1> QED
  BY <1>2, <1>3 DEF RefInv

(* In every reachable state the rows have their types, and requests and    *)
(* sessions refer to rows that exist.                                      *)
THEOREM TypedAlways == Spec => []Typed
<1> USE AccountsAssumption
<1>1. Init => Typed
  <2> SUFFICES ASSUME Init PROVE Typed
    OBVIOUS
  <2>1. TypeOK
    BY Moves DEF Init, TypeOK
  <2>2. RefInv
    BY DEF Init, RefInv, RequestRefs, Idle, LinkStages
  <2> QED
    BY <2>1, <2>2 DEF Typed
<1>2. Typed /\ [Next]_vars => Typed'
  BY Typing, Refs DEF Typed
<1> QED
  BY <1>1, <1>2, PTL DEF Spec

(* In every reachable state each variable has its type.                    *)
THEOREM TypeCorrect == Spec => []TypeOK
<1>1. Typed => TypeOK
  BY DEF Typed
<1> QED
  BY <1>1, TypedAlways, PTL

-----------------------------------------------------------------------------
(* The safety properties.  Each follows from its own inductive invariant,  *)
(* on top of the types and references above.                               *)

(* A session about to open on a tenant is of a user made for it.           *)
RequestAllowed(b) ==
    LET r == req[b]
    IN  /\ r.at \in {"found", "used"} => r.tenant = None
        /\ r.at = "session" /\ r.tenant # None => users[r.user].home = r.tenant

AllowedInv == SessionsAllowed /\ \A b \in Browsers : RequestAllowed(b)

(* A tenant of an account is u's.                                          *)
Owned(u, t) == tenants[t] # None /\ tenants[t].owner = u /\ tenants[t].code # None

SigningUp == At("user") \cup At("owner")

(* Who is told or recorded, and who will be next, owns the tenant, of      *)
(* which each account has one; only a sign-up gives a tenant an owner, the *)
(* first, and each sign-up has its own tenant.                             *)
OwnerInv ==
    /\ \A x \in told \cup members : Owned(x[1], x[2])
    /\ \A b \in At("token") \cup At("member") : Owned(req[b].user, req[b].tenant)
    /\ \A t, v \in Rows(tenants) :
          tenants[t].code = tenants[v].code /\ tenants[t].code # None => t = v
    /\ \A b \in SigningUp : tenants[req[b].tenant].owner = None
    /\ \A b, o \in SigningUp : req[b].tenant = req[o].tenant => b = o

(* Unless verified twice at once, a link is held by one request, and by    *)
(* none after it has opened a session; past its first step it is used.     *)
HolderInv ==
    /\ OneSessionPerLink
    /\ \A b \in Browsers : req[b].link # None =>
          /\ req[b].at \in LinkStages \cup {"session"}
          /\ links[req[b].link] # None
          /\ req[b].at # "found" => links[req[b].link].used
          /\ req[b].link \in opened => <<"verify", req[b].link>> \in overlapped
    /\ \A b, o \in Browsers :
          b # o /\ req[b].link # None /\ req[o].link = req[b].link
              => <<"verify", req[b].link>> \in overlapped
    /\ \A l \in opened : links[l] # None /\ links[l].used

Signing(e) == {b \in At("signup") \cup At("user") : req[b].address = e}

(* Unless signed up twice at once, an e-mail is being signed up by one     *)
(* request, while no user has it.                                          *)
SignUpInv ==
    /\ OneUserPerEmail
    /\ \A e \in Emails : <<"signup", e>> \in overlapped \/
          /\ \A b, o \in Signing(e) : b = o
          /\ Signing(e) # {} => WithEmail(e) = {}

Asking(e) == {b \in At("asked") : req[b].address = e}

(* Unless asked for twice at once, an e-mail has room for the link that is *)
(* about to be created.                                                    *)
LimitInv ==
    /\ LimitHolds
    /\ \A e \in Emails : <<"ask", e>> \in overlapped \/
          /\ \A b, o \in Asking(e) : b = o
          /\ Asking(e) # {} => UnderLimit(e)

-----------------------------------------------------------------------------
(* Steps of requests.                                                      *)

(* The steps after which b still has a request.                            *)
Advances(b) ==
    \/ \E e \in Emails : Ask(b, e)
    \/ \E l \in Links : VerifyFind(b, l)
    \/ MarkUsed(b) \/ VerifyLookup(b) \/ SignUpOwner(b)
    \/ \E t \in Tenants : SignUpTenant(b, t) \/ AddTenant(b, t)
    \/ \E u \in Users : SignUpUser(b, u) \/ LoginCreate(b, u)
    \/ \E sent \in BOOLEAN : CallbackBegin(b, sent)
    \/ \E c \in Codes : CallbackFind(b, c)
    \/ CheckAccess(b) \/ LoginFind(b) \/ Authenticate(b)

(* A step leaves b's request alone, ends it or advances it.                *)
LEMMA RequestSteps ==
    ASSUME Typed, [Next]_vars, NEW b \in Browsers
    PROVE  req'[b] = req[b] \/ req'[b] = Idle \/ Advances(b)
<1>1. req \in [Browsers -> Request]
  BY DEF Typed, TypeOK
<1>2. End(b) => req'[b] = Idle
  BY <1>1 DEF End, Move
<1>3. ASSUME NEW o \in Browsers, MagicLink(o) \/ OAuth(o) \/ SessionStep(o) \/ Fail(o), o # b
      PROVE  req'[b] = req[b]
  BY <1>1, <1>3, OthersStay DEF OthersWait
<1>4. CASE MagicLink(b)
  BY <1>2, <1>4 DEF MagicLink, CreateLink, Advances
<1>5. CASE OAuth(b)
  <2>1. CASE OAuthStart(b) \/ Forget(b)
    BY <2>1 DEF OAuthStart, Forget
  <2>2. CASE AddToken(b) \/ AddMember(b)
    BY <1>2, <2>2 DEF AddToken, AddMember, Added
  <2> QED
    BY <1>5, <2>1, <2>2 DEF OAuth, Advances
<1>6. CASE SessionStep(b)
  BY <1>2, <1>6 DEF SessionStep, OpenSession, Refresh, Logout, Advances
<1>7. CASE Fail(b)
  BY <1>2, <1>7 DEF Fail
<1>8. CASE \/ \E l \in Links : LinkAges(l)
           \/ \E s \in Sessions : SessionAges(s)
           \/ \E t \in Tenants, c \in Codes : Connect(t, c)
           \/ Cleanup
           \/ UNCHANGED vars
  BY <1>8 DEF LinkAges, SessionAges, Connect, Cleanup, vars
<1> QED
  BY <1>3, <1>4, <1>5, <1>6, <1>7, <1>8 DEF Next

-----------------------------------------------------------------------------
(* Sessions work on the tenants of their users.                            *)

(* A step keeps what opens a session allowed to do so.                     *)
LEMMA RequestsAllowed ==
    ASSUME AccountsAssumption, Typed, [Next]_vars, NEW b \in Browsers, RequestAllowed(b)
    PROVE  RequestAllowed(b)'
<1> DEFINE r == req[b]
<1>1. r \in Request /\ RequestRefs(b)
  BY DEF Typed, TypeOK, RefInv
<1>2. /\ users \in [Users -> User \cup {None}] /\ req \in [Browsers -> Request]
      /\ tenants \in [Tenants -> Tenant \cup {None}]
  BY DEF Typed, TypeOK
<1>3. RowsStay
  BY Stays
<1>4. \A e : \A u \in WithEmail(e) : u \in Users /\ users[u] # None
  BY <1>2 DEF WithEmail, Rows
<1>5. CASE req'[b] = req[b]
  <2>1. r.at = "session" => r.user \in Users /\ users[r.user] # None
    BY <1>1 DEF RequestRefs, Request
  <2> QED
    BY <1>3, <1>5, <2>1 DEF RequestAllowed, RowsStay
<1>6. CASE req'[b] = Idle
  BY <1>6 DEF RequestAllowed, Idle
<1>7. CASE Advances(b)
  <2>1. CASE \/ \E e \in Emails : Ask(b, e)
             \/ \E l \in Links : VerifyFind(b, l)
             \/ SignUpOwner(b)
             \/ \E t \in Tenants : SignUpTenant(b, t)
             \/ \E u \in Users : SignUpUser(b, u)
    BY <1>2, <2>1, MagicLinkFields DEF Fields, RequestAllowed
  <2>2. CASE MarkUsed(b)
    <3>1. Fields(req'[b], "used", r.address, r.link, r.user, r.tenant, r.session)
      BY <1>2, <2>2, MagicLinkFields
    <3>2. r.tenant = None
      BY <2>2 DEF MarkUsed, RequestAllowed
    <3> QED
      BY <3>1, <3>2 DEF Fields, RequestAllowed
  <2>3. CASE VerifyLookup(b)
    <3>1. \/ \E u : Fields(req'[b], "session", r.address, r.link, u, r.tenant, r.session)
          \/ req'[b].at = "signup"
      BY <1>2, <2>3, MagicLinkFields DEF Fields
    <3>2. r.tenant = None
      BY <2>3 DEF VerifyLookup, RequestAllowed
    <3> QED
      BY <3>1, <3>2 DEF Fields, RequestAllowed
  <2>4. CASE \/ \E sent \in BOOLEAN : CallbackBegin(b, sent)
             \/ CheckAccess(b)
             \/ \E t \in Tenants : AddTenant(b, t)
    <3>1. req'[b].at \in {"callback", "token", "member"} \/ req'[b] = Idle
      BY <1>2, <2>4, OAuthFields DEF Fields, End, Move
    <3> QED
      BY <1>6, <3>1 DEF RequestAllowed
  <2>5. CASE \E c \in Codes : CallbackFind(b, c)
    <3>1. PICK c \in Codes : CallbackFind(b, c)
      BY <2>5
    <3>2. req'[b].at \in {"token", "access", "adding", "login"} \/ req'[b] = Idle
      BY <1>2, <3>1, OAuthFields DEF Fields, End, Move
    <3> QED
      BY <1>6, <3>2 DEF RequestAllowed
  <2>6. CASE LoginFind(b)
    <3>1. CASE req'[b].at = "admin"
      BY <3>1 DEF RequestAllowed
    <3>2. ASSUME NEW u \in InTenant(r.tenant, r.address),
                 Fields(req'[b], "session", r.address, r.link, u, r.tenant, r.session)
          PROVE  RequestAllowed(b)'
      BY <1>3, <1>4, <3>2 DEF InTenant, Fields, RequestAllowed, RowsStay
    <3> QED
      BY <1>2, <2>6, <3>1, <3>2, OAuthFields DEF Fields
  <2>7. CASE \E u \in Users : LoginCreate(b, u)
    <3>1. PICK u \in Users : LoginCreate(b, u)
      BY <2>7
    <3>2. CASE /\ NewUser(u, r.tenant, r.address)
               /\ Fields(req'[b], "session", r.address, r.link, u, r.tenant, r.session)
      <4>1. users'[u].home = r.tenant
        BY <1>2, <3>2 DEF NewUser
      <4> QED
        BY <3>2, <4>1 DEF Fields, RequestAllowed
    <3> QED
      BY <1>2, <1>6, <3>1, <3>2, OAuthFields DEF End, Move
  <2>8. CASE Authenticate(b)
    BY <1>2, <2>8, SessionFields DEF Fields, RequestAllowed
  <2> QED
    BY <1>7, <2>1, <2>2, <2>3, <2>4, <2>5, <2>6, <2>7, <2>8 DEF Advances
<1> QED
  BY <1>5, <1>6, <1>7, RequestSteps

(* A session that has a tenant is of a user made for it, whatever logins   *)
(* come in between and wherever accounts move.                             *)
THEOREM AllowedTenants == Spec => []SessionsAllowed
<1> USE AccountsAssumption
<1>1. Init => AllowedInv
  BY DEF Init, AllowedInv, SessionsAllowed, RequestAllowed, Rows, Idle
<1>2. Typed /\ AllowedInv /\ [Next]_vars => AllowedInv'
  <2> SUFFICES ASSUME Typed, AllowedInv, [Next]_vars PROVE AllowedInv'
    OBVIOUS
  <2>1. \A b \in Browsers : RequestAllowed(b)'
    BY RequestsAllowed DEF AllowedInv
  <2>2. RowsStay /\ RefInv /\ req \in [Browsers -> Request]
        /\ sessions \in [Sessions -> Session \cup {None}]
        /\ sessions' \in [Sessions -> Session \cup {None}]
    BY Stays, SessionRows DEF Typed, TypeOK
  <2>3. ASSUME NEW s \in Sessions, sessions'[s] # None, sessions'[s].tenant # None
        PROVE  users'[sessions'[s].user].home = sessions'[s].tenant
    <3> DEFINE user == sessions'[s].user
    <3>1. CASE sessions[s] # None
      <4>1. /\ user = sessions[s].user /\ sessions'[s].tenant = sessions[s].tenant
            /\ user \in Users /\ users[user] # None
        BY <2>2, <3>1, SessionRows DEF RefInv, Session
      <4>2. users[user].home = sessions[s].tenant
        BY <2>2, <2>3, <3>1, <4>1 DEF AllowedInv, SessionsAllowed, Rows
      <4> QED
        BY <2>2, <3>1, <4>1, <4>2 DEF RowsStay
    <3>3. ASSUME NEW b \in Browsers, OpenSession(b, s)
          PROVE  users'[user].home = sessions'[s].tenant
      <4>1. sessions'[s] = [user |-> req[b].user, tenant |-> req[b].tenant, age |-> "fresh"]
        BY <2>2, <3>3 DEF OpenSession
      <4>2. req[b].user \in Users /\ users[req[b].user] # None
        BY <2>2, <3>3 DEF OpenSession, RefInv, RequestRefs, Request
      <4>3. users[req[b].user].home = req[b].tenant
        BY <2>3, <3>3, <4>1 DEF OpenSession, AllowedInv, RequestAllowed
      <4> QED
        BY <2>2, <4>1, <4>2, <4>3 DEF RowsStay
    <3> QED
      BY <2>3, <3>1, <3>3, SessionRows
  <2>4. SessionsAllowed'
    BY <2>2, <2>3 DEF SessionsAllowed, Rows
  <2> QED
    BY <2>1, <2>4 DEF AllowedInv
<1>3. AllowedInv => SessionsAllowed
  BY DEF AllowedInv
<1> QED
  BY <1>1, <1>2, <1>3, TypedAlways, PTL DEF Spec

-----------------------------------------------------------------------------
(* An account is added to one user.                                        *)

(* The steps that write what only observes.                                *)
LEMMA Observers ==
    [Next]_vars =>
        /\ told' = told \/ \E b \in Browsers : AddToken(b) \/ AddMember(b)
        /\ \/ overlapped' = overlapped
           \/ \E b \in Browsers, e \in Emails : Ask(b, e)
           \/ \E b \in Browsers, l \in Links : VerifyFind(b, l)
           \/ \E b \in Browsers : VerifyLookup(b)
        /\ UNCHANGED <<opened, reopened>> \/ \E b \in Browsers, s \in Sessions : OpenSession(b, s)
<1> DEFINE Observed ==
        /\ told' = told \/ \E b \in Browsers : AddToken(b) \/ AddMember(b)
        /\ \/ overlapped' = overlapped
           \/ \E b \in Browsers, e \in Emails : Ask(b, e)
           \/ \E b \in Browsers, l \in Links : VerifyFind(b, l)
           \/ \E b \in Browsers : VerifyLookup(b)
        /\ UNCHANGED <<opened, reopened>> \/ \E b \in Browsers, s \in Sessions : OpenSession(b, s)
<1>1. UNCHANGED ghosts => Observed
  BY DEF ghosts
<1>2. ASSUME NEW b \in Browsers, MagicLink(b) PROVE Observed
  <2>1. CASE (\E e \in Emails : Ask(b, e)) \/ (\E l \in Links : VerifyFind(b, l)) \/ VerifyLookup(b)
    BY <2>1 DEF Ask, VerifyFind, VerifyLookup
  <2>2. CASE \/ \E l \in Links : CreateLink(b, l)
             \/ MarkUsed(b) \/ SignUpOwner(b)
             \/ \E t \in Tenants : SignUpTenant(b, t)
             \/ \E u \in Users : SignUpUser(b, u)
    <3>1. UNCHANGED ghosts
      BY <2>2 DEF CreateLink, MarkUsed, SignUpOwner, SignUpTenant, SignUpUser
    <3> QED
      BY <1>1, <3>1
  <2> QED
    BY <1>2, <2>1, <2>2 DEF MagicLink
<1>3. ASSUME NEW b \in Browsers, OAuth(b) PROVE Observed
  <2>1. CASE AddToken(b) \/ AddMember(b)
    BY <2>1 DEF AddToken, AddMember
  <2>2. CASE \/ OAuthStart(b) \/ Forget(b) \/ CheckAccess(b) \/ LoginFind(b)
             \/ \E sent \in BOOLEAN : CallbackBegin(b, sent)
             \/ \E c \in Codes : CallbackFind(b, c)
             \/ \E t \in Tenants : AddTenant(b, t)
             \/ \E u \in Users : LoginCreate(b, u)
    <3>1. UNCHANGED ghosts
      BY <2>2 DEF OAuthStart, Forget, CheckAccess, LoginFind, CallbackBegin, CallbackFind,
                  AddTenant, LoginCreate
    <3> QED
      BY <1>1, <3>1
  <2> QED
    BY <1>3, <2>1, <2>2 DEF OAuth
<1>4. ASSUME NEW b \in Browsers, SessionStep(b) PROVE Observed
  <2>1. CASE \E s \in Sessions : OpenSession(b, s)
    BY <2>1 DEF OpenSession
  <2>2. CASE Authenticate(b) \/ Refresh(b) \/ Logout(b)
    <3>1. UNCHANGED ghosts
      BY <2>2 DEF Authenticate, Refresh, Logout
    <3> QED
      BY <1>1, <3>1
  <2> QED
    BY <1>4, <2>1, <2>2 DEF SessionStep
<1>5. CASE \E b \in Browsers : Fail(b)
  BY <1>1, <1>5 DEF Fail
<1>6. CASE \/ \E l \in Links : LinkAges(l)
           \/ \E s \in Sessions : SessionAges(s)
           \/ \E t \in Tenants, c \in Codes : Connect(t, c)
           \/ Cleanup
           \/ UNCHANGED vars
  <2>1. UNCHANGED ghosts
    BY <1>6 DEF LinkAges, SessionAges, Connect, Cleanup, vars
  <2> QED
    BY <1>1, <2>1
<1> QED
  BY <1>2, <1>3, <1>4, <1>5, <1>6 DEF Next

(* A tenant changes by these steps only.                                   *)
LEMMA TenantSteps ==
    ASSUME AccountsAssumption, Typed, [Next]_vars, NEW t \in Tenants
    PROVE  \/ tenants'[t] = tenants[t]
           \/ /\ tenants[t] # None /\ tenants'[t] # None
              /\ tenants'[t].owner = tenants[t].owner
              /\ \E c \in Codes : Connect(t, c) /\ tenants'[t].code = c
           \/ \E b \in Browsers :
                 /\ SignUpOwner(b) /\ req[b].tenant = t
                 /\ tenants[t] # None /\ tenants'[t] # None
                 /\ tenants'[t].code = tenants[t].code
           \/ \E b \in Browsers :
                 /\ SignUpTenant(b, t) /\ tenants[t] = None /\ tenants'[t] # None
                 /\ tenants'[t].owner = None /\ tenants'[t].code = None
           \/ \E b \in Browsers :
                 /\ AddTenant(b, t) /\ tenants[t] = None /\ tenants'[t] # None
                 /\ WithCode(req[b].address) = {}
                 /\ tenants'[t].owner = req[b].user /\ tenants'[t].code = req[b].address
<1>1. /\ tenants \in [Tenants -> Tenant \cup {None}] /\ req \in [Browsers -> Request]
      /\ \A b \in Browsers : RequestRefs(b)
  BY DEF Typed, TypeOK, RefInv
<1>2. CASE tenants' = tenants
  BY <1>2
<1>3. ASSUME NEW x \in Tenants, NEW c \in Codes, Connect(x, c)
      PROVE  \/ tenants'[t] = tenants[t]
             \/ /\ t = x /\ tenants[t] # None /\ tenants'[t] # None
                /\ tenants'[t].owner = tenants[t].owner /\ tenants'[t].code = c
  <2>1. tenants[x] # None /\ tenants[x] \in Tenant
    BY <1>1, <1>3 DEF Connect, Rows
  <2>2. /\ [tenants[x] EXCEPT !.code = c].owner = tenants[x].owner
        /\ [tenants[x] EXCEPT !.code = c].code = c
        /\ [tenants[x] EXCEPT !.code = c] \in Tenant
    BY <2>1 DEF Tenant
  <2>3. tenants' = [tenants EXCEPT ![x] = [tenants[x] EXCEPT !.code = c]]
    BY <1>3 DEF Connect
  <2> QED
    BY <1>1, <2>1, <2>2, <2>3 DEF AccountsAssumption
<1>4. ASSUME NEW b \in Browsers, SignUpOwner(b)
      PROVE  \/ tenants'[t] = tenants[t]
             \/ /\ req[b].tenant = t /\ tenants[t] # None /\ tenants'[t] # None
                /\ tenants'[t].code = tenants[t].code
  <2> DEFINE x == req[b].tenant
  <2>1. x \in Tenants /\ tenants[x] # None /\ tenants[x] \in Tenant /\ req[b].user \in Users
    BY <1>1, <1>4 DEF SignUpOwner, RequestRefs, Request
  <2>2. /\ [tenants[x] EXCEPT !.owner = req[b].user].code = tenants[x].code
        /\ [tenants[x] EXCEPT !.owner = req[b].user] \in Tenant
    BY <2>1 DEF Tenant
  <2>3. tenants' = [tenants EXCEPT ![x] = [tenants[x] EXCEPT !.owner = req[b].user]]
    BY <1>4 DEF SignUpOwner
  <2> HIDE DEF x
  <2>4. x # t => tenants'[t] = tenants[t]
    BY <1>1, <2>3
  <2>5. x = t => tenants[t] # None /\ tenants'[t] # None /\ tenants'[t].code = tenants[t].code
    BY <1>1, <2>1, <2>2, <2>3 DEF AccountsAssumption
  <2> QED
    BY <2>4, <2>5 DEF x
<1>5. ASSUME NEW x \in Tenants, NEW owner \in Users \cup {None}, NEW c \in Codes \cup {None},
             NewTenant(x, owner, c)
      PROVE  \/ tenants'[t] = tenants[t]
             \/ /\ t = x /\ tenants[t] = None /\ tenants'[t] # None
                /\ tenants'[t].owner = owner /\ tenants'[t].code = c
  <2>1. [owner |-> owner, code |-> c] \in Tenant
    BY DEF Tenant
  <2>2. tenants[x] = None
    BY <1>1, <1>5 DEF NewTenant, NewId, Free
  <2> QED
    BY <1>1, <1>5, <2>1, <2>2 DEF NewTenant, AccountsAssumption
<1>6. ASSUME NEW b \in Browsers, NEW x \in Tenants, SignUpTenant(b, x)
      PROVE  \/ tenants'[t] = tenants[t]
             \/ /\ t = x /\ tenants[t] = None /\ tenants'[t] # None
                /\ tenants'[t].owner = None /\ tenants'[t].code = None
  BY <1>5, <1>6 DEF SignUpTenant
<1>7. ASSUME NEW b \in Browsers, NEW x \in Tenants, AddTenant(b, x)
      PROVE  \/ tenants'[t] = tenants[t]
             \/ /\ t = x /\ tenants[t] = None /\ tenants'[t] # None
                /\ WithCode(req[b].address) = {}
                /\ tenants'[t].owner = req[b].user /\ tenants'[t].code = req[b].address
  <2>1. req[b].user \in Users /\ req[b].address \in Codes
    BY <1>1, <1>7 DEF AddTenant, RequestRefs, Request
  <2>2. \/ UNCHANGED tenants
        \/ WithCode(req[b].address) = {} /\ NewTenant(x, req[b].user, req[b].address)
    BY <1>7 DEF AddTenant
  <2> QED
    BY <1>5, <2>1, <2>2
<1>8. CASE WritesTenants
  <2>1. CASE \E b \in Browsers : SignUpOwner(b)
    BY <1>4, <2>1
  <2>2. CASE \E b \in Browsers, x \in Tenants : SignUpTenant(b, x)
    BY <1>6, <2>2
  <2>3. CASE \E b \in Browsers, x \in Tenants : AddTenant(b, x)
    BY <1>7, <2>3
  <2>4. CASE \E x \in Tenants, c \in Codes : Connect(x, c)
    BY <1>3, <2>4
  <2> QED
    BY <1>8, <2>1, <2>2, <2>3, <2>4 DEF WritesTenants
<1> QED
  BY <1>2, <1>8, Writers

(* Nothing takes a tenant away from its owner.                             *)
LEMMA OwnedStays ==
    ASSUME AccountsAssumption, Typed, OwnerInv, [Next]_vars,
           NEW u \in Users, NEW t \in Tenants, Owned(u, t)
    PROVE  Owned(u, t)'
<1>1. tenants[t] # None /\ tenants[t].owner = u /\ tenants[t].code # None /\ u # None
  BY DEF Owned, AccountsAssumption
<1>2. ~ \E b \in Browsers : SignUpOwner(b) /\ req[b].tenant = t
  <2> SUFFICES ASSUME NEW b \in Browsers, SignUpOwner(b), req[b].tenant = t PROVE FALSE
    OBVIOUS
  <2>1. b \in SigningUp
    BY DEF SignUpOwner, SigningUp, At
  <2> QED
    BY <1>1, <2>1 DEF OwnerInv
<1>3. \A c \in Codes : c # None
  BY DEF AccountsAssumption
<1> QED
  BY <1>1, <1>2, <1>3, TenantSteps DEF Owned

(* Who is about to be told, or recorded, owns the tenant.                  *)
LEMMA TellsOwner ==
    ASSUME AccountsAssumption, Typed, OwnerInv, [Next]_vars, NEW b \in Browsers,
           NEW u \in Users, NEW t \in Tenants,
           req'[b].at \in {"token", "member"}, req'[b].user = u, req'[b].tenant = t
    PROVE  Owned(u, t)'
<1> DEFINE r == req[b]
<1>1. /\ req \in [Browsers -> Request] /\ RequestRefs(b)
      /\ tenants \in [Tenants -> Tenant \cup {None}]
  BY DEF Typed, TypeOK, RefInv
<1>2. req'[b] # Idle
  BY DEF Idle
<1>3. CASE req'[b] = req[b]
  <2>1. Owned(u, t)
    BY <1>3 DEF OwnerInv, At
  <2> QED
    BY <2>1, OwnedStays
<1>4. CASE Advances(b)
  <2>1. CASE \/ \E e \in Emails : Ask(b, e)
             \/ \E l \in Links : VerifyFind(b, l)
             \/ MarkUsed(b) \/ VerifyLookup(b) \/ SignUpOwner(b)
             \/ \E x \in Tenants : SignUpTenant(b, x)
             \/ \E x \in Users : SignUpUser(b, x)
    BY <1>1, <2>1, MagicLinkFields DEF Fields
  <2>2. CASE Authenticate(b)
    BY <1>1, <2>2, SessionFields DEF Fields
  <2>3. CASE \E sent \in BOOLEAN : CallbackBegin(b, sent)
    <3>1. req'[b].at = "callback"
      BY <1>1, <2>3, OAuthFields DEF Fields
    <3> QED
      BY <3>1
  <2>4. CASE LoginFind(b) \/ \E x \in Users : LoginCreate(b, x)
    <3>1. req'[b].at \in {"session", "admin"} \/ req'[b] = Idle
      BY <1>1, <2>4, OAuthFields DEF Fields, End, Move
    <3> QED
      BY <1>2, <3>1
  <2>5. CASE CheckAccess(b)
    <3>1. <<r.user, r.tenant>> \in members /\ r.user = u /\ r.tenant = t
      BY <1>1, <1>2, <2>5, OAuthFields DEF Fields, End, Move
    <3>2. Owned(u, t)
      BY <3>1 DEF OwnerInv
    <3> QED
      BY <3>2, OwnedStays
  <2>6. CASE \E c \in Codes : CallbackFind(b, c)
    <3>1. PICK c \in Codes : CallbackFind(b, c)
      BY <2>6
    <3>2. CASE \E x \in WithCode(c), stage \in {"token", "access"} :
                  /\ stage = "token" => tenants[x].owner = r.user
                  /\ Fields(req'[b], stage, r.address, r.link, r.user, x, r.session)
      <4>1. t \in WithCode(c) /\ tenants[t].owner = u
        BY <3>2 DEF Fields
      <4>2. Owned(u, t)
        BY <4>1 DEF WithCode, Rows, Owned, AccountsAssumption
      <4> QED
        BY <4>2, OwnedStays
    <3>3. CASE \/ Fields(req'[b], "adding", c, r.link, r.user, r.tenant, r.session)
               \/ \E x \in WithCode(c) : Fields(req'[b], "login", c, r.link, r.user, x, r.session)
      BY <3>3 DEF Fields
    <3>4. CASE End(b)
      BY <1>1, <1>2, <3>4 DEF End, Move
    <3> QED
      BY <1>1, <3>1, <3>2, <3>3, <3>4, OAuthFields
  <2>7. CASE \E x \in Tenants : AddTenant(b, x)
    <3>1. PICK x \in Tenants : AddTenant(b, x)
      BY <2>7
    <3>2. t = x /\ r.user = u
      BY <1>1, <1>2, <3>1, OAuthFields DEF Fields, End, Move
    <3>3. r.address \in Codes /\ r.address # None
      BY <1>1, <3>1 DEF AddTenant, RequestRefs, AccountsAssumption
    <3>4. NewTenant(x, r.user, r.address)
      <4>1. End(b) => req'[b] = Idle
        BY <1>1 DEF End, Move
      <4> QED
        BY <1>2, <3>1, <4>1 DEF AddTenant
    <3>5. [owner |-> u, code |-> r.address] \in Tenant
      BY <3>3 DEF Tenant
    <3>6. tenants'[t] = [owner |-> u, code |-> r.address]
      BY <1>1, <3>2, <3>4 DEF NewTenant
    <3> QED
      BY <3>3, <3>5, <3>6 DEF Owned, AccountsAssumption
  <2> QED
    BY <1>4, <2>1, <2>2, <2>3, <2>4, <2>5, <2>6, <2>7 DEF Advances
<1> QED
  BY <1>2, <1>3, <1>4, RequestSteps

(* A sign-up has had its tenant before, or has just created it.            *)
LEMMA SignUpHolds ==
    ASSUME AccountsAssumption, Typed, [Next]_vars, NEW b \in Browsers,
           req'[b].at \in {"user", "owner"}
    PROVE  \/ /\ req[b].at \in {"user", "owner"} /\ req'[b].tenant = req[b].tenant
              /\ ~SignUpOwner(b)
           \/ SignUpTenant(b, req'[b].tenant) /\ req'[b].tenant \in Tenants
<1>1. req \in [Browsers -> Request]
  BY DEF Typed, TypeOK
<1>2. SignUpOwner(b) => req'[b].at = "session"
  BY <1>1, MagicLinkFields DEF Fields
<1>3. CASE req'[b] = req[b]
  BY <1>2, <1>3
<1>4. req'[b] # Idle
  BY DEF Idle
<1>5. CASE Advances(b)
  <2>1. CASE \/ \E e \in Emails : Ask(b, e)
             \/ \E l \in Links : VerifyFind(b, l)
             \/ MarkUsed(b) \/ VerifyLookup(b) \/ SignUpOwner(b)
    BY <1>1, <2>1, MagicLinkFields DEF Fields
  <2>2. CASE \E t \in Tenants : SignUpTenant(b, t)
    BY <1>1, <2>2, MagicLinkFields DEF Fields
  <2>3. CASE \E u \in Users : SignUpUser(b, u)
    <3>1. req[b].at = "user" /\ req'[b].tenant = req[b].tenant
      BY <1>1, <2>3, MagicLinkFields DEF Fields, SignUpUser
    <3> QED
      BY <1>2, <3>1
  <2>4. CASE Authenticate(b)
    BY <1>1, <2>4, SessionFields DEF Fields
  <2>5. CASE \/ \E sent \in BOOLEAN : CallbackBegin(b, sent)
             \/ \E c \in Codes : CallbackFind(b, c)
             \/ CheckAccess(b) \/ LoginFind(b)
             \/ \E t \in Tenants : AddTenant(b, t)
             \/ \E u \in Users : LoginCreate(b, u)
    <3>1. \/ req'[b].at \in {"callback", "token", "access", "adding", "login", "member",
                             "session", "admin"}
          \/ req'[b] = Idle
      <4>1. CASE \E c \in Codes : CallbackFind(b, c)
        BY <1>1, <4>1, OAuthFields DEF Fields, End, Move
      <4>2. CASE \E sent \in BOOLEAN : CallbackBegin(b, sent)
        <5>1. req'[b].at = "callback"
          BY <1>1, <4>2, OAuthFields DEF Fields
        <5> QED
          BY <5>1
      <4> QED
        BY <1>1, <2>5, <4>1, <4>2, OAuthFields DEF Fields, End, Move
    <3> QED
      BY <1>4, <3>1
  <2> QED
    BY <1>5, <2>1, <2>2, <2>3, <2>4, <2>5 DEF Advances
<1> QED
  BY <1>3, <1>4, <1>5, RequestSteps

(* A Bsale account is added to one user's account only, however callbacks  *)
(* overlap and wherever they fail.                                         *)
THEOREM AccountAddedOnce == Spec => []AccountAddedToOne
<1> USE AccountsAssumption
<1>1. Init => OwnerInv
  BY DEF Init, OwnerInv, Rows, At, SigningUp, Idle
<1>2. Typed /\ OwnerInv /\ [Next]_vars => OwnerInv'
  <2> SUFFICES ASSUME Typed, OwnerInv, [Next]_vars PROVE OwnerInv'
    OBVIOUS
  <2>1. /\ req \in [Browsers -> Request] /\ req' \in [Browsers -> Request]
        /\ tenants \in [Tenants -> Tenant \cup {None}]
        /\ tenants' \in [Tenants -> Tenant \cup {None}]
        /\ told \cup members \subseteq Users \X Tenants
        /\ told' \cup members' \subseteq Users \X Tenants
        /\ \A b \in Browsers : RequestRefs(b) /\ RequestRefs(b)'
    BY RequestTyping, TenantRows, MemberRows, RestTyping, Refs DEF Typed, TypeOK, RefInv, RestTypes
  <2>2. ASSUME NEW u \in Users, NEW t \in Tenants, <<u, t>> \in told' \cup members'
        PROVE  Owned(u, t)'
    <3>1. Owned(u, t)
      <4>1. CASE <<u, t>> \in told \cup members
        BY <4>1 DEF OwnerInv
      <4>2. ASSUME NEW b \in Browsers, AddToken(b) \/ AddMember(b), <<u, t>> \notin told \cup members
            PROVE  Owned(u, t)
        <5>1. b \in At("token") \cup At("member")
          BY <4>2 DEF AddToken, AddMember, At
        <5>2. /\ told' = told \cup {<<req[b].user, req[b].tenant>>}
              /\ \/ members' = members
                 \/ members' = members \cup {<<req[b].user, req[b].tenant>>}
          BY <4>2 DEF AddToken, AddMember, Added, tables
        <5>3. req[b].user = u /\ req[b].tenant = t
          BY <2>2, <4>2, <5>2
        <5> QED
          BY <5>1, <5>3 DEF OwnerInv
      <4> QED
        BY <2>2, <4>1, <4>2, Observers, Writers
    <3> QED
      BY <3>1, OwnedStays
  <2>3. ASSUME NEW b \in Browsers, req'[b].at \in {"token", "member"}
        PROVE  Owned(req[b].user, req[b].tenant)'
    <3>1. req'[b].user \in Users /\ req'[b].tenant \in Tenants
      BY <2>1, <2>3 DEF RequestRefs, Request
    <3>2. PICK u \in Users, t \in Tenants : u = req'[b].user /\ t = req'[b].tenant
      BY <3>1
    <3>3. Owned(u, t)'
      BY <2>3, <3>2, TellsOwner
    <3> QED
      BY <3>2, <3>3 DEF Owned
  <2>4. ASSUME NEW t \in Tenants, NEW v \in Tenants, tenants'[t] # None, tenants'[v] # None,
               tenants'[t].code = tenants'[v].code, tenants'[t].code # None, t # v
        PROVE  FALSE
    <3> DEFINE c == tenants'[t].code
               Kept(x) == tenants[x] # None /\ tenants[x].code = c
               Taken(x) == \/ Connect(x, c) /\ c \in Codes
                           \/ \E b \in Browsers :
                                 AddTenant(b, x) /\ req[b].address = c /\ tenants[x] = None
                                 /\ WithCode(c) = {}
    <3>1. ASSUME NEW x \in {t, v} PROVE Kept(x) \/ Taken(x)
      <4>1. tenants'[x] # None /\ tenants'[x].code = c /\ c # None
        BY <2>4
      <4> QED
        BY <4>1, TenantSteps
    <3>2. ~(Kept(t) /\ Kept(v))
      <4>1. c # None /\ t \in Tenants /\ v \in Tenants /\ DOMAIN tenants = Tenants
        BY <2>1, <2>4
      <4> HIDE DEF c
      <4> QED
        BY <2>4, <4>1 DEF OwnerInv, Rows
    <3>3. ASSUME NEW x \in {t, v}, NEW y \in {t, v}, x # y, Kept(x), Taken(y) PROVE FALSE
      <4>1. x \in WithCode(c)
        BY <2>1, <3>3 DEF WithCode, Rows
      <4> QED
        BY <3>3, <4>1 DEF Connect
    <3>4. ASSUME Taken(t), Taken(v) PROVE FALSE
      <4>1. ASSUME NEW x \in Tenants, NEW y \in Tenants, x # y, Connect(x, c), tenants'[y] # tenants[y]
            PROVE  FALSE
        BY <2>1, <4>1 DEF Connect
      <4>2. ASSUME NEW x \in Tenants, NEW y \in Tenants, x # y, NEW b \in Browsers,
                   AddTenant(b, x), WithCode(req[b].address) = {}, tenants'[y] # tenants[y]
            PROVE  FALSE
        BY <2>1, <4>2 DEF AddTenant, NewTenant
      <4>3. ASSUME NEW x \in {t, v}, tenants'[x] = tenants[x] PROVE FALSE
        BY <2>4, <3>2, <3>3, <3>4, <4>3
      <4> QED
        BY <2>4, <3>4, <4>1, <4>2, <4>3
    <3> HIDE DEF Kept, Taken
    <3> QED
      BY <2>4, <3>1, <3>2, <3>3, <3>4
  <2>5. ASSUME NEW b \in Browsers, req'[b].at \in {"user", "owner"}
        PROVE  tenants'[req'[b].tenant].owner = None
    <3> DEFINE t == req'[b].tenant
    <3>1. t \in Tenants /\ tenants'[t] # None
      BY <2>1, <2>5 DEF RequestRefs, Request
    <3>2. CASE SignUpTenant(b, t)
      BY <2>1, <3>1, <3>2 DEF SignUpTenant, NewTenant
    <3>3. CASE /\ req[b].at \in {"user", "owner"} /\ t = req[b].tenant /\ ~SignUpOwner(b)
      <4>1. b \in SigningUp /\ tenants[t] # None /\ tenants[t].owner = None
        BY <2>1, <3>3 DEF SigningUp, At, OwnerInv, RequestRefs
      <4>2. ASSUME NEW o \in Browsers, SignUpOwner(o), req[o].tenant = t PROVE FALSE
        <5>1. o \in SigningUp
          BY <4>2 DEF SignUpOwner, SigningUp, At
        <5>2. o = b
          BY <3>3, <4>1, <4>2, <5>1 DEF OwnerInv
        <5> QED
          BY <3>3, <4>2, <5>2
      <4>3. PICK x \in Tenants : x = t
        BY <3>1
      <4>4. tenants'[x].owner = None
        <5>1. tenants[x] # None /\ tenants[x].owner = None
          BY <4>1, <4>3
        <5>2. ~ \E o \in Browsers : SignUpOwner(o) /\ req[o].tenant = x
          BY <4>2, <4>3
        <5> QED
          BY <5>1, <5>2, TenantSteps
      <4> QED
        BY <4>3, <4>4
    <3> QED
      BY <2>5, <3>2, <3>3, SignUpHolds
  <2>6. ASSUME NEW b \in Browsers, NEW o \in Browsers, b # o,
               req'[b].at \in {"user", "owner"}, req'[o].at \in {"user", "owner"},
               req'[b].tenant = req'[o].tenant
        PROVE  FALSE
    <3>1. ASSUME NEW x \in Browsers, NEW y \in Browsers, x # y, NEW t \in Tenants,
                 SignUpTenant(x, t), req'[y].at \in {"user", "owner"}, req'[y].tenant = t
          PROVE  FALSE
      <4>1. tenants[t] = None
        BY <2>1, <3>1 DEF SignUpTenant, NewTenant, NewId, Free
      <4>2. req'[y] = req[y]
        BY <2>1, <3>1 DEF SignUpTenant, Move
      <4> QED
        BY <2>1, <3>1, <4>1, <4>2 DEF RequestRefs
    <3>2. ASSUME req[b].at \in {"user", "owner"}, req'[b].tenant = req[b].tenant,
                 req[o].at \in {"user", "owner"}, req'[o].tenant = req[o].tenant
          PROVE  FALSE
      BY <2>6, <3>2 DEF OwnerInv, SigningUp, At
    <3> QED
      BY <2>6, <3>1, <3>2, SignUpHolds
  <2>7. \A x \in told' \cup members' : Owned(x[1], x[2])'
    BY <2>1, <2>2 DEF Owned
  <2> QED
    BY <2>1, <2>3, <2>4, <2>5, <2>6, <2>7 DEF OwnerInv, Rows, At, SigningUp
<1>3. Typed /\ OwnerInv => AccountAddedToOne
  <2> SUFFICES ASSUME Typed, OwnerInv, NEW x \in told, NEW y \in told,
                      tenants[x[2]].code = tenants[y[2]].code
               PROVE  x[1] = y[1]
    BY DEF AccountAddedToOne
  <2>1. Owned(x[1], x[2]) /\ Owned(y[1], y[2])
    BY DEF OwnerInv
  <2>2. x[2] \in Rows(tenants) /\ y[2] \in Rows(tenants)
    BY <2>1 DEF Typed, TypeOK, Owned, Rows
  <2> QED
    BY <2>1, <2>2 DEF Owned, OwnerInv
<1> QED
  BY <1>1, <1>2, <1>3, TypedAlways, PTL DEF Spec

-----------------------------------------------------------------------------
(* A link opens one session.                                               *)

(* Overlaps are remembered.                                                *)
LEMMA OverlapsStay == [Next]_vars => overlapped \subseteq overlapped'
BY Observers DEF Ask, VerifyFind, VerifyLookup, Overlap

(* Only the first step of a verification looks at whether the link is      *)
(* used; the second makes it so.                                           *)
LEMMA Holding ==
    ASSUME AccountsAssumption, Typed, HolderInv, [Next]_vars, NEW b \in Browsers,
           NEW l \in Links, req'[b].link = l
    PROVE  \/ req[b].link = l /\ req'[b] = req[b]
           \/ /\ req[b].link = l
              /\ req'[b].at \in (LinkStages \cup {"session"}) \ {"found"}
              /\ links'[l].used
           \/ VerifyFind(b, l) /\ req'[b].at = "found"
<1> DEFINE r == req[b]
<1>1. /\ req \in [Browsers -> Request] /\ links \in [Links -> Link \cup {None}]
      /\ RequestRefs(b) /\ l # None
  BY DEF Typed, TypeOK, RefInv, AccountsAssumption
<1>2. req'[b] # Idle
  BY <1>1 DEF Idle
<1>3. r.link = l => r.at \in LinkStages \cup {"session"} /\ links[l] # None
  BY <1>1 DEF HolderInv
<1>4. CASE Advances(b)
  <2>1. CASE \E e \in Emails : Ask(b, e)
    BY <1>1, <2>1, MagicLinkFields DEF Fields
  <2>2. CASE \E x \in Links : VerifyFind(b, x)
    BY <1>1, <2>2, MagicLinkFields DEF Fields
  <2>3. CASE MarkUsed(b)
    <3>1. Fields(req'[b], "used", r.address, r.link, r.user, r.tenant, r.session)
      BY <1>1, <2>3, MagicLinkFields
    <3>2. r.link = l /\ links[l] \in Link
      BY <1>1, <1>3, <3>1 DEF Fields
    <3>3. [links[l] EXCEPT !.used = TRUE].used
      BY <3>2 DEF Link
    <3>4. links' = [links EXCEPT ![l] = [links[l] EXCEPT !.used = TRUE]]
      BY <2>3, <3>2 DEF MarkUsed
    <3>5. links'[l] = [links[l] EXCEPT !.used = TRUE]
      BY <1>1, <3>4
    <3>6. links'[l].used
      BY <3>3, <3>5
    <3> QED
      BY <3>1, <3>2, <3>6 DEF Fields, LinkStages
  <2>4. CASE \/ VerifyLookup(b) \/ SignUpOwner(b)
             \/ \E x \in Tenants : SignUpTenant(b, x)
             \/ \E x \in Users : SignUpUser(b, x)
    <3>1. req'[b].link = r.link /\ req'[b].at \in {"session", "signup", "user", "owner"}
      BY <1>1, <2>4, MagicLinkFields DEF Fields
    <3>2. links[l].used
      BY <1>1, <2>4, <3>1 DEF HolderInv, VerifyLookup, SignUpOwner, SignUpTenant, SignUpUser
    <3> QED
      BY <1>3, <3>1, <3>2, LinkRows DEF LinkStages
  <2>5. CASE Authenticate(b)
    BY <1>1, <2>5, SessionFields DEF Fields
  <2>6. CASE \E sent \in BOOLEAN : CallbackBegin(b, sent)
    <3>1. req'[b].link = None
      BY <1>1, <2>6, OAuthFields DEF Fields
    <3> QED
      BY <1>1, <3>1
  <2>7. CASE \/ CheckAccess(b) \/ LoginFind(b)
             \/ \E c \in Codes : CallbackFind(b, c)
             \/ \E x \in Tenants : AddTenant(b, x)
             \/ \E x \in Users : LoginCreate(b, x)
    <3>1. r.at \notin LinkStages \cup {"session"}
      BY <2>7 DEF CheckAccess, LoginFind, CallbackFind, AddTenant, LoginCreate, LinkStages
    <3>2. \/ End(b)
          \/ req'[b].link = r.link
      <4>1. CASE \E c \in Codes : CallbackFind(b, c)
        <5>1. PICK c \in Codes : CallbackFind(b, c)
          BY <4>1
        <5> QED
          BY <1>1, <5>1, OAuthFields DEF Fields
      <4>2. CASE CheckAccess(b) \/ LoginFind(b)
        BY <1>1, <4>2, OAuthFields DEF Fields
      <4>3. CASE \/ \E x \in Tenants : AddTenant(b, x)
                 \/ \E x \in Users : LoginCreate(b, x)
        BY <1>1, <4>3, OAuthFields DEF Fields
      <4> QED
        BY <2>7, <4>1, <4>2, <4>3
    <3> QED
      BY <1>1, <1>2, <1>3, <3>1, <3>2 DEF End, Move
  <2> QED
    BY <1>4, <2>1, <2>2, <2>3, <2>4, <2>5, <2>6, <2>7 DEF Advances
<1> QED
  BY <1>2, <1>4, RequestSteps

(* A step keeps the holders of links as HolderInv says.                    *)
LEMMA HoldersStep == AccountsAssumption /\ Typed /\ HolderInv /\ [Next]_vars => HolderInv'
<1> SUFFICES ASSUME AccountsAssumption, Typed, HolderInv, [Next]_vars PROVE HolderInv'
  OBVIOUS
<1>1. /\ req \in [Browsers -> Request] /\ req' \in [Browsers -> Request]
      /\ \A b \in Browsers : req'[b].link # None => req'[b].link \in Links
  BY RequestTyping DEF Typed, TypeOK, Request
<1>2. /\ overlapped \subseteq overlapped'
      /\ \A l \in Links : links[l] # None => links'[l] # None /\ (links[l].used => links'[l].used)
  BY OverlapsStay, LinkRows
<1>3. /\ opened' \subseteq Links
      /\ \A l \in Links : l \in opened' =>
            \/ l \in opened
            \/ \E c \in Browsers : req[c].link = l /\ req[c].at = "session" /\ req'[c] = Idle
      /\ \A l \in Links : l \in reopened' =>
            \/ l \in reopened
            \/ \E c \in Browsers : req[c].link = l /\ l \in opened
  <2>1. opened' \subseteq Links
    BY RestTyping DEF RestTypes
  <2> QED
    BY <1>1, <2>1, Observers DEF OpenSession, End, Move
<1>4. ASSUME NEW b \in Browsers, NEW l \in Links, VerifyFind(b, l)
      PROVE  /\ links[l] # None /\ ~links[l].used /\ UNCHANGED opened
             /\ \A o \in Browsers \ {b} : req'[o] = req[o]
             /\ \A o \in Browsers : req[o].at = "found" /\ req[o].link = l
                                       => <<"verify", l>> \in overlapped'
  <2>1. \A o \in Browsers \ {b} : req'[o] = req[o]
    BY <1>1, <1>4 DEF VerifyFind, Move
  <2>2. \A o \in Browsers : req[o].at = "found" /\ req[o].link = l => <<"verify", l>> \in overlapped'
    BY <1>4 DEF VerifyFind, Overlap, At
  <2> QED
    BY <1>4, <2>1, <2>2 DEF VerifyFind, ValidLinks, Rows
<1>5. ASSUME NEW b \in Browsers, NEW l \in Links, req'[b].link = l
      PROVE  /\ req'[b].at \in LinkStages \cup {"session"}
             /\ links'[l] # None
             /\ req'[b].at # "found" => links'[l].used
             /\ l \in opened' => <<"verify", l>> \in overlapped'
  <2>0. l # None
    BY DEF AccountsAssumption
  <2>1. CASE req[b].link = l
    <3>1. /\ req[b].at \in LinkStages \cup {"session"} /\ links[l] # None
          /\ req[b].at # "found" => links[l].used
          /\ l \in opened => <<"verify", l>> \in overlapped
      BY <2>0, <2>1 DEF HolderInv
    <3>2. ~VerifyFind(b, l)
      BY <2>0, <2>1 DEF VerifyFind, Idle
    <3>3. ASSUME NEW c \in Browsers, req[c].link = l, req'[c] = Idle
          PROVE  <<"verify", l>> \in overlapped
      <4>1. c # b
        BY <1>5, <2>0, <3>3 DEF Idle
      <4> QED
        BY <2>0, <2>1, <3>3, <4>1 DEF HolderInv
    <3> QED
      BY <1>2, <1>3, <1>5, <3>1, <3>2, <3>3, Holding DEF LinkStages
  <2>2. CASE req[b].link # l
    <3>1. VerifyFind(b, l) /\ req'[b].at = "found"
      BY <1>5, <2>2, Holding
    <3>2. l \notin opened
      BY <1>4, <3>1 DEF HolderInv
    <3> QED
      BY <1>2, <1>4, <3>1, <3>2 DEF LinkStages
  <2> QED
    BY <2>1, <2>2
<1>6. ASSUME NEW b \in Browsers, NEW o \in Browsers, b # o, NEW l \in Links,
             req'[b].link = l, req'[o].link = l
      PROVE  <<"verify", l>> \in overlapped'
  <2>0. l # None
    BY DEF AccountsAssumption
  <2>1. CASE req[b].link = l /\ req[o].link = l
    BY <1>2, <1>6, <2>0, <2>1 DEF HolderInv
  <2>2. ASSUME NEW x \in Browsers, NEW y \in Browsers, x # y, VerifyFind(x, l), req'[y].link = l
        PROVE  <<"verify", l>> \in overlapped'
    <3>1. req[y].link = l
      BY <1>4, <2>2
    <3>2. req[y].at = "found"
      BY <1>4, <2>0, <2>2, <3>1 DEF HolderInv
    <3> QED
      BY <1>4, <2>2, <3>1, <3>2
  <2> QED
    BY <1>6, <2>1, <2>2, Holding
<1>7. ASSUME NEW l \in Links, l \in opened' PROVE links'[l] # None /\ links'[l].used
  <2>1. links[l] # None /\ links[l].used
    <3>1. l # None
      BY DEF AccountsAssumption
    <3>2. CASE l \in opened
      BY <3>2 DEF HolderInv
    <3>3. ASSUME NEW c \in Browsers, req[c].link = l, req[c].at = "session"
          PROVE  links[l] # None /\ links[l].used
      BY <3>1, <3>3 DEF HolderInv
    <3> QED
      BY <1>3, <1>7, <3>2, <3>3
  <2> QED
    BY <1>2, <2>1
<1>8. ASSUME NEW l \in Links, l \in reopened' PROVE <<"verify", l>> \in overlapped'
  <2>1. l # None
    BY DEF AccountsAssumption
  <2> QED
    BY <1>2, <1>3, <1>8, <2>1 DEF HolderInv, OneSessionPerLink
<1>9. reopened' \subseteq Links
  BY RestTyping DEF RestTypes
<1> QED
  BY <1>1, <1>3, <1>5, <1>6, <1>7, <1>8, <1>9 DEF HolderInv, OneSessionPerLink

(* A link opens one session, whatever fails in between, unless it was      *)
(* verified twice at once.                                                 *)
THEOREM OneSession == Spec => []OneSessionPerLink
<1> USE AccountsAssumption
<1>1. Init => HolderInv
  BY DEF Init, HolderInv, OneSessionPerLink, Idle
<1>2. Typed /\ HolderInv /\ [Next]_vars => HolderInv'
  BY HoldersStep
<1>3. HolderInv => OneSessionPerLink
  BY DEF HolderInv
<1> QED
  BY <1>1, <1>2, <1>3, TypedAlways, PTL DEF Spec

-----------------------------------------------------------------------------
(* An e-mail has one user.                                                 *)

(* Whoever starts signing an e-mail up has found it without a user.        *)
LEMMA SigningSteps ==
    ASSUME AccountsAssumption, Typed, [Next]_vars, NEW e \in Emails, NEW b \in Browsers,
           b \in Signing(e)'
    PROVE  \/ b \in Signing(e)
           \/ /\ req[b].at = "used" /\ WithEmail(e) = {} /\ UNCHANGED users
              /\ \A o \in Browsers \ {b} : req'[o] = req[o]
              /\ (\E o \in Signing(e) : TRUE) => <<"signup", e>> \in overlapped'
<1> DEFINE r == req[b]
<1>1. req \in [Browsers -> Request]
  BY DEF Typed, TypeOK
<1>2. req'[b].at \in {"signup", "user"} /\ req'[b].address = e
  BY DEF Signing, At
<1>3. CASE req'[b] = req[b]
  BY <1>2, <1>3 DEF Signing, At
<1>4. req'[b] # Idle
  BY <1>2 DEF Idle
<1>5. CASE Advances(b)
  <2>1. CASE \E t \in Tenants : SignUpTenant(b, t)
    <3>1. r.at = "signup" /\ req'[b].address = r.address
      BY <1>1, <2>1, MagicLinkFields DEF Fields, SignUpTenant
    <3> QED
      BY <1>2, <3>1 DEF Signing, At
  <2>2. CASE VerifyLookup(b)
    <3> DEFINE a == links[r.link].email
               first == {o \in At("signup") \cup At("user") : req[o].address = a} = {}
    <3>1. ~ \E u \in WithEmail(a) : Move(b, [r EXCEPT !.at = "session", !.user = u])
      <4>1. \A u : [r EXCEPT !.at = "session", !.user = u].at = "session"
        BY <1>1 DEF Request
      <4> QED
        BY <1>1, <1>2, <4>1 DEF Move
    <3>2. /\ WithEmail(a) = {} /\ Move(b, [r EXCEPT !.at = "signup", !.address = a])
          /\ overlapped' = IF ~first THEN overlapped \cup {<<"signup", a>>} ELSE overlapped
      BY <2>2, <3>1 DEF VerifyLookup, Overlap
    <3>3. [r EXCEPT !.at = "signup", !.address = a].address = a
      BY <1>1 DEF Request
    <3>4. a = e
      BY <1>1, <1>2, <3>2, <3>3 DEF Move
    <3>5. \A o \in Browsers \ {b} : req'[o] = req[o]
      BY <1>1, <3>2 DEF Move
    <3>6. (\E o \in Signing(e) : TRUE) => <<"signup", e>> \in overlapped'
      BY <3>2, <3>4 DEF Signing
    <3>7. r.at = "used" /\ UNCHANGED users
      BY <2>2 DEF VerifyLookup, tables
    <3> QED
      BY <3>2, <3>4, <3>5, <3>6, <3>7
  <2>3. CASE \/ \E a \in Emails : Ask(b, a)
             \/ \E l \in Links : VerifyFind(b, l)
             \/ MarkUsed(b) \/ SignUpOwner(b)
             \/ \E u \in Users : SignUpUser(b, u)
    BY <1>1, <1>2, <2>3, MagicLinkFields DEF Fields
  <2>4. CASE Authenticate(b)
    BY <1>1, <1>2, <2>4, SessionFields DEF Fields
  <2>5. CASE \/ CheckAccess(b) \/ LoginFind(b)
             \/ \E sent \in BOOLEAN : CallbackBegin(b, sent)
             \/ \E t \in Tenants : AddTenant(b, t)
             \/ \E u \in Users : LoginCreate(b, u)
    <3>1. \/ req'[b].at \in {"token", "session", "admin", "callback", "member"}
          \/ req'[b] = Idle
      BY <1>1, <2>5, OAuthFields DEF Fields, End, Move
    <3> QED
      BY <1>2, <1>4, <3>1
  <2>6. CASE \E c \in Codes : CallbackFind(b, c)
    <3>1. req'[b].at \in {"token", "access", "adding", "login"} \/ req'[b] = Idle
      <4>1. PICK c \in Codes : CallbackFind(b, c)
        BY <2>6
      <4> QED
        BY <1>1, <4>1, OAuthFields DEF Fields, End, Move
    <3> QED
      BY <1>2, <1>4, <3>1
  <2> QED
    BY <1>5, <2>1, <2>2, <2>3, <2>4, <2>5, <2>6 DEF Advances
<1> QED
  BY <1>3, <1>4, <1>5, RequestSteps

(* Only a sign-up makes a user with an e-mail.                             *)
LEMMA EmailSteps ==
    ASSUME AccountsAssumption, Typed, [Next]_vars, NEW e \in Emails, NEW u \in Users,
           u \in WithEmail(e)'
    PROVE  \/ u \in WithEmail(e)
           \/ /\ u = NewId(users)
              /\ \E b \in Signing(e) :
                    /\ b \notin Signing(e)'
                    /\ \A o \in Browsers \ {b} : req'[o] = req[o]
<1>1. /\ req \in [Browsers -> Request] /\ users \in [Users -> User \cup {None}] /\ RefInv
  BY DEF Typed, TypeOK
<1>2. users'[u] # None /\ users'[u].email = e
  BY DEF WithEmail, Rows
<1>3. CASE users[u] # None
  BY <1>1, <1>2, <1>3, UserRows DEF WithEmail, Rows
<1>4. ASSUME NEW b \in Browsers, NEW x \in Users, SignUpUser(b, x), users[u] = None
      PROVE  /\ u = NewId(users)
             /\ b \in Signing(e) /\ b \notin Signing(e)'
             /\ \A o \in Browsers \ {b} : req'[o] = req[o]
  <2>1. x = u
    BY <1>1, <1>2, <1>4 DEF SignUpUser, NewUser
  <2>2. req[b].address = e
    BY <1>1, <1>2, <1>4, <2>1 DEF SignUpUser, NewUser
  <2>3. req'[b].at = "owner"
    BY <1>1, <1>4, MagicLinkFields DEF Fields
  <2>4. \A o \in Browsers \ {b} : req'[o] = req[o]
    BY <1>1, <1>4 DEF SignUpUser, Move
  <2> QED
    BY <1>4, <2>1, <2>2, <2>3, <2>4 DEF SignUpUser, NewUser, Signing, At
<1>5. ASSUME NEW b \in Browsers, NEW x \in Users, LoginCreate(b, x)
      PROVE  users[u] # None
  <2>1. CASE NewUser(x, req[b].tenant, req[b].address)
    <3>1. req[b].address \in Codes
      BY <1>1, <1>5 DEF LoginCreate, RefInv, RequestRefs
    <3>2. users'[x].email \in Codes
      BY <1>1, <2>1, <3>1 DEF NewUser
    <3>3. u # x
      BY <1>2, <3>2 DEF AccountsAssumption
    <3> QED
      BY <1>1, <1>2, <2>1, <3>3 DEF NewUser
  <2>2. CASE UNCHANGED users
    BY <1>2, <2>2
  <2> QED
    BY <1>5, <2>1, <2>2 DEF LoginCreate
<1> QED
  BY <1>2, <1>3, <1>4, <1>5, Writers DEF WritesUsers

(* An e-mail has one user, unless it was signed up twice at once.          *)
THEOREM OneUser == Spec => []OneUserPerEmail
<1> USE AccountsAssumption
<1>1. Init => SignUpInv
  BY DEF Init, SignUpInv, OneUserPerEmail, Signing, At, Rows, Idle
<1>2. Typed /\ SignUpInv /\ [Next]_vars => SignUpInv'
  <2> SUFFICES ASSUME Typed, SignUpInv, [Next]_vars PROVE SignUpInv'
    OBVIOUS
  <2> DEFINE Twice(e) == <<"signup", e>> \in overlapped'
  <2>1. overlapped \subseteq overlapped'
    BY OverlapsStay
  <2>2. /\ users' \in [Users -> User \cup {None}]
        /\ \A e : /\ Signing(e) \subseteq Browsers /\ Signing(e)' \subseteq Browsers
                  /\ WithEmail(e)' \subseteq Users
    BY UserRows DEF Signing, At, WithEmail, Rows
  <2>3. ASSUME NEW e \in Emails, ~Twice(e)
        PROVE  /\ \A b, o \in Signing(e) : b = o
               /\ Signing(e) # {} => WithEmail(e) = {}
    BY <2>1, <2>3 DEF SignUpInv
  <2>4. ASSUME NEW e \in Emails, ~Twice(e), NEW b \in Signing(e)', NEW o \in Signing(e)'
        PROVE  b = o
    <3>1. b \in Browsers /\ o \in Browsers
      BY <2>2
    <3>2. CASE b \in Signing(e) /\ o \in Signing(e)
      BY <2>3, <2>4, <3>2
    <3>3. ASSUME NEW x \in Browsers, NEW y \in Browsers, x \in Signing(e)', y \in Signing(e)',
                 x \notin Signing(e), x # y
          PROVE  FALSE
      <4>1. /\ req[x].at = "used" /\ req'[y] = req[y]
            /\ (\E z \in Signing(e) : TRUE) => <<"signup", e>> \in overlapped'
        BY <3>3, SigningSteps
      <4>2. y \in Signing(e)
        BY <3>3, <4>1 DEF Signing, At
      <4> QED
        BY <2>4, <4>1, <4>2
    <3> QED
      BY <3>1, <3>2, <3>3
  <2>5. ASSUME NEW e \in Emails, ~Twice(e), NEW b \in Signing(e)', NEW u \in WithEmail(e)'
        PROVE  FALSE
    <3>1. b \in Browsers /\ u \in Users
      BY <2>2
    <3>2. CASE u \in WithEmail(e)
      BY <2>3, <2>5, <3>1, <3>2, SigningSteps
    <3>3. ASSUME NEW c \in Signing(e), c \notin Signing(e)',
                 \A o \in Browsers \ {c} : req'[o] = req[o]
          PROVE  FALSE
      <4>1. b # c /\ req'[b] = req[b]
        BY <3>1, <3>3
      <4>2. b \in Signing(e)
        BY <3>1, <4>1 DEF Signing, At
      <4> QED
        BY <2>3, <2>5, <4>1, <4>2
    <3> QED
      BY <3>1, <3>2, <3>3, EmailSteps
  <2>6. ASSUME NEW e \in Emails, ~Twice(e), NEW u \in WithEmail(e)', NEW v \in WithEmail(e)'
        PROVE  u = v
    <3>1. u \in Users /\ v \in Users
      BY <2>2
    <3>2. CASE u \in WithEmail(e) /\ v \in WithEmail(e)
      BY <2>1, <2>6, <3>2 DEF SignUpInv, OneUserPerEmail, WithEmail
    <3>3. \A x \in WithEmail(e)' : x \in WithEmail(e) \/ (x = NewId(users) /\ Signing(e) # {})
      BY <2>2, EmailSteps
    <3> QED
      BY <2>3, <2>6, <3>2, <3>3
  <2>7. OneUserPerEmail'
    <3> SUFFICES ASSUME NEW u \in Rows(users)', NEW v \in Rows(users)', u # v,
                        users'[u].email = users'[v].email, users'[u].email \in Emails
                 PROVE  <<"signup", users'[u].email>> \in overlapped'
      BY DEF OneUserPerEmail
    <3>1. PICK e \in Emails : e = users'[u].email
      OBVIOUS
    <3>2. u \in WithEmail(e)' /\ v \in WithEmail(e)'
      BY <3>1 DEF WithEmail
    <3> QED
      BY <2>6, <3>1, <3>2
  <2> QED
    BY <2>4, <2>5, <2>7 DEF SignUpInv
<1>3. SignUpInv => OneUserPerEmail
  BY DEF SignUpInv
<1> QED
  BY <1>1, <1>2, <1>3, TypedAlways, PTL DEF Spec

-----------------------------------------------------------------------------
(* An e-mail is not sent more links an hour than the limit.                *)

(* Whoever is about to create a link has found room for it.                *)
LEMMA AskingSteps ==
    ASSUME AccountsAssumption, Typed, [Next]_vars, NEW e \in Emails, NEW b \in Browsers,
           b \in Asking(e)'
    PROVE  \/ b \in Asking(e) /\ req'[b] = req[b]
           \/ /\ req[b] = Idle /\ UnderLimit(e) /\ UNCHANGED links
              /\ \A o \in Browsers \ {b} : req'[o] = req[o]
              /\ (\E o \in Asking(e) : TRUE) => <<"ask", e>> \in overlapped'
<1>1. req \in [Browsers -> Request]
  BY DEF Typed, TypeOK
<1>2. req'[b].at = "asked" /\ req'[b].address = e
  BY DEF Asking, At
<1>3. CASE req'[b] = req[b]
  BY <1>2, <1>3 DEF Asking, At
<1>4. req'[b] # Idle
  BY <1>2 DEF Idle
<1>5. CASE Advances(b)
  <2>1. CASE \E a \in Emails : Ask(b, a)
    <3>1. PICK a \in Emails : Ask(b, a)
      BY <2>1
    <3>2. a = e
      BY <1>1, <1>2, <3>1, MagicLinkFields DEF Fields
    <3>3. \A o \in Browsers \ {b} : req'[o] = req[o]
      BY <1>1, <3>1 DEF Ask, Move
    <3>4. (\E o \in Asking(e) : TRUE) => <<"ask", e>> \in overlapped'
      BY <3>1, <3>2 DEF Ask, Overlap, Asking
    <3> QED
      BY <3>1, <3>2, <3>3, <3>4 DEF Ask, tables
  <2>2. CASE \/ \E l \in Links : VerifyFind(b, l)
             \/ MarkUsed(b) \/ VerifyLookup(b) \/ SignUpOwner(b)
             \/ \E t \in Tenants : SignUpTenant(b, t)
             \/ \E u \in Users : SignUpUser(b, u)
    BY <1>1, <1>2, <2>2, MagicLinkFields DEF Fields
  <2>3. CASE Authenticate(b)
    BY <1>1, <1>2, <2>3, SessionFields DEF Fields
  <2>4. CASE \/ CheckAccess(b) \/ LoginFind(b)
             \/ \E sent \in BOOLEAN : CallbackBegin(b, sent)
             \/ \E t \in Tenants : AddTenant(b, t)
             \/ \E u \in Users : LoginCreate(b, u)
    <3>1. \/ req'[b].at \in {"token", "session", "admin", "callback", "member"}
          \/ req'[b] = Idle
      BY <1>1, <2>4, OAuthFields DEF Fields, End, Move
    <3> QED
      BY <1>2, <1>4, <3>1
  <2>5. CASE \E c \in Codes : CallbackFind(b, c)
    <3>1. req'[b].at \in {"token", "access", "adding", "login"} \/ req'[b] = Idle
      <4>1. PICK c \in Codes : CallbackFind(b, c)
        BY <2>5
      <4> QED
        BY <1>1, <4>1, OAuthFields DEF Fields, End, Move
    <3> QED
      BY <1>2, <1>4, <3>1
  <2> QED
    BY <1>5, <2>1, <2>2, <2>3, <2>4, <2>5 DEF Advances
<1> QED
  BY <1>3, <1>4, <1>5, RequestSteps

(* Only who has asked adds to the recent links, and only one.              *)
LEMMA RecentSteps ==
    ASSUME AccountsAssumption, Typed, [Next]_vars, NEW e \in Emails
    PROVE  \/ Recent(e)' \subseteq Recent(e)
           \/ \E b \in Asking(e), l \in Links :
                 /\ b \notin Asking(e)'
                 /\ \A o \in Browsers \ {b} : req'[o] = req[o]
                 /\ Recent(e)' \subseteq Recent(e) \cup {l}
<1>1. /\ req \in [Browsers -> Request] /\ links \in [Links -> Link \cup {None}]
      /\ links' \in [Links -> Link \cup {None}] /\ RefInv
  BY LinkRows DEF Typed, TypeOK
<1>2. Recent(e)' = {l \in Links : links'[l] # None /\ links'[l].email = e
                                     /\ links'[l].age # "uncounted"}
  BY <1>1 DEF Recent, Rows
<1>3. Recent(e) = {l \in Links : links[l] # None /\ links[l].email = e
                                    /\ links[l].age # "uncounted"}
  BY <1>1 DEF Recent, Rows
<1>4. CASE links' = links
  BY <1>2, <1>3, <1>4
<1>5. ASSUME NEW b \in Browsers, MarkUsed(b) PROVE Recent(e)' \subseteq Recent(e)
  <2> DEFINE x == req[b].link
             row == [links[x] EXCEPT !.used = TRUE]
  <2>1. x \in Links /\ links[x] # None /\ links[x] \in Link
    BY <1>1, <1>5 DEF MarkUsed, RefInv, RequestRefs, LinkStages, Request
  <2>2. row.email = links[x].email /\ row.age = links[x].age
    BY <2>1 DEF Link
  <2>3. links' = [links EXCEPT ![x] = row]
    BY <1>5 DEF MarkUsed
  <2> HIDE DEF x, row
  <2> QED
    BY <1>1, <1>2, <1>3, <2>1, <2>2, <2>3
<1>6. ASSUME NEW x \in Links, LinkAges(x) PROVE Recent(e)' \subseteq Recent(e)
  <2> DEFINE age == IF links[x].age = "valid" THEN "expired" ELSE "uncounted"
             row == [links[x] EXCEPT !.age = age]
  <2>1. links[x] # None /\ links[x] \in Link /\ links[x].age # "uncounted"
    BY <1>1, <1>6 DEF LinkAges
  <2>2. links' = [links EXCEPT ![x] = row]
    BY <1>6 DEF LinkAges
  <2> HIDE DEF age
  <2>3. row.email = links[x].email
    BY <2>1 DEF Link
  <2> HIDE DEF row
  <2> QED
    BY <1>1, <1>2, <1>3, <2>1, <2>2, <2>3
<1>7. ASSUME NEW b \in Browsers, NEW l \in Links, CreateLink(b, l)
      PROVE  \/ Recent(e)' \subseteq Recent(e)
             \/ /\ b \in Asking(e) /\ b \notin Asking(e)'
                /\ \A o \in Browsers \ {b} : req'[o] = req[o]
                /\ Recent(e)' \subseteq Recent(e) \cup {l}
  <2>1. links' = [links EXCEPT ![l] = [email |-> req[b].address, used |-> FALSE, age |-> "valid"]]
    BY <1>7 DEF CreateLink
  <2>2. Recent(e)' \subseteq Recent(e) \cup {l}
    BY <1>1, <1>2, <1>3, <2>1
  <2>3. CASE req[b].address = e
    <3>1. b \in Asking(e)
      BY <1>7, <2>3 DEF CreateLink, Asking, At
    <3>2. req'[b] = Idle /\ \A o \in Browsers \ {b} : req'[o] = req[o]
      BY <1>1, <1>7 DEF CreateLink, End, Move
    <3>3. b \notin Asking(e)'
      BY <3>2 DEF Asking, At, Idle
    <3> QED
      BY <2>2, <3>1, <3>2, <3>3
  <2>4. CASE req[b].address # e
    BY <1>1, <1>2, <1>3, <2>1, <2>4
  <2> QED
    BY <2>3, <2>4
<1> QED
  BY <1>4, <1>5, <1>6, <1>7, Writers DEF WritesLinks

(* An e-mail has no more recent links than the limit, used ones included,  *)
(* unless it was asked for twice at once.                                  *)
THEOREM LimitKept == Spec => []LimitHolds
<1> USE AccountsAssumption
<1>1. Init => LimitInv
  <2> SUFFICES ASSUME Init PROVE LimitInv
    OBVIOUS
  <2>1. \A e : Recent(e) = {}
    BY DEF Init, Recent, Rows
  <2>2. \A e : Asking(e) = {}
    BY DEF Init, Asking, At, Idle
  <2>3. ~(Cardinality({}) > LinkLimit)
    BY FS_EmptySet DEF AccountsAssumption
  <2> QED
    BY <2>1, <2>2, <2>3 DEF LimitInv, LimitHolds
<1>2. Typed /\ LimitInv /\ [Next]_vars => LimitInv'
  <2> SUFFICES ASSUME Typed, LimitInv, [Next]_vars PROVE LimitInv'
    OBVIOUS
  <2> DEFINE Twice(e) == <<"ask", e>> \in overlapped'
  <2>1. overlapped \subseteq overlapped' /\ LinkLimit \in Nat
    BY OverlapsStay DEF AccountsAssumption
  <2>2. \A e : /\ Asking(e) \subseteq Browsers /\ Asking(e)' \subseteq Browsers
               /\ Recent(e) \subseteq Links /\ Recent(e)' \subseteq Links
    BY LinkRows DEF Asking, At, Recent, Rows, Typed, TypeOK
  <2>3. \A e : /\ IsFiniteSet(Recent(e)) /\ Cardinality(Recent(e)) \in Nat
               /\ IsFiniteSet(Recent(e)') /\ Cardinality(Recent(e)') \in Nat
    BY <2>2, FS_Subset, FS_CardinalityType DEF AccountsAssumption
  <2>4. \A e : Recent(e)' \subseteq Recent(e) =>
                   Cardinality(Recent(e)') <= Cardinality(Recent(e))
    BY <2>3, FS_Subset
  <2>5. ASSUME NEW e \in Emails, NEW l, Recent(e)' \subseteq Recent(e) \cup {l}
        PROVE  Cardinality(Recent(e)') <= Cardinality(Recent(e)) + 1
    <3>1. /\ IsFiniteSet(Recent(e) \cup {l})
          /\ Cardinality(Recent(e) \cup {l}) \in {Cardinality(Recent(e)), Cardinality(Recent(e)) + 1}
      BY <2>3, FS_AddElement
    <3>2. Cardinality(Recent(e)') <= Cardinality(Recent(e) \cup {l})
      BY <2>5, <3>1, FS_Subset
    <3> QED
      BY <2>3, <3>1, <3>2
  <2>6. ASSUME NEW e \in Emails, ~Twice(e)
        PROVE  /\ \A b, o \in Asking(e) : b = o
               /\ Asking(e) # {} => Cardinality(Recent(e)) < LinkLimit
               /\ Cardinality(Recent(e)) <= LinkLimit
    BY <2>1, <2>3, <2>6 DEF LimitInv, LimitHolds, UnderLimit
  <2>7. ASSUME NEW e \in Emails, ~Twice(e), NEW b \in Asking(e)', NEW o \in Asking(e)'
        PROVE  b = o
    <3>1. b \in Browsers /\ o \in Browsers
      BY <2>2
    <3>2. CASE b \in Asking(e) /\ o \in Asking(e)
      BY <2>6, <2>7, <3>2
    <3>3. ASSUME NEW x \in Browsers, NEW y \in Browsers, x \in Asking(e)', y \in Asking(e)',
                 x \notin Asking(e), x # y
          PROVE  FALSE
      <4>1. /\ req'[y] = req[y]
            /\ (\E z \in Asking(e) : TRUE) => <<"ask", e>> \in overlapped'
        BY <3>3, AskingSteps
      <4>2. y \in Asking(e)
        BY <3>3, <4>1 DEF Asking, At
      <4> QED
        BY <2>7, <4>1, <4>2
    <3> QED
      BY <3>1, <3>2, <3>3
  <2>8. ASSUME NEW e \in Emails, ~Twice(e), NEW b \in Asking(e)'
        PROVE  Cardinality(Recent(e)') < LinkLimit
    <3>1. b \in Browsers
      BY <2>2
    <3>2. CASE b \in Asking(e) /\ req'[b] = req[b]
      <4>1. CASE Recent(e)' \subseteq Recent(e)
        BY <2>1, <2>3, <2>4, <2>6, <2>8, <3>2, <4>1
      <4>2. ASSUME NEW c \in Asking(e), c \notin Asking(e)' PROVE FALSE
        BY <2>6, <2>8, <3>2, <4>2
      <4> QED
        BY <4>1, <4>2, RecentSteps
    <3>3. CASE UnderLimit(e) /\ UNCHANGED links
      <4>1. Recent(e)' = Recent(e)
        BY <3>3 DEF Recent, Rows
      <4> QED
        BY <3>3, <4>1 DEF UnderLimit
    <3> QED
      BY <3>1, <3>2, <3>3, AskingSteps
  <2>9. ASSUME NEW e \in Emails, ~Twice(e)
        PROVE  Cardinality(Recent(e)') <= LinkLimit
    <3>1. CASE Recent(e)' \subseteq Recent(e)
      BY <2>1, <2>3, <2>4, <2>6, <2>9, <3>1
    <3>2. ASSUME NEW b \in Asking(e), NEW l \in Links, Recent(e)' \subseteq Recent(e) \cup {l}
          PROVE  Cardinality(Recent(e)') <= LinkLimit
      <4>1. Cardinality(Recent(e)) < LinkLimit
        BY <2>6, <2>9, <3>2
      <4> QED
        BY <2>1, <2>3, <2>5, <3>2, <4>1
    <3> QED
      BY <3>1, <3>2, RecentSteps
  <2>10. LimitHolds'
    BY <2>1, <2>3, <2>9 DEF LimitHolds
  <2> QED
    BY <2>7, <2>8, <2>10 DEF LimitInv, UnderLimit
<1>3. LimitInv => LimitHolds
  BY DEF LimitInv
<1> QED
  BY <1>1, <1>2, <1>3, TypedAlways, PTL DEF Spec
=============================================================================
