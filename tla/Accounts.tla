------------------------------ MODULE Accounts ------------------------------
(***************************************************************************)
(* Users, tenants, memberships and sessions: magic links (api/handlers/    *)
(* magic-link.ts), the Bsale callback that signs in or adds a tenant       *)
(* (api/handlers/oauth.ts) and the session middleware.  The tenant switch  *)
(* is served by no route and is left out.                                  *)
(*                                                                         *)
(* No request is a transaction: each is a row of statements, any of which  *)
(* may fail and leave what was done before it.  Each browser makes one     *)
(* request at a time and keeps one session cookie; `req` holds the local   *)
(* variables of its request between two awaits.                            *)
(*                                                                         *)
(* Rows of users and tenants are never deleted.  Ids and tokens are random *)
(* and never used again.                                                   *)
(***************************************************************************)
EXTENDS Naturals, FiniteSets

CONSTANTS
    Emails,
    Codes,          \* Bsale accounts; c also stands for the address admin@c
    Users, Tenants, Links, Sessions,    \* ids and tokens: bounds
    Browsers,
    None,           \* NULL
    LinkLimit,      \* magicLinkRateLimitPerHour
    MaxRequests     \* bound: requests that browsers begin

(* The rows of the tables.                                                *)
User == [home : Tenants, email : Emails \cup Codes]
Tenant == [owner : Users \cup {None}, code : Codes \cup {None}]
Link == [email : Emails, used : BOOLEAN, age : {"valid", "expired", "uncounted"}]
Session == [user : Users, tenant : Tenants \cup {None},
            age : {"fresh", "old", "expired", "deleted"}]

ASSUME AccountsAssumption ==
    /\ None \notin Emails \cup Codes \cup Users \cup Tenants \cup Links \cup Sessions
    /\ None \notin User \cup Tenant \cup Link \cup Session
    /\ Emails \cap Codes = {}
    /\ IsFiniteSet(Links)
    /\ LinkLimit \in Nat \ {0}
    /\ MaxRequests \in Nat

VARIABLES
    \* Tables: a row, or None.
    users, tenants, links, sessions,
    members,        \* user_tenants
    \* Memory of the process, and the browsers.
    states,         \* browsers whose Bsale login is in the OAuthStateStore
    req,
    cookie,
    requests,       \* how many there were
    \* The rest only observe.
    overlapped,     \* what was asked, verified or signed up twice at once
    opened,         \* links that have opened a session
    reopened,       \* links that have opened another
    told            \* users who were told that a tenant is theirs

tables == <<users, tenants, links, sessions, members>>
memory == <<states, cookie, requests>>
ghosts == <<overlapped, opened, reopened, told>>
vars == <<tables, memory, req, ghosts>>

Stage == {"idle",
          "asked",                                          \* for a link
          "found", "used", "signup", "user", "owner",       \* verifying one
          "callback", "access", "token", "adding", "member",
          "login", "admin",                                 \* the Bsale callback
          "session", "refresh"}
Request == [at : Stage, address : Emails \cup Codes \cup {None}, link : Links \cup {None},
            user : Users \cup {None}, tenant : Tenants \cup {None},
            session : Sessions \cup {None}]

TypeOK ==
    /\ users \in [Users -> User \cup {None}]
    /\ tenants \in [Tenants -> Tenant \cup {None}]
    /\ links \in [Links -> Link \cup {None}]
    /\ sessions \in [Sessions -> Session \cup {None}]
    /\ members \in SUBSET (Users \X Tenants)
    /\ states \in SUBSET Browsers
    /\ req \in [Browsers -> Request]
    /\ cookie \in [Browsers -> Sessions \cup {None}]
    /\ requests \in Nat
    /\ overlapped \in SUBSET ({"ask", "verify", "signup"} \X (Emails \cup Links))
    /\ opened \in SUBSET Links
    /\ reopened \in SUBSET Links
    /\ told \in SUBSET (Users \X Tenants)

Idle == [at |-> "idle", address |-> None, link |-> None,
         user |-> None, tenant |-> None, session |-> None]

Init ==
    /\ users = [u \in Users |-> None]
    /\ tenants = [t \in Tenants |-> None]
    /\ links = [l \in Links |-> None]
    /\ sessions = [s \in Sessions |-> None]
    /\ members = {}
    /\ states = {}
    /\ req = [b \in Browsers |-> Idle]
    /\ cookie = [b \in Browsers |-> None]
    /\ requests = 0
    /\ overlapped = {}
    /\ opened = {}
    /\ reopened = {}
    /\ told = {}

-----------------------------------------------------------------------------
(* Reads.                                                                  *)

Rows(table) == {x \in DOMAIN table : table[x] # None}
Free(table) == {x \in DOMAIN table : table[x] = None}

(* A new id; which one makes no difference.                                *)
NewId(table) == CHOOSE x \in Free(table) : TRUE

(* countRecentByEmail, used links included.                                *)
Recent(e) == {l \in Rows(links) : links[l].email = e /\ links[l].age # "uncounted"}

(* Variant: a link that was used is found as well.                         *)
UnexpiredLinks == {l \in Rows(links) : links[l].age = "valid"}

(* findValidToken.                                                         *)
ValidLinks == {l \in Rows(links) : ~links[l].used /\ links[l].age = "valid"}

(* Variant: only owners of their tenants are found.                        *)
OwnersWithEmail(e) == {u \in Rows(users) : users[u].email = e /\ tenants[users[u].home].owner = u}

(* getByEmail of any tenant; findByUserEmail joins users with tenants.     *)
WithEmail(e) == {u \in Rows(users) : users[u].email = e}

(* findByClientCode.                                                       *)
WithCode(c) == {t \in Rows(tenants) : tenants[t].code = c}

(* findByToken: the session is there and has not expired.                  *)
Live(s) == s # None /\ sessions[s] # None /\ sessions[s].age \in {"fresh", "old"}

At(stage) == {b \in Browsers : req[b].at = stage}

-----------------------------------------------------------------------------
(* Writes, and the steps of a request.                                     *)

Count ==
    /\ requests < MaxRequests
    /\ requests' = requests + 1

Move(b, r) == req' = [req EXCEPT ![b] = r]
Goto(b, stage) == Move(b, [req[b] EXCEPT !.at = stage])
End(b) == Move(b, Idle)

NewUser(u, t, address) ==
    /\ Free(users) # {}
    /\ u = NewId(users)
    /\ users' = [users EXCEPT ![u] = [home |-> t, email |-> address]]

(* Variant: a tenant without owner has a word in its place.                *)
NewTenantVariant(t, owner, c) ==
    /\ Free(tenants) # {}
    /\ t = NewId(tenants)
    /\ tenants' = [tenants EXCEPT ![t] =
                      [owner |-> IF owner = None THEN "pending" ELSE owner, code |-> c]]

NewTenant(t, owner, c) ==
    /\ Free(tenants) # {}
    /\ t = NewId(tenants)
    /\ tenants' = [tenants EXCEPT ![t] = [owner |-> owner, code |-> c]]

(* Two requests have passed the same read before either wrote.             *)
Overlap(kind, x, others) ==
    overlapped' = IF others # {} THEN overlapped \cup {<<kind, x>>} ELSE overlapped

-----------------------------------------------------------------------------
(* Asking for a magic link.                                                *)

(* Variant: the comparison is off by one.                                  *)
AtMostLimit(e) == Cardinality(Recent(e)) <= LinkLimit

(* The limit is compared with what is recent now ...                       *)
UnderLimit(e) == Cardinality(Recent(e)) < LinkLimit

Ask(b, e) ==
    /\ req[b] = Idle
    /\ Count
    /\ UnderLimit(e)
    /\ Move(b, [Idle EXCEPT !.at = "asked", !.address = e])
    /\ Overlap("ask", e, {o \in At("asked") : req[o].address = e})
    /\ UNCHANGED <<tables, states, cookie, opened, reopened, told>>

(* ... and the link is created later.  Whether its mail arrives shows in   *)
(* its being verified or not.                                              *)
CreateLink(b, l) ==
    /\ req[b].at = "asked"
    /\ Free(links) # {}
    /\ l = NewId(links)
    /\ links' = [links EXCEPT ![l] = [email |-> req[b].address, used |-> FALSE, age |-> "valid"]]
    /\ End(b)
    /\ UNCHANGED <<users, tenants, sessions, members, memory, ghosts>>

(* Time passes for a link: it expires, then leaves the hour that counts.   *)
LinkAges(l) ==
    /\ links[l] # None
    /\ links[l].age # "uncounted"
    /\ links' = [links EXCEPT ![l].age = IF @ = "valid" THEN "expired" ELSE "uncounted"]
    /\ UNCHANGED <<users, tenants, sessions, members, memory, req, ghosts>>

-----------------------------------------------------------------------------
(* Verifying a magic link.                                                 *)

VerifyFind(b, l) ==
    /\ req[b] = Idle
    /\ Count
    /\ l \in ValidLinks
    /\ Move(b, [Idle EXCEPT !.at = "found", !.link = l])
    /\ Overlap("verify", l, {o \in At("found") : req[o].link = l})
    /\ UNCHANGED <<tables, states, cookie, opened, reopened, told>>

(* markUsed does not look whether the link is used already.                *)
MarkUsed(b) ==
    /\ req[b].at = "found"
    /\ links' = [links EXCEPT ![req[b].link].used = TRUE]
    /\ Goto(b, "used")
    /\ UNCHANGED <<users, tenants, sessions, members, memory, ghosts>>

(* Since users stay, the user whose tenant was found is found in it too;   *)
(* of several, the database returns any.                                   *)
VerifyLookup(b) ==
    /\ req[b].at = "used"
    /\ LET e == links[req[b].link].email
           signing == At("signup") \cup At("user")
       IN  \/ /\ \E u \in WithEmail(e) :
                    Move(b, [req[b] EXCEPT !.at = "session", !.user = u])
              /\ UNCHANGED overlapped
           \/ /\ WithEmail(e) = {}
              /\ Move(b, [req[b] EXCEPT !.at = "signup", !.address = e])
              /\ Overlap("signup", e, {o \in signing : req[o].address = e})
    /\ UNCHANGED <<tables, memory, opened, reopened, told>>

SignUpTenant(b, t) ==
    /\ req[b].at = "signup"
    /\ NewTenant(t, None, None)
    /\ Move(b, [req[b] EXCEPT !.at = "user", !.tenant = t])
    /\ UNCHANGED <<users, links, sessions, members, memory, ghosts>>

SignUpUser(b, u) ==
    /\ req[b].at = "user"
    /\ NewUser(u, req[b].tenant, req[b].address)
    /\ Move(b, [req[b] EXCEPT !.at = "owner", !.user = u])
    /\ UNCHANGED <<tenants, links, sessions, members, memory, ghosts>>

(* The session that follows has no current tenant.                         *)
SignUpOwner(b) ==
    /\ req[b].at = "owner"
    /\ tenants' = [tenants EXCEPT ![req[b].tenant].owner = req[b].user]
    /\ Move(b, [req[b] EXCEPT !.at = "session", !.tenant = None])
    /\ UNCHANGED <<users, links, sessions, members, memory, ghosts>>

-----------------------------------------------------------------------------
(* The Bsale login and its callback.                                       *)

OAuthStart(b) ==
    /\ req[b] = Idle
    /\ Count
    /\ states' = states \cup {b}
    /\ UNCHANGED <<tables, req, cookie, ghosts>>

(* The state expires, or is lost with the process.                         *)
Forget(b) ==
    /\ b \in states
    /\ states' = states \ {b}
    /\ UNCHANGED <<tables, req, cookie, ghosts, requests>>

(* The route looks the session up, if the browser sent its cookie on the   *)
(* way back from Bsale, then consumes the state.                           *)
CallbackBegin(b, sent) ==
    /\ req[b] = Idle
    /\ b \in states
    /\ states' = states \ {b}
    /\ Move(b, [Idle EXCEPT !.at = "callback",
                            !.user = IF sent /\ Live(cookie[b])
                                     THEN sessions[cookie[b]].user ELSE None])
    /\ UNCHANGED <<tables, cookie, ghosts, requests>>

(* The code was exchanged for the token of account c.  A login of an       *)
(* account without tenant looks for its user under the tenant id "", an    *)
(* error in PostgreSQL: the request fails.                                 *)
CallbackFind(b, c) ==
    /\ req[b].at = "callback"
    /\ \/ /\ req[b].user # None
          /\ \E t \in WithCode(c) :
                Move(b, [req[b] EXCEPT !.tenant = t,
                                       !.at = IF tenants[t].owner = req[b].user
                                              THEN "token" ELSE "access"])
       \/ /\ req[b].user # None
          /\ WithCode(c) = {}
          /\ Move(b, [req[b] EXCEPT !.at = "adding", !.address = c])
       \/ /\ req[b].user = None
          /\ \E t \in WithCode(c) :
                Move(b, [req[b] EXCEPT !.at = "login", !.tenant = t, !.address = c])
       \/ /\ req[b].user = None
          /\ WithCode(c) = {}
          /\ End(b)
    /\ UNCHANGED <<tables, memory, ghosts>>

(* hasAccess.                                                              *)
HasAccess(u, t) == <<u, t>> \in members

(* Variant: the membership is not looked up.                               *)
UncheckedAccess(b) ==
    /\ req[b].at = "access"
    /\ Goto(b, "token")
    /\ UNCHANGED <<tables, memory, ghosts>>

(* Another's tenant is refused, unless the user is a member of it.         *)
CheckAccess(b) ==
    /\ req[b].at = "access"
    /\ IF HasAccess(req[b].user, req[b].tenant) THEN Goto(b, "token") ELSE End(b)
    /\ UNCHANGED <<tables, memory, ghosts>>

(* The answer of an added tenant sets the cookie to an empty token.        *)
Added(b) ==
    /\ told' = told \cup {<<req[b].user, req[b].tenant>>}
    /\ cookie' = [cookie EXCEPT ![b] = None]
    /\ End(b)

(* The tenant is there: only its token is updated (see TenantSync).        *)
AddToken(b) ==
    /\ req[b].at = "token"
    /\ Added(b)
    /\ UNCHANGED <<tables, states, overlapped, opened, reopened, requests>>

(* The INSERT fails if another request has created the tenant meanwhile.   *)
AddTenant(b, t) ==
    /\ req[b].at = "adding"
    /\ IF WithCode(req[b].address) = {}
       THEN /\ NewTenant(t, req[b].user, req[b].address)
            /\ Move(b, [req[b] EXCEPT !.at = "member", !.tenant = t])
       ELSE /\ End(b)
            /\ UNCHANGED tenants
    /\ UNCHANGED <<users, links, sessions, members, memory, ghosts>>

AddMember(b) ==
    /\ req[b].at = "member"
    /\ members' = members \cup {<<req[b].user, req[b].tenant>>}
    /\ Added(b)
    /\ UNCHANGED <<users, tenants, links, sessions, states, overlapped, opened, reopened, requests>>

(* Variant: the user is looked up in every tenant.                         *)
InAnyTenant(t, address) == WithEmail(address)

(* getByEmail of one tenant.                                               *)
InTenant(t, address) == {u \in WithEmail(address) : users[u].home = t}

(* A login: the token is updated, and admin@c looked up in the tenant.     *)
LoginFind(b) ==
    /\ req[b].at = "login"
    /\ LET found == InTenant(req[b].tenant, req[b].address)
       IN  IF found = {} THEN Goto(b, "admin")
           ELSE \E u \in found : Move(b, [req[b] EXCEPT !.at = "session", !.user = u])
    /\ UNCHANGED <<tables, memory, ghosts>>

(* UNIQUE(tenant_id, email) makes the second of two logins fail.           *)
EmailIsFree(t, address) == \A u \in WithEmail(address) : users[u].home # t

LoginCreate(b, u) ==
    /\ req[b].at = "admin"
    /\ IF EmailIsFree(req[b].tenant, req[b].address)
       THEN /\ NewUser(u, req[b].tenant, req[b].address)
            /\ Move(b, [req[b] EXCEPT !.at = "session", !.user = u])
       ELSE /\ End(b)
            /\ UNCHANGED users
    /\ UNCHANGED <<tenants, links, sessions, members, memory, ghosts>>

-----------------------------------------------------------------------------
(* Sessions.                                                               *)

OpenSession(b, s) ==
    /\ req[b].at = "session"
    /\ Free(sessions) # {}
    /\ s = NewId(sessions)
    /\ sessions' = [sessions EXCEPT ![s] = [user |-> req[b].user, tenant |-> req[b].tenant,
                                            age |-> "fresh"]]
    /\ cookie' = [cookie EXCEPT ![b] = s]
    /\ opened' = opened \cup ({req[b].link} \ {None})
    /\ reopened' = reopened \cup ({req[b].link} \cap opened)
    /\ End(b)
    /\ UNCHANGED <<users, tenants, links, members, states, overlapped, told, requests>>

(* Half of its days have passed, then all of them.                         *)
SessionAges(s) ==
    /\ Live(s)
    /\ sessions' = [sessions EXCEPT ![s].age = IF @ = "fresh" THEN "old" ELSE "expired"]
    /\ UNCHANGED <<users, tenants, links, members, memory, req, ghosts>>

(* The hourly deleteExpired.                                               *)
Cleanup ==
    /\ sessions' = [s \in Sessions |-> IF s \in Rows(sessions) /\ sessions[s].age = "expired"
                                       THEN [sessions[s] EXCEPT !.age = "deleted"]
                                       ELSE sessions[s]]
    /\ UNCHANGED <<users, tenants, links, members, memory, req, ghosts>>

(* authenticate prolongs an old session ...                                *)
Authenticate(b) ==
    /\ req[b] = Idle
    /\ Count
    /\ Live(cookie[b])
    /\ sessions[cookie[b]].age = "old"
    /\ Move(b, [Idle EXCEPT !.at = "refresh", !.session = cookie[b]])
    /\ UNCHANGED <<tables, states, cookie, ghosts>>

(* ... by an UPDATE that finds the row, expired or not, unless deleted.    *)
Refresh(b) ==
    /\ req[b].at = "refresh"
    /\ sessions' = [sessions EXCEPT ![req[b].session].age =
                       IF @ = "deleted" THEN "deleted" ELSE "fresh"]
    /\ End(b)
    /\ UNCHANGED <<users, tenants, links, members, memory, ghosts>>

(* The logout that is served only empties the cookie.                      *)
Logout(b) ==
    /\ req[b] = Idle
    /\ Count
    /\ cookie' = [cookie EXCEPT ![b] = None]
    /\ UNCHANGED <<tables, states, req, ghosts>>

-----------------------------------------------------------------------------
(* Around them.                                                            *)

(* The home of a user who has signed in connects to an account that no     *)
(* other tenant has (see TenantSync).                                      *)
Connect(t, c) ==
    /\ t \in Rows(tenants)
    /\ \E s \in Rows(sessions) : users[sessions[s].user].home = t
    /\ WithCode(c) \subseteq {t}
    /\ tenants' = [tenants EXCEPT ![t].code = c]
    /\ UNCHANGED <<users, links, sessions, members, memory, req, ghosts>>

(* A statement fails, or the process ends (then Forget takes the states).  *)
Fail(b) ==
    /\ req[b] # Idle
    /\ End(b)
    /\ UNCHANGED <<tables, memory, ghosts>>

MagicLink(b) ==
    \/ \E e \in Emails : Ask(b, e)
    \/ \E l \in Links : CreateLink(b, l) \/ VerifyFind(b, l)
    \/ MarkUsed(b) \/ VerifyLookup(b) \/ SignUpOwner(b)
    \/ \E t \in Tenants : SignUpTenant(b, t)
    \/ \E u \in Users : SignUpUser(b, u)

OAuth(b) ==
    \/ OAuthStart(b) \/ Forget(b)
    \/ \E sent \in BOOLEAN : CallbackBegin(b, sent)
    \/ \E c \in Codes : CallbackFind(b, c)
    \/ CheckAccess(b) \/ AddToken(b) \/ AddMember(b) \/ LoginFind(b)
    \/ \E t \in Tenants : AddTenant(b, t)
    \/ \E u \in Users : LoginCreate(b, u)

SessionStep(b) ==
    \/ \E s \in Sessions : OpenSession(b, s)
    \/ Authenticate(b) \/ Refresh(b) \/ Logout(b)

Next ==
    \/ \E b \in Browsers : MagicLink(b) \/ OAuth(b) \/ SessionStep(b) \/ Fail(b)
    \/ \E l \in Links : LinkAges(l)
    \/ \E s \in Sessions : SessionAges(s)
    \/ \E t \in Tenants, c \in Codes : Connect(t, c)
    \/ Cleanup

Spec == Init /\ [][Next]_vars

-----------------------------------------------------------------------------
(* Properties.                                                             *)

(* Two users have the same e-mail only if two verifications looked for it  *)
(* before either had signed it up: no constraint spans tenants, and a      *)
(* sign-up that failed half-way must not lead to a second user.            *)
OneUserPerEmail ==
    \A u, v \in Rows(users) :
        u # v /\ users[u].email = users[v].email /\ users[u].email \in Emails
            => <<"signup", users[u].email>> \in overlapped

(* A link opens a second session only if two verifications found it valid  *)
(* at once, whatever failed in between.                                    *)
OneSessionPerLink == \A l \in reopened : <<"verify", l>> \in overlapped

(* More links than the hourly limit exist for an e-mail only if it was     *)
(* asked for twice at once.                                                *)
LimitHolds ==
    \A e \in Emails : Cardinality(Recent(e)) > LinkLimit => <<"ask", e>> \in overlapped

(* A Bsale account is added to one user's account only: whoever connects   *)
(* it, in whatever order two callbacks look for its tenant, create it and  *)
(* update it, and though a request that fails half-way leaves its tenant   *)
(* without the membership, no second user is told that it is theirs.       *)
AccountAddedToOne ==
    \A x, y \in told : tenants[x[2]].code = tenants[y[2]].code => x[1] = y[1]

(* A session that has a tenant is of a user made for it, although accounts *)
(* move from tenant to tenant and leave their admin@c behind.              *)
SessionsAllowed ==
    \A s \in Rows(sessions) :
        sessions[s].tenant # None => users[sessions[s].user].home = sessions[s].tenant
=============================================================================
