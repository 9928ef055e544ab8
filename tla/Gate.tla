-------------------------------- MODULE Gate --------------------------------
(***************************************************************************)
(* How a request gets to its handler, and what it does to the cookies of   *)
(* the browser that sent it: src/src/server.ts with its CSRF check         *)
(* (utils/csrf.ts), its limiters (RateLimiter), the session check of       *)
(* api/middleware/auth.ts, and the routes that set cookies.                *)
(*                                                                         *)
(* Bun first looks into a table of routes; only what it does not find      *)
(* there reaches fetch(), with the CSRF check and the limiters.            *)
(*                                                                         *)
(* Three things with a life of their own must stay in step: a session's    *)
(* row, the cookies that a browser drops by itself after Max-Age, and the  *)
(* CSRF token, which carries the time at which it was made.  Two more are  *)
(* those of a connection to Bsale: its state in the process's memory, and  *)
(* the cookie in which the state travels, as Bsale does not send it back.  *)
(*                                                                         *)
(* Answers arrive in the tick of their request.  What sign-in requires is  *)
(* in Accounts; here it just succeeds or not.                              *)
(***************************************************************************)
EXTENDS RateLimiter, Sequences

CONSTANTS
    Browsers,
    None,           \* no cookie
    Address,        \* getClientIdentifier: the address a browser comes from
    Lifetime,       \* SESSION_TTL, and the life of a CSRF token
    RefreshBelow,   \* SESSION_REFRESH_THRESHOLD
    StateTtl,       \* life of a connection's state and of its cookie
    MaxSessions, MaxFlows   \* bounds

ASSUME GateAssumption ==
    /\ Lifetime \in Nat \ {0}
    /\ RefreshBelow \in 0 .. Lifetime
    /\ StateTtl \in Nat
    /\ MaxSessions \in Nat /\ MaxFlows \in Nat
    /\ DOMAIN Address = Browsers
    /\ None \notin [session : Nat, until : Nat]
    /\ None \notin [made : Nat, until : Nat]
    /\ None \notin [flow : Nat, until : Nat]

(* The endpoints, by what the way to them depends on                       *)
Table    == {"login", "logout", "settings"}
ByFetch  == {"magic-link", "verify", "callback", "connect", "connected",
             "disconnect", "checkout", "status", "unknown"}
Changing == {"magic-link", "disconnect", "checkout", "unknown"}
Exempt   == {"magic-link"}

(* The first prefix that matches; None where none does                     *)
LimiterOf(e) ==
    CASE e \in {"magic-link", "verify", "callback"} -> "auth"
      [] e = "checkout" -> "billing"
      [] OTHER -> "none"

ASSUME KeysAssumption ==
    \A b \in Browsers, e \in ByFetch :
        LimiterOf(e) # "none" => <<LimiterOf(e), Address[b]>> \in Keys

VARIABLES
    rows,       \* sessions: a sequence of the times at which they expire
    session,    \* by browser, the cookie session_token: [session, until], or
                \* None when it has none or one that is in no row
    csrf,       \* by browser, the cookie csrf_token: [made, until] or None
    state,      \* by browser, the cookie bsale_oauth_state: [flow, until] or None
    flows,      \* connections begun at Bsale: a sequence of the times they were
    states,     \* the flows whose state is in the OAuth state store
    forgotten   \* observes: the flows whose state was lost with the process

gateVars == <<rows, session, csrf, state, flows, states, forgotten>>
vars == <<limiterVars, gateVars>>

SessionCookie == [session : 1 .. MaxSessions, until : Nat]
CsrfCookie    == [made : Nat, until : Nat]
StateCookie   == [flow : 1 .. MaxFlows, until : Nat]

TypeOK ==
    /\ RateLimiterTypeOK
    /\ rows \in Seq(Nat) /\ Len(rows) <= MaxSessions
    /\ session \in [Browsers -> SessionCookie \cup {None}]
    /\ csrf \in [Browsers -> CsrfCookie \cup {None}]
    /\ state \in [Browsers -> StateCookie \cup {None}]
    /\ flows \in Seq(Nat) /\ Len(flows) <= MaxFlows
    /\ states \in SUBSET (1 .. Len(flows))
    /\ forgotten \in SUBSET (1 .. Len(flows))

Init ==
    /\ RateLimiterInit
    /\ rows = <<>>
    /\ session = [b \in Browsers |-> None]
    /\ csrf = [b \in Browsers |-> None]
    /\ state = [b \in Browsers |-> None]
    /\ flows = <<>>
    /\ states = {}
    /\ forgotten = {}

-----------------------------------------------------------------------------
(* Cookies                                                                 *)

(* A browser sends no cookie past its Max-Age.                             *)
Sends(cookie) == cookie # None /\ now < cookie.until

(* validateCSRFToken, of a token this server made                          *)
TokenIsGood(made) == now - made <= Lifetime

(* validateRequest; the page copies the cookie into the header             *)
CsrfValid(b) == Sends(csrf[b]) /\ TokenIsGood(csrf[b].made)

(* findByToken                                                             *)
IsLive(s) == now < rows[s]

SignedIn(b) == Sends(session[b]) /\ IsLive(session[b].session)

-----------------------------------------------------------------------------
(* The OAuth state store                                                   *)

(* What its cleanup() leaves, which set() and consume() begin with         *)
Unexpired == {f \in states : now - flows[f] <= StateTtl}

(* consume() finds the state                                               *)
Consumes(f) == f \in Unexpired

-----------------------------------------------------------------------------
(* The way to a handler                                                    *)

PassesCsrf(b, e) == e \in Changing \ Exempt => CsrfValid(b)

KeyOf(b, e) == <<LimiterOf(e), Address[b]>>

(* 403, before any limiter counts                                          *)
Forbidden(b) ==
    /\ \E e \in ByFetch : ~PassesCsrf(b, e)
    /\ UNCHANGED vars

(* 429                                                                     *)
Throttled(b) ==
    /\ \E e \in ByFetch : /\ PassesCsrf(b, e)
                          /\ LimiterOf(e) # "none"
                          /\ Check(KeyOf(b, e), FALSE)
    /\ UNCHANGED gateVars

Reaches(b, e) ==
    IF e \in ByFetch
      THEN /\ PassesCsrf(b, e)
           /\ IF LimiterOf(e) = "none" THEN UNCHANGED limiterVars
                                       ELSE Check(KeyOf(b, e), TRUE)
      ELSE UNCHANGED limiterVars

-----------------------------------------------------------------------------
(* The session check                                                       *)

(* Variant: the answer carries createRefreshCookies, which give the same   *)
(* CSRF token a new Max-Age.                                               *)
RefreshedJar(b) ==
    /\ session' = [session EXCEPT ![b].until = now + Lifetime]
    /\ csrf' = [csrf EXCEPT ![b] = IF @ = None THEN None
                                   ELSE [@ EXCEPT !.until = now + Lifetime]]

(* No route passes the refresh on to the browser.                          *)
AnswerJar(b) == UNCHANGED <<session, csrf>>

(* authenticate(): past half its life a session is prolonged, in its row.  *)
Authenticate(b) ==
    LET s == session[b].session IN
    /\ SignedIn(b)
    /\ IF rows[s] - now < RefreshBelow
         THEN rows' = [rows EXCEPT ![s] = now + Lifetime] /\ AnswerJar(b)
         ELSE UNCHANGED <<rows, session, csrf>>

-----------------------------------------------------------------------------
(* Handlers                                                                *)

(* generateCSRFToken, in a cookie that lasts as long as the token is good  *)
FreshToken == [made |-> now, until |-> now + Lifetime]

(* A new row, and both cookies in one answer                               *)
Open(b) ==
    /\ Len(rows) < MaxSessions
    /\ rows' = Append(rows, now + Lifetime)
    /\ session' = [session EXCEPT ![b] = [session |-> Len(rows) + 1,
                                          until |-> now + Lifetime]]
    /\ csrf' = [csrf EXCEPT ![b] = FreshToken]

(* GET verify, with a link that is good                                    *)
Verify(b) ==
    /\ Reaches(b, "verify")
    /\ Open(b)
    /\ UNCHANGED <<state, flows, states, forgotten>>

(* GET callback of a login with Bsale, which consumes a state of its own.  *)
(* Whoever is signed in adds a tenant and gets an empty session token.     *)
Callback(b) ==
    /\ Reaches(b, "callback")
    /\ IF SignedIn(b)
         THEN /\ session' = [session EXCEPT ![b] = None]
              /\ csrf' = [csrf EXCEPT ![b] = FreshToken]
              /\ UNCHANGED rows
         ELSE Open(b)
    /\ states' = Unexpired
    /\ UNCHANGED <<state, flows, forgotten>>

(* POST login, the demo: a token that is in no row, without a CSRF token   *)
Login(b) ==
    /\ Reaches(b, "login")
    /\ session' = [session EXCEPT ![b] = None]
    /\ UNCHANGED <<rows, csrf, state, flows, states, forgotten>>

(* POST logout, as the table of routes answers it                          *)
Logout(b) ==
    /\ Reaches(b, "logout")
    /\ session' = [session EXCEPT ![b] = None]
    /\ UNCHANGED <<rows, csrf, state, flows, states, forgotten>>

(* Whatever needs a session, or uses one if there is one, and touches no   *)
(* cookie                                                                  *)
Use(b, e) ==
    /\ e \in {"settings", "checkout", "status", "disconnect"}
    /\ Reaches(b, e)
    /\ Authenticate(b)
    /\ UNCHANGED <<state, flows, states, forgotten>>

(* handleBsaleConnectStart: a state for the store                          *)
Begin ==
    /\ Len(flows) < MaxFlows
    /\ flows' = Append(flows, now)
    /\ states' = Unexpired \cup {Len(flows) + 1}

(* GET connect: the state goes into the cookie, too, in which it replaces  *)
(* that of an earlier attempt.                                             *)
Connect(b) ==
    /\ Reaches(b, "connect")
    /\ Authenticate(b)
    /\ Begin
    /\ state' = [state EXCEPT ![b] = [flow |-> Len(flows) + 1, until |-> now + StateTtl]]
    /\ UNCHANGED forgotten

(* Variant: the answer does not touch the cookie.                          *)
StateKept(b) == state[b]

(* clearStateCookie, in every answer of the callback                       *)
StateCleared(b) == None

(* GET connected: Bsale sends the browser back, with a code or with an     *)
(* error.  The state of its cookie is consumed if both came; TenantSync    *)
(* has what the tenant then gets.                                          *)
Connected(b, coded) ==
    /\ Reaches(b, "connected")
    /\ states' = IF coded /\ Sends(state[b]) THEN Unexpired \ {state[b].flow} ELSE states
    /\ state' = [state EXCEPT ![b] = StateCleared(b)]
    /\ UNCHANGED <<rows, session, csrf, flows, forgotten>>

(* A handler that only answers: an error, a redirect, a mail, 401, 404.    *)
(* That of a login that begins, or fails, has looked into the store.       *)
OnlyAnswers(b) ==
    /\ \E e \in ByFetch : Reaches(b, e)
    /\ states' \in {states, Unexpired}
    /\ UNCHANGED <<rows, session, csrf, state, flows, forgotten>>

-----------------------------------------------------------------------------
(* A limiter's cleanup interval                                            *)
Sweep ==
    /\ \E limiter \in {"auth", "billing"} : Cleanup({k \in Keys : k[1] = limiter})
    /\ UNCHANGED gateVars

(* Rows and cookies survive the process; limiters and states do not.       *)
Restart ==
    /\ LimiterRestart
    /\ states' = {}
    /\ forgotten' = forgotten \cup states
    /\ UNCHANGED <<rows, session, csrf, state, flows>>

Tick == LimiterTick /\ UNCHANGED gateVars

Next ==
    \/ \E b \in Browsers :
          \/ Forbidden(b)
          \/ Throttled(b)
          \/ Verify(b)
          \/ Callback(b)
          \/ Login(b)
          \/ Logout(b)
          \/ \E e \in Table \cup ByFetch : Use(b, e)
          \/ Connect(b)
          \/ \E coded \in BOOLEAN : Connected(b, coded)
          \/ OnlyAnswers(b)
    \/ Sweep
    \/ Restart
    \/ Tick

Spec == Init /\ [][Next]_vars

-----------------------------------------------------------------------------
(* Who is signed in can act: as long as a browser's session is accepted,   *)
(* it also has a CSRF token that is, whichever way it was signed in and    *)
(* however often the session was prolonged.                                *)
SignedInPassesCsrf ==
    \A b \in Browsers : SignedIn(b) => CsrfValid(b)

(* A browser that comes back from Bsale with its cookie is not refused for *)
(* its state: whatever other attempts and answers came in between, the     *)
(* cookie is gone before the store drops the state, and as soon as it is   *)
(* consumed.  Only a restart of the process breaks this.                   *)
ReturningIsHonoured ==
    \A b \in Browsers : Sends(state[b]) =>
        Consumes(state[b].flow) \/ state[b].flow \in forgotten
=============================================================================
