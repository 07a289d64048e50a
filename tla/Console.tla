------------------------------- MODULE Console -------------------------------
(***************************************************************************)
(* The administration API: src/src/dashboard.rs, its sessions, CSRF, roles *)
(* and rate limit (dashboard_auth.rs), the OIDC sign-in                    *)
(* (dashboard_oidc.rs) and the audit log (dashboard_audit.rs).             *)
(*                                                                         *)
(* Sessions and pending sign-ins are sharded maps: a sweep, a look at the  *)
(* size and an insertion are separate steps. Reading a body, and the       *)
(* exchange with the provider, take time; the rest does not. Session ids,  *)
(* CSRF values, states, nonces and verifiers are fresh numbers, a session  *)
(* and its CSRF value the same one.                                        *)
(***************************************************************************)
EXTENDS Naturals, Sequences, FiniteSets

CONSTANTS
  Visits,        \* requests to the dashboard
  Peers,         \* client addresses
  Loopback,      \* those that are loopback
  HasToken,      \* DASHBOARD_TOKEN is set
  HasOidc,       \* DASHBOARD_OIDC_* are set
  CertRole,      \* client certificate names, "none" included, to a role; mTLS is on when
                 \* there are others
  Users,         \* external: people the provider can authenticate
  UserRole,      \* map_role of what the provider says of them: operator, viewer or none
  Bind, Production,   \* DASHBOARD_BIND is loopback, FERROADA_PRODUCTION
  SessionTtl,    \* DASHBOARD_SESSION_TTL_SECS
  PendingTtl,    \* OIDC_PENDING_TTL
  BodyTicks,     \* the two seconds of read_body
  ExchangeTicks, \* the token endpoint and the key set, two seconds each
  MaxSessions,   \* MAX_SESSIONS
  RateMax, RateWindow, RatePeers, \* ApiRate
  ApiSweepEvery, \* 256: checks between two sweeps of ApiRate
  MaxIds         \* bound: sessions and sign-ins

Strong == HasOidc \/ DOMAIN CertRole # {"none"}
\* Bearer alone is enough off-loopback only when OIDC and mTLS are unset
TokenFrom(peer) == peer \in Loopback \/ ~Strong

\* validate_exposure: what the process refuses to start with
ValidateExposure ==
  HasToken \/ (~Production /\ (Bind \/ Strong))

Roles == {"none", "viewer", "operator"}

ConsoleSettings ==
  /\ Loopback \subseteq Peers
  /\ CertRole["none"] = "none"
  /\ CertRole \in [DOMAIN CertRole -> Roles] /\ UserRole \in [Users -> Roles]
  /\ {SessionTtl, PendingTtl, BodyTicks, ExchangeTicks, MaxSessions, RateMax, RateWindow,
      RatePeers, ApiSweepEvery} \subseteq Nat \ {0}
  /\ MaxIds \in Nat
  /\ ValidateExposure
ASSUME ConsoleAssumption == ConsoleSettings

VARIABLES
  sessions,   \* AdminAuth::sessions: id to [role, age, attempt]
  pending,    \* AdminAuth::pending: state to its age
  issued,     \* ids and states handed out so far
  codes,      \* external: authorization codes the provider gave out, [attempt, user]
  apiHits,    \* ApiRate::hits: peer to the ages of its charges
  apiChecks,  \* ApiRate::checks, modulo ApiSweepEvery
  visit,      \* where each request is
  signins     \* history: sessions created for every attempt, as a sequence of users

consoleVars == <<sessions, pending, issued, codes, apiHits, apiChecks, visit, signins>>

NoVisit == [at |-> "idle"]
VisitAt(r, where) == visit[r].at = where
VisitGoes(r, where) == visit' = [visit EXCEPT ![r].at = where]
VisitDone(r) == visit' = [visit EXCEPT ![r] = NoVisit]
Anonymous == [role |-> "none", method |-> "none", csrf |-> 0, age |-> 0]
Without(f, gone) == [x \in DOMAIN f \ gone |-> f[x]]

-----------------------------------------------------------------------------
Recent(q) == SelectSeq(q, LAMBDA age : age < RateWindow)

\* ApiRate::allow: the sampled sweep, the cap on peers, the peer's window
ApiSwept ==
  LET kept == {p \in DOMAIN apiHits : Recent(apiHits[p]) # <<>>}
  IN  IF apiChecks = 0 THEN [p \in kept |-> Recent(apiHits[p])] ELSE apiHits
Charges(peer) == IF peer \in DOMAIN ApiSwept THEN Recent(ApiSwept[peer]) ELSE <<>>
Full(peer) == Cardinality(DOMAIN ApiSwept) >= RatePeers /\ peer \notin DOMAIN ApiSwept
Allow(peer) == ~Full(peer) /\ Len(Charges(peer)) < RateMax
ApiCharge(peer) ==
  /\ apiChecks' = (apiChecks + 1) % ApiSweepEvery
  /\ apiHits' =
       IF Full(peer) THEN ApiSwept
       ELSE [p \in DOMAIN ApiSwept \cup {peer} |->
               IF p # peer THEN ApiSwept[p]
               ELSE IF Len(Charges(peer)) < RateMax THEN Append(Charges(peer), 0)
               ELSE Charges(peer)]

\* mutant: a session counts on the tick it expires
LiveSession_Late(id) == id \in DOMAIN sessions /\ sessions[id].age <= SessionTtl
LiveSession(id) == id \in DOMAIN sessions /\ sessions[id].age < SessionTtl

\* AdminAuth::authenticate: the cookie, the certificate, the Bearer token; without
\* any of the three configured everyone may look
AdminAuthn(peer, cred) ==
  IF LiveSession(cred.cookie)
    THEN [role |-> sessions[cred.cookie].role, method |-> "session", csrf |-> cred.cookie,
          age |-> sessions[cred.cookie].age]
  ELSE IF CertRole[cred.cert] # "none"
    THEN [Anonymous EXCEPT !.role = CertRole[cred.cert], !.method = "mtls"]
  ELSE IF HasToken /\ cred.bearer /\ TokenFrom(peer)
    THEN [Anonymous EXCEPT !.role = "operator", !.method = "token"]
  ELSE IF ~HasToken /\ ~Strong
    THEN [Anonymous EXCEPT !.role = "viewer", !.method = "token"]
  ELSE Anonymous

\* session_from_cookie takes an expired session away
Forgets(cred) == IF LiveSession(cred.cookie) THEN {} ELSE {cred.cookie}
AdminCredentials == [cookie : 0 .. MaxIds, cert : DOMAIN CertRole, bearer : BOOLEAN]

\* a session about to be issued: who for, and in which sign-in
Issuing(r, role, attempt, user) ==
  visit' = [visit EXCEPT ![r] = [at |-> "sweep", role |-> role, attempt |-> attempt, user |-> user]]

-----------------------------------------------------------------------------
\* GET: metrics, index, readiness; a certificate without a session is given one
Get(r, peer, cred, api) ==
  /\ VisitAt(r, "idle")
  /\ IF api THEN ApiCharge(peer) ELSE UNCHANGED <<apiHits, apiChecks>>
  /\ IF api /\ ~Allow(peer)
       THEN UNCHANGED <<sessions, visit>>
       ELSE LET authn == AdminAuthn(peer, cred)
            IN  /\ sessions' = Without(sessions, Forgets(cred))
                /\ IF authn.method = "mtls" THEN Issuing(r, authn.role, 0, "cert")
                   ELSE UNCHANGED visit
  /\ UNCHANGED <<pending, issued, codes, signins>>

\* POST /api/login: the body is read, and the token in it compared
Login(r, peer, right) ==
  /\ VisitAt(r, "idle")
  /\ ApiCharge(peer)
  /\ IF Allow(peer) /\ HasToken /\ right /\ TokenFrom(peer)
       THEN Issuing(r, "operator", 0, "token") ELSE UNCHANGED visit
  /\ UNCHANGED <<sessions, pending, issued, codes, signins>>

\* AdminAuth::issue sweeps, looks at the size,
IssueSweep(r) ==
  /\ VisitAt(r, "sweep")
  /\ sessions' = Without(sessions, {id \in DOMAIN sessions : sessions[id].age >= SessionTtl})
  /\ VisitGoes(r, "size")
  /\ UNCHANGED <<pending, issued, codes, apiHits, apiChecks, signins>>

IssueSize(r) ==
  /\ VisitAt(r, "size")
  /\ IF Cardinality(DOMAIN sessions) >= MaxSessions THEN VisitDone(r) ELSE VisitGoes(r, "insert")
  /\ UNCHANGED <<sessions, pending, issued, codes, apiHits, apiChecks, signins>>

\* and inserts; the answer carries the cookie
IssueInsert(r) ==
  /\ VisitAt(r, "insert")
  /\ issued < MaxIds
  /\ issued' = issued + 1
  /\ sessions' = [id \in DOMAIN sessions \cup {issued'} |->
       IF id = issued' THEN [role |-> visit[r].role, age |-> 0] ELSE sessions[id]]
  /\ signins' = IF visit[r].attempt = 0 THEN signins
                ELSE [signins EXCEPT ![visit[r].attempt] = Append(@, visit[r].user)]
  /\ VisitDone(r)
  /\ UNCHANGED <<pending, codes, apiHits, apiChecks>>

-----------------------------------------------------------------------------
\* POST /api/reload: who asks is settled before the body, with the CSRF value, is read
ApiReload(r, peer, cred) ==
  /\ VisitAt(r, "idle")
  /\ ApiCharge(peer)
  /\ IF Allow(peer)
       THEN /\ sessions' = Without(sessions, Forgets(cred))
            /\ visit' = [visit EXCEPT ![r] =
                 [at |-> "body", authn |-> AdminAuthn(peer, cred), waited |-> 0]]
       ELSE UNCHANGED <<sessions, visit>>
  /\ UNCHANGED <<pending, issued, codes, signins>>

\* the body came, or did not; then role, CSRF and try_reload, one after the other
CsrfOk(authn, csrf) == (authn.method = "token" /\ HasToken) \/ (authn.csrf # 0 /\ csrf = authn.csrf)
ReloadBody(r, csrf) ==
  /\ VisitAt(r, "body")
  /\ LET authn == visit[r].authn
     IN  IF authn.role = "operator" /\ CsrfOk(authn, csrf) THEN VisitGoes(r, "apply")
         ELSE VisitDone(r)
  /\ UNCHANGED <<sessions, pending, issued, codes, apiHits, apiChecks, signins>>
ReloadTimeout(r) ==
  /\ VisitAt(r, "body")
  /\ VisitDone(r)
  /\ UNCHANGED <<sessions, pending, issued, codes, apiHits, apiChecks, signins>>

\* PolicyStore::try_reload takes the file or keeps the last known good one
TryReload(r, taken) ==
  /\ VisitAt(r, "apply")
  /\ VisitGoes(r, IF taken THEN "reloaded" ELSE "rejected")
  /\ UNCHANGED <<sessions, pending, issued, codes, apiHits, apiChecks, signins>>

\* AdminAudit::reload
Audit(r) ==
  /\ VisitAt(r, "reloaded") \/ VisitAt(r, "rejected")
  /\ VisitDone(r)
  /\ UNCHANGED <<sessions, pending, issued, codes, apiHits, apiChecks, signins>>

-----------------------------------------------------------------------------
LivePending == {s \in DOMAIN pending : pending[s] < PendingTtl}

\* GET /oidc/login: begin_oidc sweeps and looks at the size,
OidcLogin(r) ==
  /\ VisitAt(r, "idle") /\ HasOidc
  /\ pending' = [s \in LivePending |-> pending[s]]
  /\ visit' = IF Cardinality(LivePending) >= MaxSessions THEN visit
            ELSE [visit EXCEPT ![r] = [at |-> "begin"]]
  /\ UNCHANGED <<sessions, issued, codes, apiHits, apiChecks, signins>>

\* and remembers verifier and nonce under a new state
OidcBegin(r) ==
  /\ VisitAt(r, "begin")
  /\ issued < MaxIds
  /\ issued' = issued + 1
  /\ pending' = [s \in DOMAIN pending \cup {issued'} |-> IF s = issued' THEN 0 ELSE pending[s]]
  /\ VisitDone(r)
  /\ UNCHANGED <<sessions, codes, apiHits, apiChecks, signins>>

\* external: somebody signs in at the provider with the URL of an attempt
Authorize(attempt, user) ==
  /\ HasOidc /\ attempt \in 1 .. issued
  /\ codes' = codes \cup {[attempt |-> attempt, user |-> user]}
  /\ UNCHANGED <<sessions, pending, issued, apiHits, apiChecks, visit, signins>>

\* mutant: the pending sign-in is looked up and left where it is
TakePending_Leave(state) == pending' = [s \in LivePending |-> pending[s]]
TakePending(state) == pending' = [s \in LivePending \ {state} |-> pending[s]]

\* GET /oidc/callback: take_pending, then the exchange on a thread of its own
OidcCallback(r, state, code) ==
  /\ VisitAt(r, "idle") /\ HasOidc
  /\ TakePending(state)
  /\ visit' = IF state \in LivePending
              THEN [visit EXCEPT ![r] =
                      [at |-> "exchange", attempt |-> state, code |-> code, waited |-> 0]]
              ELSE visit
  /\ UNCHANGED <<sessions, issued, codes, apiHits, apiChecks, signins>>

NonceOk(r) == visit[r].code.attempt = visit[r].attempt

\* exchange: the provider answers with an ID token for the code; signature, issuer,
\* audience, times and nonce are verified and the role mapped
Exchange(r, answered) ==
  /\ VisitAt(r, "exchange")
  /\ LET user == visit[r].code.user
     IN  IF answered /\ NonceOk(r) /\ UserRole[user] # "none"
           THEN Issuing(r, UserRole[user], visit[r].attempt, user) ELSE VisitDone(r)
  /\ UNCHANGED <<sessions, pending, issued, codes, apiHits, apiChecks, signins>>

-----------------------------------------------------------------------------
Limit(r) == IF VisitAt(r, "body") THEN BodyTicks ELSE ExchangeTicks
Up(n, limit) == IF n < limit THEN n + 1 ELSE n
Awaits(r) == VisitAt(r, "body") \/ VisitAt(r, "exchange")

\* the clock
ConsoleTick ==
  /\ \A r \in Visits : VisitAt(r, "idle") \/ (Awaits(r) /\ visit[r].waited < Limit(r))
  /\ sessions' = [id \in DOMAIN sessions |-> [sessions[id] EXCEPT !.age = Up(@, SessionTtl)]]
  /\ pending' = [s \in DOMAIN pending |-> Up(pending[s], PendingTtl)]
  /\ apiHits' = [p \in DOMAIN apiHits |->
       [i \in DOMAIN apiHits[p] |-> Up(apiHits[p][i], RateWindow)]]
  /\ visit' = [r \in Visits |->
       IF VisitAt(r, "body") THEN [visit[r] EXCEPT !.waited = @ + 1, !.authn.age = @ + 1]
       ELSE IF VisitAt(r, "exchange") THEN [visit[r] EXCEPT !.waited = @ + 1]
       ELSE visit[r]]
  /\ UNCHANGED <<issued, codes, apiChecks, signins>>

ConsoleInit ==
  /\ sessions = << >>
  /\ pending = << >>
  /\ issued = 0
  /\ codes = {}
  /\ apiHits = << >>
  /\ apiChecks = 0
  /\ visit = [r \in Visits |-> NoVisit]
  /\ signins = [a \in 1 .. MaxIds |-> <<>>]

Handle(r) ==
  \/ \E peer \in Peers, cred \in AdminCredentials :
       ApiReload(r, peer, cred) \/ \E api \in BOOLEAN : Get(r, peer, cred, api)
  \/ \E peer \in Peers, right \in BOOLEAN : Login(r, peer, right)
  \/ OidcLogin(r)
  \/ \E state \in 1 .. MaxIds, code \in codes : OidcCallback(r, state, code)
VisitStep(r) ==
  \/ IssueSweep(r) \/ IssueSize(r) \/ IssueInsert(r)
  \/ ReloadTimeout(r) \/ \E csrf \in 0 .. MaxIds : ReloadBody(r, csrf)
  \/ \E taken \in BOOLEAN : TryReload(r, taken)
  \/ Audit(r) \/ OidcBegin(r)
  \/ \E answered \in BOOLEAN : Exchange(r, answered)
ConsoleNext ==
  \/ ConsoleTick
  \/ \E attempt \in 1 .. MaxIds, user \in Users : Authorize(attempt, user)
  \/ \E r \in Visits : Handle(r) \/ VisitStep(r)
ConsoleSpec == ConsoleInit /\ [][ConsoleNext]_consoleVars

-----------------------------------------------------------------------------
\* The session is looked up before the body is read and not again: it may have
\* expired when the reload is applied, and by no more than the time a body may take.
ReloadLateness ==
  \A r \in Visits : VisitAt(r, "apply") => visit[r].authn.age < SessionTtl + BodyTicks

\* One sign-in, one session: a state is taken once, however often and by whomever
\* its callback is sent, and the session goes to somebody who signed in with it.
OneSessionPerSignIn ==
  \A a \in DOMAIN signins :
    /\ Len(signins[a]) <= 1
    /\ \A i \in DOMAIN signins[a] : [attempt |-> a, user |-> signins[a][i]] \in codes
=============================================================================
