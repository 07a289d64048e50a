--------------------------------- MODULE Jwt ---------------------------------
(***************************************************************************)
(* src/src/jwt.rs: JwtPolicy::authenticate and the bindings, with the      *)
(* JWKS cache it takes its keys from and the map of jti it has seen, while *)
(* the identity provider rotates its keys and the policy is reloaded.      *)
(*                                                                         *)
(* The state mutex of the cache is held for one step at a time; the fetch  *)
(* mutex is held over a download that may last FetchTicks. Everything else *)
(* in a call takes less than a tick, but `now` is read once, at its start. *)
(* A request keeps the policy it found: a reload leaves it the old one.    *)
(***************************************************************************)
EXTENDS Naturals, FiniteSets

CONSTANTS
  Bearers,
  Tokens,        \* what clients present: records of [defect, alg, kid, key, exp, nbf, jti, sub]
  KeySets,       \* documents the provider may publish: functions from kid to key
  KeyKind,       \* algorithm every key is for; "weak" is an RSA key under RSA_MIN_BITS
  Algorithms,    \* allowlist
  Subjects,
  Ttl,           \* JWKS_TTL
  MinRefresh,    \* JWKS_MIN_REFRESH
  FetchTicks,    \* longest download
  Leeway,        \* DEFAULT_LEEWAY_SECS
  Word,          \* 2^64: exp + leeway is a u64 addition that wraps
  MaxJti,        \* MAX_JTI
  KeepOneIn,     \* the purge keeps every tenth entry
  MaxNow,        \* bound: the clock
  MaxReloads     \* bound: reloads

Keys == UNION {{doc[kid] : kid \in DOMAIN doc} : doc \in KeySets}
Kids == UNION {DOMAIN doc : doc \in KeySets}

ASSUME JwtAssumption ==
  /\ "none" \notin Bearers /\ "secret" \notin Keys
  /\ \A t \in Tokens : t.exp \in Nat /\ t.nbf \in Nat
  /\ {Ttl, MinRefresh, FetchTicks, MaxJti, KeepOneIn, Word} \subseteq Nat \ {0}
  /\ {Leeway, MaxNow, MaxReloads} \subseteq Nat
  /\ MaxNow + Leeway < Word
  /\ \A doc \in KeySets : IsFiniteSet(DOMAIN doc)

VARIABLES
  now,        \* unix_now
  published,  \* external: the document the provider serves
  policies,   \* every JwtInner loaded so far: its JwksState, fetch mutex and jti map
  bearer,     \* where each request is
  withdrawn,  \* history: since when a key is no longer in the document
  served,     \* history: since when a kid is in the document
  spent,      \* history: <<policy, token>> let through and not forgotten by a purge
  replayed    \* history: those let through once more

history == <<withdrawn, served, spent, replayed>>
jwtVars == <<now, published, policies, bearer, withdrawn, served, spent, replayed>>

Never == MaxNow + 1
Hmac == {"HS256", "HS384", "HS512"}
NoRequest == [at |-> "idle"]
At(r, where) == bearer[r].at = where
Cache(r) == policies[bearer[r].policy]
Current == Cardinality(DOMAIN policies)

Refuse(r) == bearer' = [bearer EXCEPT ![r] = NoRequest]
Goes(r, where) == bearer' = [bearer EXCEPT ![r].at = where]
Gets(r, kid, doc) ==
  bearer' = [bearer EXCEPT ![r] = IF kid \in DOMAIN doc
                              THEN [@ EXCEPT !.at = "verify", !.key = doc[kid], !.got = now]
                              ELSE NoRequest]

-----------------------------------------------------------------------------
\* JwtPolicy::load: a first download that succeeds, and an empty jti map
Loaded == [keys |-> published, fetchedAt |-> now, lastAttempt |-> now, holder |-> "none",
           jti |-> << >>, lastFailure |-> Never]
Reload ==
  /\ Current <= MaxReloads
  /\ DOMAIN published # {}
  /\ policies' = [g \in 1 .. Current + 1 |-> IF g > Current THEN Loaded ELSE policies[g]]
  /\ UNCHANGED <<now, published, bearer, history>>

\* bearer, split_token and the header checks, in front of any key
HeaderDefects == {"missing", "malformed", "crit", "typ", "kid"}
Authenticate(r, token) ==
  /\ At(r, "idle")
  /\ token.defect \notin HeaderDefects
  /\ token.alg \in Algorithms
  /\ bearer' = [bearer EXCEPT ![r] =
       [at |-> IF token.alg \in Hmac THEN "verify" ELSE "lookup", token |-> token, policy |-> Current,
        now |-> now, got |-> now, read |-> << >>, key |-> IF token.alg \in Hmac THEN "secret" ELSE "none"]]
  /\ UNCHANGED <<now, published, policies, history>>

\* mutant: the set is used for as long as it knows the kid
FreshKey_NoTtl(cache, kid) == kid \in DOMAIN cache.keys
\* fresh_key
FreshKey(cache, kid) == now - cache.fetchedAt < Ttl /\ kid \in DOMAIN cache.keys

\* mutant: only a kid of the set is downloaded anew, an unknown one is refused
Lookup_KnownKids(r) ==
  /\ At(r, "lookup")
  /\ LET kid == bearer[r].token.kid
     IN  IF FreshKey(Cache(r), kid) \/ kid \notin DOMAIN Cache(r).keys
         THEN Gets(r, kid, Cache(r).keys) ELSE Goes(r, "wait")
  /\ UNCHANGED <<now, published, policies, history>>

\* JwksCache::key, under the state mutex
Lookup(r) ==
  /\ At(r, "lookup")
  /\ LET kid == bearer[r].token.kid
         stale == now - Cache(r).fetchedAt >= Ttl
         recent == now - Cache(r).lastAttempt < MinRefresh
     IN  \/ /\ FreshKey(Cache(r), kid) \/ (~stale /\ recent)
            /\ Gets(r, kid, Cache(r).keys)
         \/ /\ ~FreshKey(Cache(r), kid) /\ (stale \/ ~recent)
            /\ Goes(r, "wait")
  /\ UNCHANGED <<now, published, policies, history>>

\* the fetch mutex, and a second look; `recent` is not looked at again
TakeFetch(r) ==
  /\ At(r, "wait")
  /\ Cache(r).holder = "none"
  /\ \/ /\ FreshKey(Cache(r), bearer[r].token.kid)
        /\ Gets(r, bearer[r].token.kid, Cache(r).keys)
        /\ UNCHANGED policies
     \/ /\ ~FreshKey(Cache(r), bearer[r].token.kid)
        /\ policies' = [policies EXCEPT ![bearer[r].policy].holder = r, ![bearer[r].policy].lastAttempt = now]
        /\ bearer' = [bearer EXCEPT ![r].at = "fetch", ![r].got = now]
  /\ UNCHANGED <<now, published, history>>

\* the provider answers with what it serves at that moment; parse_jwks drops what it cannot use
FetchRead(r) ==
  /\ At(r, "fetch")
  /\ bearer' = [bearer EXCEPT ![r].at = "store", ![r].read = published]
  /\ UNCHANGED <<now, published, policies, history>>

\* the answer replaces the set, unless nothing in it can be used
FetchStore(r) ==
  /\ At(r, "store")
  /\ LET doc == bearer[r].read
         kept == IF doc = << >> THEN Cache(r).keys ELSE doc
     IN  /\ policies' = [policies EXCEPT ![bearer[r].policy] =
              IF doc = << >> THEN [@ EXCEPT !.holder = "none", !.lastFailure = now]
              ELSE [@ EXCEPT !.holder = "none", !.keys = doc, !.fetchedAt = now]]
         /\ Gets(r, bearer[r].token.kid, kept)
  /\ UNCHANGED <<now, published, history>>

\* http_get fails: no connection, a timeout, a fourth redirect, a status, a body too
\* long or no JSON; the last known good set serves
FetchFail(r) ==
  /\ At(r, "fetch")
  /\ policies' = [policies EXCEPT ![bearer[r].policy] = [@ EXCEPT !.holder = "none", !.lastFailure = now]]
  /\ Gets(r, bearer[r].token.kid, Cache(r).keys)
  /\ UNCHANGED <<now, published, history>>

\* verify_signature with that key
SignatureHolds(r) ==
  /\ bearer[r].key = bearer[r].token.key
  /\ bearer[r].key # "secret" => KeyKind[bearer[r].key] = bearer[r].token.alg

\* validate_claims, against the `now` of the start of the call
ClaimDefects == {"iss", "aud", "iat", "jti", "sub"}
ClaimsHold(r) ==
  LET t == bearer[r].token
  IN  /\ t.defect \notin ClaimDefects
      /\ (t.exp + Leeway) % Word >= bearer[r].now
      /\ t.nbf <= bearer[r].now + Leeway

Verify(r) ==
  /\ At(r, "verify")
  /\ IF SignatureHolds(r) /\ ClaimsHold(r) THEN Goes(r, "purge") ELSE Refuse(r)
  /\ UNCHANGED <<now, published, policies, history>>

\* remember_jti, first part: over the cap the expired go, and then all but one in ten
Purge(r) ==
  /\ At(r, "purge")
  /\ LET seen == Cache(r).jti
         live == {j \in DOMAIN seen : seen[j] >= bearer[r].now}
         Keep(s) == /\ policies' = [policies EXCEPT ![bearer[r].policy].jti = [j \in s |-> seen[j]]]
                    /\ spent' = {u \in spent : u[1] = bearer[r].policy => u[2].jti \in s}
     IN  \/ Cardinality(DOMAIN seen) < MaxJti /\ UNCHANGED <<policies, spent>>
         \/ /\ Cardinality(DOMAIN seen) >= MaxJti /\ Cardinality(live) < MaxJti
            /\ Keep(live)
         \/ /\ Cardinality(live) >= MaxJti
            /\ \E s \in SUBSET live : Cardinality(s) = Cardinality(live) \div KeepOneIn /\ Keep(s)
  /\ Goes(r, "remember")
  /\ UNCHANGED <<now, published, withdrawn, served, replayed>>

\* mutant: an entry that runs out this second no longer counts
Seen_Early(r) ==
  /\ bearer[r].token.jti \in DOMAIN Cache(r).jti
  /\ Cache(r).jti[bearer[r].token.jti] > bearer[r].now
Seen(r) ==
  /\ bearer[r].token.jti \in DOMAIN Cache(r).jti
  /\ Cache(r).jti[bearer[r].token.jti] >= bearer[r].now

Sat(n) == IF n < Word THEN n ELSE Word - 1

\* second part, under the entry's lock
Remember(r) ==
  /\ At(r, "remember")
  /\ LET token == bearer[r].token
         use == <<bearer[r].policy, token>>
     IN  \/ Seen(r) /\ Refuse(r) /\ UNCHANGED <<policies, spent, replayed>>
         \/ /\ ~Seen(r)
            /\ policies' = [policies EXCEPT ![bearer[r].policy].jti =
                 [j \in DOMAIN @ \cup {token.jti} |-> IF j = token.jti THEN Sat(token.exp + Leeway) ELSE @[j]]]
            /\ replayed' = replayed \cup ({use} \cap spent)
            /\ spent' = spent \cup {use}
            /\ bearer' = [bearer EXCEPT ![r] = [at |-> "bind", token |-> token]]
  /\ UNCHANGED <<now, published, withdrawn, served>>

\* bind_path: jwt.sub == path.<param>; the token is spent whatever the answer
BindPath(r, param) ==
  /\ At(r, "bind")
  /\ IF param = bearer[r].token.sub THEN Goes(r, "body") ELSE Refuse(r)
  /\ UNCHANGED <<now, published, policies, history>>

\* bind_body: jwt.sub == body.<field>; a blank body is let through
BindBody(r, field) ==
  /\ At(r, "body")
  /\ IF field \in {bearer[r].token.sub, "blank"} THEN Goes(r, "forwarded") ELSE Refuse(r)
  /\ UNCHANGED <<now, published, policies, history>>

End(r) ==
  /\ At(r, "forwarded")
  /\ Refuse(r)
  /\ UNCHANGED <<now, published, policies, history>>

-----------------------------------------------------------------------------
Holds(doc, k) == \E kid \in DOMAIN doc : doc[kid] = k

\* external: the provider serves another document
Rotate(doc) ==
  /\ doc # published
  /\ published' = doc
  /\ withdrawn' = [k \in Keys |-> IF Holds(doc, k) THEN Never
                                 ELSE IF Holds(published, k) THEN now ELSE withdrawn[k]]
  /\ served' = [kid \in Kids |-> IF kid \notin DOMAIN doc THEN Never
                                 ELSE IF kid \in DOMAIN published THEN served[kid] ELSE now]
  /\ UNCHANGED <<now, policies, bearer, spent, replayed>>

\* the clock: only a download, and waiting for one, takes time
Tick ==
  /\ now < MaxNow
  /\ \A r \in Bearers :
       \/ bearer[r].at \in {"idle", "wait"}
       \/ bearer[r].at \in {"fetch", "store"} /\ now - bearer[r].got < FetchTicks
  /\ now' = now + 1
  /\ UNCHANGED <<published, policies, bearer, history>>

JwtInit ==
  /\ now = 0
  /\ published \in {doc \in KeySets : doc # << >>}
  /\ policies = [g \in {1} |-> Loaded]
  /\ bearer = [r \in Bearers |-> NoRequest]
  /\ withdrawn = [k \in Keys |-> IF Holds(published, k) THEN Never ELSE 0]
  /\ served = [kid \in Kids |-> IF kid \in DOMAIN published THEN 0 ELSE Never]
  /\ spent = {}
  /\ replayed = {}

JwtStep(r) ==
  \/ Lookup(r) \/ TakeFetch(r) \/ FetchRead(r) \/ FetchStore(r) \/ FetchFail(r)
  \/ Verify(r) \/ Purge(r) \/ Remember(r) \/ End(r)
  \/ \E said \in Subjects \cup {"absent"} : BindPath(r, said) \/ BindBody(r, said)
  \/ BindBody(r, "blank")
JwtNext ==
  \/ Tick \/ Reload
  \/ \E doc \in KeySets : Rotate(doc)
  \/ \E r \in Bearers : JwtStep(r) \/ \E token \in Tokens : Authenticate(r, token)
JwtSpec == JwtInit /\ [][JwtNext]_jwtVars

-----------------------------------------------------------------------------
\* A policy lets no token through twice, whoever races for its jti and however the
\* clock read at the start of the call has aged, unless a purge forgot the jti.
NoReplay == replayed = {}

\* A key taken out of the document stops being handed out once the set has aged and
\* been downloaded again; only a failed (or emptied) document since then keeps it alive.
WithdrawnKeyDies ==
  \A r \in Bearers : At(r, "verify") /\ bearer[r].key \in Keys =>
    \/ bearer[r].got < withdrawn[bearer[r].key] + Ttl + FetchTicks
    \/ LET failure == Cache(r).lastFailure
       IN  failure # Never /\ failure >= withdrawn[bearer[r].key]

\* a lookup that ends without a key has a reason
RefusesKid(r, kid) ==
  /\ bearer[r].at \in {"lookup", "fetch", "store"} /\ bearer'[r] = NoRequest
  /\ kid \in Kids /\ served[kid] # Never
KidAnswered(r) ==
  LET kid == bearer[r].token.kid
      failure == policies'[bearer[r].policy].lastFailure
  IN  RefusesKid(r, kid) =>
        \/ now - served[kid] < MinRefresh + FetchTicks
        \/ Cache(r).holder \notin {r, "none"}
        \/ failure # Never /\ failure >= served[kid]

\* A kid that is served long enough is not refused as unknown, except while a
\* download is under way or after one has failed since.
KnownKid == [][\A r \in Bearers : KidAnswered(r)]_jwtVars
=============================================================================
