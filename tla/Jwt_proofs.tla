------------------------------ MODULE Jwt_proofs ------------------------------
(***************************************************************************)
(* Bearer tokens, for any tokens, key sets, requests, policies and limits. *)
(*                                                                         *)
(* NoReplay needs what the jti map still knows of every token let through, *)
(* WithdrawnKeyDies how old a set may be that holds a withdrawn key, and   *)
(* KnownKid how long ago a set was asked for that lacks a served kid.      *)
(* All three meet in the download: who runs one has the fetch mutex, began *)
(* at most FetchTicks ago, and has read what was served since.             *)
(***************************************************************************)
EXTENDS Jwt, FiniteSetTheorems, TLAPS

Jtis == {t.jti : t \in Tokens}
Books == UNION {[s -> Nat] : s \in SUBSET Jtis}
Times == 0 .. MaxNow
Downloading == {"fetch", "store"}
InCall == {"lookup", "wait", "verify", "purge", "remember"} \cup Downloading

Policy == [keys : KeySets, fetchedAt : Times, lastAttempt : Times,
           holder : Bearers \cup {"none"}, jti : Books, lastFailure : 0 .. Never]
Call == [at : InCall, token : Tokens, policy : 1 .. Current, now : Times, got : Times,
         read : KeySets \cup {<< >>}, key : Keys \cup {"secret", "none"}]
Admitted == [at : {"bind", "body", "forwarded"}, token : Tokens]

Types ==
  /\ now \in Times /\ published \in KeySets
  /\ Current \in Nat \ {0} /\ policies \in [1 .. Current -> Policy]
  /\ bearer \in [Bearers -> Call \cup Admitted \cup {NoRequest}]
  /\ withdrawn \in [Keys -> 0 .. Never] /\ served \in [Kids -> 0 .. Never]
  /\ spent \subseteq (1 .. Current) \X Tokens

\* The history variables date what the provider's document lacks or has.
Provider ==
  /\ \A k \in Keys : IF Holds(published, k) THEN withdrawn[k] = Never ELSE withdrawn[k] <= now
  /\ \A kid \in Kids : IF kid \in DOMAIN published THEN served[kid] <= now ELSE served[kid] = Never

FailedSince(p, t) == p.lastFailure # Never /\ p.lastFailure >= t

\* A set with a withdrawn key was downloaded no later than FetchTicks after; one
\* without a served kid was asked for before the kid was served, or an attempt failed.
CacheKept(p) ==
  /\ p.fetchedAt <= now /\ p.lastAttempt <= now
  /\ \A k \in Keys : Holds(p.keys, k) /\ withdrawn[k] # Never
                       => p.fetchedAt <= withdrawn[k] + FetchTicks
  /\ \A kid \in Kids : kid \notin DOMAIN p.keys /\ served[kid] # Never /\ p.holder = "none"
                         => p.lastAttempt <= served[kid] \/ FailedSince(p, served[kid])

\* Who downloads holds the fetch mutex, and is not late.
Downloads(r, c, p) ==
  c.at \in Downloading =>
    p.holder = r /\ p.lastAttempt = c.got /\ now <= c.got + FetchTicks /\ c.got <= now

\* What was read is not older than the download.
Reads(c) ==
  c.at = "store" =>
    /\ \A k \in Keys : Holds(c.read, k) /\ withdrawn[k] # Never => c.got <= withdrawn[k]
    /\ \A kid \in Kids : kid \notin DOMAIN c.read /\ served[kid] # Never => c.got <= served[kid]

\* WithdrawnKeyDies, for one request.
HasKey(c, p) ==
  c.at = "verify" /\ c.key \in Keys =>
    /\ c.got <= now
    /\ c.got < withdrawn[c.key] + Ttl + FetchTicks \/ FailedSince(p, withdrawn[c.key])

\* validate_claims has passed: the token will be remembered past this call's `now`.
Claimed(c) == c.at \in {"purge", "remember"} => Sat(c.token.exp + Leeway) >= c.now

CallKept(r, c, p) == Downloads(r, c, p) /\ Reads(c) /\ HasKey(c, p) /\ Claimed(c)

\* The jti map holds every token let through for as long as its claims would pass.
Remembered(u) ==
  LET book == policies[u[1]].jti
  IN  u[2].jti \in DOMAIN book /\ book[u[2].jti] >= Sat(u[2].exp + Leeway)

JwtInv ==
  /\ Types
  /\ Provider
  /\ \A g \in 1 .. Current : CacheKept(policies[g])
  /\ \A r \in Bearers : bearer[r].at \in InCall =>
       CallKept(r, bearer[r], policies[bearer[r].policy])
  /\ \A u \in spent : Remembered(u)
  /\ NoReplay


-----------------------------------------------------------------------------
(* What the model is built from *)

\* What exp + leeway wraps to is never above what it saturates to.
LEMMA SatCovers ==
  ASSUME NEW n \in Nat
  PROVE  Sat(n) \in Nat /\ n % Word <= Sat(n)
<1>1. Word \in Nat \ {0}
  BY JwtAssumption
<1>2. n % Word \in Nat /\ n % Word < Word
  BY <1>1
<1>3. n < Word => n % Word = n
  BY <1>1
<1> QED
  BY <1>1, <1>2, <1>3 DEF Sat

\* The limits are numbers.
LEMMA Limits ==
  /\ Ttl \in Nat \ {0} /\ MinRefresh \in Nat \ {0} /\ FetchTicks \in Nat \ {0}
  /\ Leeway \in Nat /\ MaxNow \in Nat /\ Never = MaxNow + 1 /\ Never \in Nat
BY JwtAssumption DEF Never

\* A book of jti with an entry added, or with some taken out, is a book.
LEMMA BookTypes ==
  ASSUME NEW book \in Books
  PROVE  /\ DOMAIN book \subseteq Jtis /\ \A j \in DOMAIN book : book[j] \in Nat
         /\ \A s \in SUBSET DOMAIN book : [j \in s |-> book[j]] \in Books
         /\ \A i \in Jtis, n \in Nat :
              [j \in DOMAIN book \cup {i} |-> IF j = i THEN n ELSE book[j]] \in Books
<1>1. PICK d \in SUBSET Jtis : book \in [d -> Nat]
  BY DEF Books
<1>2. DOMAIN book = d /\ \A j \in d : book[j] \in Nat
  BY <1>1
<1>3. ASSUME NEW s \in SUBSET d PROVE [j \in s |-> book[j]] \in Books
  <2>1. [j \in s |-> book[j]] \in [s -> Nat] /\ s \in SUBSET Jtis
    BY <1>2
  <2> QED
    BY <2>1 DEF Books
<1>4. ASSUME NEW i \in Jtis, NEW n \in Nat
      PROVE  [j \in d \cup {i} |-> IF j = i THEN n ELSE book[j]] \in Books
  <2>1. /\ [j \in d \cup {i} |-> IF j = i THEN n ELSE book[j]] \in [d \cup {i} -> Nat]
        /\ d \cup {i} \in SUBSET Jtis
    BY <1>2
  <2> QED
    BY <2>1 DEF Books
<1> QED
  BY <1>2, <1>3, <1>4

\* The empty book.
LEMMA NoBook == << >> \in Books
<1>1. << >> \in [{} -> Nat]
  OBVIOUS
<1> QED
  BY <1>1 DEF Books

\* A key that a document holds is one of the keys, and a kid of it one of the kids.
LEMMA KeyTypes ==
  ASSUME NEW doc \in KeySets, NEW kid \in DOMAIN doc
  PROVE  doc[kid] \in Keys /\ kid \in Kids /\ Holds(doc, doc[kid])
BY DEF Keys, Kids, Holds

-----------------------------------------------------------------------------
(* A step of one request, on the policy it has. *)

States == Call \cup Admitted \cup {NoRequest}

\* The fields of a request that is under way, and of one that is not.
LEMMA StateFacts ==
  ASSUME NEW c \in States
  PROVE  /\ c.at \in InCall => c \in Call
         /\ c.at \notin InCall => c \in Admitted \cup {NoRequest}
<1>1. \A x \in Call : x.at \in InCall
  BY DEF Call
<1>2. \A x \in Admitted : x.at \notin InCall
  BY DEF Admitted, InCall, Downloading
<1>3. NoRequest.at \notin InCall
  BY DEF NoRequest, InCall, Downloading
<1> QED
  BY <1>1, <1>2, <1>3 DEF States

\* What other requests on the policy rely on: its fetch mutex is not taken from a
\* download, and a failure is only ever replaced by a later one.
Fair(r, old, new) ==
  /\ \/ new.holder = old.holder /\ new.lastAttempt = old.lastAttempt
     \/ old.holder \in {r, "none"}
  /\ new.lastFailure \in {old.lastFailure, now}

\* A request moves to c and makes its policy p.
LEMMA Moves ==
  ASSUME JwtInv, NEW r \in Bearers, NEW c \in States, NEW g \in 1 .. Current, NEW p \in Policy,
         bearer' = [bearer EXCEPT ![r] = c], policies' = [policies EXCEPT ![g] = p],
         UNCHANGED <<now, published, withdrawn, served>>,
         CacheKept(p), Fair(r, policies[g], p),
         c.at \in InCall => c.policy = g /\ CallKept(r, c, p),
         spent' \subseteq (1 .. Current) \X Tokens, (\A u \in spent : Remembered(u))', NoReplay'
  PROVE  JwtInv'
<1> USE DEF JwtInv
<1>1. /\ DOMAIN policies' = DOMAIN policies /\ policies' \in [1 .. Current -> Policy]
      /\ policies'[g] = p /\ \A h \in (1 .. Current) \ {g} : policies'[h] = policies[h]
  BY DEF Types
<1>2. Current' = Current
  BY <1>1 DEF Current
<1>3. Policy' = Policy /\ Call' = Call
  BY <1>2 DEF Policy, Call
<1>4. Types'
  BY <1>1, <1>2, <1>3 DEF Types, States
<1>5. Provider'
  BY DEF Provider, Holds
<1>6. ASSUME NEW h \in 1 .. Current PROVE CacheKept(policies[h])'
  <2>1. CacheKept(policies'[h])
    BY <1>1
  <2> QED
    BY <2>1 DEF CacheKept, FailedSince, Holds
<1>7. ASSUME NEW q \in Bearers, bearer'[q].at \in InCall
      PROVE  CallKept(q, bearer'[q], policies'[bearer'[q].policy])
  <2>1. CASE q = r
    BY <2>1, <1>1, <1>7 DEF Types
  <2>2. CASE q # r /\ bearer[q].policy # g
    <3>1. bearer'[q] = bearer[q] /\ bearer[q] \in States
      BY <2>2 DEF Types, States
    <3>2. bearer[q].policy \in 1 .. Current
      BY <1>7, <3>1, StateFacts DEF Call
    <3> QED
      BY <1>1, <1>7, <2>2, <3>1, <3>2
  <2>3. CASE q # r /\ bearer[q].policy = g
    <3> DEFINE d == bearer[q]
               old == policies[g]
    <3>1. bearer'[q] = d /\ d \in States
      BY <2>3 DEF Types, States
    <3>2. CallKept(q, d, old) /\ d \in Call /\ old \in Policy
      BY <1>7, <2>3, <3>1, StateFacts DEF Types
    <3>3. Downloads(q, d, p)
      BY <2>3, <3>2, JwtAssumption DEF CallKept, Downloads, Fair
    <3>4. HasKey(d, p)
      <4> SUFFICES ASSUME d.at = "verify", d.key \in Keys,
                          ~(d.got < withdrawn[d.key] + Ttl + FetchTicks)
                   PROVE  FailedSince(p, withdrawn[d.key])
        BY <3>2 DEF CallKept, HasKey
      <4>1. FailedSince(old, withdrawn[d.key]) /\ d.got <= now
        BY <3>2 DEF CallKept, HasKey
      <4>2. now \in Times /\ withdrawn[d.key] \in Nat /\ d.got \in Times
        BY <3>2, Limits DEF Types, Call, Times
      <4>3. now # Never /\ now >= withdrawn[d.key]
        BY <4>1, <4>2, Limits DEF Times
      <4> QED
        BY <4>1, <4>3 DEF Fair, FailedSince
    <3>5. Reads(d) /\ Claimed(d)
      BY <3>2 DEF CallKept
    <3> HIDE DEF d, old
    <3>6. CallKept(q, d, p)
      BY <3>3, <3>4, <3>5 DEF CallKept
    <3> QED
      BY <1>1, <2>3, <3>1, <3>6 DEF d
  <2> QED
    BY <2>1, <2>2, <2>3
<1>8. ASSUME NEW q \in Bearers, bearer'[q].at \in InCall
      PROVE  CallKept(q, bearer[q], policies[bearer[q].policy])'
  BY <1>7, <1>8 DEF CallKept, Downloads, Reads, HasKey, Claimed, FailedSince, Holds, Sat
<1> QED
  BY <1>2, <1>4, <1>5, <1>6, <1>8

\* A request moves to c and leaves its policy as it is.
LEMMA Stays ==
  ASSUME JwtInv, NEW r \in Bearers, NEW c \in States,
         bearer' = [bearer EXCEPT ![r] = c],
         UNCHANGED <<now, published, policies, history>>,
         c.at \in InCall => c \in Call /\ CallKept(r, c, policies[c.policy])
  PROVE  JwtInv'
<1> USE DEF JwtInv
<1>1. PICK g \in 1 .. Current : c.at \in InCall => c.policy = g
  BY DEF Call, Types
<1>2. policies' = [policies EXCEPT ![g] = policies[g]] /\ policies[g] \in Policy
  BY DEF Types
<1>3. CacheKept(policies[g])
  OBVIOUS
<1>4. Fair(r, policies[g], policies[g])
  BY DEF Fair
<1>5. UNCHANGED <<now, published, withdrawn, served, spent, replayed>>
  BY DEF history
<1>6. spent' \subseteq (1 .. Current) \X Tokens
  BY <1>5 DEF Types
<1>7. (\A u \in spent : Remembered(u))' /\ NoReplay'
  BY <1>5 DEF Remembered, Sat, NoReplay
<1> QED
  BY <1>1, <1>2, <1>3, <1>4, <1>5, <1>6, <1>7, Moves

\* A request that is refused.
LEMMA RefuseInv ==
  ASSUME JwtInv, NEW r \in Bearers, Refuse(r), UNCHANGED <<now, published, policies, history>>
  PROVE  JwtInv'
<1>1. NoRequest \in States /\ NoRequest.at \notin InCall
  BY DEF States, NoRequest, InCall, Downloading
<1> QED
  BY <1>1, Stays DEF Refuse

-----------------------------------------------------------------------------
(* The JWKS cache *)

\* A request under way, and the policy it has.
LEMMA CallFacts ==
  ASSUME JwtInv, NEW r \in Bearers, bearer[r].at \in InCall
  PROVE  /\ bearer[r] \in Call /\ bearer[r].policy \in 1 .. Current
         /\ Cache(r) = policies[bearer[r].policy] /\ Cache(r) \in Policy
         /\ CacheKept(Cache(r)) /\ CallKept(r, bearer[r], Cache(r))
<1>1. bearer[r] \in Call
  BY StateFacts DEF JwtInv, Types, States
<1>2. bearer[r].policy \in 1 .. Current
  BY <1>1 DEF Call
<1> QED
  BY <1>1, <1>2 DEF JwtInv, Types, Cache

\* What a step of a request may read of the clock and of the provider.
LEMMA Clock ==
  ASSUME JwtInv
  PROVE  /\ now \in Nat /\ now < Never /\ now \in Times
         /\ \A k \in Keys : withdrawn[k] \in Nat /\ (withdrawn[k] = Never \/ withdrawn[k] <= now)
         /\ \A kid \in Kids : served[kid] \in Nat /\ (served[kid] = Never \/ served[kid] <= now)
BY Limits DEF JwtInv, Types, Provider, Times

\* A set within its TTL has no key that was withdrawn too long ago.
LEMMA FreshSet ==
  ASSUME JwtInv, NEW p \in Policy, CacheKept(p), now - p.fetchedAt < Ttl,
         NEW k \in Keys, Holds(p.keys, k)
  PROVE  now < withdrawn[k] + Ttl + FetchTicks
<1>1. p.fetchedAt \in Nat
  BY Limits DEF Policy, Times
<1> QED
  BY <1>1, Clock, Limits DEF CacheKept

\* A step that leaves the jti map of its policy alone.
LEMMA BooksKept ==
  ASSUME JwtInv, NEW g \in 1 .. Current, NEW p \in Policy, p.jti = policies[g].jti,
         policies' = [policies EXCEPT ![g] = p], UNCHANGED history
  PROVE  /\ UNCHANGED <<withdrawn, served>> /\ NoReplay'
         /\ spent' \subseteq (1 .. Current) \X Tokens /\ (\A u \in spent : Remembered(u))'
<1>1. UNCHANGED <<withdrawn, served, spent, replayed>>
  BY DEF history
<1>2. spent' \subseteq (1 .. Current) \X Tokens /\ NoReplay'
  BY <1>1 DEF JwtInv, Types, NoReplay
<1>3. \A h \in 1 .. Current : policies'[h].jti = policies[h].jti
  BY DEF JwtInv, Types
<1>4. ASSUME NEW u \in spent PROVE Remembered(u)'
  <2>1. u[1] \in 1 .. Current /\ Remembered(u)
    BY DEF JwtInv, Types
  <2> QED
    BY <1>3, <2>1 DEF Remembered, Sat
<1> QED
  BY <1>1, <1>2, <1>4

\* A lookup that ends with a key of doc, or without.
LEMMA GetsInv ==
  ASSUME JwtInv, NEW r \in Bearers, bearer[r].at \in InCall,
         NEW g \in 1 .. Current, bearer[r].policy = g, NEW p \in Policy,
         NEW doc \in KeySets, NEW kid, Gets(r, kid, doc),
         policies' = [policies EXCEPT ![g] = p], UNCHANGED <<now, published, history>>,
         CacheKept(p), Fair(r, policies[g], p), p.jti = policies[g].jti,
         \A k \in Keys : Holds(doc, k) =>
           now < withdrawn[k] + Ttl + FetchTicks \/ FailedSince(p, withdrawn[k])
  PROVE  JwtInv'
<1>1. /\ UNCHANGED <<withdrawn, served>> /\ NoReplay'
      /\ spent' \subseteq (1 .. Current) \X Tokens /\ (\A u \in spent : Remembered(u))'
  BY BooksKept
<1>2. CASE kid \in DOMAIN doc
  <2> DEFINE c == [bearer[r] EXCEPT !.at = "verify", !.key = doc[kid], !.got = now]
  <2>1. bearer' = [bearer EXCEPT ![r] = c]
    BY <1>2 DEF Gets
  <2>2. doc[kid] \in Keys /\ Holds(doc, doc[kid])
    BY <1>2, KeyTypes
  <2>3. bearer[r] \in Call /\ now \in Times
    BY CallFacts, Clock
  <2>4. /\ c \in Call /\ c.at = "verify" /\ c.key = doc[kid] /\ c.got = now
        /\ c.policy = bearer[r].policy
    BY <2>2, <2>3 DEF Call, InCall
  <2> HIDE DEF c
  <2>5. CallKept(r, c, p)
    BY <2>2, <2>4, Clock DEF CallKept, Downloads, Downloading, Reads, HasKey, Claimed
  <2> QED
    BY <1>1, <2>1, <2>4, <2>5, Moves DEF States
<1>3. CASE kid \notin DOMAIN doc
  <2>1. bearer' = [bearer EXCEPT ![r] = NoRequest]
    BY <1>3 DEF Gets
  <2>2. NoRequest \in States /\ NoRequest.at \notin InCall
    BY DEF States, NoRequest, InCall, Downloading
  <2> QED
    BY <1>1, <2>1, <2>2, Moves
<1> QED
  BY <1>2, <1>3

\* A lookup in a set that is within its TTL.
LEMMA GetsFresh ==
  ASSUME JwtInv, NEW r \in Bearers, bearer[r].at \in InCall, NEW kid,
         Gets(r, kid, Cache(r).keys), now - Cache(r).fetchedAt < Ttl,
         UNCHANGED <<now, published, policies, history>>
  PROVE  JwtInv'
<1> DEFINE g == bearer[r].policy
           p == Cache(r)
<1>1. g \in 1 .. Current /\ p = policies[g] /\ p \in Policy /\ CacheKept(p)
  BY CallFacts
<1>2. policies' = [policies EXCEPT ![g] = p]
  BY <1>1 DEF JwtInv, Types
<1>3. Fair(r, policies[g], p) /\ p.keys \in KeySets
  BY <1>1 DEF Fair, Policy
<1>4. \A k \in Keys : Holds(p.keys, k) => now < withdrawn[k] + Ttl + FetchTicks
  BY <1>1, FreshSet
<1> HIDE DEF p
<1> QED
  BY <1>1, <1>2, <1>3, <1>4, GetsInv DEF p

\* JwksCache::key, first look.
LEMMA LookupInv == ASSUME JwtInv, NEW r \in Bearers, Lookup(r) PROVE JwtInv'
<1>1. bearer[r].at = "lookup" /\ bearer[r].at \in InCall
  BY DEF Lookup, At, InCall
<1>2. bearer[r] \in Call /\ Cache(r) \in Policy
  BY <1>1, CallFacts
<1>3. CASE Goes(r, "wait")
  <2> DEFINE c == [bearer[r] EXCEPT !.at = "wait"]
  <2>1. bearer' = [bearer EXCEPT ![r] = c]
    BY <1>3 DEF Goes
  <2>2. c \in Call /\ c.at = "wait"
    BY <1>2 DEF Call, InCall
  <2> HIDE DEF c
  <2>3. CallKept(r, c, policies[c.policy])
    BY <2>2 DEF CallKept, Downloads, Downloading, Reads, HasKey, Claimed
  <2> QED
    BY <2>1, <2>2, <2>3, Stays DEF States, Lookup
<1>4. CASE ~Goes(r, "wait")
  <2>1. /\ Gets(r, bearer[r].token.kid, Cache(r).keys)
        /\ FreshKey(Cache(r), bearer[r].token.kid) \/ ~(now - Cache(r).fetchedAt >= Ttl)
    BY <1>4 DEF Lookup
  <2>2. Cache(r).fetchedAt \in Nat
    BY <1>2 DEF Policy, Times
  <2>3. now - Cache(r).fetchedAt < Ttl
    BY <2>1, <2>2, Clock, Limits DEF FreshKey
  <2> QED
    BY <1>1, <2>1, <2>3, GetsFresh DEF Lookup
<1> QED
  BY <1>3, <1>4

\* The fetch mutex, and the second look.
LEMMA TakeFetchInv == ASSUME JwtInv, NEW r \in Bearers, TakeFetch(r) PROVE JwtInv'
<1> DEFINE g == bearer[r].policy
           kid == bearer[r].token.kid
<1>1. bearer[r].at = "wait" /\ bearer[r].at \in InCall /\ Cache(r).holder = "none"
  BY DEF TakeFetch, At, InCall
<1>2. /\ bearer[r] \in Call /\ g \in 1 .. Current /\ Cache(r) = policies[g] /\ Cache(r) \in Policy
      /\ CacheKept(Cache(r))
  BY <1>1, CallFacts
<1>3. CASE FreshKey(Cache(r), kid)
  <2>1. Gets(r, kid, Cache(r).keys) /\ UNCHANGED <<now, published, policies, history>>
    BY <1>3 DEF TakeFetch
  <2> QED
    BY <1>1, <1>3, <2>1, GetsFresh DEF FreshKey
<1>4. CASE ~FreshKey(Cache(r), kid)
  <2> DEFINE p == [policies[g] EXCEPT !.holder = r, !.lastAttempt = now]
             c == [bearer[r] EXCEPT !.at = "fetch", !.got = now]
  <2>1. /\ policies' = [policies EXCEPT ![g].holder = r, ![g].lastAttempt = now]
        /\ bearer' = [bearer EXCEPT ![r].at = "fetch", ![r].got = now]
        /\ UNCHANGED <<now, published, history>>
    BY <1>4 DEF TakeFetch
  <2>2. policies' = [policies EXCEPT ![g] = p]
    BY <1>2, <2>1 DEF JwtInv, Types
  <2>3. bearer' = [bearer EXCEPT ![r] = c]
    BY <2>1 DEF JwtInv, Types
  <2>4. now \in Times /\ now \in Nat
    BY Clock
  <2>5. /\ p \in Policy /\ p.holder = r /\ p.lastAttempt = now /\ p.keys = policies[g].keys
        /\ p.fetchedAt = policies[g].fetchedAt /\ p.lastFailure = policies[g].lastFailure
        /\ p.jti = policies[g].jti
    BY <1>2, <2>4 DEF Policy
  <2>6. c \in Call /\ c.at = "fetch" /\ c.got = now /\ c.policy = g
    BY <1>2, <2>4 DEF Call, InCall, Downloading
  <2> HIDE DEF p, c
  <2>7. CacheKept(p)
    BY <1>2, <2>4, <2>5, JwtAssumption DEF CacheKept
  <2>8. Fair(r, policies[g], p)
    BY <1>1, <1>2, <2>5 DEF Fair
  <2>9. CallKept(r, c, p)
    BY <2>4, <2>5, <2>6, Limits DEF CallKept, Downloads, Downloading, Reads, HasKey, Claimed
  <2>10. /\ UNCHANGED <<withdrawn, served>> /\ NoReplay'
         /\ spent' \subseteq (1 .. Current) \X Tokens /\ (\A u \in spent : Remembered(u))'
    BY <1>2, <2>1, <2>2, <2>5, BooksKept
  <2> QED
    BY <1>2, <2>1, <2>2, <2>3, <2>5, <2>6, <2>7, <2>8, <2>9, <2>10, Moves DEF States
<1> QED
  BY <1>3, <1>4

\* The answer of the provider: what it serves at that moment.
LEMMA FetchReadInv == ASSUME JwtInv, NEW r \in Bearers, FetchRead(r) PROVE JwtInv'
<1> DEFINE c == [bearer[r] EXCEPT !.at = "store", !.read = published]
<1>1. bearer[r].at = "fetch" /\ bearer[r].at \in InCall
  BY DEF FetchRead, At, InCall, Downloading
<1>2. /\ bearer[r] \in Call /\ Cache(r) = policies[bearer[r].policy]
      /\ CallKept(r, bearer[r], Cache(r))
  BY <1>1, CallFacts
<1>3. bearer' = [bearer EXCEPT ![r] = c]
  BY DEF FetchRead, JwtInv, Types
<1>4. published \in KeySets
  BY DEF JwtInv, Types
<1>5. /\ c \in Call /\ c.at = "store" /\ c.read = published /\ c.policy = bearer[r].policy
      /\ c.got = bearer[r].got
  BY <1>2, <1>4 DEF Call, InCall, Downloading
<1> HIDE DEF c
<1>6. Downloads(r, c, Cache(r))
  BY <1>1, <1>2, <1>5 DEF CallKept, Downloads, Downloading
<1>7. Reads(c)
  BY <1>5 DEF Reads, JwtInv, Provider
<1>8. CallKept(r, c, policies[c.policy])
  BY <1>2, <1>5, <1>6, <1>7 DEF CallKept, HasKey, Claimed
<1> QED
  BY <1>3, <1>5, <1>8, Stays DEF FetchRead, States

\* What a policy is after a download that failed, and what a lookup may take from it.
LEMMA FailedDownload ==
  ASSUME JwtInv, NEW p \in Policy, NEW old \in Policy, CacheKept(old),
         p.keys = old.keys, p.fetchedAt = old.fetchedAt, p.lastAttempt = old.lastAttempt,
         p.lastFailure = now
  PROVE  /\ CacheKept(p)
         /\ \A k \in Keys : now < withdrawn[k] + Ttl + FetchTicks \/ FailedSince(p, withdrawn[k])
<1>1. ASSUME NEW kid \in Kids, served[kid] # Never PROVE FailedSince(p, served[kid])
  BY <1>1, Clock DEF FailedSince
<1>2. ASSUME NEW k \in Keys, withdrawn[k] # Never PROVE FailedSince(p, withdrawn[k])
  BY <1>2, Clock DEF FailedSince
<1>3. ASSUME NEW k \in Keys, withdrawn[k] = Never PROVE now < withdrawn[k] + Ttl + FetchTicks
  BY <1>3, Clock, Limits
<1>4. CacheKept(p)
  BY <1>1 DEF CacheKept
<1> QED
  BY <1>2, <1>3, <1>4

\* The last known good set after a failure, or after an answer nobody can use.
LEMMA FetchFailed ==
  ASSUME JwtInv, NEW r \in Bearers, bearer[r].at \in Downloading,
         policies' = [policies EXCEPT ![bearer[r].policy] =
                        [policies[bearer[r].policy] EXCEPT !.holder = "none", !.lastFailure = now]],
         Gets(r, bearer[r].token.kid, Cache(r).keys), UNCHANGED <<now, published, history>>
  PROVE  JwtInv'
<1> DEFINE g == bearer[r].policy
           p == [policies[g] EXCEPT !.holder = "none", !.lastFailure = now]
<1>1. bearer[r].at \in InCall
  BY DEF InCall
<1>2. /\ g \in 1 .. Current /\ Cache(r) = policies[g] /\ Cache(r) \in Policy /\ CacheKept(Cache(r))
      /\ CallKept(r, bearer[r], Cache(r))
  BY <1>1, CallFacts
<1>3. now \in 0 .. Never
  BY Clock, Limits
<1>4. /\ p \in Policy /\ p.keys = policies[g].keys /\ p.fetchedAt = policies[g].fetchedAt
      /\ p.lastAttempt = policies[g].lastAttempt /\ p.lastFailure = now
      /\ p.jti = policies[g].jti /\ p.holder = "none"
  BY <1>2, <1>3 DEF Policy
<1> HIDE DEF p
<1>5. /\ CacheKept(p)
      /\ \A k \in Keys : now < withdrawn[k] + Ttl + FetchTicks \/ FailedSince(p, withdrawn[k])
  BY <1>2, <1>4, FailedDownload
<1>6. Fair(r, policies[g], p)
  BY <1>2, <1>4 DEF Fair, CallKept, Downloads
<1>7. Cache(r).keys \in KeySets
  BY <1>2 DEF Policy
<1> QED
  BY <1>1, <1>2, <1>4, <1>5, <1>6, <1>7, GetsInv DEF p

\* http_get fails.
LEMMA FetchFailInv == ASSUME JwtInv, NEW r \in Bearers, FetchFail(r) PROVE JwtInv'
<1>1. bearer[r].at \in Downloading /\ bearer[r].policy \in DOMAIN policies
  BY CallFacts DEF FetchFail, At, Downloading, InCall, JwtInv, Types
<1> QED
  BY <1>1, FetchFailed DEF FetchFail

\* The answer is stored, unless it is empty.
LEMMA FetchStoreInv == ASSUME JwtInv, NEW r \in Bearers, FetchStore(r) PROVE JwtInv'
<1> DEFINE g == bearer[r].policy
           doc == bearer[r].read
<1>1. bearer[r].at = "store" /\ bearer[r].at \in InCall /\ bearer[r].at \in Downloading
  BY DEF FetchStore, At, InCall, Downloading
<1>2. /\ g \in 1 .. Current /\ Cache(r) = policies[g] /\ Cache(r) \in Policy /\ CacheKept(Cache(r))
      /\ bearer[r] \in Call /\ CallKept(r, bearer[r], Cache(r))
  BY <1>1, CallFacts
<1>3. CASE doc = << >>
  <2>1. /\ policies' = [policies EXCEPT ![g] =
                          [policies[g] EXCEPT !.holder = "none", !.lastFailure = now]]
        /\ Gets(r, bearer[r].token.kid, Cache(r).keys) /\ UNCHANGED <<now, published, history>>
    BY <1>2, <1>3 DEF FetchStore, JwtInv, Types
  <2> QED
    BY <1>1, <2>1, FetchFailed
<1>4. CASE doc # << >>
  <2> DEFINE p == [policies[g] EXCEPT !.holder = "none", !.keys = doc, !.fetchedAt = now]
  <2>1. /\ policies' = [policies EXCEPT ![g] = p]
        /\ Gets(r, bearer[r].token.kid, doc) /\ UNCHANGED <<now, published, history>>
    BY <1>2, <1>4 DEF FetchStore, JwtInv, Types
  <2>2. doc \in KeySets /\ now \in Times /\ now \in Nat /\ bearer[r].got \in Nat
    BY <1>2, <1>4, Clock DEF Call, Times
  <2>3. /\ p \in Policy /\ p.keys = doc /\ p.fetchedAt = now /\ p.holder = "none"
        /\ p.lastAttempt = policies[g].lastAttempt /\ p.jti = policies[g].jti
        /\ p.lastFailure = policies[g].lastFailure
    BY <1>2, <2>2 DEF Policy
  <2> HIDE DEF p
  <2>4. /\ policies[g].holder = r /\ policies[g].lastAttempt = bearer[r].got
        /\ now <= bearer[r].got + FetchTicks /\ bearer[r].got <= now
    BY <1>1, <1>2 DEF CallKept, Downloads
  <2>5. ASSUME NEW k \in Keys, Holds(doc, k)
        PROVE  /\ withdrawn[k] # Never => now <= withdrawn[k] + FetchTicks
               /\ now < withdrawn[k] + Ttl + FetchTicks
    <3>1. withdrawn[k] = Never \/ bearer[r].got <= withdrawn[k]
      BY <1>1, <1>2, <2>5 DEF CallKept, Reads
    <3> QED
      BY <2>2, <2>4, <3>1, Clock, Limits
  <2>6. \A kid \in Kids : kid \notin DOMAIN doc /\ served[kid] # Never => bearer[r].got <= served[kid]
    BY <1>1, <1>2 DEF CallKept, Reads
  <2>7. CacheKept(p)
    BY <2>2, <2>3, <2>4, <2>5, <2>6 DEF CacheKept
  <2>8. Fair(r, policies[g], p)
    BY <2>3, <2>4 DEF Fair
  <2> QED
    BY <1>1, <1>2, <2>1, <2>2, <2>3, <2>5, <2>7, <2>8, GetsInv
<1> QED
  BY <1>3, <1>4

-----------------------------------------------------------------------------
(* The token *)

\* A call begins, with the policy of the moment; a shared secret needs no download.
LEMMA AuthenticateInv ==
  ASSUME JwtInv, NEW r \in Bearers, NEW token \in Tokens, Authenticate(r, token) PROVE JwtInv'
<1>1. PICK at \in {"verify", "lookup"}, key \in {"secret", "none"} :
        /\ at = "verify" => key = "secret"
        /\ bearer' = [bearer EXCEPT ![r] =
             [at |-> at, token |-> token, policy |-> Current, now |-> now, got |-> now,
              read |-> << >>, key |-> key]]
  BY DEF Authenticate
<1> DEFINE c == [at |-> at, token |-> token, policy |-> Current, now |-> now, got |-> now,
                 read |-> << >>, key |-> key]
<1>2. Current \in 1 .. Current /\ now \in Times
  BY DEF JwtInv, Types
<1>3. c \in Call /\ c.at = at /\ c.key = key
  BY <1>2 DEF Call, InCall
<1>4. bearer' = [bearer EXCEPT ![r] = c]
  BY <1>1
<1> HIDE DEF c
<1>5. CallKept(r, c, policies[c.policy])
  BY <1>1, <1>3, JwtAssumption DEF CallKept, Downloads, Downloading, Reads, HasKey, Claimed
<1> QED
  BY <1>3, <1>4, <1>5, Stays DEF Authenticate, States

\* verify_signature and validate_claims.
LEMMA VerifyInv == ASSUME JwtInv, NEW r \in Bearers, Verify(r) PROVE JwtInv'
<1>1. bearer[r].at \in InCall
  BY DEF Verify, At, InCall
<1>2. CASE ~(SignatureHolds(r) /\ ClaimsHold(r))
  BY <1>2, RefuseInv DEF Verify
<1>3. CASE ClaimsHold(r) /\ Goes(r, "purge")
  <2> DEFINE c == [bearer[r] EXCEPT !.at = "purge"]
  <2>1. bearer[r] \in Call
    BY <1>1, CallFacts
  <2>2. bearer' = [bearer EXCEPT ![r] = c]
    BY <1>3 DEF Goes
  <2>3. c \in Call /\ c.at = "purge" /\ c.token = bearer[r].token /\ c.now = bearer[r].now
    BY <2>1 DEF Call, InCall
  <2>4. bearer[r].token.exp + Leeway \in Nat /\ bearer[r].now \in Nat
    BY <2>1, JwtAssumption DEF Call, Times
  <2>5. (bearer[r].token.exp + Leeway) % Word >= bearer[r].now
    BY <1>3 DEF ClaimsHold
  <2>6. (bearer[r].token.exp + Leeway) % Word \in Nat
    BY <2>4, JwtAssumption
  <2> HIDE DEF c
  <2>7. Sat(c.token.exp + Leeway) >= c.now
    BY <2>3, <2>4, <2>5, <2>6, SatCovers
  <2>8. CallKept(r, c, policies[c.policy])
    BY <2>3, <2>7 DEF CallKept, Downloads, Downloading, Reads, HasKey, Claimed
  <2> QED
    BY <2>2, <2>3, <2>8, Stays DEF States, Verify
<1> QED
  BY <1>2, <1>3 DEF Verify

\* A request that claims and goes on to the entry of its jti.
LEMMA ToRemember ==
  ASSUME JwtInv, NEW r \in Bearers, At(r, "purge"), Goes(r, "remember")
  PROVE  \E c \in Call : /\ bearer' = [bearer EXCEPT ![r] = c] /\ c.policy = bearer[r].policy
                         /\ \A p : CallKept(r, c, p)
<1> DEFINE c == [bearer[r] EXCEPT !.at = "remember"]
<1>1. bearer[r].at = "purge" /\ bearer[r].at \in InCall
  BY DEF At, InCall
<1>2. bearer[r] \in Call /\ CallKept(r, bearer[r], Cache(r))
  BY <1>1, CallFacts
<1>3. bearer' = [bearer EXCEPT ![r] = c]
  BY DEF Goes
<1>4. /\ c \in Call /\ c.at = "remember" /\ c.policy = bearer[r].policy
      /\ c.token = bearer[r].token /\ c.now = bearer[r].now
  BY <1>2 DEF Call, InCall
<1> HIDE DEF c
<1>5. \A p : CallKept(r, c, p)
  BY <1>1, <1>2, <1>4 DEF CallKept, Downloads, Downloading, Reads, HasKey, Claimed
<1> QED
  BY <1>3, <1>4, <1>5

\* A purge keeps the entries of s; the history forgets the others.
LEMMA PurgeKeeps ==
  ASSUME JwtInv, NEW r \in Bearers, At(r, "purge"), Goes(r, "remember"),
         NEW s \in SUBSET DOMAIN Cache(r).jti,
         policies' = [policies EXCEPT ![bearer[r].policy].jti = [j \in s |-> Cache(r).jti[j]]],
         spent' = {u \in spent : u[1] = bearer[r].policy => u[2].jti \in s},
         UNCHANGED <<now, published, withdrawn, served, replayed>>
  PROVE  JwtInv'
<1> DEFINE g == bearer[r].policy
           book == [j \in s |-> Cache(r).jti[j]]
           p == [policies[g] EXCEPT !.jti = book]
<1>1. bearer[r].at \in InCall
  BY DEF At, InCall
<1>2. g \in 1 .. Current /\ Cache(r) = policies[g] /\ Cache(r) \in Policy /\ CacheKept(Cache(r))
  BY <1>1, CallFacts
<1>3. book \in Books
  BY <1>2, BookTypes DEF Policy
<1> HIDE DEF book
<1>4. policies' = [policies EXCEPT ![g] = p]
  BY <1>2 DEF JwtInv, Types, book
<1>5. /\ p \in Policy /\ p.keys = policies[g].keys /\ p.fetchedAt = policies[g].fetchedAt
      /\ p.lastAttempt = policies[g].lastAttempt /\ p.lastFailure = policies[g].lastFailure
      /\ p.holder = policies[g].holder /\ p.jti = book
  BY <1>2, <1>3 DEF Policy
<1> HIDE DEF p
<1>6. CacheKept(p) /\ Fair(r, policies[g], p)
  BY <1>2, <1>5 DEF CacheKept, Fair, FailedSince
<1>7. PICK c \in Call : /\ bearer' = [bearer EXCEPT ![r] = c] /\ c.policy = g
                        /\ \A q : CallKept(r, c, q)
  BY ToRemember
<1>8. spent' \subseteq (1 .. Current) \X Tokens /\ NoReplay'
  BY DEF JwtInv, Types, NoReplay
<1>9. (\A u \in spent : Remembered(u))'
  <2> SUFFICES ASSUME NEW u \in spent' PROVE Remembered(u)'
    OBVIOUS
  <2>1. u \in spent /\ u[1] \in 1 .. Current /\ Remembered(u) /\ (u[1] = g => u[2].jti \in s)
    BY DEF JwtInv, Types
  <2>2. CASE u[1] = g
    <3>1. policies'[u[1]].jti = book
      BY <1>2, <1>4, <1>5, <2>2 DEF JwtInv, Types
    <3>2. DOMAIN book = s /\ book[u[2].jti] = policies[g].jti[u[2].jti]
      BY <1>2, <2>1, <2>2 DEF book
    <3> QED
      BY <2>1, <2>2, <3>1, <3>2 DEF Remembered, Sat
  <2>3. CASE u[1] # g
    <3>1. policies'[u[1]] = policies[u[1]]
      BY <1>4, <2>1, <2>3 DEF JwtInv, Types
    <3> QED
      BY <2>1, <3>1 DEF Remembered, Sat
  <2> QED
    BY <2>2, <2>3
<1> QED
  BY <1>2, <1>4, <1>5, <1>6, <1>7, <1>8, <1>9, Moves DEF States

\* remember_jti, first part.
LEMMA PurgeInv == ASSUME JwtInv, NEW r \in Bearers, Purge(r) PROVE JwtInv'
<1> DEFINE live == {j \in DOMAIN Cache(r).jti : Cache(r).jti[j] >= bearer[r].now}
           Keep(s) == /\ policies' = [policies EXCEPT ![bearer[r].policy].jti =
                                        [j \in s |-> Cache(r).jti[j]]]
                      /\ spent' = {u \in spent : u[1] = bearer[r].policy => u[2].jti \in s}
<1>1. /\ At(r, "purge") /\ Goes(r, "remember")
      /\ UNCHANGED <<now, published, withdrawn, served, replayed>>
      /\ UNCHANGED <<policies, spent>> \/ \E s \in SUBSET live : Keep(s)
  BY DEF Purge
<1>2. CASE UNCHANGED <<policies, spent>>
  <2>1. PICK c \in Call : bearer' = [bearer EXCEPT ![r] = c] /\ \A q : CallKept(r, c, q)
    BY <1>1, ToRemember
  <2> QED
    BY <1>1, <1>2, <2>1, Stays DEF States, history
<1>3. ASSUME NEW s \in SUBSET live, Keep(s) PROVE JwtInv'
  BY <1>1, <1>3, PurgeKeeps
<1> QED
  BY <1>1, <1>2, <1>3

\* Second part: a token that is in the history has an entry that outlasts its claims,
\* and the entry of a jti only ever moves to a later time.
LEMMA RememberInv == ASSUME JwtInv, NEW r \in Bearers, Remember(r) PROVE JwtInv'
<1> DEFINE g == bearer[r].policy
           token == bearer[r].token
           use == <<g, token>>
           until == Sat(token.exp + Leeway)
           old == Cache(r).jti
           book == [j \in DOMAIN old \cup {token.jti} |->
                      IF j = token.jti THEN until ELSE old[j]]
           p == [policies[g] EXCEPT !.jti = book]
           c == [at |-> "bind", token |-> token]
<1>1. bearer[r].at = "remember" /\ bearer[r].at \in InCall
  BY DEF Remember, At, InCall
<1>2. /\ g \in 1 .. Current /\ Cache(r) = policies[g] /\ Cache(r) \in Policy /\ CacheKept(Cache(r))
      /\ bearer[r] \in Call /\ CallKept(r, bearer[r], Cache(r))
  BY <1>1, CallFacts
<1>3. CASE Seen(r)
  BY <1>3, RefuseInv DEF Remember, history
<1>4. CASE ~Seen(r)
  <2>1. /\ policies' = [policies EXCEPT ![g].jti =
             [j \in DOMAIN @ \cup {token.jti} |-> IF j = token.jti THEN until ELSE @[j]]]
        /\ replayed' = replayed \cup ({use} \cap spent) /\ spent' = spent \cup {use}
        /\ bearer' = [bearer EXCEPT ![r] = c]
        /\ UNCHANGED <<now, published, withdrawn, served>>
    BY <1>4 DEF Remember
  <2>2. token \in Tokens /\ token.jti \in Jtis /\ bearer[r].now \in Nat
    BY <1>2 DEF Call, Jtis, Times
  <2>3. until \in Nat /\ until >= bearer[r].now
    <3>1. token.exp + Leeway \in Nat
      BY <2>2, JwtAssumption
    <3> QED
      BY <1>1, <1>2, <3>1, SatCovers DEF CallKept, Claimed
  <2>4. old \in Books /\ DOMAIN old \subseteq Jtis /\ \A j \in DOMAIN old : old[j] \in Nat
    BY <1>2, BookTypes DEF Policy
  <2> HIDE DEF until
  <2>5. book \in Books
    BY <2>2, <2>3, <2>4, BookTypes
  <2>6. /\ \A j \in DOMAIN old : j # token.jti => j \in DOMAIN book /\ book[j] = old[j]
        /\ token.jti \in DOMAIN book /\ book[token.jti] = until
    OBVIOUS
  <2>7. policies' = [policies EXCEPT ![g] = p]
    BY <1>2, <2>1 DEF JwtInv, Types
  <2> HIDE DEF book
  <2>8. /\ p \in Policy /\ p.keys = policies[g].keys /\ p.fetchedAt = policies[g].fetchedAt
        /\ p.lastAttempt = policies[g].lastAttempt /\ p.lastFailure = policies[g].lastFailure
        /\ p.holder = policies[g].holder /\ p.jti = book
    BY <1>2, <2>5 DEF Policy
  <2>9. c \in States /\ c.at \notin InCall
    BY <2>2 DEF States, Admitted, InCall, Downloading
  <2> HIDE DEF p, c
  <2>10. CacheKept(p) /\ Fair(r, policies[g], p)
    BY <1>2, <2>8 DEF CacheKept, Fair, FailedSince
  <2>11. ASSUME token.jti \in DOMAIN old PROVE old[token.jti] < bearer[r].now
    BY <1>4, <2>2, <2>4, <2>11 DEF Seen
  <2>12. use \notin spent
    <3> SUFFICES ASSUME use \in spent PROVE FALSE
      OBVIOUS
    <3>1. Remembered(use)
      BY DEF JwtInv
    <3>2. token.jti \in DOMAIN old /\ old[token.jti] >= until
      BY <1>2, <3>1 DEF Remembered, until
    <3> QED
      BY <2>2, <2>3, <2>4, <2>11, <3>2
  <2>13. NoReplay'
    BY <2>1, <2>12 DEF JwtInv, NoReplay
  <2>14. spent' \subseteq (1 .. Current) \X Tokens
    BY <1>2, <2>1, <2>2 DEF JwtInv, Types
  <2>15. ASSUME NEW u \in spent' PROVE Remembered(u)'
    <3>1. policies'[g].jti = book
      BY <1>2, <2>7, <2>8 DEF JwtInv, Types
    <3>2. CASE u = use
      BY <2>3, <2>6, <3>1, <3>2 DEF Remembered, until, Sat
    <3>3. CASE u # use
      <4>1. u \in spent /\ u[1] \in 1 .. Current /\ u[2] \in Tokens /\ Remembered(u)
        BY <2>1, <3>3 DEF JwtInv, Types
      <4>2. CASE u[1] # g
        <5>1. policies'[u[1]] = policies[u[1]]
          BY <2>7, <4>1, <4>2 DEF JwtInv, Types
        <5> QED
          BY <4>1, <5>1 DEF Remembered, Sat
      <4>3. CASE u[1] = g /\ u[2].jti # token.jti
        BY <1>2, <2>6, <3>1, <4>1, <4>3 DEF Remembered, Sat
      <4>4. CASE u[1] = g /\ u[2].jti = token.jti
        <5> DEFINE its == Sat(u[2].exp + Leeway)
        <5>1. its \in Nat
          BY <4>1, SatCovers, JwtAssumption
        <5>2. token.jti \in DOMAIN old /\ old[token.jti] >= its
          BY <1>2, <4>1, <4>4 DEF Remembered
        <5> HIDE DEF its
        <5>3. until >= its
          BY <2>2, <2>3, <2>4, <2>11, <5>1, <5>2
        <5> QED
          BY <2>6, <3>1, <4>4, <5>3 DEF Remembered, Sat, its
      <4> QED
        BY <4>2, <4>3, <4>4
    <3> QED
      BY <3>2, <3>3
  <2>16. (\A u \in spent : Remembered(u))'
    BY <2>15
  <2> QED
    BY <1>2, <2>1, <2>7, <2>8, <2>9, <2>10, <2>13, <2>14, <2>16, Moves
<1> QED
  BY <1>3, <1>4

\* A request that has its identity: only its place changes.
LEMMA AdmittedInv ==
  ASSUME JwtInv, NEW r \in Bearers, NEW at \in {"body", "forwarded"},
         bearer[r].at \in {"bind", "body"}, Goes(r, at),
         UNCHANGED <<now, published, policies, history>>
  PROVE  JwtInv'
<1> DEFINE c == [bearer[r] EXCEPT !.at = at]
<1>1. bearer[r] \in States /\ bearer[r].at \notin InCall /\ bearer[r] # NoRequest
  BY DEF JwtInv, Types, States, InCall, Downloading, NoRequest
<1>2. bearer[r] \in Admitted
  BY <1>1, StateFacts
<1>3. c \in Admitted /\ c.at = at
  BY <1>2 DEF Admitted
<1>4. bearer' = [bearer EXCEPT ![r] = c]
  BY DEF Goes
<1> HIDE DEF c
<1>5. c \in States /\ c.at \notin InCall
  BY <1>3 DEF States, InCall, Downloading
<1> QED
  BY <1>4, <1>5, Stays

\* The bindings, and the end of a request.
LEMMA BindInv ==
  ASSUME JwtInv, NEW r \in Bearers, NEW said,
         BindPath(r, said) \/ BindBody(r, said) \/ End(r)
  PROVE  JwtInv'
<1>1. CASE BindPath(r, said)
  BY <1>1, AdmittedInv, RefuseInv DEF BindPath, At
<1>2. CASE BindBody(r, said)
  BY <1>2, AdmittedInv, RefuseInv DEF BindBody, At
<1>3. CASE End(r)
  BY <1>3, RefuseInv DEF End
<1> QED
  BY <1>1, <1>2, <1>3

-----------------------------------------------------------------------------
(* The clock, the provider and reloads *)

\* Time passes only where a request waits or a download has time left.
LEMMA TickInv == ASSUME JwtInv, Tick PROVE JwtInv'
<1> USE DEF JwtInv
<1>1. /\ now' = now + 1 /\ now \in Nat /\ now < MaxNow
      /\ UNCHANGED <<published, policies, bearer, withdrawn, served, spent, replayed>>
  BY Clock DEF Tick, history
<1>2. Current' = Current /\ Call' = Call /\ now' \in Times
  BY <1>1, Limits DEF Current, Call, Times
<1>3. Types'
  BY <1>1, <1>2 DEF Types, Current
<1>4. Provider'
  BY <1>1, Clock DEF Provider, Holds
<1>5. ASSUME NEW g \in 1 .. Current PROVE CacheKept(policies[g])'
  <2>1. policies[g] \in Policy /\ CacheKept(policies[g])
    BY DEF Types
  <2>2. /\ policies[g].fetchedAt <= now + 1 /\ policies[g].lastAttempt <= now + 1
    BY <1>1, <2>1 DEF CacheKept, Policy, Times
  <2> QED
    BY <1>1, <2>1, <2>2 DEF CacheKept, FailedSince, Holds
<1>6. ASSUME NEW r \in Bearers, bearer[r].at \in InCall
      PROVE  CallKept(r, bearer[r], policies[bearer[r].policy])'
  <2>1. /\ bearer[r] \in Call /\ CallKept(r, bearer[r], policies[bearer[r].policy])
    BY <1>6, CallFacts
  <2>2. bearer[r].at = "wait" \/ (bearer[r].at \in Downloading /\ now - bearer[r].got < FetchTicks)
    BY <1>6 DEF Tick, InCall, Downloading
  <2>3. bearer[r].got \in Nat
    BY <2>1 DEF Call, Times
  <2>4. Downloads(r, bearer[r], policies[bearer[r].policy])'
    BY <1>1, <2>1, <2>2, <2>3, Limits DEF CallKept, Downloads, Downloading
  <2>5. Reads(bearer[r])'
    BY <1>1, <2>1 DEF CallKept, Reads, Holds
  <2> QED
    BY <1>1, <2>2, <2>4, <2>5 DEF CallKept, HasKey, Claimed, Downloading
<1>7. (\A u \in spent : Remembered(u))' /\ NoReplay'
  BY <1>1 DEF Remembered, NoReplay, Sat
<1> QED
  BY <1>1, <1>2, <1>3, <1>4, <1>5, <1>6, <1>7

\* What a rotation does to the history: what changes, changes to now or to Never.
LEMMA Rotated ==
  ASSUME JwtInv, NEW doc \in KeySets, Rotate(doc)
  PROVE  /\ withdrawn' \in [Keys -> 0 .. Never] /\ served' \in [Kids -> 0 .. Never]
         /\ Provider'
         /\ \A k \in Keys : withdrawn'[k] \in {Never, now, withdrawn[k]}
         /\ \A kid \in Kids : served'[kid] \in {Never, now, served[kid]}
<1> USE DEF JwtInv
<1>1. /\ withdrawn' = [k \in Keys |-> IF Holds(doc, k) THEN Never
                                     ELSE IF Holds(published, k) THEN now ELSE withdrawn[k]]
      /\ served' = [kid \in Kids |-> IF kid \notin DOMAIN doc THEN Never
                                     ELSE IF kid \in DOMAIN published THEN served[kid] ELSE now]
      /\ published' = doc /\ now' = now
  BY DEF Rotate
<1>2. now \in 0 .. Never /\ Never \in 0 .. Never /\ now \in Nat
  BY Clock, Limits
<1>3. withdrawn' \in [Keys -> 0 .. Never] /\ served' \in [Kids -> 0 .. Never]
  BY <1>1, <1>2 DEF Types
<1>4. ASSUME NEW k \in Keys
      PROVE  IF Holds(doc, k) THEN withdrawn'[k] = Never ELSE withdrawn'[k] <= now
  BY <1>1, <1>2 DEF Provider
<1>5. ASSUME NEW kid \in Kids
      PROVE  IF kid \in DOMAIN doc THEN served'[kid] <= now ELSE served'[kid] = Never
  BY <1>1, <1>2 DEF Provider
<1>6. Provider'
  BY <1>1, <1>4, <1>5 DEF Provider, Holds
<1>7. \A k \in Keys : withdrawn'[k] \in {Never, now, withdrawn[k]}
  BY <1>1
<1>8. \A kid \in Kids : served'[kid] \in {Never, now, served[kid]}
  BY <1>1
<1> QED
  BY <1>3, <1>6, <1>7, <1>8

\* A rotation makes no set older than it is.
LEMMA RotateInv == ASSUME JwtInv, NEW doc \in KeySets, Rotate(doc) PROVE JwtInv'
<1> USE DEF JwtInv
<1>1. published' = doc /\ UNCHANGED <<now, policies, bearer, spent, replayed>>
  BY DEF Rotate
<1>2. Current' = Current /\ Call' = Call
  BY <1>1 DEF Current, Call
<1>3. Types'
  BY <1>1, <1>2, Rotated DEF Types, Current
<1>4. ASSUME NEW g \in 1 .. Current PROVE CacheKept(policies[g])'
  <2> DEFINE p == policies[g]
  <2>1. p \in Policy /\ CacheKept(p)
    BY DEF Types
  <2>2. p.fetchedAt \in Nat /\ p.lastAttempt \in Nat /\ p.fetchedAt <= now /\ p.lastAttempt <= now
    BY <2>1 DEF CacheKept, Policy, Times
  <2>3. ASSUME NEW k \in Keys, Holds(p.keys, k), withdrawn'[k] # Never
        PROVE  p.fetchedAt <= withdrawn'[k] + FetchTicks
    BY <2>1, <2>2, <2>3, Rotated, Clock, Limits DEF CacheKept
  <2>4. ASSUME NEW kid \in Kids, kid \notin DOMAIN p.keys, served'[kid] # Never, p.holder = "none"
        PROVE  p.lastAttempt <= served'[kid] \/ FailedSince(p, served'[kid])
    BY <2>1, <2>2, <2>4, Rotated, Clock DEF CacheKept
  <2> QED
    BY <1>1, <2>2, <2>3, <2>4 DEF CacheKept, FailedSince, Holds
<1>5. ASSUME NEW r \in Bearers, bearer[r].at \in InCall
      PROVE  CallKept(r, bearer[r], policies[bearer[r].policy])'
  <2> DEFINE c == bearer[r]
             p == policies[c.policy]
  <2>1. c \in Call /\ p \in Policy /\ CallKept(r, c, p)
    BY <1>5, CallFacts
  <2>2. c.got \in Nat
    BY <2>1 DEF Call, Times
  <2>3. Downloads(r, c, p)'
    BY <1>1, <2>1 DEF CallKept, Downloads
  <2>4. Reads(c)'
    <3> SUFFICES ASSUME c.at = "store" PROVE Reads(c)'
      BY <1>1 DEF Reads
    <3>1. c.got <= now
      BY <2>1 DEF CallKept, Downloads, Downloading
    <3>2. ASSUME NEW k \in Keys, Holds(c.read, k), withdrawn'[k] # Never
          PROVE  c.got <= withdrawn'[k]
      BY <2>1, <3>1, <3>2, Rotated, Clock DEF CallKept, Reads
    <3>3. ASSUME NEW kid \in Kids, kid \notin DOMAIN c.read, served'[kid] # Never
          PROVE  c.got <= served'[kid]
      BY <2>1, <3>1, <3>3, Rotated, Clock DEF CallKept, Reads
    <3> QED
      BY <1>1, <3>2, <3>3 DEF Reads, Holds
  <2>5. HasKey(c, p)'
    <3> SUFFICES ASSUME c.at = "verify", c.key \in Keys PROVE HasKey(c, p)'
      BY <1>1 DEF HasKey
    <3>1. /\ c.got <= now
          /\ c.got < withdrawn[c.key] + Ttl + FetchTicks \/ FailedSince(p, withdrawn[c.key])
      BY <2>1 DEF CallKept, HasKey
    <3>2. CASE withdrawn'[c.key] \in {Never, now}
      <4>1. c.got < withdrawn'[c.key] + Ttl + FetchTicks
        BY <2>2, <3>1, <3>2, Clock, Limits
      <4> QED
        BY <1>1, <3>1, <4>1 DEF HasKey
    <3>3. CASE withdrawn'[c.key] = withdrawn[c.key]
      BY <1>1, <3>1, <3>3 DEF HasKey, FailedSince
    <3> QED
      BY <3>2, <3>3, Rotated
  <2>6. Claimed(c)'
    BY <1>1, <2>1 DEF CallKept, Claimed, Sat
  <2> QED
    BY <2>3, <2>4, <2>5, <2>6 DEF CallKept
<1>6. (\A u \in spent : Remembered(u))' /\ NoReplay'
  BY <1>1 DEF Remembered, NoReplay, Sat
<1> QED
  BY <1>1, <1>2, <1>3, <1>4, <1>5, <1>6, Rotated

\* A policy that was just loaded has what the provider serves.
LEMMA LoadedKept ==
  ASSUME now \in Times, published \in KeySets, Provider
  PROVE  Loaded \in Policy /\ CacheKept(Loaded) /\ Loaded.jti = << >>
<1>1. /\ Loaded.keys = published /\ Loaded.fetchedAt = now /\ Loaded.lastAttempt = now
      /\ Loaded.jti = << >>
  BY DEF Loaded
<1>2. Never \in 0 .. Never /\ now <= now
  BY Limits DEF Times
<1>3. Loaded \in Policy
  BY <1>2, NoBook DEF Loaded, Policy
<1>4. CacheKept(Loaded)
  BY <1>1, <1>2 DEF CacheKept, Provider
<1> QED
  BY <1>1, <1>3, <1>4

\* A reload adds a policy; calls under way keep theirs.
LEMMA ReloadInv == ASSUME JwtInv, Reload PROVE JwtInv'
<1> USE DEF JwtInv
<1> DEFINE n == Current
<1>1. /\ policies' = [g \in 1 .. n + 1 |-> IF g > n THEN Loaded ELSE policies[g]]
      /\ UNCHANGED <<now, published, bearer, withdrawn, served, spent, replayed>>
  BY DEF Reload, history
<1>2. n \in Nat \ {0}
  BY DEF Types
<1> HIDE DEF n
<1>3. Current' = n + 1
  <2>1. DOMAIN policies' = 1 .. n + 1
    BY <1>1
  <2>2. Cardinality(1 .. n + 1) = n + 1
    BY <1>2, FS_Interval
  <2> QED
    BY <2>1, <2>2 DEF Current
<1>4. Loaded \in Policy /\ CacheKept(Loaded)
  BY LoadedKept DEF Types
<1>5. /\ \A g \in 1 .. n : g \in 1 .. n + 1 /\ policies'[g] = policies[g]
      /\ policies'[n + 1] = Loaded /\ \A g \in 1 .. n + 1 : g \in 1 .. n \/ g = n + 1
  BY <1>1, <1>2
<1>6. policies' \in [1 .. n + 1 -> Policy]
  BY <1>1, <1>2, <1>4 DEF Types, n
<1>7. Call \subseteq Call'
  BY <1>1, <1>3, <1>5 DEF Call, n
<1>8. Types'
  <2>1. bearer' \in [Bearers -> (Call \cup Admitted \cup {NoRequest})']
    BY <1>1, <1>7 DEF Types
  <2>2. spent' \subseteq (1 .. n + 1) \X Tokens
    BY <1>1, <1>5 DEF Types, n
  <2> QED
    BY <1>1, <1>2, <1>3, <1>6, <2>1, <2>2 DEF Types
<1>9. Provider'
  BY <1>1 DEF Provider, Holds
<1>10. ASSUME NEW g \in 1 .. n + 1 PROVE CacheKept(policies[g])'
  <2>1. CacheKept(policies'[g])
    BY <1>4, <1>5 DEF n
  <2> QED
    BY <1>1, <2>1 DEF CacheKept, FailedSince, Holds
<1>11. ASSUME NEW r \in Bearers, bearer[r].at \in InCall
       PROVE  CallKept(r, bearer[r], policies[bearer[r].policy])'
  <2>1. bearer[r].policy \in 1 .. n /\ CallKept(r, bearer[r], policies[bearer[r].policy])
    BY <1>11, CallFacts DEF n
  <2>2. policies'[bearer[r].policy] = policies[bearer[r].policy]
    BY <1>5, <2>1
  <2> QED
    BY <1>1, <2>1, <2>2 DEF CallKept, Downloads, Reads, HasKey, Claimed, FailedSince, Holds, Sat
<1>12. ASSUME NEW u \in spent PROVE Remembered(u)'
  <2>1. u[1] \in 1 .. n /\ Remembered(u)
    BY DEF Types, n
  <2> QED
    BY <1>5, <2>1 DEF Remembered, Sat
<1>13. NoReplay'
  BY <1>1 DEF NoReplay
<1> QED
  BY <1>1, <1>3, <1>8, <1>9, <1>10, <1>11, <1>12, <1>13

-----------------------------------------------------------------------------
(* The invariant *)

\* At boot the policy is just loaded and nobody has called.
LEMMA InitInv == JwtInit => JwtInv
<1> SUFFICES ASSUME JwtInit PROVE JwtInv
  OBVIOUS
<1>1. /\ now = 0 /\ published \in KeySets /\ policies = [g \in {1} |-> Loaded]
      /\ bearer = [r \in Bearers |-> NoRequest] /\ spent = {} /\ replayed = {}
  BY DEF JwtInit
<1>2. now \in Times /\ 0 \in 0 .. Never /\ Never \in 0 .. Never
  BY <1>1, Limits DEF Times
<1>3. Provider
  BY <1>1 DEF JwtInit, Provider
<1>4. withdrawn \in [Keys -> 0 .. Never] /\ served \in [Kids -> 0 .. Never]
  BY <1>2 DEF JwtInit
<1>5. Current = 1 /\ 1 .. 1 = {1}
  BY <1>1, FS_Singleton DEF Current
<1>6. Loaded \in Policy /\ CacheKept(Loaded)
  BY <1>1, <1>2, <1>3, LoadedKept
<1>7. Types
  BY <1>1, <1>2, <1>4, <1>5, <1>6 DEF Types
<1>8. \A g \in 1 .. Current : CacheKept(policies[g])
  BY <1>1, <1>5, <1>6
<1>9. \A r \in Bearers : bearer[r].at \notin InCall
  BY <1>1 DEF NoRequest, InCall, Downloading
<1> QED
  BY <1>1, <1>3, <1>7, <1>8, <1>9 DEF JwtInv, NoReplay

\* Every step keeps the invariant.
LEMMA NextInv == JwtInv /\ [JwtNext]_jwtVars => JwtInv'
<1> SUFFICES ASSUME JwtInv, [JwtNext]_jwtVars PROVE JwtInv'
  OBVIOUS
<1>1. CASE UNCHANGED jwtVars
  <2>1. UNCHANGED <<now, published, policies, bearer, withdrawn, served, spent, replayed>>
    BY <1>1 DEF jwtVars
  <2> QED
    BY <2>1 DEF JwtInv, Types, Call, Current, Provider, CacheKept, CallKept, Downloads, Reads, HasKey,
               Claimed, FailedSince, Holds, Remembered, Sat, NoReplay
<1>2. CASE Tick \/ Reload
  BY <1>2, TickInv, ReloadInv
<1>3. ASSUME NEW doc \in KeySets, Rotate(doc) PROVE JwtInv'
  BY <1>3, RotateInv
<1>4. ASSUME NEW r \in Bearers, JwtStep(r) PROVE JwtInv'
  BY <1>4, LookupInv, TakeFetchInv, FetchReadInv, FetchStoreInv, FetchFailInv, VerifyInv,
     PurgeInv, RememberInv, BindInv DEF JwtStep
<1>5. ASSUME NEW r \in Bearers, NEW token \in Tokens, Authenticate(r, token) PROVE JwtInv'
  BY <1>5, AuthenticateInv
<1> QED
  BY <1>1, <1>2, <1>3, <1>4, <1>5 DEF JwtNext

\* JwtInv holds in every state of the cache, the map and the requests.
THEOREM Invariance == JwtSpec => []JwtInv
<1>1. JwtInit => JwtInv
  BY InitInv
<1>2. JwtInv /\ [JwtNext]_jwtVars => JwtInv'
  BY NextInv
<1> QED
  BY <1>1, <1>2, PTL DEF JwtSpec

\* remember_jti: no policy lets a token through twice while its jti is not purged, for
\* any tokens (also such that share a jti), requests, clocks and sizes of the map.
THEOREM TokensSpentOnce == JwtSpec => []NoReplay
<1>1. JwtInv => NoReplay
  BY DEF JwtInv
<1> QED
  BY <1>1, Invariance, PTL

\* JwksCache::key: a withdrawn key is not handed out later than the TTL and one
\* download after, unless a download has failed since.
THEOREM WithdrawnKeysDie == JwtSpec => []WithdrawnKeyDies
<1>1. JwtInv => WithdrawnKeyDies
  <2> SUFFICES ASSUME JwtInv, NEW r \in Bearers, bearer[r].at = "verify", bearer[r].key \in Keys
               PROVE  \/ bearer[r].got < withdrawn[bearer[r].key] + Ttl + FetchTicks
                      \/ FailedSince(Cache(r), withdrawn[bearer[r].key])
    BY DEF WithdrawnKeyDies, At, FailedSince
  <2>1. CallKept(r, bearer[r], Cache(r))
    BY CallFacts DEF InCall
  <2> QED
    BY <2>1 DEF CallKept, HasKey
<1> QED
  BY <1>1, Invariance, PTL

-----------------------------------------------------------------------------
(* A kid that is served. JwtInv says who downloads has the fetch mutex; the *)
(* converse, that nobody else has it, is an invariant of its own.          *)

Mutex ==
  \A g \in 1 .. Current, r \in Bearers :
    policies[g].holder = r => bearer[r].at \in Downloading /\ bearer[r].policy = g

\* A step of a request that is not the end of a download.
LEMMA MutexKept ==
  ASSUME Types, Mutex, NEW q \in Bearers, NEW c, bearer' = [bearer EXCEPT ![q] = c],
         DOMAIN policies' = DOMAIN policies,
         \A g \in 1 .. Current : policies'[g].holder = policies[g].holder,
         bearer[q].at \in Downloading => c.at \in Downloading /\ c.policy = bearer[q].policy
  PROVE  Mutex'
<1>1. Current' = Current
  BY DEF Current
<1>2. bearer'[q] = c /\ \A r \in Bearers \ {q} : bearer'[r] = bearer[r]
  BY DEF Types
<1> QED
  BY <1>1, <1>2 DEF Mutex

\* A step of a request q changes no other.
Owns(q) == \E c : bearer' = [bearer EXCEPT ![q] = c]

\* Every step of a request is its own.
LEMMA StepOwn ==
  ASSUME NEW q \in Bearers, JwtStep(q) \/ \E token \in Tokens : Authenticate(q, token)
  PROVE  Owns(q)
<1> USE DEF Owns, Refuse, Goes, Gets
<1>1. CASE \E token \in Tokens : Authenticate(q, token)
  BY <1>1 DEF Authenticate
<1>2. CASE Lookup(q)
  BY <1>2 DEF Lookup
<1>3. CASE TakeFetch(q)
  BY <1>3 DEF TakeFetch
<1>4. CASE FetchRead(q) \/ FetchFail(q)
  BY <1>4 DEF FetchRead, FetchFail
<1>5. CASE FetchStore(q)
  BY <1>5 DEF FetchStore
<1>6. CASE Verify(q)
  BY <1>6 DEF Verify
<1>7. CASE Purge(q)
  BY <1>7 DEF Purge
<1>8. CASE Remember(q)
  BY <1>8 DEF Remember
<1>9. ASSUME NEW said, BindPath(q, said) \/ BindBody(q, said) \/ End(q) PROVE Owns(q)
  BY <1>9 DEF BindPath, BindBody, End
<1> QED
  BY <1>1, <1>2, <1>3, <1>4, <1>5, <1>6, <1>7, <1>8, <1>9 DEF JwtStep

\* The end of a download gives the mutex back.
LEMMA MutexFree ==
  ASSUME JwtInv, Mutex, NEW q \in Bearers, bearer[q].at \in Downloading, Owns(q),
         NEW p, p.holder = "none", policies' = [policies EXCEPT ![bearer[q].policy] = p]
  PROVE  Mutex'
<1>1. PICK c : bearer' = [bearer EXCEPT ![q] = c]
  BY DEF Owns
<1>2. bearer[q].policy \in 1 .. Current
  BY CallFacts DEF InCall
<1>3. /\ Current' = Current /\ policies'[bearer[q].policy] = p
      /\ \A g \in (1 .. Current) \ {bearer[q].policy} : policies'[g] = policies[g]
  BY <1>2 DEF Current, JwtInv, Types
<1>4. \A r \in Bearers \ {q} : bearer'[r] = bearer[r]
  BY <1>1 DEF JwtInv, Types
<1> QED
  BY <1>2, <1>3, <1>4, JwtAssumption DEF Mutex

\* Every step keeps Mutex.
LEMMA MutexNext == JwtInv /\ Mutex /\ [JwtNext]_jwtVars => Mutex'
<1> SUFFICES ASSUME JwtInv, Mutex, [JwtNext]_jwtVars PROVE Mutex'
  OBVIOUS
<1>1. CASE UNCHANGED <<policies, bearer>>
  BY <1>1 DEF Mutex, Current
<1>2. CASE Reload
  <2> DEFINE n == Current
  <2>1. /\ n \in Nat /\ policies' = [g \in 1 .. n + 1 |-> IF g > n THEN Loaded ELSE policies[g]]
        /\ bearer' = bearer
    BY <1>2 DEF Reload, JwtInv, Types
  <2> HIDE DEF n
  <2>2. DOMAIN policies' = 1 .. n + 1 /\ Cardinality(1 .. n + 1) = n + 1
    BY <2>1, FS_Interval
  <2>3. Current' = n + 1
    BY <2>2 DEF Current
  <2>4. \A g \in 1 .. n + 1 : policies'[g] = Loaded \/ (g \in 1 .. n /\ policies'[g] = policies[g])
    BY <2>1
  <2>5. Loaded.holder \notin Bearers
    BY JwtAssumption DEF Loaded
  <2> QED
    BY <2>1, <2>3, <2>4, <2>5 DEF Mutex, n
<1>3. ASSUME NEW q \in Bearers, JwtStep(q) \/ \E token \in Tokens : Authenticate(q, token)
      PROVE  Mutex'
  <2>1. Types /\ Owns(q)
    BY <1>3, StepOwn DEF JwtInv
  <2>2. PICK c : bearer' = [bearer EXCEPT ![q] = c]
    BY <2>1 DEF Owns
  <2>3. CASE UNCHANGED policies /\ bearer[q].at \notin Downloading
    BY <2>1, <2>2, <2>3, MutexKept
  <2>4. CASE FetchRead(q)
    <3> DEFINE d == [bearer[q] EXCEPT !.at = "store", !.read = published]
    <3>1. bearer[q] \in Call /\ bearer' = [bearer EXCEPT ![q] = d] /\ policies' = policies
      BY <2>1, <2>4, CallFacts DEF FetchRead, At, InCall, Downloading, Types
    <3>2. d.at \in Downloading /\ d.policy = bearer[q].policy
      BY <3>1 DEF Call, Downloading
    <3> QED
      BY <2>1, <3>1, <3>2, MutexKept
  <2>5. CASE TakeFetch(q) /\ ~UNCHANGED policies
    <3> DEFINE g == bearer[q].policy
               d == [bearer[q] EXCEPT !.at = "fetch", !.got = now]
    <3>1. /\ bearer[q].at = "wait" /\ g \in 1 .. Current /\ bearer[q] \in Call
      BY <2>5, CallFacts DEF TakeFetch, At, InCall
    <3>2. /\ policies' = [policies EXCEPT ![g].holder = q, ![g].lastAttempt = now]
          /\ bearer' = [bearer EXCEPT ![q].at = "fetch", ![q].got = now]
      BY <2>5 DEF TakeFetch
    <3>3. bearer' = [bearer EXCEPT ![q] = d]
      BY <2>1, <3>2 DEF Types
    <3>4. d.at \in Downloading /\ d.policy = g
      BY <3>1 DEF Call, Downloading
    <3> HIDE DEF d
    <3>5. bearer'[q] = d /\ \A r \in Bearers \ {q} : bearer'[r] = bearer[r]
      BY <2>1, <3>3 DEF Types
    <3>6. /\ Current' = Current /\ policies'[g].holder = q
          /\ \A h \in (1 .. Current) \ {g} : policies'[h] = policies[h]
      BY <2>1, <3>1, <3>2 DEF Types, Current, Policy
    <3>7. \A h \in 1 .. Current : policies[h].holder # q
      BY <3>1 DEF Mutex, Downloading
    <3> QED
      BY <3>4, <3>5, <3>6, <3>7 DEF Mutex
  <2>6. CASE FetchFail(q)
    <3>1. bearer[q].at \in Downloading /\ bearer[q].policy \in 1 .. Current
      BY <2>6, CallFacts DEF FetchFail, At, InCall, Downloading
    <3>2. policies[bearer[q].policy] \in Policy
      BY <2>1, <3>1 DEF Types
    <3>3. PICK p : p.holder = "none" /\ policies' = [policies EXCEPT ![bearer[q].policy] = p]
      BY <2>1, <2>6, <3>1, <3>2 DEF FetchFail, Policy, Types
    <3> QED
      BY <2>1, <3>1, <3>3, MutexFree
  <2>7. CASE FetchStore(q)
    <3>1. bearer[q].at \in Downloading /\ bearer[q].policy \in 1 .. Current
      BY <2>7, CallFacts DEF FetchStore, At, InCall, Downloading
    <3>2. policies[bearer[q].policy] \in Policy
      BY <2>1, <3>1 DEF Types
    <3>3. PICK p : p.holder = "none" /\ policies' = [policies EXCEPT ![bearer[q].policy] = p]
      BY <2>1, <2>7, <3>1, <3>2 DEF FetchStore, Policy, Types
    <3> QED
      BY <2>1, <3>1, <3>3, MutexFree
  <2>8. CASE (Purge(q) \/ Remember(q)) /\ ~UNCHANGED policies
    <3>1. bearer[q].at \notin Downloading /\ bearer[q].policy \in 1 .. Current
      BY <2>8, CallFacts DEF Purge, Remember, At, InCall, Downloading
    <3>2. PICK book : policies' = [policies EXCEPT ![bearer[q].policy].jti = book]
      BY <2>8 DEF Purge, Remember
    <3>3. /\ DOMAIN policies' = DOMAIN policies
          /\ \A g \in 1 .. Current : policies'[g].holder = policies[g].holder
      BY <2>1, <3>1, <3>2 DEF Types, Policy
    <3> QED
      BY <2>1, <2>2, <3>1, <3>3, MutexKept
  <2>9. CASE Lookup(q) \/ Verify(q) \/ End(q) \/ \E token \in Tokens : Authenticate(q, token)
    BY <2>3, <2>9 DEF Lookup, Verify, End, Authenticate, At, Downloading
  <2>10. CASE \E said : BindPath(q, said) \/ BindBody(q, said)
    BY <2>3, <2>10 DEF BindPath, BindBody, At, Downloading
  <2>11. CASE (TakeFetch(q) \/ Purge(q) \/ Remember(q)) /\ UNCHANGED policies
    BY <2>3, <2>11 DEF TakeFetch, Purge, Remember, At, Downloading
  <2> QED
    BY <1>3, <2>4, <2>5, <2>6, <2>7, <2>8, <2>9, <2>10, <2>11 DEF JwtStep
<1>4. CASE Tick \/ \E doc \in KeySets : Rotate(doc)
  BY <1>1, <1>4 DEF Tick, Rotate
<1> QED
  BY <1>1, <1>2, <1>3, <1>4 DEF JwtNext, jwtVars

\* A lookup that ends without a key, by the step that ends it.
LEMMA KidStep ==
  ASSUME JwtInv, Mutex, JwtNext, NEW r \in Bearers PROVE KidAnswered(r)
<1> DEFINE kid == bearer[r].token.kid
           g == bearer[r].policy
<1> SUFFICES ASSUME RefusesKid(r, kid)
             PROVE  \/ now - served[kid] < MinRefresh + FetchTicks
                    \/ Cache(r).holder \notin {r, "none"}
                    \/ FailedSince(policies'[g], served[kid])
  BY DEF KidAnswered, FailedSince
<1>1. /\ bearer[r].at \in {"lookup", "fetch", "store"} /\ bearer[r].at \in InCall
      /\ bearer'[r] = NoRequest /\ kid \in Kids /\ served[kid] # Never
  BY DEF RefusesKid, InCall, Downloading
<1>2. /\ g \in 1 .. Current /\ Cache(r) = policies[g] /\ Cache(r) \in Policy /\ CacheKept(Cache(r))
      /\ bearer[r] \in Call /\ CallKept(r, bearer[r], Cache(r))
  BY <1>1, CallFacts
<1>3. now \in Nat /\ now # Never /\ served[kid] \in Nat /\ served[kid] <= now
  BY <1>1, Clock
<1>4. bearer'[r] # bearer[r]
  BY <1>1 DEF NoRequest
<1>5. Lookup(r) \/ FetchStore(r) \/ FetchFail(r)
  <2>1. PICK q \in Bearers : JwtStep(q) \/ \E token \in Tokens : Authenticate(q, token)
    BY <1>4 DEF JwtNext, Tick, Reload, Rotate
  <2>2. q = r
    BY <1>4, <2>1, StepOwn DEF Owns, JwtInv, Types
  <2>3. ~FetchRead(r)
    <3> SUFFICES ASSUME FetchRead(r) PROVE FALSE
      OBVIOUS
    <3>1. bearer'[r].at = "store"
      BY <1>2 DEF FetchRead, JwtInv, Types, Call
    <3> QED
      BY <1>1, <3>1 DEF NoRequest
  <2>4. ~TakeFetch(r) /\ ~Verify(r) /\ ~Purge(r) /\ ~Remember(r) /\ ~End(r)
        /\ \A said : ~BindPath(r, said) /\ ~BindBody(r, said)
    BY <1>1 DEF TakeFetch, Verify, Purge, Remember, End, BindPath, BindBody, At
  <2>5. \A token \in Tokens : ~Authenticate(r, token)
    BY <1>1 DEF Authenticate, At
  <2> QED
    BY <2>1, <2>2, <2>3, <2>4, <2>5 DEF JwtStep
<1>6. ASSUME NEW doc, Gets(r, kid, doc) PROVE kid \notin DOMAIN doc
  <2> SUFFICES ASSUME kid \in DOMAIN doc PROVE FALSE
    OBVIOUS
  <2>1. bearer'[r].at = "verify"
    BY <1>2, <1>6 DEF Gets, JwtInv, Types, Call
  <2> QED
    BY <1>1, <2>1 DEF NoRequest
<1>7. ASSUME NEW p, policies' = [policies EXCEPT ![g] = p], p.lastFailure = now
      PROVE  FailedSince(policies'[g], served[kid])
  BY <1>2, <1>3, <1>7 DEF JwtInv, Types, FailedSince
<1>8. CASE Lookup(r)
  <2>1. bearer[r].at = "lookup" /\ policies' = policies
    BY <1>8 DEF Lookup, At
  <2>2. ~Goes(r, "wait")
    <3> SUFFICES ASSUME Goes(r, "wait") PROVE FALSE
      OBVIOUS
    <3>1. bearer'[r].at = "wait"
      BY <1>2 DEF Goes, JwtInv, Types, Call
    <3> QED
      BY <1>1, <3>1 DEF NoRequest
  <2>3. Gets(r, kid, Cache(r).keys)
        /\ (FreshKey(Cache(r), kid) \/ now - Cache(r).lastAttempt < MinRefresh)
    BY <1>8, <2>2 DEF Lookup
  <2>4. kid \notin DOMAIN Cache(r).keys
    BY <1>6, <2>3
  <2>5. now - Cache(r).lastAttempt < MinRefresh /\ Cache(r).lastAttempt \in Nat
    BY <1>2, <2>3, <2>4 DEF FreshKey, Policy, Times
  <2>6. Cache(r).holder # r
    BY <1>2, <2>1 DEF Mutex, Downloading
  <2>7. CASE Cache(r).holder = "none" /\ Cache(r).lastAttempt <= served[kid]
    BY <1>3, <2>5, <2>7, Limits
  <2>8. CASE Cache(r).holder = "none" /\ FailedSince(Cache(r), served[kid])
    BY <1>2, <2>1, <2>8
  <2>9. Cache(r).holder = "none" =>
          Cache(r).lastAttempt <= served[kid] \/ FailedSince(Cache(r), served[kid])
    BY <1>1, <1>2, <2>4 DEF CacheKept
  <2> QED
    BY <2>6, <2>7, <2>8, <2>9
<1>9. CASE FetchFail(r)
  <2>1. PICK p : p.lastFailure = now /\ policies' = [policies EXCEPT ![g] = p]
    BY <1>2, <1>9 DEF FetchFail, Policy, JwtInv, Types
  <2> QED
    BY <1>7, <2>1
<1>10. CASE FetchStore(r)
  <2>1. bearer[r].at = "store"
    BY <1>10 DEF FetchStore, At
  <2>2. CASE bearer[r].read = << >>
    <3>1. PICK p : p.lastFailure = now /\ policies' = [policies EXCEPT ![g] = p]
      BY <1>2, <1>10, <2>2 DEF FetchStore, Policy, JwtInv, Types
    <3> QED
      BY <1>7, <3>1
  <2>3. CASE bearer[r].read # << >>
    <3>1. kid \notin DOMAIN bearer[r].read
      BY <1>6, <1>10, <2>3 DEF FetchStore
    <3>2. bearer[r].got <= served[kid] /\ now <= bearer[r].got + FetchTicks
      BY <1>1, <1>2, <2>1, <3>1 DEF CallKept, Reads, Downloads, Downloading
    <3>3. bearer[r].got \in Nat
      BY <1>2 DEF Call, Times
    <3> QED
      BY <1>3, <3>2, <3>3, Limits
  <2> QED
    BY <2>2, <2>3
<1> QED
  BY <1>5, <1>8, <1>9, <1>10

\* JwksCache::key: a kid that has been served for longer than the refresh interval
\* and a download is found, unless another request is downloading or one has failed.
THEOREM ServedKidsKnown == JwtSpec => KnownKid
<1>1. JwtInit => Mutex
  <2> SUFFICES ASSUME JwtInit PROVE Mutex
    OBVIOUS
  <2>1. JwtInv /\ \A g \in DOMAIN policies : policies[g] = Loaded
    BY InitInv DEF JwtInit
  <2>2. Loaded.holder \notin Bearers
    BY JwtAssumption DEF Loaded
  <2> QED
    BY <2>1, <2>2 DEF Mutex, JwtInv, Types
<1>2. JwtInv /\ Mutex /\ [JwtNext]_jwtVars => Mutex'
  BY MutexNext
<1>3. JwtInv /\ Mutex /\ [JwtNext]_jwtVars => [\A r \in Bearers : KidAnswered(r)]_jwtVars
  BY KidStep
<1> QED
  BY <1>1, <1>2, <1>3, Invariance, PTL DEF JwtSpec, KnownKid
===============================================================================
