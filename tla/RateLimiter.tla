----------------------------- MODULE RateLimiter -----------------------------
(***************************************************************************)
(* RateLimiter::check (src/src/rate_limit.rs): the sliding windows of the  *)
(* keys of an identity, charged one after the other, the periodic sweep    *)
(* and the cap on the keys that are remembered.                            *)
(*                                                                         *)
(* `requests` is a sharded map: a step is what happens under one entry's   *)
(* lock, and shrink_to_cap first collects its victims and then removes     *)
(* them one by one. A timestamp is kept as its age in ticks, and at Window *)
(* it has left the window. A call takes less than a tick.                  *)
(***************************************************************************)
EXTENDS Windows, FiniteSets, SequencesExt

CONSTANTS
  Callers,       \* requests that may be inside check at the same time
  RateNetworks,  \* site and client network of a RiskIdentity
  Routes,        \* route groups
  Credentials,   \* hashes of session, API key, subject, tenant
  Window,        \* RATE_LIMIT_WINDOW in ticks
  MaxRequests,   \* RATE_LIMIT_MAX over REPLICA_COUNT, at least 1
  MaxIps,        \* RATE_LIMIT_MAX_IPS, at least 1
  RateSweep      \* SWEEP_EVERY

RateAssumption ==
  /\ {Window, MaxRequests, MaxIps, RateSweep} \subseteq Nat \ {0}
  /\ IsFiniteSet(Callers) /\ IsFiniteSet(RateNetworks)
  /\ IsFiniteSet(Routes) /\ IsFiniteSet(Credentials)

VARIABLES
  requests,   \* DashMap<RateKey, Vec<Instant>>: ages of the charges of every tracked key
  hits,       \* calls counted, modulo RateSweep
  call,       \* where each caller is inside check
  admitted,   \* history: ages of the requests admitted under each key
  forgotten   \* history: keys the cap removed since the last tick

rateVars == <<requests, hits, call, admitted, forgotten>>

\* RateKey: Network, Route, and one for every credential the request carries
RateKey == (RateNetworks \X {"network"}) \cup (RateNetworks \X Routes) \cup (Credentials \X {"credential"})

RateIdentity == [network : RateNetworks, route : Routes, creds : SUBSET Credentials]

\* the order in which check charges them
KeysOf(id) ==
  << <<id.network, "network">>, <<id.network, id.route>> >>
    \o SetToSeq(id.creds \X {"credential"})

Idle == [at |-> "idle", keys |-> <<>>, i |-> 1, victims |-> {}]
At(c, where) == call[c].at = where

Live(q) == Retain(q, Window)
Tracked == DOMAIN requests

\* mutant: a key with one charge in the window counts as empty
EvictExpired_Early(m) ==
  LET kept == {k \in DOMAIN m : Len(Live(m[k])) > 1}
  IN  [k \in kept |-> Live(m[k])]

\* evict_expired: keys whose window is empty lose their entry
EvictExpired(m) ==
  LET kept == {k \in DOMAIN m : Live(m[k]) # <<>>}
  IN  [k \in kept |-> Live(m[k])]

Remember(c) == admitted' =
  [k \in RateKey |-> IF k \in Range(call[c].keys) \ forgotten THEN Append(admitted[k], 0) ELSE admitted[k]]

-----------------------------------------------------------------------------
\* check begins; every RateSweep-th call sweeps first
Check(c, id) ==
  /\ At(c, "idle")
  /\ hits' = (hits + 1) % RateSweep
  /\ call' = [call EXCEPT ![c] = [Idle EXCEPT !.keys = KeysOf(id),
                                              !.at = IF hits = 0 THEN "sweep" ELSE "charge"]]
  /\ UNCHANGED <<requests, admitted, forgotten>>

\* maybe_sweep: evict_expired, then shrink_to_cap that keeps nobody
Sweep(c) ==
  /\ At(c, "sweep")
  /\ requests' = EvictExpired(requests)
  /\ call' = [call EXCEPT ![c].at = "shrink"]
  /\ UNCHANGED <<hits, admitted, forgotten>>

\* the loop over the keys: one entry is trimmed, judged and charged
Charge(c) ==
  /\ At(c, "charge")
  /\ call[c].i <= Len(call[c].keys)
  /\ LET key == call[c].keys[call[c].i]
         entry == IF key \in Tracked THEN Live(requests[key]) ELSE <<>>
         Put(q) == [k \in Tracked \cup {key} |-> IF k = key THEN q ELSE requests[k]]
     IN  \/ /\ Len(entry) >= MaxRequests          \* 429; the keys before stay charged
            /\ requests' = Put(entry)
            /\ call' = [call EXCEPT ![c] = Idle]
         \/ /\ Len(entry) < MaxRequests
            /\ requests' = Put(Append(entry, 0))
            /\ call' = [call EXCEPT ![c].i = @ + 1]
  /\ UNCHANGED <<hits, admitted, forgotten>>

\* all keys charged: the request is admitted, and enforce_cap looks at the map
EnforceCap(c) ==
  /\ At(c, "charge")
  /\ call[c].i > Len(call[c].keys)
  /\ Remember(c)
  /\ \/ /\ Cardinality(Tracked) <= MaxIps
        /\ call' = [call EXCEPT ![c] = Idle]
        /\ UNCHANGED requests
     \/ /\ Cardinality(Tracked) > MaxIps
        /\ requests' = EvictExpired(requests)
        /\ call' = [call EXCEPT ![c].at = "cap"]
  /\ UNCHANGED <<hits, forgotten>>

Keep(c) == IF At(c, "cap") THEN Range(call[c].keys) ELSE {}
AfterShrink(c) == IF At(c, "cap") THEN Idle ELSE [call[c] EXCEPT !.at = "charge"]
LastAge(k) == Last(requests[k])

\* the keys whose last charge is oldest, as many as the overflow asks for
Victims(c) ==
  LET candidates == {k \in Tracked \ Keep(c) : requests[k] # <<>>}
      overflow == Cardinality(Tracked) - MaxIps
  IN  {v \in SUBSET candidates :
         /\ Cardinality(v) = IF overflow < Cardinality(candidates) THEN overflow
                                                                   ELSE Cardinality(candidates)
         /\ \A k \in v, other \in candidates \ v : LastAge(k) >= LastAge(other)}

\* shrink_to_cap collects and sorts
ShrinkCollect(c) ==
  /\ At(c, "shrink") \/ At(c, "cap")
  /\ call[c].victims = {}
  /\ \/ /\ Cardinality(Tracked) <= MaxIps
        /\ call' = [call EXCEPT ![c] = AfterShrink(c)]
     \/ /\ Cardinality(Tracked) > MaxIps
        /\ \E v \in Victims(c) :
             call' = [call EXCEPT ![c] = IF v = {} THEN AfterShrink(c)
                                                   ELSE [call[c] EXCEPT !.victims = v]]
  /\ UNCHANGED <<requests, hits, admitted, forgotten>>

\* and removes one key after the other, with what was charged to it meanwhile
ShrinkRemove(c) ==
  \E k \in call[c].victims :
    /\ requests' = [x \in Tracked \ {k} |-> requests[x]]
    /\ forgotten' = forgotten \cup {k}
    /\ admitted' = [admitted EXCEPT ![k] = <<>>]
    /\ call' = [call EXCEPT ![c] = IF call[c].victims = {k} THEN [AfterShrink(c) EXCEPT !.victims = {}]
                                   ELSE [call[c] EXCEPT !.victims = @ \ {k}]]
    /\ UNCHANGED hits

\* the clock
Tick ==
  /\ \A c \in Callers : At(c, "idle")
  /\ requests' = [k \in Tracked |-> Aged(requests[k], Window)]
  /\ admitted' = [k \in RateKey |-> Live(Aged(admitted[k], Window))]
  /\ forgotten' = {}
  /\ UNCHANGED <<hits, call>>

RateInit ==
  /\ requests = << >>
  /\ hits = 0
  /\ call = [c \in Callers |-> Idle]
  /\ admitted = [k \in RateKey |-> <<>>]
  /\ forgotten = {}

Step(c) == Sweep(c) \/ Charge(c) \/ EnforceCap(c) \/ ShrinkCollect(c) \/ ShrinkRemove(c)
RateNext == Tick \/ \E c \in Callers : Step(c) \/ \E id \in RateIdentity : Check(c, id)
RateSpec == RateInit /\ [][RateNext]_rateVars

-----------------------------------------------------------------------------
\* However the calls interleave, and although a refused request leaves the keys
\* before the refusing one charged, no key admits more than MaxRequests within a
\* window, as long as the cap has not made the limiter forget the key. And the map
\* stays bounded although only an admitted request enforces the cap: what refused
\* requests leave behind is limited by the sweep, whatever the keys are.  (A caller
\* that is slow to sweep lets the others come to the next sweep meanwhile.)
AdmittedWithinWindow ==
  \A k \in RateKey \ forgotten : Len(Live(admitted[k])) <= MaxRequests
KeysPerRequest == 2 + Cardinality(Credentials)
Kept == IF MaxIps < KeysPerRequest THEN KeysPerRequest ELSE MaxIps
TrackedBounded ==
  Cardinality(Tracked) <=
    Kept + Cardinality(Callers) * ((KeysPerRequest - 1) * (RateSweep - 1) + KeysPerRequest)
WindowHeld == AdmittedWithinWindow /\ TrackedBounded
=============================================================================
