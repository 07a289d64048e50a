------------------------------ MODULE Behavioral ------------------------------
(***************************************************************************)
(* src/src/behavioral.rs: the risk score of every key of an identity       *)
(* (network, and the subject and tenant of its token), the ban it leads    *)
(* to, and the clean-up that bounds the map of profiles.                   *)
(*                                                                         *)
(* PROFILES is a sharded map: what score_key, record_waf_block and         *)
(* record_response do to one key is one step. apply_decay is lazy in the   *)
(* code and loses nothing by it, so a tick takes Decay from every score.   *)
(* Paths and user agents are counted: a request brings a new one or a      *)
(* known one.                                                              *)
(***************************************************************************)
EXTENDS Naturals, Sequences, FiniteSets, SequencesExt

CONSTANTS
  Suspects,         \* requests that are scored
  RiskIdentities,   \* sequences of keys: behavior_keys
  RiskPoints,       \* points of [waf, paths, agents, noAgent, request, notFound, denied]
  Decay,            \* DECAY_RATE per tick
  SlowAt,           \* SCORE_THRESHOLD_SLOW
  BlockAt,          \* SCORE_THRESHOLD_BLOCK
  MaxScore,         \* bound: scores are not followed beyond it
  BanTicks,         \* BAN_DURATION_SECS
  StaleTicks,       \* the five minutes of cleanup_stale
  PathTicks,        \* PATH_DIVERSITY_WINDOW_SECS
  PathThreshold,    \* PATH_DIVERSITY_THRESHOLD
  AgentThreshold,   \* UA_ROTATION_THRESHOLD
  MaxTracked,       \* BEHAVIORAL_MAX_IPS
  CleanupInterval   \* CLEANUP_INTERVAL

RiskKeys == UNION {Range(id) : id \in RiskIdentities}

Scores == {"waf", "paths", "agents", "noAgent", "request", "notFound", "denied"}

BehaviorSettings ==
  /\ {Decay, StaleTicks, PathTicks, CleanupInterval} \subseteq Nat \ {0}
  /\ {BanTicks, MaxTracked, MaxScore} \subseteq Nat
  /\ {SlowAt, BlockAt} \subseteq 1..MaxScore
  /\ RiskPoints \in [Scores -> Nat]
  /\ IsFiniteSet(RiskKeys)
ASSUME BehaviorAssumption == BehaviorSettings

VARIABLES
  profiles,   \* PROFILES
  counter,    \* REQUEST_COUNTER: 0 at first, then 1 .. CleanupInterval and around
  scoring,    \* where each request is
  sentence    \* history: ticks left of the ban a key was given, 0 once it was pardoned

behaviorVars == <<profiles, counter, scoring, sentence>>

NewProfile == [score |-> 0, banned |-> 0, idle |-> 0, pathAge |-> 0, paths |-> 0, agents |-> 0,
               pathFlagged |-> FALSE, agentFlagged |-> FALSE]
NoScoring == [at |-> "idle", id |-> <<>>, i |-> 1, victims |-> {}]

Capped(n) == IF n > MaxScore THEN MaxScore ELSE n
AddScore(p, points) == [p EXCEPT !.score = Capped(@ + points)]
Profile(k) == IF k \in DOMAIN profiles THEN profiles[k] ELSE NewProfile
Put(k, p) == [x \in DOMAIN profiles \cup {k} |-> IF x = k THEN p ELSE profiles[x]]
ScoringAt(r, where) == scoring[r].at = where
CurrentKey(r) == scoring[r].id[scoring[r].i]
LastKey(r) == scoring[r].i = Len(scoring[r].id)

\* mutant: a ban is over one tick early
IsBanned_Short(p) == p.banned > 1
IsBanned(p) == p.banned > 0

\* reset_path_window_if_expired and add_hash
SeePath(p, fresh) ==
  LET q == IF p.pathAge >= PathTicks
             THEN [p EXCEPT !.pathAge = 0, !.paths = 0, !.pathFlagged = FALSE] ELSE p
  IN  IF q.paths = 0 \/ (fresh /\ q.paths <= PathThreshold) THEN [q EXCEPT !.paths = @ + 1] ELSE q

\* path diversity is flagged once per window
ScorePaths(p) ==
  IF ~p.pathFlagged /\ p.paths > PathThreshold
    THEN AddScore([p EXCEPT !.pathFlagged = TRUE], RiskPoints.paths) ELSE p

\* no user agent costs at every request, rotation once for the life of the profile
ScoreAgent(p, ua) ==
  LET q == IF p.agents = 0 \/ (ua = "fresh" /\ p.agents <= AgentThreshold)
             THEN [p EXCEPT !.agents = @ + 1] ELSE p
  IN  IF ua = "none" THEN AddScore(p, RiskPoints.noAgent)
      ELSE IF q.agentFlagged \/ q.agents <= AgentThreshold THEN q
      ELSE AddScore([q EXCEPT !.agentFlagged = TRUE], RiskPoints.agents)

Scored(p, fresh, ua) ==
  AddScore(ScoreAgent(ScorePaths(SeePath([p EXCEPT !.idle = 0], fresh)), ua), RiskPoints.request)

-----------------------------------------------------------------------------
\* check_and_record begins; every CleanupInterval-th but the first looks at the map
CheckAndRecord(r, id) ==
  /\ ScoringAt(r, "idle")
  /\ counter' = IF counter = CleanupInterval THEN 1 ELSE counter + 1
  /\ scoring' = [scoring EXCEPT ![r] = [NoScoring EXCEPT
       !.id = id, !.at = IF counter = CleanupInterval THEN "cleanup" ELSE "score"]]
  /\ UNCHANGED <<profiles, sentence>>

\* score_key for the next key; Block ends the request, Throttle is remembered
ScoreKey(r, fresh, ua) ==
  /\ ScoringAt(r, "score") \/ ScoringAt(r, "throttled")
  /\ LET k == CurrentKey(r)
         p == Profile(k)
         q == Scored(p, fresh, ua)
         Goes(where) == scoring' = [scoring EXCEPT ![r] =
           IF ~LastKey(r) THEN [@ EXCEPT !.i = @ + 1, !.at = where]
           ELSE IF where = "score" THEN [@ EXCEPT !.i = 1, !.at = "passed"] ELSE NoScoring]
     IN  \/ /\ IsBanned(p)
            /\ profiles' = Put(k, [p EXCEPT !.idle = 0])
            /\ scoring' = [scoring EXCEPT ![r] = NoScoring]
            /\ UNCHANGED sentence
         \/ /\ ~IsBanned(p) /\ q.score >= BlockAt
            /\ profiles' = Put(k, [q EXCEPT !.banned = BanTicks])
            /\ sentence' = [sentence EXCEPT ![k] = BanTicks]
            /\ scoring' = [scoring EXCEPT ![r] = NoScoring]
         \/ /\ ~IsBanned(p) /\ q.score < BlockAt
            /\ profiles' = Put(k, q)
            /\ Goes(IF q.score >= SlowAt THEN "throttled" ELSE scoring[r].at)
            /\ UNCHANGED sentence
  /\ UNCHANGED counter

\* a request that passed meets the WAF or the origin: which event it will record
Outcome(r, event) ==
  /\ ScoringAt(r, "passed")
  /\ scoring' = [scoring EXCEPT ![r] = IF event = "ok" THEN NoScoring ELSE [@ EXCEPT !.at = event]]
  /\ UNCHANGED <<profiles, counter, sentence>>

\* record_waf_block and record_response add to one key after the other; a ban is
\* only ever pronounced by the next score_key
Record(r, event) ==
  /\ ScoringAt(r, event)
  /\ LET k == CurrentKey(r)
     IN  profiles' = Put(k, AddScore([Profile(k) EXCEPT !.idle = 0], RiskPoints[event]))
  /\ scoring' = [scoring EXCEPT ![r] = IF LastKey(r) THEN NoScoring ELSE [@ EXCEPT !.i = @ + 1]]
  /\ UNCHANGED <<counter, sentence>>

\* forgetting a profile forgets its ban
Forgetting(gone) == [k \in DOMAIN profiles \ gone |-> profiles[k]]
Pardon(gone) == sentence' = [k \in RiskKeys |-> IF k \in gone THEN 0 ELSE sentence[k]]
IsStale(p) == p.score = 0 /\ p.idle > StaleTicks

\* cleanup_stale, phase 1: only over the cap, and only profiles at rest
CleanupStale(r) ==
  /\ ScoringAt(r, "cleanup")
  /\ \/ /\ Cardinality(DOMAIN profiles) <= MaxTracked
        /\ scoring' = [scoring EXCEPT ![r].at = "score"]
        /\ UNCHANGED <<profiles, sentence>>
     \/ /\ Cardinality(DOMAIN profiles) > MaxTracked
        /\ LET stale == {k \in DOMAIN profiles : IsStale(profiles[k])}
           IN  profiles' = Forgetting(stale) /\ Pardon(stale)
        /\ scoring' = [scoring EXCEPT ![r].at = "collect"]
  /\ UNCHANGED counter

\* phase 2: as many of the lowest scores as are too many
CleanupCollect(r) ==
  /\ ScoringAt(r, "collect")
  /\ LET over == Cardinality(DOMAIN profiles) - MaxTracked
     IN  \/ /\ Cardinality(DOMAIN profiles) <= MaxTracked
            /\ scoring' = [scoring EXCEPT ![r].at = "score"]
         \/ /\ Cardinality(DOMAIN profiles) > MaxTracked
            /\ \E v \in SUBSET DOMAIN profiles :
                 /\ Cardinality(v) = over
                 /\ \A k \in v, other \in DOMAIN profiles \ v :
                      profiles[k].score <= profiles[other].score
                 /\ scoring' = [scoring EXCEPT ![r].at = "remove", ![r].victims = v]
  /\ UNCHANGED <<profiles, counter, sentence>>

CleanupRemove(r) ==
  /\ ScoringAt(r, "remove")
  /\ \E k \in scoring[r].victims :
       /\ profiles' = Forgetting({k})
       /\ Pardon({k})
       /\ scoring' = [scoring EXCEPT
            ![r].victims = @ \ {k}, ![r].at = IF scoring[r].victims = {k} THEN "score" ELSE "remove"]
  /\ UNCHANGED counter

Down(n, by) == IF n > by THEN n - by ELSE 0
Grown(n, limit) == IF n < limit THEN n + 1 ELSE n

\* the clock: scores decay, bans run out
RiskTick ==
  /\ profiles' = [k \in DOMAIN profiles |->
       [profiles[k] EXCEPT !.score = Down(@, Decay), !.banned = Down(@, 1),
                           !.idle = Grown(@, StaleTicks + 1), !.pathAge = Grown(@, PathTicks)]]
  /\ sentence' = [k \in RiskKeys |-> Down(sentence[k], 1)]
  /\ UNCHANGED <<counter, scoring>>

BehaviorInit ==
  /\ profiles = << >>
  /\ counter = 0
  /\ scoring = [r \in Suspects |-> NoScoring]
  /\ sentence = [k \in RiskKeys |-> 0]

Events == {"waf", "notFound", "denied"}
BehaviorNext ==
  \/ RiskTick
  \/ \E r \in Suspects :
       \/ \E id \in RiskIdentities : CheckAndRecord(r, id)
       \/ \E fresh \in BOOLEAN, ua \in {"none", "known", "fresh"} : ScoreKey(r, fresh, ua)
       \/ \E event \in Events \cup {"ok"} : Outcome(r, event)
       \/ \E event \in Events : Record(r, event)
       \/ CleanupStale(r) \/ CleanupCollect(r) \/ CleanupRemove(r)
BehaviorSpec == BehaviorInit /\ [][BehaviorNext]_behaviorVars

-----------------------------------------------------------------------------
\* A ban is served: while the sentence of a key runs, its profile says so, and no
\* request that is scored on the key gets past it. Only the clean-up pardons.
BanServed ==
  \A k \in RiskKeys : sentence[k] > 0 => /\ k \in DOMAIN profiles
                                         /\ profiles[k].banned = sentence[k]
                                         /\ IsBanned(profiles[k])
=============================================================================
