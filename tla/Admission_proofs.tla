--------------------------- MODULE Admission_proofs ---------------------------
(***************************************************************************)
(* What is let in, for every instance of the modules that decide it.       *)
(*                                                                         *)
(*   Authz          the callback obeys the service, whatever pieces its    *)
(*                  answer comes in                                        *)
(*   Behavioral     a ban is served until the clean-up pardons it          *)
(*   ClientAddress  the client is the nearest hop that is not trusted      *)
(*   Console        a reload is not late by more than its body, and a      *)
(*                  sign-in gives one session                              *)
(*   Cidrs          a failed update leaves the last lists that were good   *)
(*   Abuse          the addresses of one fingerprint share its quota       *)
(*   GraphqlQuota   a policy admits no more cost in its window than its    *)
(*                  quota                                                  *)
(*   RateLimiter    a key admits no more requests in the window than the   *)
(*                  limit                                                  *)
(*                                                                         *)
(* Each section has its inductive invariant, a lemma for every action and  *)
(* the theorem.                                                            *)
(***************************************************************************)
EXTENDS Authz, Behavioral, ClientAddress, Cidrs, Console, Abuse, GraphqlQuota,
        RateLimiter, Lemmas, SequenceTheorems

Callbacks == {"load", "apply", "connect", "write", "read", "passed", "denied", "refused"}

AuthzTypes ==
  /\ answer \in Answers
  /\ callback \in Callbacks
  /\ got \in Nat

\* While the service is asked: there is something to ask, and what was read so far
\* does not hold a decision.
Asked == Waiting => /\ Named
                    /\ ~Whole
                    /\ callback # "read" => got = 0

AuthzInv == AuthzTypes /\ Asked /\ (callback \in {"load", "apply"} => got = 0) /\ DecisionObeyed

-----------------------------------------------------------------------------
(* The authorization callback. *)

\* What the bounds are and what an answer has.
LEMMA AnswerTypes ==
  ASSUME AuthzTypes
  PROVE  /\ HeadLen \in Nat \ {0} /\ ReadSize \in Nat \ {0} /\ MaxResponse \in Nat \ {0}
         /\ answer.doc \in Nat \ {0} /\ answer.sent \in Nat
         /\ answer.length \in Nat \cup {-1}
  BY AuthzAssumption DEF AuthzTypes, Absent

\* Giving up leaves a request that nothing whole was read for.
LEMMA UnavailableInv ==
  ASSUME AuthzInv, Waiting, Decide("unavailable"),
         UNCHANGED <<policy, request, answer, got>>
  PROVE  AuthzInv'
<1>1. Named /\ ~Whole
  BY DEF AuthzInv, Asked
<1>2. Named' /\ ~Whole'
  BY <1>1 DEF Named, extract_resource, needs_body, Whole, Framed
<1>3. callback' = "passed" => policy'.fail_mode = "open"
  BY DEF Decide, Passed
<1>4. callback' \in {"passed", "denied"}
  BY DEF Decide
<1> QED
  BY <1>2, <1>3, <1>4 DEF AuthzInv, AuthzTypes, Asked, Waiting, DecisionObeyed, Callbacks

\* Steps of the exchange that read nothing.
LEMMA OnwardInv ==
  ASSUME AuthzInv, Proceed \/ AuthzTick
  PROVE  AuthzInv'
<1>1. Waiting /\ Named /\ ~Whole
  BY DEF AuthzInv, Asked, Proceed, AuthzTick, Waiting
<1>2. Named' /\ ~Whole'
  BY <1>1 DEF Proceed, AuthzTick, Named, extract_resource, needs_body, Whole, Framed
<1>3. Waiting' /\ callback' \in Callbacks /\ (callback' # "read" => got' = 0)
  BY DEF AuthzInv, AuthzTypes, Asked, Proceed, AuthzTick, Waiting, Callbacks
<1> QED
  BY <1>2, <1>3 DEF AuthzInv, AuthzTypes, Asked, Waiting, DecisionObeyed, Proceed, AuthzTick

\* A policy is loaded, and a request without principal or resource denied unasked.
LEMMA ApplyInv ==
  ASSUME AuthzInv, Load \/ Apply
  PROVE  AuthzInv'
<1>1. got = 0 /\ got' = 0 /\ answer' = answer
  BY DEF AuthzInv, Load, Apply
<1>2. ~Whole'
  BY <1>1, AnswerTypes DEF AuthzInv, Whole
<1>3. CASE Load
  BY <1>1, <1>3 DEF Load, AuthzInv, AuthzTypes, Asked, Waiting, DecisionObeyed, Callbacks
<1>4. CASE Apply /\ Named
  <2>1. callback' = "connect"
    BY <1>4 DEF Apply, Named
  <2>2. Named'
    BY <1>4 DEF Apply, Named, extract_resource, needs_body
  <2> QED
    BY <1>1, <1>2, <2>1, <2>2 DEF AuthzInv, AuthzTypes, Asked, Waiting, DecisionObeyed, Callbacks
<1>5. CASE Apply /\ ~Named
  <2>1. callback' = "denied"
    BY <1>5 DEF Apply, Named, Decide, Passed
  <2>2. ~Named'
    BY <1>5 DEF Apply, Named, extract_resource, needs_body
  <2> QED
    BY <1>1, <2>1, <2>2 DEF AuthzInv, AuthzTypes, Asked, Waiting, DecisionObeyed, Callbacks
<1> QED
  BY <1>3, <1>4, <1>5

\* What a piece of the answer amounts to: a decision is read off a whole document, and
\* off a document whose length the head gives as soon as it is whole.
LEMMA Parsed ==
  ASSUME AuthzTypes, NEW m \in Nat
  PROVE  LET parsed == try_parse_http(m)
         IN  /\ parsed.is \in {"incomplete", "error", "response"}
             /\ parsed.is = "error" => ~Framed
             /\ parsed.is = "incomplete" /\ Framed => m < HeadLen + answer.doc
             /\ parsed.is = "response" =>
                  /\ parsed.body = answer.doc => m >= HeadLen + answer.doc
                  /\ Framed => parsed.body = answer.doc
<1>1. CASE m - HeadLen < 0
  BY <1>1, AnswerTypes DEF try_parse_http
<1>2. CASE m - HeadLen >= 0 /\ answer.head # "ok"
  BY <1>2, AnswerTypes DEF try_parse_http, Framed
<1>3. CASE m - HeadLen >= 0 /\ answer.head = "ok" /\ answer.length = Absent
  BY <1>3, AnswerTypes DEF try_parse_http, Framed, Absent
<1>4. CASE /\ m - HeadLen >= 0 /\ answer.head = "ok" /\ answer.length # Absent
           /\ m - HeadLen < answer.length
  BY <1>4, AnswerTypes DEF try_parse_http, Framed, Absent
<1>5. CASE /\ m - HeadLen >= 0 /\ answer.head = "ok" /\ answer.length # Absent
           /\ ~(m - HeadLen < answer.length)
  BY <1>5, AnswerTypes DEF try_parse_http, Framed, Absent
<1> QED
  BY <1>1, <1>2, <1>3, <1>4, <1>5, AnswerTypes

\* A read decides by what it completes.
LEMMA ReadInv ==
  ASSUME AuthzInv, NEW n \in 1..ReadSize, Read(n)
  PROVE  AuthzInv'
<1> DEFINE parsed == try_parse_http(got')
<1>1. got' \in Nat /\ callback = "read"
  BY AnswerTypes DEF AuthzInv, AuthzTypes, Read
<1>2. Named' /\ (Framed' <=> Framed) /\ (Whole' <=> (Framed /\ got' >= HeadLen + answer.doc /\ got' <= MaxResponse))
  <2>1. Named
    BY <1>1 DEF AuthzInv, Asked, Waiting
  <2> QED
    BY <2>1 DEF Read, Named, extract_resource, needs_body, Whole, Framed
<1>3. answer' = answer /\ policy' = policy
  BY DEF Read
<1> HIDE DEF parsed
<1>4. /\ parsed.is \in {"incomplete", "error", "response"}
      /\ parsed.is = "error" => ~Framed
      /\ parsed.is = "incomplete" /\ Framed => got' < HeadLen + answer.doc
      /\ parsed.is = "response" =>
           /\ parsed.body = answer.doc => got' >= HeadLen + answer.doc
           /\ Framed => parsed.body = answer.doc
  BY <1>1, Parsed DEF AuthzInv, parsed
<1>5. CASE got' > MaxResponse \/ parsed.is = "error"
  <2>1. Decide("unavailable")
    BY <1>5, <1>1, <1>4, AnswerTypes DEF Read, parsed, AuthzInv
  <2>2. ~Whole'
    BY <1>1, <1>2, <1>4, <1>5, AnswerTypes DEF AuthzInv
  <2> QED
    BY <1>1, <1>2, <1>3, <2>1, <2>2
    DEF Decide, Passed, AuthzInv, AuthzTypes, Asked, Waiting, DecisionObeyed, Callbacks
<1>6. CASE got' <= MaxResponse /\ parsed.is = "response"
  <2> DEFINE v == parse_allow_body(parsed.body)
  <2>1. Decide(v)
    BY <1>6, <1>1, <1>4, AnswerTypes DEF Read, parsed, AuthzInv
  <2>2. \/ v = "allow" /\ answer.json = "allow" /\ answer.status = 200 /\ got' >= HeadLen + answer.doc
        \/ v = "deny" /\ answer.json = "deny"
        \/ v = "unavailable" /\ ~Whole'
    BY <1>2, <1>4, <1>6 DEF parse_allow_body, Framed
  <2> HIDE DEF v
  <2> QED
    BY <1>1, <1>2, <1>3, <2>1, <2>2
    DEF Decide, Passed, AuthzInv, AuthzTypes, Asked, Waiting, DecisionObeyed, Callbacks
<1>7. CASE got' <= MaxResponse /\ parsed.is = "incomplete"
  <2>1. callback' = callback
    BY <1>7, <1>1, <1>4, AnswerTypes DEF Read, parsed, AuthzInv
  <2>2. ~Whole'
    BY <1>1, <1>2, <1>4, <1>7, AnswerTypes DEF AuthzInv
  <2> QED
    BY <1>1, <1>2, <1>3, <2>1, <2>2
    DEF AuthzInv, AuthzTypes, Asked, Waiting, DecisionObeyed, Callbacks
<1> QED
  BY <1>1, <1>4, <1>5, <1>6, <1>7, AnswerTypes DEF AuthzInv

\* A callback starts with nothing read and nothing decided.
LEMMA AuthzInitInv == AuthzInit => AuthzInv
<1> SUFFICES ASSUME AuthzInit PROVE AuthzInv
  OBVIOUS
<1> QED
  BY DEF AuthzInit, AuthzInv, AuthzTypes, Asked, Waiting, DecisionObeyed, Callbacks

\* Every step of the callback keeps the invariant.
LEMMA AuthzNextInv == AuthzInv /\ [AuthzNext]_authzVars => AuthzInv'
<1> SUFFICES ASSUME AuthzInv, [AuthzNext]_authzVars PROVE AuthzInv'
  OBVIOUS
<1>1. CASE Load \/ Apply
  BY <1>1, ApplyInv
<1>2. CASE Proceed \/ AuthzTick
  BY <1>2, OnwardInv
<1>3. CASE Fail \/ Eof \/ Timeout
  BY <1>3, UnavailableInv DEF Fail, Eof, Timeout, Waiting
<1>4. CASE \E n \in 1..ReadSize : Read(n)
  BY <1>4, ReadInv
<1>5. CASE UNCHANGED authzVars
  BY <1>5 DEF authzVars, AuthzInv, AuthzTypes, Asked, Waiting, DecisionObeyed, Named, Whole,
              Framed, extract_resource, needs_body
<1> QED
  BY <1>1, <1>2, <1>3, <1>4, <1>5 DEF AuthzNext

\* Whatever pieces the answer comes in and however late it is, a request passes only on the
\* service's word or, without one, on a route that fails open; a denial that was read whole is
\* obeyed (authz.rs: decide, query_socket).
THEOREM ServiceObeyed == AuthzSpec => []DecisionObeyed
<1>1. AuthzInv => DecisionObeyed
  BY DEF AuthzInv
<1> QED
  BY AuthzInitInv, AuthzNextInv, <1>1, PTL DEF AuthzSpec

-----------------------------------------------------------------------------
(* Bans. *)

ProfileRec == [score : Nat, banned : Nat, idle : Nat, pathAge : Nat, paths : Nat, agents : Nat,
               pathFlagged : BOOLEAN, agentFlagged : BOOLEAN]

BanInv ==
  /\ \A k \in DOMAIN profiles : profiles[k] \in ProfileRec
  /\ sentence \in [RiskKeys -> Nat]
  /\ BanServed

\* Points are added to the score of a profile and to nothing else.
LEMMA AddScoreKeeps ==
  ASSUME NEW p \in ProfileRec, NEW points \in Nat
  PROVE  AddScore(p, points) \in ProfileRec /\ AddScore(p, points).banned = p.banned
  BY BehaviorAssumption DEF ProfileRec, AddScore, Capped, BehaviorSettings

\* Whatever a request is found to have done, scoring it leaves a ban as it is.
LEMMA ScoredKeeps ==
  ASSUME NEW p \in ProfileRec, NEW fresh \in BOOLEAN, NEW ua \in {"none", "known", "fresh"}
  PROVE  Scored(p, fresh, ua) \in ProfileRec /\ Scored(p, fresh, ua).banned = p.banned
<1> DEFINE Same(x) == x \in ProfileRec /\ x.banned = p.banned
           a == [p EXCEPT !.idle = 0]
           b == SeePath(a, fresh)
           c == ScorePaths(b)
           d == ScoreAgent(c, ua)
<1>1. \A s \in Scores : RiskPoints[s] \in Nat
  BY BehaviorAssumption DEF BehaviorSettings
<1>2. Same(a)
  BY DEF ProfileRec
<1>3. Same(b)
  <2>1. Same([a EXCEPT !.pathAge = 0, !.paths = 0, !.pathFlagged = FALSE])
    BY <1>2 DEF ProfileRec
  <2> DEFINE q == IF a.pathAge >= PathTicks
                    THEN [a EXCEPT !.pathAge = 0, !.paths = 0, !.pathFlagged = FALSE] ELSE a
  <2>2. Same(q)
    BY <1>2, <2>1
  <2>3. b = q \/ b = [q EXCEPT !.paths = @ + 1]
    BY DEF SeePath
  <2> HIDE DEF q
  <2>4. Same([q EXCEPT !.paths = @ + 1])
    BY <2>2 DEF ProfileRec
  <2> QED
    BY <2>2, <2>3, <2>4
<1> HIDE DEF a
<1>4. Same(c)
  <2> HIDE DEF b
  <2>1. Same([b EXCEPT !.pathFlagged = TRUE])
    BY <1>3 DEF ProfileRec
  <2>2. RiskPoints.paths \in Nat
    BY <1>1 DEF Scores
  <2>3. c = b \/ c = AddScore([b EXCEPT !.pathFlagged = TRUE], RiskPoints.paths)
    BY DEF ScorePaths
  <2> QED
    BY <1>3, <2>1, <2>2, <2>3, AddScoreKeeps
<1> HIDE DEF b
<1>5. Same(d)
  <2> HIDE DEF c
  <2> DEFINE q == IF c.agents = 0 \/ (ua = "fresh" /\ c.agents <= AgentThreshold)
                    THEN [c EXCEPT !.agents = @ + 1] ELSE c
  <2>1. Same([c EXCEPT !.agents = @ + 1])
    BY <1>4 DEF ProfileRec
  <2>2. Same(q)
    BY <1>4, <2>1
  <2>3. \/ d = AddScore(c, RiskPoints.noAgent)
        \/ d = q
        \/ d = AddScore([q EXCEPT !.agentFlagged = TRUE], RiskPoints.agents)
    BY DEF ScoreAgent
  <2> HIDE DEF q
  <2>4. Same([q EXCEPT !.agentFlagged = TRUE])
    BY <2>2 DEF ProfileRec
  <2>5. RiskPoints.noAgent \in Nat /\ RiskPoints.agents \in Nat
    BY <1>1 DEF Scores
  <2> QED
    BY <1>4, <2>2, <2>3, <2>4, <2>5, AddScoreKeeps
<1> HIDE DEF c
<1>6. Scored(p, fresh, ua) = AddScore(d, RiskPoints.request)
  BY DEF Scored, a, b, c
<1>7. RiskPoints.request \in Nat
  BY <1>1 DEF Scores
<1> HIDE DEF d
<1> QED
  BY <1>5, <1>6, <1>7, AddScoreKeeps

\* A profile that keeps its ban is written back.
LEMMA PutInv ==
  ASSUME BanInv, NEW k, NEW p \in ProfileRec, p.banned = Profile(k).banned,
         profiles' = Put(k, p), sentence' = sentence
  PROVE  BanInv'
<1>1. \A x \in DOMAIN profiles' : profiles'[x] \in ProfileRec
  BY DEF BanInv, Put
<1>2. ASSUME NEW x \in RiskKeys, sentence'[x] > 0
      PROVE  /\ x \in DOMAIN profiles'
             /\ profiles'[x].banned = sentence'[x]
             /\ IsBanned(profiles'[x])
  BY <1>2 DEF BanInv, BanServed, Put, Profile, IsBanned
<1> QED
  BY <1>1, <1>2 DEF BanInv, BanServed

\* What is forgotten is pardoned with it.
LEMMA ForgetInv ==
  ASSUME BanInv, NEW gone, profiles' = Forgetting(gone), Pardon(gone)
  PROVE  BanInv'
<1>1. \A x \in DOMAIN profiles' : profiles'[x] \in ProfileRec
  BY DEF BanInv, Forgetting
<1>2. sentence' \in [RiskKeys -> Nat]
  BY DEF BanInv, Pardon
<1>3. ASSUME NEW x \in RiskKeys, sentence'[x] > 0
      PROVE  /\ x \in DOMAIN profiles'
             /\ profiles'[x].banned = sentence'[x]
             /\ IsBanned(profiles'[x])
  BY <1>3 DEF BanInv, BanServed, Forgetting, Pardon, IsBanned
<1> QED
  BY <1>1, <1>2, <1>3 DEF BanInv, BanServed

\* What a key is scored on is a profile, a new one if there was none.
LEMMA ProfileType ==
  ASSUME BanInv, NEW k
  PROVE  Profile(k) \in ProfileRec /\ [Profile(k) EXCEPT !.idle = 0] \in ProfileRec
<1>1. Profile(k) \in ProfileRec
  BY DEF BanInv, Profile, NewProfile, ProfileRec
<1> QED
  BY <1>1 DEF ProfileRec

\* Scoring a request on one of its keys may ban the key, and never shortens a ban.
LEMMA ScoreKeyInv ==
  ASSUME BanInv, NEW r \in Suspects, NEW fresh \in BOOLEAN, NEW ua \in {"none", "known", "fresh"},
         ScoreKey(r, fresh, ua)
  PROVE  BanInv'
<1> DEFINE k == CurrentKey(r)
           p == Profile(k)
           q == Scored(p, fresh, ua)
<1>1. p \in ProfileRec /\ [p EXCEPT !.idle = 0] \in ProfileRec
  BY ProfileType
<1>2. q \in ProfileRec /\ q.banned = p.banned
  BY <1>1, ScoredKeeps
<1>3. \/ profiles' = Put(k, [p EXCEPT !.idle = 0]) /\ sentence' = sentence
      \/ profiles' = Put(k, [q EXCEPT !.banned = BanTicks])
           /\ sentence' = [sentence EXCEPT ![k] = BanTicks]
      \/ profiles' = Put(k, q) /\ sentence' = sentence
  BY DEF ScoreKey
<1> HIDE DEF q
<1>4. CASE profiles' = Put(k, [p EXCEPT !.idle = 0]) /\ sentence' = sentence
  <2>1. [p EXCEPT !.idle = 0].banned = Profile(k).banned
    BY <1>1 DEF ProfileRec
  <2> QED
    BY <1>1, <1>4, <2>1, PutInv
<1>5. CASE profiles' = Put(k, q) /\ sentence' = sentence
  BY <1>2, <1>5, PutInv
<1>6. CASE profiles' = Put(k, [q EXCEPT !.banned = BanTicks])
             /\ sentence' = [sentence EXCEPT ![k] = BanTicks]
  <2>1. BanTicks \in Nat
    BY BehaviorAssumption DEF BehaviorSettings
  <2>2. [q EXCEPT !.banned = BanTicks] \in ProfileRec
          /\ [q EXCEPT !.banned = BanTicks].banned = BanTicks
    BY <1>2, <2>1 DEF ProfileRec
  <2> HIDE DEF k
  <2>3. \A x \in DOMAIN profiles' : profiles'[x] \in ProfileRec
    BY <1>6, <2>2 DEF BanInv, Put
  <2>4. sentence' \in [RiskKeys -> Nat]
    BY <1>6, <2>1 DEF BanInv
  <2>5. ASSUME NEW x \in RiskKeys, sentence'[x] > 0
        PROVE  /\ x \in DOMAIN profiles'
               /\ profiles'[x].banned = sentence'[x]
               /\ IsBanned(profiles'[x])
    BY <1>6, <2>1, <2>2, <2>5 DEF BanInv, BanServed, Put, IsBanned
  <2> QED
    BY <2>3, <2>4, <2>5 DEF BanInv, BanServed
<1> QED
  BY <1>3, <1>4, <1>5, <1>6

\* So does an outcome that is recorded afterwards.
LEMMA RecordInv ==
  ASSUME BanInv, NEW r \in Suspects, NEW event \in Events, Record(r, event)
  PROVE  BanInv'
<1> DEFINE k == CurrentKey(r)
           p == [Profile(k) EXCEPT !.idle = 0]
<1>1. p \in ProfileRec /\ p.banned = Profile(k).banned
  BY ProfileType DEF ProfileRec
<1>2. RiskPoints[event] \in Nat
  BY BehaviorAssumption DEF Events, Scores, BehaviorSettings
<1>3. profiles' = Put(k, AddScore(p, RiskPoints[event])) /\ sentence' = sentence
  BY DEF Record
<1> HIDE DEF k, p
<1>4. AddScore(p, RiskPoints[event]) \in ProfileRec
        /\ AddScore(p, RiskPoints[event]).banned = Profile(k).banned
  BY <1>1, <1>2, AddScoreKeeps
<1> QED
  BY <1>3, <1>4, PutInv

\* Ban and sentence run out together.
LEMMA RiskTickInv == ASSUME BanInv, RiskTick PROVE BanInv'
<1>1. Decay \in Nat /\ StaleTicks \in Nat /\ PathTicks \in Nat
  BY BehaviorAssumption DEF BehaviorSettings
<1>2. \A n \in Nat, m \in Nat : Down(n, m) \in Nat /\ Grown(n, m) \in Nat
  BY DEF Down, Grown
<1>3. ASSUME NEW x \in DOMAIN profiles'
      PROVE  profiles'[x] \in ProfileRec /\ x \in DOMAIN profiles
               /\ profiles'[x].banned = Down(profiles[x].banned, 1)
  <2> DEFINE p == profiles[x]
  <2>1. x \in DOMAIN profiles
    BY <1>3 DEF RiskTick
  <2>2. p \in ProfileRec
    BY <2>1 DEF BanInv
  <2>3. profiles'[x] = [p EXCEPT !.score = Down(@, Decay), !.banned = Down(@, 1),
                                 !.idle = Grown(@, StaleTicks + 1), !.pathAge = Grown(@, PathTicks)]
    BY <2>1 DEF RiskTick
  <2>4. /\ Down(p.score, Decay) \in Nat /\ Down(p.banned, 1) \in Nat
        /\ Grown(p.idle, StaleTicks + 1) \in Nat /\ Grown(p.pathAge, PathTicks) \in Nat
    <3>1. p.score \in Nat /\ p.banned \in Nat /\ p.idle \in Nat /\ p.pathAge \in Nat
      BY <2>2 DEF ProfileRec
    <3>2. 1 \in Nat /\ StaleTicks + 1 \in Nat
      BY <1>1
    <3> HIDE DEF p
    <3> QED
      BY <1>1, <1>2, <3>1, <3>2
  <2> HIDE DEF p
  <2>5. profiles'[x] \in ProfileRec /\ profiles'[x].banned = Down(p.banned, 1)
    BY <2>2, <2>3, <2>4 DEF ProfileRec
  <2> QED
    BY <2>1, <2>5 DEF p
<1>4. sentence' \in [RiskKeys -> Nat]
  BY <1>2 DEF BanInv, RiskTick
<1>5. ASSUME NEW x \in RiskKeys, sentence'[x] > 0
      PROVE  /\ x \in DOMAIN profiles'
             /\ profiles'[x].banned = sentence'[x]
             /\ IsBanned(profiles'[x])
  <2>1. sentence'[x] = Down(sentence[x], 1) /\ sentence[x] \in Nat
    BY DEF RiskTick, BanInv
  <2>2. sentence[x] > 0
    BY <1>5, <2>1 DEF Down
  <2>3. x \in DOMAIN profiles' /\ profiles[x].banned = sentence[x]
    BY <2>2 DEF BanInv, BanServed, RiskTick
  <2> QED
    BY <1>3, <1>5, <2>1, <2>3 DEF IsBanned
<1> QED
  BY <1>3, <1>4, <1>5 DEF BanInv, BanServed

\* No profile, no sentence.
LEMMA BanInitInv == BehaviorInit => BanInv
<1> SUFFICES ASSUME BehaviorInit PROVE BanInv
  OBVIOUS
<1>1. DOMAIN profiles = {}
  BY DEF BehaviorInit
<1> QED
  BY <1>1 DEF BehaviorInit, BanInv, BanServed

\* Every step keeps the invariant: the clean-up lets go only of keys it pardons.
LEMMA BanNextInv == BanInv /\ [BehaviorNext]_behaviorVars => BanInv'
<1> SUFFICES ASSUME BanInv, [BehaviorNext]_behaviorVars PROVE BanInv'
  OBVIOUS
<1>1. CASE UNCHANGED <<profiles, sentence>>
  BY <1>1 DEF BanInv, BanServed
<1>2. CASE RiskTick
  BY <1>2, RiskTickInv
<1>3. ASSUME NEW r \in Suspects, NEW fresh \in BOOLEAN, NEW ua \in {"none", "known", "fresh"},
             ScoreKey(r, fresh, ua)
      PROVE  BanInv'
  BY <1>3, ScoreKeyInv
<1>4. ASSUME NEW r \in Suspects, NEW event \in Events, Record(r, event)
      PROVE  BanInv'
  BY <1>4, RecordInv
<1>5. ASSUME NEW r \in Suspects, CleanupStale(r) \/ CleanupRemove(r)
      PROVE  BanInv'
  <2>1. \/ UNCHANGED <<profiles, sentence>>
        \/ \E gone : profiles' = Forgetting(gone) /\ Pardon(gone)
    BY <1>5 DEF CleanupStale, CleanupRemove
  <2> QED
    BY <1>1, <2>1, ForgetInv
<1>6. ASSUME NEW r \in Suspects,
             \/ \E id \in RiskIdentities : CheckAndRecord(r, id)
             \/ \E event \in Events \cup {"ok"} : Outcome(r, event)
             \/ CleanupCollect(r)
      PROVE  BanInv'
  BY <1>1, <1>6 DEF CheckAndRecord, Outcome, CleanupCollect
<1>7. CASE UNCHANGED behaviorVars
  BY <1>1, <1>7 DEF behaviorVars
<1> QED
  BY <1>2, <1>3, <1>4, <1>5, <1>6, <1>7 DEF BehaviorNext

\* While the sentence of a key runs its profile says so, whoever scores, records or cleans up
\* meanwhile (behavioral.rs: check_and_record, record_waf_block, record_response,
\* cleanup_stale).
THEOREM BansServed == BehaviorSpec => []BanServed
<1>1. BanInv => BanServed
  BY DEF BanInv
<1> QED
  BY BanInitInv, BanNextInv, <1>1, PTL DEF BehaviorSpec

-----------------------------------------------------------------------------
(* The client's address. *)

\* The cases NearestUntrusted speaks of: only X-Forwarded-For moves the address.
OnlyXff == ~accept /\ extra = <<>>
XffLeft == \E k \in 1..Len(order) : order[k] = "x-forwarded-for"
Settled == \E k \in 0..Len(xff) : Nearest(k) /\ current = Hop(k)

\* Hops 0 .. j were walked: all readable, all but the last trusted, the rest is left.
Walked(j) ==
  /\ current = Hop(j)
  /\ \A i \in 0..(j - 1) : Hop(i) \in Trusted
  /\ \A i \in 0..j : Hop(i) # "bad"
  /\ Len(hops) = Len(xff) - j
  /\ \A i \in 1..Len(hops) : hops[i] = xff[i]

\* An order may name the header twice: the walk begins again from where it ended.
WalkedAgain == hops = xff /\ Settled /\ current \in Trusted

AddressTypes ==
  /\ {xff, forwarded, hops} \subseteq Seq(Entries) /\ order \in Seq(Sources)
  /\ peer \in Addresses

AddressInv ==
  /\ AddressTypes
  /\ phase = "accepted" => hops = <<>> /\ XffLeft /\ current = peer
  /\ OnlyXff => /\ phase = "done" => Settled
                /\ hops = <<>> => (XffLeft /\ current = peer) \/ Settled
                /\ hops # <<>> => (\E j \in 0..Len(xff) : Walked(j)) \/ WalkedAgain

\* A header is a sequence of entries.
LEMMA HeaderTypes == ASSUME NEW h \in Headers PROVE h \in Seq(Entries)
<1>1. PICK n \in 0..MaxHops : h \in [1..n -> Entries]
  BY DEF Headers
<1> QED
  BY <1>1, AddressAssumption DEF AddressSettings

\* The peer is the nearest hop when it is not trusted, or when it reports nothing.
LEMMA PeerSettles ==
  ASSUME AddressTypes, current = peer, peer \notin Trusted \/ xff = <<>>
  PROVE  Settled
<1>1. Hop(0) = peer /\ Hop(0) # "bad"
  BY AddressAssumption DEF Hop, AddressTypes, AddressSettings
<1>2. xff = <<>> => Len(xff) = 0
  OBVIOUS
<1>3. Nearest(0)
  BY <1>1, <1>2 DEF Nearest
<1>4. 0 \in 0..Len(xff)
  BY DEF AddressTypes
<1> QED
  BY <1>1, <1>3, <1>4 DEF Settled

\* A connection starts at the address of its peer.
LEMMA AddressInitInv == AddressInit => AddressInv
<1> SUFFICES ASSUME AddressInit PROVE AddressInv
  OBVIOUS
<1>1. AddressTypes /\ hops = <<>> /\ current = peer /\ phase = "accepted"
  BY HeaderTypes, AddressAssumption DEF AddressInit, AddressTypes, AddressSettings
<1>2. XffLeft
  BY AddressAssumption DEF AddressInit, XffLeft, AddressSettings
<1> QED
  BY <1>1, <1>2 DEF AddressInv

\* The PROXY header is read, or there is none, before any other source is consulted.
LEMMA ConnectionInv ==
  ASSUME AddressInv,
         NoProxyHeader \/ \E result \in Addresses \cup {"local", "error"} : ProxyHeader(result)
  PROVE  AddressInv'
<1>1. /\ phase = "accepted" /\ phase' \in {"resolving", "refused"}
      /\ UNCHANGED <<accept, order, hops, xff, forwarded, extra>>
      /\ peer' \in Addresses /\ (current = peer => current' = peer')
  BY DEF ProxyHeader, NoProxyHeader, AddressInv, AddressTypes
<1>2. hops' = <<>> /\ XffLeft' /\ current' = peer'
  BY <1>1 DEF AddressInv, XffLeft
<1> QED
  BY <1>1, <1>2 DEF AddressInv, AddressTypes

\* Nothing that the address is settled by changes.
LEMMA SettledStays ==
  ASSUME Settled, UNCHANGED <<xff, peer, current>>
  PROVE  Settled'
<1>1. PICK k \in 0..Len(xff) : Nearest(k) /\ current = Hop(k)
  BY DEF Settled
<1>2. Nearest(k)' /\ current' = Hop(k)'
  BY <1>1 DEF Nearest, Hop
<1> QED
  BY <1>1, <1>2 DEF Settled

\* A source that is not walked and does not speak leaves the address as it is.
LEMMA SkipInv ==
  ASSUME AddressInv, phase = "resolving", hops = <<>>, order # <<>>,
         OnlyXff /\ Head(order) = "x-forwarded-for" => Settled,
         OnlyXff => current' = current,
         order' = Tail(order), hops' = <<>>,
         UNCHANGED <<phase, accept, xff, forwarded, extra, peer>>
  PROVE  AddressInv'
<1>1. AddressTypes'
  BY DEF AddressInv, AddressTypes
<1>2. ASSUME OnlyXff'
      PROVE  (XffLeft /\ current = peer)' \/ Settled'
  <2>1. OnlyXff /\ current' = current
    BY <1>2 DEF OnlyXff
  <2>2. CASE Settled
    BY <2>1, <2>2, SettledStays
  <2>3. CASE ~Settled
    <3>1. XffLeft /\ current = peer /\ Head(order) # "x-forwarded-for"
      BY <2>1, <2>3 DEF AddressInv
    <3>2. PICK k \in 1..Len(order) : order[k] = "x-forwarded-for"
      BY <3>1 DEF XffLeft
    <3>3. order \in Seq(Sources) /\ k # 1
      BY <3>1, <3>2 DEF AddressInv, AddressTypes
    <3>4. k - 1 \in 1..Len(order') /\ order'[k - 1] = "x-forwarded-for"
      BY <3>2, <3>3
    <3> QED
      BY <2>1, <3>1, <3>4 DEF XffLeft
  <2> QED
    BY <2>2, <2>3
<1> QED
  BY <1>1, <1>2 DEF AddressInv

\* The next source of the configured order is consulted.
LEMMA ConsultInv == ASSUME AddressInv, Consult PROVE AddressInv'
<1>1. Head(order) \in Sources /\ AddressTypes
  BY DEF AddressInv, AddressTypes, Consult
<1>2. CASE contains(current) /\ Head(order) = "x-forwarded-for" /\ xff # <<>>
  <2>1. hops' = xff /\ hops' # <<>> /\ phase' # "accepted" /\ phase' # "done"
    BY <1>2 DEF Consult, Walkable
  <2>2. AddressTypes'
    BY <1>1, <2>1 DEF AddressTypes, Consult
  <2>3. ASSUME OnlyXff
        PROVE  (\E j \in 0..Len(xff) : Walked(j))' \/ WalkedAgain'
    <3>1. CASE Settled
      BY <1>2, <2>1, <3>1, SettledStays DEF Consult, WalkedAgain, contains
    <3>2. CASE ~Settled
      <4>1. current = peer
        BY <2>3, <3>2 DEF AddressInv, Consult
      <4>2. peer # "bad" /\ Len(xff) \in Nat
        BY <1>1, AddressAssumption DEF AddressTypes, AddressSettings
      <4>3. Walked(0)'
        BY <2>1, <4>1, <4>2 DEF Consult, Walked, Hop
      <4>4. 0 \in 0..Len(xff)'
        BY <4>2 DEF Consult
      <4> QED
        BY <4>3, <4>4
    <3> QED
      BY <3>1, <3>2
  <2> QED
    BY <2>1, <2>2, <2>3 DEF AddressInv, OnlyXff, Consult
<1>3. CASE ~(contains(current) /\ Head(order) = "x-forwarded-for" /\ xff # <<>>)
  <2>1. OnlyXff /\ Head(order) = "x-forwarded-for" => Settled
    BY <1>1, <1>3, PeerSettles DEF AddressInv, Consult, contains
  <2>2. OnlyXff => hops' = <<>>
    BY <1>3 DEF Consult, Walkable, OnlyXff
  <2>3. CASE OnlyXff
    BY <2>1, <2>2, <2>3, SkipInv DEF Consult
  <2>4. CASE ~OnlyXff
    <3>1. hops' \in Seq(Entries)
      BY <1>1 DEF AddressTypes, Consult, Walkable
    <3> QED
      BY <2>4, <3>1 DEF AddressInv, AddressTypes, Consult, OnlyXff
  <2> QED
    BY <2>3, <2>4
<1> QED
  BY <1>2, <1>3

\* The walk takes one hop from the right, or stops.
LEMMA WalkInv == ASSUME AddressInv, Walk PROVE AddressInv'
<1> DEFINE n == Len(hops)
           entry == hops[n]
<1>1. AddressTypes /\ n \in Nat \ {0} /\ entry \in Entries /\ Len(xff) \in Nat
  BY DEF AddressInv, AddressTypes, Walk
<1>2. UNCHANGED <<phase, accept, order, xff, forwarded, extra, peer>> /\ phase = "resolving"
  BY DEF Walk
<1>3. CASE Takes(entry)
  <2>1. /\ current' = entry /\ entry # "bad" /\ current \in Trusted
        /\ hops' = SubSeq(hops, 1, n - 1)
    BY <1>3 DEF Walk, Takes, contains
  <2>2. /\ hops' \in Seq(Entries) /\ Len(hops') = n - 1
        /\ \A i \in 1..(n - 1) : hops'[i] = hops[i]
    <3>1. \A i \in 1..(n - 1) : hops[i] \in Entries
      BY <1>1 DEF AddressTypes
    <3>2. 1 \in Int /\ n - 1 \in Int
      BY <1>1
    <3> HIDE DEF n
    <3> QED
      BY <1>1, <2>1, <3>1, <3>2, SubSeqProperties
  <2>3. AddressTypes'
    BY <1>1, <1>2, <2>2 DEF AddressTypes
  <2>4. ASSUME OnlyXff
        PROVE  \E j \in 0..Len(xff) : Walked(j)'
    <3>1. ASSUME NEW j \in 0..(Len(xff) - 1), n = Len(xff) - j,
                 \A i \in 0..j : Hop(i) \in Trusted /\ Hop(i) # "bad",
                 \A i \in 1..n : hops[i] = xff[i]
          PROVE  \E k \in 0..Len(xff) : Walked(k)'
      <4>1. \A i : Hop(i)' = Hop(i)
        BY <1>2 DEF Hop
      <4>2. j + 1 \in 0..Len(xff) /\ Len(xff) + 1 - (j + 1) = n /\ j + 1 # 0
        <5>1. n = Len(xff) - j
          BY <3>1
        <5>2. Len(xff) \in Nat
          BY <1>1
        <5> HIDE DEF n
        <5> QED
          BY <5>1, <5>2
      <4>3. Hop(j + 1) = entry
        BY <1>1, <3>1, <4>2 DEF Hop
      <4>4. /\ \A i \in 0..((j + 1) - 1) : Hop(i)' \in Trusted
            /\ \A i \in 0..(j + 1) : Hop(i)' # "bad"
        BY <2>1, <3>1, <4>1, <4>3
      <4>5. /\ Len(hops') = Len(xff') - (j + 1)
            /\ \A i \in 1..Len(hops') : hops'[i] = xff'[i]
        BY <1>1, <1>2, <2>2, <3>1
      <4>6. Walked(j + 1)'
        BY <2>1, <4>1, <4>3, <4>4, <4>5 DEF Walked
      <4> QED
        BY <4>2, <4>6
    <3>2. ASSUME NEW j \in 0..Len(xff), Walked(j)
          PROVE  \E k \in 0..Len(xff) : Walked(k)'
      <4>1. j \in 0..(Len(xff) - 1) /\ n = Len(xff) - j
        <5>1. n = Len(xff) - j /\ n \in Nat \ {0} /\ Len(xff) \in Nat
          BY <1>1, <3>2 DEF Walked
        <5> HIDE DEF n
        <5> QED
          BY <5>1
      <4>2. \A i \in 0..j : Hop(i) \in Trusted /\ Hop(i) # "bad"
        <5>1. Hop(j) \in Trusted
          BY <2>1, <3>2 DEF Walked
        <5>2. \A i \in 0..j : i = j \/ i \in 0..(j - 1)
          OBVIOUS
        <5> QED
          BY <3>2, <5>1, <5>2 DEF Walked
      <4>3. \A i \in 1..n : hops[i] = xff[i]
        BY <3>2 DEF Walked
      <4> QED
        BY <3>1, <4>1, <4>2, <4>3
    <3>3. ASSUME WalkedAgain
          PROVE  \E k \in 0..Len(xff) : Walked(k)'
      <4>1. PICK k \in 0..Len(xff) : Nearest(k) /\ current = Hop(k)
        BY <3>3 DEF WalkedAgain, Settled
      <4>2. n = Len(xff) /\ Hop(1) = entry /\ \A i \in 1..n : hops[i] = xff[i]
        BY <1>1, <3>3 DEF WalkedAgain, Hop
      <4>3. Hop(0) \in Trusted /\ Hop(0) # "bad"
        BY <1>1, <2>1, <4>1 DEF Nearest
      <4>4. \A i \in 0..0 : Hop(i) \in Trusted /\ Hop(i) # "bad"
        BY <4>3
      <4> HIDE DEF n, entry
      <4>5. 0 \in 0..(Len(xff) - 1) /\ n = Len(xff) - 0
        BY <1>1, <4>2
      <4> QED
        BY <3>1, <4>2, <4>4, <4>5
    <3> QED
      BY <1>1, <2>4, <3>2, <3>3 DEF AddressInv, Walk
  <2>5. ASSUME OnlyXff, hops' = <<>>
        PROVE  Settled'
    <3>1. PICK j \in 0..Len(xff) : Walked(j)'
      BY <2>4, <2>5
    <3>2. j = Len(xff)
      BY <1>1, <1>2, <2>5, <3>1 DEF Walked
    <3>3. Nearest(j)' /\ current' = Hop(j)'
      BY <1>2, <3>1, <3>2 DEF Walked, Nearest
    <3> QED
      BY <1>2, <3>1, <3>3 DEF Settled
  <2> QED
    BY <1>2, <2>3, <2>4, <2>5 DEF AddressInv, OnlyXff
<1>4. CASE ~Takes(entry)
  <2>1. hops' = <<>> /\ current' = current
    BY <1>4 DEF Walk
  <2>2. ASSUME OnlyXff
        PROVE  Settled
    <3>1. ASSUME NEW j \in 0..Len(xff), Walked(j)
          PROVE  Nearest(j) /\ current = Hop(j)
      <4>1. j \in 0..(Len(xff) - 1) /\ Hop(j + 1) = entry
        BY <1>1, <3>1 DEF Walked, Hop
      <4> QED
        BY <1>4, <3>1, <4>1 DEF Walked, Nearest, Takes, contains
    <3> QED
      BY <1>1, <2>2, <3>1 DEF AddressInv, Walk, WalkedAgain, Settled
  <2> QED
    BY <1>1, <1>2, <2>1, <2>2, SettledStays DEF AddressInv, AddressTypes, OnlyXff
<1> QED
  BY <1>3, <1>4

\* Every step of the resolution keeps the invariant.
LEMMA AddressNextInv == AddressInv /\ [AddressNext]_addressVars => AddressInv'
<1> SUFFICES ASSUME AddressInv, [AddressNext]_addressVars PROVE AddressInv'
  OBVIOUS
<1>1. CASE NoProxyHeader \/ \E result \in Addresses \cup {"local", "error"} : ProxyHeader(result)
  BY <1>1, ConnectionInv
<1>2. CASE Consult
  BY <1>2, ConsultInv
<1>3. CASE Walk
  BY <1>3, WalkInv
<1>4. CASE ConsultHeader
  <2>1. OnlyXff => current' = current
    BY <1>4 DEF ConsultHeader, UsesHeader, OnlyXff
  <2>2. hops' = <<>>
    BY <1>4 DEF ConsultHeader
  <2> QED
    BY <1>4, <2>1, <2>2, SkipInv DEF ConsultHeader
<1>5. CASE Resolved
  <2>1. Len(order) = 0 /\ hops = <<>>
    BY <1>5 DEF Resolved
  <2>2. OnlyXff => Settled
    BY <2>1 DEF AddressInv, XffLeft
  <2> QED
    BY <1>5, <2>1, <2>2, SettledStays DEF Resolved, AddressInv, AddressTypes, OnlyXff
<1>6. CASE UNCHANGED addressVars
  <2>1. Settled => Settled'
    BY <1>6, SettledStays DEF addressVars
  <2>2. \A j \in 0..Len(xff) : Walked(j) => Walked(j)'
    BY <1>6 DEF addressVars, Walked, Hop
  <2>3. /\ XffLeft <=> XffLeft'
        /\ OnlyXff <=> OnlyXff'
        /\ WalkedAgain => WalkedAgain'
        /\ AddressTypes'
    BY <1>6, <2>1 DEF addressVars, XffLeft, OnlyXff, WalkedAgain, AddressTypes, AddressInv
  <2> QED
    BY <1>6, <2>1, <2>2, <2>3 DEF addressVars, AddressInv
<1> QED
  BY <1>1, <1>2, <1>3, <1>4, <1>5, <1>6 DEF AddressNext

\* The walk over X-Forwarded-For ends at the nearest hop that is not a trusted proxy, for any
\* header, any set of trusted proxies and any order of the sources that names it
\* (client_ip.rs: resolve_sources).
THEOREM ClientIsNearestUntrusted == AddressSpec => []NearestUntrusted
<1>1. AddressInv => NearestUntrusted
  BY DEF AddressInv, NearestUntrusted, OnlyXff, Settled
<1> QED
  BY AddressInitInv, AddressNextInv, <1>1, PTL DEF AddressSpec

-----------------------------------------------------------------------------
(* Sessions and sign-ins. *)

Attempts == 1..MaxIds
Codes == [attempt : Attempts, user : Users]
Authns == [role : Roles, method : {"none", "session", "mtls", "token"}, csrf : 0..MaxIds, age : Nat]
Issues == [at : {"sweep", "size", "insert"}, role : Roles, attempt : 0..MaxIds,
           user : Users \cup {"cert", "token"}]
Reloads == [at : {"body", "apply", "reloaded", "rejected"}, authn : Authns, waited : Nat]
Exchanges == [at : {"exchange"}, attempt : Attempts, code : Codes, waited : Nat]
VisitStates == {NoVisit, [at |-> "begin"]} \cup Issues \cup Reloads \cup Exchanges

ConsoleTypes ==
  /\ \A id \in DOMAIN sessions : sessions[id] \in [role : Roles, age : Nat]
  /\ issued \in 0..MaxIds
  /\ codes \subseteq Codes
  /\ visit \in [Visits -> VisitStates]
  /\ signins \in [Attempts -> Seq(Users)]

\* While its body is awaited, a session is as late as the wait is long.
Lateness(v) ==
  /\ v.at = "body" => v.authn.age < SessionTtl + v.waited /\ v.waited <= BodyTicks
  /\ v.at = "apply" => v.authn.age < SessionTtl + BodyTicks

\* Who has an attempt in hand, and the code it was opened with.
Carries(v, a) == v.at \in {"exchange", "sweep", "size", "insert"} /\ v.attempt = a
Vouched(v, given) ==
  /\ v.at = "exchange" => v.code \in given
  /\ v.at \in {"sweep", "size", "insert"} /\ v.attempt # 0 =>
       [attempt |-> v.attempt, user |-> v.user] \in given

\* An attempt is in one place only: pending, with one request, or signed in; and in
\* none before it was handed out.
Used(a) == signins[a] # <<>>
OnePlace(a) ==
  /\ a \in DOMAIN pending => ~Used(a) /\ \A r \in Visits : ~Carries(visit[r], a)
  /\ \A r \in Visits : Carries(visit[r], a) => ~Used(a)
  /\ \A r, q \in Visits : Carries(visit[r], a) /\ Carries(visit[q], a) => r = q
  /\ a > issued => /\ a \notin DOMAIN pending /\ ~Used(a)
                   /\ \A r \in Visits : ~Carries(visit[r], a)

ConsoleInv ==
  /\ ConsoleTypes
  /\ \A r \in Visits : Lateness(visit[r]) /\ Vouched(visit[r], codes)
  /\ \A a \in Attempts : OnePlace(a)
  /\ OneSessionPerSignIn

\* The constants are numbers.
LEMMA ConsoleNumbers ==
  /\ SessionTtl \in Nat \ {0} /\ BodyTicks \in Nat \ {0} /\ MaxIds \in Nat
  BY ConsoleAssumption DEF ConsoleSettings

\* The kind of request it is, from where it is.
LEMMA VisitKinds ==
  ASSUME NEW v \in VisitStates
  PROVE  /\ v.at \in {"sweep", "size", "insert"} => v \in Issues
         /\ v.at \in {"body", "apply", "reloaded", "rejected"} => v \in Reloads
         /\ v.at = "exchange" => v \in Exchanges
         /\ v.at = "idle" => v = NoVisit
  BY DEF VisitStates, Issues, Reloads, Exchanges, NoVisit

\* One request moves on, with an attempt that it had or that it takes from the
\* pending ones.
LEMMA VisitMoves ==
  ASSUME ConsoleInv, NEW r \in Visits, NEW v \in VisitStates,
         visit' = [visit EXCEPT ![r] = v],
         Lateness(v), Vouched(v, codes),
         \A a \in Attempts : Carries(v, a) =>
           Carries(visit[r], a) \/ (a \in DOMAIN pending /\ a \notin DOMAIN pending'),
         DOMAIN pending' \subseteq DOMAIN pending,
         \A id \in DOMAIN sessions' : sessions'[id] \in [role : Roles, age : Nat],
         UNCHANGED <<issued, codes, signins>>
  PROVE  ConsoleInv'
<1>1. visit'[r] = v /\ \A q \in Visits \ {r} : visit'[q] = visit[q]
  BY DEF ConsoleInv, ConsoleTypes
<1>2. ConsoleTypes'
  BY DEF ConsoleInv, ConsoleTypes
<1>3. ASSUME NEW q \in Visits
      PROVE  Lateness(visit'[q]) /\ Vouched(visit'[q], codes')
  BY <1>1 DEF ConsoleInv
<1>4. ASSUME NEW a \in Attempts
      PROVE  OnePlace(a)'
  <2>1. OnePlace(a) /\ (Used(a)' <=> Used(a)) /\ issued' = issued
    BY DEF ConsoleInv, Used
  <2>2. a \in DOMAIN pending' => a \in DOMAIN pending
    OBVIOUS
  <2>3. \A q \in Visits :
          Carries(visit'[q], a) => \/ Carries(visit[q], a)
                                   \/ q = r /\ a \in DOMAIN pending /\ a \notin DOMAIN pending'
    BY <1>1
  <2> QED
    BY <2>1, <2>2, <2>3 DEF OnePlace
<1>5. OneSessionPerSignIn'
  BY DEF ConsoleInv, OneSessionPerSignIn
<1> QED
  BY <1>2, <1>3, <1>4, <1>5 DEF ConsoleInv

\* Moving on without an attempt, or with the one it has.
LEMMA VisitOnward ==
  ASSUME ConsoleInv, NEW r \in Visits, NEW v \in VisitStates,
         visit' = [visit EXCEPT ![r] = v],
         Lateness(v), Vouched(v, codes),
         \A a \in Attempts : Carries(v, a) => Carries(visit[r], a),
         \A id \in DOMAIN sessions' : sessions'[id] \in [role : Roles, age : Nat],
         UNCHANGED <<pending, issued, codes, signins>>
  PROVE  ConsoleInv'
  BY VisitMoves

\* A request that is done, and one that stays where it is.
LEMMA VisitEnds ==
  ASSUME ConsoleInv, NEW r \in Visits, VisitDone(r) \/ UNCHANGED visit,
         DOMAIN pending' \subseteq DOMAIN pending,
         \A id \in DOMAIN sessions' : sessions'[id] \in [role : Roles, age : Nat],
         UNCHANGED <<issued, codes, signins>>
  PROVE  ConsoleInv'
<1>1. CASE VisitDone(r)
  <2>1. NoVisit \in VisitStates /\ Lateness(NoVisit) /\ Vouched(NoVisit, codes)
    BY DEF VisitStates, NoVisit, Lateness, Vouched
  <2>2. \A a \in Attempts : ~Carries(NoVisit, a)
    BY DEF Carries, NoVisit
  <2> QED
    BY <1>1, <2>1, <2>2, VisitMoves DEF VisitDone
<1>2. CASE UNCHANGED visit
  <2>1. visit' = [visit EXCEPT ![r] = visit[r]] /\ visit[r] \in VisitStates
    BY <1>2 DEF ConsoleInv, ConsoleTypes
  <2>2. Lateness(visit[r]) /\ Vouched(visit[r], codes)
    BY DEF ConsoleInv
  <2> QED
    BY <2>1, <2>2, VisitMoves
<1> QED
  BY <1>1, <1>2

\* What is left of the sessions is sessions.
LEMMA SessionsLeft ==
  ASSUME ConsoleInv, NEW gone, sessions' = Without(sessions, gone) \/ UNCHANGED sessions
  PROVE  \A id \in DOMAIN sessions' : sessions'[id] \in [role : Roles, age : Nat]
  BY DEF ConsoleInv, ConsoleTypes, Without

\* A session that authenticates has not expired.
LEMMA AuthnTypes ==
  ASSUME ConsoleInv, NEW peer_ \in Peers, NEW cred \in AdminCredentials
  PROVE  /\ AdminAuthn(peer_, cred) \in Authns
         /\ AdminAuthn(peer_, cred).age < SessionTtl
<1>1. cred.cookie \in 0..MaxIds /\ CertRole[cred.cert] \in Roles
  BY ConsoleAssumption DEF AdminCredentials, ConsoleSettings
<1>2. CASE LiveSession(cred.cookie)
  BY <1>1, <1>2 DEF AdminAuthn, LiveSession, ConsoleInv, ConsoleTypes, Authns
<1>3. CASE ~LiveSession(cred.cookie)
  <2>1. Anonymous \in Authns /\ Anonymous.age < SessionTtl
    BY ConsoleNumbers DEF Anonymous, Authns, Roles
  <2>2. \A role \in Roles, method \in {"mtls", "token"} :
          LET authn == [Anonymous EXCEPT !.role = role, !.method = method]
          IN  authn \in Authns /\ authn.age < SessionTtl
    BY <2>1 DEF Authns
  <2> QED
    BY <1>1, <1>3, <2>1, <2>2 DEF AdminAuthn, Roles
<1> QED
  BY <1>2, <1>3

\* A session about to be issued outside a sign-in, or in the one the request carries.
LEMMA IssuingInv ==
  ASSUME ConsoleInv, NEW r \in Visits, NEW role \in Roles, NEW attempt \in 0..MaxIds,
         NEW user \in Users \cup {"cert", "token"},
         Issuing(r, role, attempt, user),
         attempt # 0 => Carries(visit[r], attempt) /\ [attempt |-> attempt, user |-> user] \in codes,
         \A id \in DOMAIN sessions' : sessions'[id] \in [role : Roles, age : Nat],
         UNCHANGED <<pending, issued, codes, signins>>
  PROVE  ConsoleInv'
<1> DEFINE v == [at |-> "sweep", role |-> role, attempt |-> attempt, user |-> user]
<1>1. v \in VisitStates
  BY DEF VisitStates, Issues
<1>2. Lateness(v) /\ Vouched(v, codes)
  BY DEF Lateness, Vouched
<1>3. \A a \in Attempts : Carries(v, a) => Carries(visit[r], a)
  BY ConsoleNumbers DEF Carries, Attempts
<1>4. visit' = [visit EXCEPT ![r] = v]
  BY DEF Issuing
<1> HIDE DEF v
<1> QED
  BY <1>1, <1>2, <1>3, <1>4, VisitOnward

\* A page or an API call is authenticated, and a reload begins to read its body.
LEMMA GetInv ==
  ASSUME ConsoleInv, NEW r \in Visits, NEW peer_ \in Peers, NEW cred \in AdminCredentials,
         NEW api \in BOOLEAN, Get(r, peer_, cred, api)
  PROVE  ConsoleInv'
<1> DEFINE authn == AdminAuthn(peer_, cred)
<1>1. authn \in Authns
  BY AuthnTypes
<1>2. sessions' = Without(sessions, Forgets(cred)) \/ UNCHANGED sessions
  BY DEF Get
<1>3. UNCHANGED <<pending, issued, codes, signins>>
  BY DEF Get
<1>4. Issuing(r, authn.role, 0, "cert") \/ UNCHANGED visit
  BY DEF Get
<1> HIDE DEF authn
<1>5. authn.role \in Roles /\ 0 \in 0..MaxIds
  BY <1>1, ConsoleNumbers DEF Authns
<1>6. \A id \in DOMAIN sessions' : sessions'[id] \in [role : Roles, age : Nat]
  BY <1>2, SessionsLeft
<1> QED
  BY <1>3, <1>4, <1>5, <1>6, IssuingInv, VisitEnds

\* Signing in with the token.
LEMMA LoginInv ==
  ASSUME ConsoleInv, NEW r \in Visits, NEW peer_ \in Peers, NEW right \in BOOLEAN,
         Login(r, peer_, right)
  PROVE  ConsoleInv'
<1>1. Issuing(r, "operator", 0, "token") \/ UNCHANGED visit
  BY DEF Login
<1>2. UNCHANGED <<sessions, pending, issued, codes, signins>>
  BY DEF Login
<1>3. "operator" \in Roles /\ 0 \in 0..MaxIds
  BY ConsoleNumbers DEF Roles
<1>4. \A id \in DOMAIN sessions' : sessions'[id] \in [role : Roles, age : Nat]
  BY <1>2, SessionsLeft
<1> QED
  BY <1>1, <1>2, <1>3, <1>4, IssuingInv, VisitEnds

\* Sweeping and looking at the size keep what is about to be issued.
LEMMA IssueInv ==
  ASSUME ConsoleInv, NEW r \in Visits, IssueSweep(r) \/ IssueSize(r)
  PROVE  ConsoleInv'
<1>1. UNCHANGED <<pending, issued, codes, signins>>
  BY DEF IssueSweep, IssueSize
<1>2. \A id \in DOMAIN sessions' : sessions'[id] \in [role : Roles, age : Nat]
  BY SessionsLeft DEF IssueSweep, IssueSize
<1>3. CASE VisitDone(r)
  BY <1>1, <1>2, <1>3, VisitEnds
<1>4. ASSUME NEW where \in {"size", "insert"}, VisitGoes(r, where)
      PROVE  ConsoleInv'
  <2> DEFINE v == [visit[r] EXCEPT !.at = where]
  <2>1. visit[r] \in Issues
    BY VisitKinds DEF IssueSweep, IssueSize, VisitAt, ConsoleInv, ConsoleTypes
  <2>2. /\ v \in Issues /\ v.attempt = visit[r].attempt /\ v.user = visit[r].user /\ v.at = where
        /\ visit[r].at \in {"sweep", "size", "insert"}
    BY <2>1 DEF Issues
  <2>3. visit' = [visit EXCEPT ![r] = v]
    BY <1>4 DEF VisitGoes
  <2>4. Vouched(visit[r], codes)
    BY DEF ConsoleInv
  <2> HIDE DEF v
  <2>5. v \in VisitStates /\ Lateness(v) /\ Vouched(v, codes)
    BY <2>2, <2>4 DEF VisitStates, Lateness, Vouched
  <2>6. \A a \in Attempts : Carries(v, a) => Carries(visit[r], a)
    BY <2>2 DEF Carries
  <2> QED
    BY <1>1, <1>2, <2>3, <2>5, <2>6, VisitOnward
<1> QED
  BY <1>3, <1>4 DEF IssueSweep, IssueSize

\* The session is there, and the attempt it came from is spent.
LEMMA IssueInsertInv ==
  ASSUME ConsoleInv, NEW r \in Visits, IssueInsert(r)
  PROVE  ConsoleInv'
<1> DEFINE v == visit[r]
<1>1. v \in Issues /\ v.at = "insert" /\ Vouched(v, codes)
  BY VisitKinds DEF IssueInsert, VisitAt, ConsoleInv, ConsoleTypes
<1>2. v.attempt \in 0..MaxIds /\ v.role \in Roles /\ v.user \in Users \cup {"cert", "token"}
  BY <1>1 DEF Issues
<1>3. /\ issued' = issued + 1 /\ issued < MaxIds /\ issued \in 0..MaxIds
      /\ UNCHANGED <<pending, codes>>
      /\ signins' = IF v.attempt = 0 THEN signins
                    ELSE [signins EXCEPT ![v.attempt] = Append(@, v.user)]
  BY DEF IssueInsert, ConsoleInv, ConsoleTypes
<1>4. visit' = [visit EXCEPT ![r] = NoVisit]
  BY DEF IssueInsert, VisitDone
<1>5. visit'[r] = NoVisit /\ \A q \in Visits \ {r} : visit'[q] = visit[q]
  BY <1>4 DEF ConsoleInv, ConsoleTypes
<1>6. v.attempt # 0 => /\ [attempt |-> v.attempt, user |-> v.user] \in codes
                       /\ v.attempt \in Attempts /\ v.user \in Users
                       /\ signins[v.attempt] = <<>>
  <2>1. ASSUME v.attempt # 0
        PROVE  [attempt |-> v.attempt, user |-> v.user] \in codes
    BY <1>1, <2>1 DEF Vouched
  <2>2. ASSUME v.attempt # 0
        PROVE  v.attempt \in Attempts /\ v.user \in Users
    BY <2>1, <2>2 DEF ConsoleInv, ConsoleTypes, Codes
  <2>3. ASSUME v.attempt # 0
        PROVE  signins[v.attempt] = <<>>
    <3>1. Carries(visit[r], v.attempt)
      BY <1>1 DEF Carries
    <3> QED
      BY <2>2, <2>3, <3>1 DEF ConsoleInv, OnePlace, Used
  <2> QED
    BY <2>1, <2>2, <2>3
<1>7. ConsoleTypes'
  <2>1. \A id \in DOMAIN sessions' : sessions'[id] \in [role : Roles, age : Nat]
    BY <1>2 DEF IssueInsert, ConsoleInv, ConsoleTypes
  <2>2. visit' \in [Visits -> VisitStates]
    BY <1>4 DEF ConsoleInv, ConsoleTypes, VisitStates
  <2>3. signins' \in [Attempts -> Seq(Users)]
    BY <1>3, <1>6 DEF ConsoleInv, ConsoleTypes
  <2>4. issued' \in 0..MaxIds
    BY <1>3, ConsoleNumbers
  <2> QED
    BY <1>3, <2>1, <2>2, <2>3, <2>4 DEF ConsoleInv, ConsoleTypes
<1> HIDE DEF v
<1>8. ASSUME NEW a \in Attempts
      PROVE  signins'[a] = IF a = v.attempt THEN <<v.user>> ELSE signins[a]
  <2>1. signins \in [Attempts -> Seq(Users)] /\ a # 0
    BY ConsoleNumbers DEF ConsoleInv, ConsoleTypes, Attempts
  <2>2. Append(<<>>, v.user) = <<v.user>>
    OBVIOUS
  <2> QED
    BY <1>3, <1>6, <2>1, <2>2
<1>9. ASSUME NEW q \in Visits
      PROVE  Lateness(visit'[q]) /\ Vouched(visit'[q], codes')
  BY <1>3, <1>5 DEF ConsoleInv, Lateness, Vouched, NoVisit
<1>10. ASSUME NEW a \in Attempts
       PROVE  OnePlace(a)'
  <2>1. OnePlace(a) /\ issued \in Nat /\ a \in Nat
    BY <1>3, ConsoleNumbers DEF ConsoleInv, Attempts
  <2>2. \A q \in Visits : Carries(visit'[q], a) => q # r /\ Carries(visit[q], a)
    BY <1>5 DEF Carries, NoVisit
  <2>3. a = v.attempt => Carries(visit[r], a)
    BY <1>1 DEF Carries, v
  <2>4. a # v.attempt => (Used(a)' <=> Used(a))
    BY <1>8 DEF Used
  <2>5. a > issued' => a > issued
    BY <1>3, <2>1
  <2>6. CASE a = v.attempt
    BY <1>3, <2>1, <2>2, <2>3, <2>5, <2>6 DEF OnePlace
  <2>7. CASE a # v.attempt
    BY <1>3, <2>1, <2>2, <2>4, <2>5, <2>7 DEF OnePlace
  <2> QED
    BY <2>6, <2>7
<1>11. OneSessionPerSignIn'
  <2>1. DOMAIN signins = Attempts /\ DOMAIN signins' = Attempts
    BY <1>7 DEF ConsoleInv, ConsoleTypes
  <2>2. ASSUME NEW a \in Attempts
        PROVE  /\ Len(signins'[a]) <= 1
               /\ \A i \in DOMAIN signins'[a] :
                    [attempt |-> a, user |-> signins'[a][i]] \in codes'
    <3>1. CASE a = v.attempt
      <4>1. signins'[a] = <<v.user>> /\ a # 0
        BY <1>8, <3>1, ConsoleNumbers DEF Attempts
      <4>2. [attempt |-> a, user |-> v.user] \in codes'
        BY <1>3, <1>6, <3>1, <4>1
      <4>3. Len(<<v.user>>) = 1 /\ \A i \in DOMAIN <<v.user>> : <<v.user>>[i] = v.user
        OBVIOUS
      <4> QED
        BY <4>1, <4>2, <4>3
    <3>2. CASE a # v.attempt
      BY <1>3, <1>8, <2>1, <3>2 DEF ConsoleInv, OneSessionPerSignIn
    <3> QED
      BY <3>1, <3>2
  <2> QED
    BY <2>1, <2>2 DEF OneSessionPerSignIn
<1> QED
  BY <1>7, <1>9, <1>10, <1>11 DEF ConsoleInv

\* A reload begins with whoever asks for it settled.
LEMMA ApiReloadInv ==
  ASSUME ConsoleInv, NEW r \in Visits, NEW peer_ \in Peers, NEW cred \in AdminCredentials,
         ApiReload(r, peer_, cred)
  PROVE  ConsoleInv'
<1> DEFINE v == [at |-> "body", authn |-> AdminAuthn(peer_, cred), waited |-> 0]
<1>1. UNCHANGED <<pending, issued, codes, signins>>
  BY DEF ApiReload
<1>2. \A id \in DOMAIN sessions' : sessions'[id] \in [role : Roles, age : Nat]
  BY SessionsLeft DEF ApiReload
<1>3. visit' = [visit EXCEPT ![r] = v] \/ UNCHANGED visit
  BY DEF ApiReload
<1>4. AdminAuthn(peer_, cred) \in Authns /\ AdminAuthn(peer_, cred).age < SessionTtl
  BY AuthnTypes
<1>5. v \in VisitStates
  BY <1>4 DEF VisitStates, Reloads
<1>6. Lateness(v) /\ Vouched(v, codes)
  BY <1>4, ConsoleNumbers DEF Lateness, Vouched, Authns
<1>7. \A a \in Attempts : ~Carries(v, a)
  BY DEF Carries
<1> HIDE DEF v
<1> QED
  BY <1>1, <1>2, <1>3, <1>5, <1>6, <1>7, VisitOnward, VisitEnds

\* A reload goes on, or ends.
LEMMA ReloadStepInv ==
  ASSUME ConsoleInv, NEW r \in Visits,
         \/ ReloadTimeout(r) \/ Audit(r)
         \/ \E csrf \in 0..MaxIds : ReloadBody(r, csrf)
         \/ \E taken \in BOOLEAN : TryReload(r, taken)
  PROVE  ConsoleInv'
<1>1. UNCHANGED <<sessions, pending, issued, codes, signins>>
  BY DEF ReloadTimeout, Audit, ReloadBody, TryReload
<1>2. \A id \in DOMAIN sessions' : sessions'[id] \in [role : Roles, age : Nat]
  BY <1>1, SessionsLeft
<1>3. \/ VisitDone(r)
      \/ VisitAt(r, "body") /\ VisitGoes(r, "apply")
      \/ VisitAt(r, "apply") /\ \E where \in {"reloaded", "rejected"} : VisitGoes(r, where)
  BY DEF ReloadTimeout, Audit, ReloadBody, TryReload
<1>4. CASE VisitDone(r)
  BY <1>1, <1>2, <1>4, VisitEnds
<1>5. ASSUME NEW where \in {"apply", "reloaded", "rejected"}, VisitGoes(r, where),
             visit[r].at \in {"body", "apply"}, where = "apply" => visit[r].at = "body"
      PROVE  ConsoleInv'
  <2> DEFINE v == [visit[r] EXCEPT !.at = where]
  <2>1. visit[r] \in Reloads /\ Lateness(visit[r])
    BY <1>5, VisitKinds DEF ConsoleInv, ConsoleTypes
  <2>2. /\ v \in Reloads /\ v.authn = visit[r].authn /\ v.at = where
        /\ visit[r].waited \in Nat /\ v.authn.age \in Nat
    BY <2>1 DEF Reloads, Authns
  <2>3. visit' = [visit EXCEPT ![r] = v]
    BY <1>5 DEF VisitGoes
  <2> HIDE DEF v
  <2>4. v \in VisitStates /\ Vouched(v, codes) /\ \A a \in Attempts : ~Carries(v, a)
    BY <2>2 DEF VisitStates, Vouched, Carries
  <2>5. Lateness(v)
    BY <1>5, <2>1, <2>2, ConsoleNumbers DEF Lateness
  <2> QED
    BY <1>1, <1>2, <2>3, <2>4, <2>5, VisitOnward
<1> QED
  BY <1>3, <1>4, <1>5 DEF VisitAt

\* A sign-in with the provider begins.
LEMMA OidcLoginInv == ASSUME ConsoleInv, NEW r \in Visits, OidcLogin(r) PROVE ConsoleInv'
<1> DEFINE v == [at |-> "begin"]
<1>1. UNCHANGED <<sessions, issued, codes, signins>> /\ DOMAIN pending' \subseteq DOMAIN pending
  BY DEF OidcLogin, LivePending
<1>2. \A id \in DOMAIN sessions' : sessions'[id] \in [role : Roles, age : Nat]
  BY <1>1, SessionsLeft
<1>3. visit' = [visit EXCEPT ![r] = v] \/ UNCHANGED visit
  BY DEF OidcLogin
<1>4. v \in VisitStates /\ Lateness(v) /\ Vouched(v, codes) /\ \A a \in Attempts : ~Carries(v, a)
  BY DEF VisitStates, Lateness, Vouched, Carries
<1> HIDE DEF v
<1> QED
  BY <1>1, <1>2, <1>3, <1>4, VisitMoves, VisitEnds

\* The attempt that is handed out is a new one.
LEMMA OidcBeginInv == ASSUME ConsoleInv, NEW r \in Visits, OidcBegin(r) PROVE ConsoleInv'
<1>1. /\ issued' = issued + 1 /\ issued < MaxIds /\ issued \in 0..MaxIds
      /\ UNCHANGED <<sessions, codes, signins>>
      /\ DOMAIN pending' = DOMAIN pending \cup {issued'}
  BY DEF OidcBegin, ConsoleInv, ConsoleTypes
<1>2. visit' = [visit EXCEPT ![r] = NoVisit]
  BY DEF OidcBegin, VisitDone
<1>3. visit'[r] = NoVisit /\ \A q \in Visits \ {r} : visit'[q] = visit[q]
  BY <1>2 DEF ConsoleInv, ConsoleTypes
<1>4. ConsoleTypes'
  <2>1. visit' \in [Visits -> VisitStates]
    BY <1>2 DEF ConsoleInv, ConsoleTypes, VisitStates
  <2>2. issued' \in 0..MaxIds
    BY <1>1, ConsoleNumbers
  <2> QED
    BY <1>1, <2>1, <2>2 DEF ConsoleInv, ConsoleTypes
<1>5. ASSUME NEW q \in Visits
      PROVE  Lateness(visit'[q]) /\ Vouched(visit'[q], codes')
  BY <1>1, <1>3 DEF ConsoleInv, Lateness, Vouched, NoVisit
<1>6. ASSUME NEW a \in Attempts
      PROVE  OnePlace(a)'
  <2>1. OnePlace(a) /\ issued \in Nat /\ a \in Nat
    BY <1>1, ConsoleNumbers DEF ConsoleInv, Attempts
  <2>2. \A q \in Visits : Carries(visit'[q], a) => Carries(visit[q], a)
    BY <1>3 DEF Carries, NoVisit
  <2>3. Used(a)' <=> Used(a)
    BY <1>1 DEF Used
  <2>4. a \in DOMAIN pending' => a \in DOMAIN pending \/ a > issued
    BY <1>1, <2>1
  <2>5. a > issued' => a > issued /\ a # issued'
    BY <1>1, <2>1
  <2> QED
    BY <1>1, <2>1, <2>2, <2>3, <2>4, <2>5 DEF OnePlace
<1>7. OneSessionPerSignIn'
  BY <1>1 DEF ConsoleInv, OneSessionPerSignIn
<1> QED
  BY <1>4, <1>5, <1>6, <1>7 DEF ConsoleInv

\* The provider gives out a code.
LEMMA AuthorizeInv ==
  ASSUME ConsoleInv, NEW attempt \in Attempts, NEW user \in Users, Authorize(attempt, user)
  PROVE  ConsoleInv'
<1>1. /\ codes \subseteq codes' /\ codes' \subseteq Codes
      /\ UNCHANGED <<sessions, pending, issued, visit, signins>>
  BY DEF Authorize, ConsoleInv, ConsoleTypes, Codes
<1>2. ConsoleTypes'
  BY <1>1 DEF ConsoleInv, ConsoleTypes
<1>3. ASSUME NEW q \in Visits
      PROVE  Lateness(visit'[q]) /\ Vouched(visit'[q], codes')
  BY <1>1 DEF ConsoleInv, Vouched
<1>4. ASSUME NEW a \in Attempts
      PROVE  OnePlace(a)'
  BY <1>1 DEF ConsoleInv, OnePlace, Used
<1>5. OneSessionPerSignIn'
  BY <1>1 DEF ConsoleInv, OneSessionPerSignIn
<1> QED
  BY <1>2, <1>3, <1>4, <1>5 DEF ConsoleInv

\* A callback takes the attempt from the pending ones.
LEMMA OidcCallbackInv ==
  ASSUME ConsoleInv, NEW r \in Visits, NEW state \in Attempts, NEW code \in codes,
         OidcCallback(r, state, code)
  PROVE  ConsoleInv'
<1> DEFINE v == [at |-> "exchange", attempt |-> state, code |-> code, waited |-> 0]
<1>1. /\ UNCHANGED <<sessions, issued, codes, signins>>
      /\ DOMAIN pending' = LivePending \ {state}
  BY DEF OidcCallback, TakePending
<1>2. \A id \in DOMAIN sessions' : sessions'[id] \in [role : Roles, age : Nat]
  BY <1>1, SessionsLeft
<1>3. DOMAIN pending' \subseteq DOMAIN pending
  BY <1>1 DEF LivePending
<1>4. CASE state \in LivePending
  <2>1. visit' = [visit EXCEPT ![r] = v]
    BY <1>4 DEF OidcCallback
  <2>2. v \in VisitStates
    BY DEF VisitStates, Exchanges, ConsoleInv, ConsoleTypes
  <2>3. Lateness(v) /\ Vouched(v, codes)
    BY DEF Lateness, Vouched
  <2>4. \A a \in Attempts : Carries(v, a) => a \in DOMAIN pending /\ a \notin DOMAIN pending'
    BY <1>1, <1>4 DEF Carries, LivePending
  <2> HIDE DEF v
  <2> QED
    BY <1>1, <1>2, <1>3, <2>1, <2>2, <2>3, <2>4, VisitMoves
<1>5. CASE state \notin LivePending
  <2>1. UNCHANGED visit
    BY <1>5 DEF OidcCallback
  <2> QED
    BY <1>1, <1>2, <1>3, <2>1, VisitEnds
<1> QED
  BY <1>4, <1>5

\* The ID token is for the attempt the request carries, by its nonce.
LEMMA ExchangeInv ==
  ASSUME ConsoleInv, NEW r \in Visits, NEW answered \in BOOLEAN, Exchange(r, answered)
  PROVE  ConsoleInv'
<1> DEFINE v == visit[r]
<1>1. v \in Exchanges /\ v.at = "exchange" /\ v.code \in codes
  BY VisitKinds DEF Exchange, VisitAt, ConsoleInv, ConsoleTypes, Vouched
<1>2. v.attempt \in Attempts /\ v.code \in Codes
  BY <1>1 DEF Exchanges
<1>3. UNCHANGED <<sessions, pending, issued, codes, signins>>
  BY DEF Exchange
<1>4. \A id \in DOMAIN sessions' : sessions'[id] \in [role : Roles, age : Nat]
  BY <1>3, SessionsLeft
<1>5. CASE VisitDone(r)
  BY <1>3, <1>4, <1>5, VisitEnds
<1>6. CASE NonceOk(r) /\ Issuing(r, UserRole[v.code.user], v.attempt, v.code.user)
  <2>1. v.code = [attempt |-> v.attempt, user |-> v.code.user] /\ v.code.user \in Users
    BY <1>2, <1>6 DEF NonceOk, Codes
  <2>2. UserRole[v.code.user] \in Roles
    BY <2>1, ConsoleAssumption DEF ConsoleSettings
  <2>3. v.attempt \in 0..MaxIds /\ Carries(visit[r], v.attempt)
    BY <1>1, <1>2, ConsoleNumbers DEF Attempts, Carries
  <2> DEFINE role == UserRole[v.code.user]
             user == v.code.user
             attempt == v.attempt
  <2>4. role \in Roles /\ attempt \in 0..MaxIds /\ user \in Users \cup {"cert", "token"}
    BY <2>1, <2>2, <2>3
  <2>5. Issuing(r, role, attempt, user) /\ Carries(visit[r], attempt)
          /\ [attempt |-> attempt, user |-> user] \in codes
    BY <1>1, <1>6, <2>1, <2>3
  <2> HIDE DEF role, user, attempt
  <2> QED
    BY <1>3, <1>4, <2>4, <2>5, IssuingInv
<1> QED
  BY <1>5, <1>6 DEF Exchange

\* The clock: a session in use ages with the wait for its body.
LEMMA ConsoleTickInv == ASSUME ConsoleInv, ConsoleTick PROVE ConsoleInv'
<1>1. UNCHANGED <<issued, codes, signins>> /\ DOMAIN pending' = DOMAIN pending
  BY DEF ConsoleTick
<1>2. ASSUME NEW q \in Visits
      PROVE  /\ visit'[q] \in VisitStates
             /\ Lateness(visit'[q]) /\ Vouched(visit'[q], codes)
             /\ \A a \in Attempts : Carries(visit'[q], a) <=> Carries(visit[q], a)
  <2> DEFINE v == visit[q]
  <2>1. v \in VisitStates /\ Lateness(v) /\ Vouched(v, codes)
    BY DEF ConsoleInv, ConsoleTypes
  <2>2. CASE v.at = "body"
    <3>1. v \in Reloads /\ v.waited < BodyTicks
      BY <2>1, <2>2, VisitKinds DEF ConsoleTick, VisitAt, Limit, Awaits
    <3>2. visit'[q] = [v EXCEPT !.waited = @ + 1, !.authn.age = @ + 1]
      BY <2>2 DEF ConsoleTick, VisitAt
    <3> HIDE DEF v
    <3>3. v.authn \in Authns /\ v.waited \in Nat /\ v.authn.age \in Nat
      BY <3>1 DEF Reloads, Authns
    <3> DEFINE aged == [v.authn EXCEPT !.age = @ + 1]
    <3>4. aged \in Authns /\ aged.age = v.authn.age + 1
      BY <3>3 DEF Authns
    <3>5. visit'[q] = [v EXCEPT !.waited = v.waited + 1, !.authn = aged]
      BY <3>1, <3>2 DEF Reloads
    <3> HIDE DEF aged
    <3>6. /\ visit'[q] \in Reloads /\ visit'[q].at = "body" /\ visit'[q].waited = v.waited + 1
          /\ visit'[q].authn.age = v.authn.age + 1
      <4> DEFINE w == visit'[q]
      <4>1. w = [at |-> v.at, authn |-> aged, waited |-> v.waited + 1]
        BY <3>1, <3>5 DEF Reloads
      <4>2. v.at = "body" /\ v.waited + 1 \in Nat
        BY <2>2, <3>3
      <4> HIDE DEF w
      <4>3. w.at = "body" /\ w.authn = aged /\ w.waited = v.waited + 1 /\ w \in Reloads
        BY <3>4, <4>1, <4>2 DEF Reloads
      <4> QED
        BY <3>4, <4>3 DEF w
    <3>7. visit'[q] \in VisitStates /\ Vouched(visit'[q], codes)
      BY <3>6 DEF VisitStates, Vouched
    <3>8. Lateness(visit'[q])
      BY <2>1, <2>2, <3>1, <3>3, <3>6, ConsoleNumbers DEF Lateness
    <3>9. \A a \in Attempts : Carries(visit'[q], a) <=> Carries(visit[q], a)
      BY <2>2, <3>6 DEF Carries, v
    <3> QED
      BY <3>7, <3>8, <3>9
  <2>3. CASE v.at = "exchange"
    <3>1. v \in Exchanges
      BY <2>1, <2>3, VisitKinds
    <3>2. visit'[q] = [v EXCEPT !.waited = @ + 1]
      BY <2>3 DEF ConsoleTick, VisitAt
    <3> HIDE DEF v
    <3>3. /\ visit'[q] \in Exchanges /\ visit'[q].at = "exchange"
          /\ visit'[q].attempt = v.attempt /\ visit'[q].code = v.code
      BY <3>1, <3>2 DEF Exchanges
    <3>4. visit'[q] \in VisitStates /\ Lateness(visit'[q]) /\ Vouched(visit'[q], codes)
      BY <2>1, <2>3, <3>3 DEF VisitStates, Vouched, Lateness
    <3>5. \A a \in Attempts : Carries(visit'[q], a) <=> Carries(visit[q], a)
      BY <2>3, <3>3 DEF Carries, v
    <3> QED
      BY <3>4, <3>5
  <2>4. CASE v.at \notin {"body", "exchange"}
    <3>1. visit'[q] = v
      BY <2>4 DEF ConsoleTick, VisitAt
    <3> QED
      BY <2>1, <3>1
  <2> QED
    BY <2>2, <2>3, <2>4
<1>3. ConsoleTypes'
  <2>1. ASSUME NEW id \in DOMAIN sessions'
        PROVE  sessions'[id] \in [role : Roles, age : Nat]
    <3>1. id \in DOMAIN sessions /\ sessions'[id] = [sessions[id] EXCEPT !.age = Up(@, SessionTtl)]
      BY DEF ConsoleTick
    <3>2. sessions[id] \in [role : Roles, age : Nat]
      BY <3>1 DEF ConsoleInv, ConsoleTypes
    <3>3. Up(sessions[id].age, SessionTtl) \in Nat
      BY <3>2 DEF Up
    <3> QED
      BY <3>1, <3>2, <3>3
  <2>2. visit' \in [Visits -> VisitStates]
    <3>1. DOMAIN visit' = Visits /\ visit' = [q \in Visits |-> visit'[q]]
      BY DEF ConsoleTick
    <3> QED
      BY <1>2, <3>1
  <2> QED
    BY <1>1, <2>1, <2>2 DEF ConsoleInv, ConsoleTypes
<1>4. ASSUME NEW a \in Attempts
      PROVE  OnePlace(a)'
  <2>1. OnePlace(a) /\ (Used(a)' <=> Used(a))
    BY <1>1 DEF ConsoleInv, Used
  <2> QED
    BY <1>1, <1>2, <2>1 DEF OnePlace
<1>5. OneSessionPerSignIn'
  BY <1>1 DEF ConsoleInv, OneSessionPerSignIn
<1> QED
  BY <1>1, <1>2, <1>3, <1>4, <1>5 DEF ConsoleInv

\* No session, no sign-in.
LEMMA ConsoleInitInv == ConsoleInit => ConsoleInv
<1> SUFFICES ASSUME ConsoleInit PROVE ConsoleInv
  OBVIOUS
<1>1. DOMAIN sessions = {} /\ DOMAIN pending = {}
  BY DEF ConsoleInit
<1>2. \A r \in Visits : visit[r] = NoVisit
  BY DEF ConsoleInit
<1>3. \A a \in Attempts : signins[a] = <<>>
  BY DEF ConsoleInit, Attempts
<1>4. ConsoleTypes
  BY <1>1, ConsoleNumbers DEF ConsoleInit, ConsoleTypes, VisitStates, Attempts
<1>5. \A r \in Visits : Lateness(visit[r]) /\ Vouched(visit[r], codes)
  BY <1>2 DEF Lateness, Vouched, NoVisit
<1>6. \A a \in Attempts : OnePlace(a)
  BY <1>1, <1>2, <1>3 DEF OnePlace, Used, Carries, NoVisit
<1>7. OneSessionPerSignIn
  BY <1>3, <1>4 DEF OneSessionPerSignIn, ConsoleTypes
<1> QED
  BY <1>4, <1>5, <1>6, <1>7 DEF ConsoleInv

\* Every step of the console keeps the invariant.
LEMMA ConsoleNextInv == ConsoleInv /\ [ConsoleNext]_consoleVars => ConsoleInv'
<1> SUFFICES ASSUME ConsoleInv, [ConsoleNext]_consoleVars PROVE ConsoleInv'
  OBVIOUS
<1>1. CASE ConsoleTick
  BY <1>1, ConsoleTickInv
<1>2. ASSUME NEW attempt \in 1 .. MaxIds, NEW user \in Users, Authorize(attempt, user)
      PROVE  ConsoleInv'
  BY <1>2, AuthorizeInv DEF Attempts
<1>3. ASSUME NEW r \in Visits, Handle(r)
      PROVE  ConsoleInv'
  BY <1>3, ApiReloadInv, GetInv, LoginInv, OidcLoginInv, OidcCallbackInv DEF Handle, Attempts
<1>4. ASSUME NEW r \in Visits, VisitStep(r)
      PROVE  ConsoleInv'
  BY <1>4, IssueInv, IssueInsertInv, ReloadStepInv, OidcBeginInv, ExchangeInv DEF VisitStep
<1>5. CASE UNCHANGED consoleVars
  <2>1. UNCHANGED <<sessions, pending, issued, codes, visit, signins>>
    BY <1>5 DEF consoleVars
  <2> QED
    BY <2>1 DEF ConsoleInv, ConsoleTypes, OnePlace, Used, OneSessionPerSignIn
<1> QED
  BY <1>1, <1>2, <1>3, <1>4, <1>5 DEF ConsoleNext

\* So it is an invariant.
LEMMA ConsoleInvariance == ConsoleSpec => []ConsoleInv
  BY ConsoleInitInv, ConsoleNextInv, PTL DEF ConsoleSpec

\* A reload is applied under a session that has expired by less than the time a body may take
\* (dashboard.rs: the session is looked up before the body is read and not again).
THEOREM ReloadsNotLate == ConsoleSpec => []ReloadLateness
<1>1. ConsoleInv => ReloadLateness
  BY DEF ConsoleInv, Lateness, ReloadLateness, VisitAt
<1> QED
  BY ConsoleInvariance, <1>1, PTL

\* A sign-in gives one session at most, and to somebody who signed in, however often its
\* callback is sent and however the requests interleave (dashboard_oidc.rs: the state is taken once).
THEOREM SignInsOnce == ConsoleSpec => []OneSessionPerSignIn
<1>1. ConsoleInv => OneSessionPerSignIn
  BY DEF ConsoleInv
<1> QED
  BY ConsoleInvariance, <1>1, PTL

-----------------------------------------------------------------------------
(* The lists of trusted edges. *)

Brought == UNION {Listed(e) : e \in EdgeSet}

\* The first n parts of an edge, each of a version up to v.
UpTo(v, e, list, n) ==
  \E choice \in [1..n -> 1..MaxVersion] :
    /\ \A p \in 1..n : choice[p] <= v
    /\ \A x : x \in list <=> \E p \in 1..n : x \in List[e][p][choice[p]]

CidrTypes ==
  /\ version \in [EdgeSet -> 1..MaxVersion]
  /\ snapshot \in [EdgeSet -> SUBSET Brought]
  /\ fetched \in [EdgeSet -> SUBSET Brought]
  /\ old \in [EdgeSet -> SUBSET Brought]
  /\ part \in 1..Urls
  /\ todo \in Seq(EdgeSet) /\ IsInjective(todo)
  /\ flags.edges \in Seq(EdgeSet) /\ IsInjective(flags.edges)
  /\ at \in {"idle", "fetch", "write", "rename"}

\* How many parts of an edge the run holds: all of those it is done with, some of the
\* one it is at, none of those to come.
PartsOf(e) == IF at # "fetch" \/ e \notin Range(todo) THEN Urls
              ELSE IF e = Head(todo) THEN part - 1 ELSE 0

Gathered ==
  /\ Range(todo) \subseteq Selected
  /\ \A e \in Selected \cap Declaring : UpTo(version[e], e, fetched[e], PartsOf(e))

FilesWhole == \A e \in Declaring : UpTo(version[e], e, snapshot[e], Urls)

EnvMerged == Extras \ Brought \subseteq env /\ env \subseteq Extras \cup Brought

CidrInv == CidrTypes /\ (at # "idle" => Gathered) /\ FilesWhole /\ EnvMerged

\* What an injective sequence loses with its head.
LEMMA TailFacts ==
  ASSUME NEW S, NEW s \in Seq(S), IsInjective(s), s # <<>>
  PROVE  /\ Head(s) \in S /\ Head(s) \in Range(s)
         /\ Tail(s) \in Seq(S) /\ IsInjective(Tail(s))
         /\ Range(Tail(s)) = Range(s) \ {Head(s)}
<1>1. Len(s) \in Nat \ {0} /\ DOMAIN s = 1..Len(s) /\ Head(s) = s[1]
  OBVIOUS
<1>2. /\ Tail(s) \in Seq(S) /\ DOMAIN Tail(s) = 1..(Len(s) - 1)
      /\ \A i \in 1..(Len(s) - 1) : Tail(s)[i] = s[i + 1]
  BY <1>1
<1>3. IsInjective(Tail(s))
  <2> SUFFICES ASSUME NEW i \in 1..(Len(s) - 1), NEW j \in 1..(Len(s) - 1),
                      Tail(s)[i] = Tail(s)[j]
               PROVE  i = j
    BY <1>2 DEF IsInjective
  <2>1. i + 1 \in DOMAIN s /\ j + 1 \in DOMAIN s /\ s[i + 1] = s[j + 1]
    BY <1>1, <1>2
  <2>2. i + 1 = j + 1
    BY <2>1 DEF IsInjective
  <2> QED
    BY <2>2
<1>4. ASSUME NEW x \in Range(Tail(s))
      PROVE  x \in Range(s) /\ x # Head(s)
  <2>1. PICK i \in 1..(Len(s) - 1) : x = s[i + 1]
    BY <1>2, <1>4 DEF Range
  <2>2. i + 1 \in DOMAIN s /\ 1 \in DOMAIN s /\ i + 1 # 1
    BY <1>1
  <2> QED
    BY <1>1, <2>1, <2>2 DEF Range, IsInjective
<1>5. ASSUME NEW x \in Range(s), x # Head(s)
      PROVE  x \in Range(Tail(s))
  <2>1. PICK i \in 1..Len(s) : x = s[i]
    BY <1>1, <1>5 DEF Range
  <2>2. i # 1
    BY <1>1, <1>5, <2>1
  <2>3. i - 1 \in 1..(Len(s) - 1) /\ Tail(s)[i - 1] = x
    BY <1>1, <1>2, <2>1, <2>2
  <2> QED
    BY <1>2, <2>3 DEF Range
<1>6. Head(s) \in S /\ Head(s) \in Range(s)
  BY <1>1 DEF Range
<1> QED
  BY <1>2, <1>3, <1>4, <1>5, <1>6

\* Nothing is fetched yet.
LEMMA UpToNothing == ASSUME NEW v, NEW e PROVE UpTo(v, e, {}, 0)
<1> DEFINE none == [p \in 1..0 |-> 1]
<1>1. none \in [1..0 -> 1..MaxVersion]
  OBVIOUS
<1>2. \A p \in 1..0 : FALSE
  OBVIOUS
<1> HIDE DEF none
<1> QED
  BY <1>1, <1>2 DEF UpTo

\* The next part comes in the version that is served.
LEMMA UpToNext ==
  ASSUME NEW v \in 1..MaxVersion, NEW e, NEW list, NEW n \in Nat, UpTo(v, e, list, n)
  PROVE  UpTo(v, e, list \cup List[e][n + 1][v], n + 1)
<1>1. PICK choice \in [1..n -> 1..MaxVersion] :
        /\ \A p \in 1..n : choice[p] <= v
        /\ \A x : x \in list <=> \E p \in 1..n : x \in List[e][p][choice[p]]
  BY DEF UpTo
<1> DEFINE next == [p \in 1..(n + 1) |-> IF p = n + 1 THEN v ELSE choice[p]]
<1>2. \A p \in 1..(n + 1) : p = n + 1 \/ p \in 1..n
  OBVIOUS
<1>3. \A p \in 1..n : p \in 1..(n + 1) /\ p # n + 1
  OBVIOUS
<1>4. next \in [1..(n + 1) -> 1..MaxVersion]
  BY <1>1, <1>2
<1>5. \A p \in 1..(n + 1) : next[p] <= v
  BY <1>1, <1>2
<1>6. \A p \in 1..n : next[p] = choice[p]
  BY <1>3
<1>7. n + 1 \in 1..(n + 1) /\ next[n + 1] = v
  OBVIOUS
<1> HIDE DEF next
<1>8. ASSUME NEW x
      PROVE  x \in list \cup List[e][n + 1][v]
               <=> \E p \in 1..(n + 1) : x \in List[e][p][next[p]]
  BY <1>1, <1>2, <1>3, <1>6, <1>7
<1> QED
  BY <1>4, <1>5, <1>8 DEF UpTo

\* What was published stays published.
LEMMA UpToLater ==
  ASSUME NEW v \in 1..MaxVersion, NEW w \in 1..MaxVersion, v <= w,
         NEW e, NEW list, NEW n \in Nat, UpTo(v, e, list, n)
  PROVE  UpTo(w, e, list, n)
<1>1. PICK choice \in [1..n -> 1..MaxVersion] :
        /\ \A p \in 1..n : choice[p] <= v
        /\ \A x : x \in list <=> \E p \in 1..n : x \in List[e][p][choice[p]]
  BY DEF UpTo
<1>2. ASSUME NEW p \in 1..n
      PROVE  choice[p] <= w
  <2>1. choice[p] \in 1..MaxVersion /\ choice[p] <= v
    BY <1>1
  <2> QED
    BY <2>1
<1> QED
  BY <1>1, <1>2 DEF UpTo

\* A whole list is all its parts.
LEMMA PublishedIsUpTo ==
  ASSUME NEW v, NEW e, NEW list
  PROVE  UpTo(v, e, list, Urls) <=>
           \E choice \in [1..Urls -> 1..MaxVersion] :
             /\ \A p \in 1..Urls : choice[p] <= v
             /\ list = UNION {List[e][p][choice[p]] : p \in 1..Urls}
<1>1. ASSUME NEW choice
      PROVE  list = UNION {List[e][p][choice[p]] : p \in 1..Urls}
               <=> \A x : x \in list <=> \E p \in 1..Urls : x \in List[e][p][choice[p]]
  OBVIOUS
<1> QED
  BY <1>1 DEF UpTo

\* An edge brings nothing but its lists and, undeclared, a torn line.
LEMMA PartBrought ==
  ASSUME NEW e \in EdgeSet, NEW p \in 1..Urls, NEW v \in 1..MaxVersion
  PROVE  /\ List[e][p][v] \subseteq Brought
         /\ e \notin Declaring => Torn \in Brought
<1>1. List[e][p][v] \subseteq Listed(e) /\ (e \notin Declaring => Torn \in Listed(e))
  BY DEF Listed
<1>2. Listed(e) \subseteq Brought
  BY DEF Brought
<1> QED
  BY <1>1, <1>2

\* A provider publishes a new list while the command may be running.
LEMMA PublishInv == ASSUME CidrInv, NEW e \in EdgeSet, Publish(e) PROVE CidrInv'
<1> USE CidrsAssumption
<1>1. /\ version \in [EdgeSet -> 1..MaxVersion]
      /\ version' = [version EXCEPT ![e] = @ + 1] /\ version[e] < MaxVersion
      /\ part \in 1..Urls /\ at' = at
  BY DEF CidrInv, CidrTypes, Publish
<1>2. version' \in [EdgeSet -> 1..MaxVersion]
  BY <1>1
<1>3. \A d \in EdgeSet : version[d] <= version'[d]
  <2> SUFFICES ASSUME NEW d \in EdgeSet PROVE version[d] <= version'[d]
    OBVIOUS
  <2>1. version[d] \in 1..MaxVersion /\ version[e] \in 1..MaxVersion
    BY <1>1
  <2> QED
    BY <1>1, <2>1
<1>4. CidrTypes'
  BY <1>2 DEF CidrInv, CidrTypes, Publish, disk
<1>5. FilesWhole'
  <2> SUFFICES ASSUME NEW d \in Declaring
               PROVE  UpTo(version'[d], d, snapshot[d], Urls)
    BY DEF FilesWhole, Publish, disk
  <2>1. d \in EdgeSet
    BY DEF EdgeSet
  <2>2. /\ version[d] \in 1..MaxVersion /\ version'[d] \in 1..MaxVersion
        /\ version[d] <= version'[d] /\ UpTo(version[d], d, snapshot[d], Urls)
    BY <1>1, <1>2, <1>3, <2>1 DEF CidrInv, FilesWhole
  <2> QED
    BY <2>2, UpToLater
<1>6. EnvMerged'
  BY DEF CidrInv, EnvMerged, Publish, disk
<1>7. ASSUME at # "idle"
      PROVE  Gathered'
  <2>1. Gathered
    BY <1>7 DEF CidrInv
  <2> SUFFICES ASSUME NEW d \in Selected \cap Declaring
               PROVE  UpTo(version'[d], d, fetched[d], PartsOf(d))
    BY <2>1 DEF Gathered, Publish, Selected, PartsOf
  <2>2. d \in EdgeSet
    BY DEF EdgeSet
  <2>3. PartsOf(d) \in Nat
    BY <1>1 DEF PartsOf
  <2>4. /\ version[d] \in 1..MaxVersion /\ version'[d] \in 1..MaxVersion
        /\ version[d] <= version'[d] /\ UpTo(version[d], d, fetched[d], PartsOf(d))
    BY <1>1, <1>2, <1>3, <2>1, <2>2 DEF Gathered
  <2> QED
    BY <2>3, <2>4, UpToLater
<1> QED
  BY <1>1, <1>4, <1>5, <1>6, <1>7 DEF CidrInv

\* A selection names no edge twice.
LEMMA SelectionFacts ==
  ASSUME NEW s \in Selections
  PROVE  s \in Seq(EdgeSet) /\ IsInjective(s)
<1>1. CASE s = Edges
  BY <1>1, CidrsAssumption DEF EdgeSet
<1>2. ASSUME NEW e \in EdgeSet, s = <<e>>
      PROVE  s \in Seq(EdgeSet) /\ IsInjective(s)
  BY <1>2 DEF IsInjective
<1> QED
  BY <1>1, <1>2 DEF Selections

\* The command starts with nothing gathered.
LEMMA RunInv ==
  ASSUME CidrInv,
         NEW f \in [edges : Selections, yes : BOOLEAN, tty : BOOLEAN, env : BOOLEAN],
         Run(f)
  PROVE  CidrInv'
<1> USE CidrsAssumption
<1>1. f.edges \in Seq(EdgeSet) /\ IsInjective(f.edges)
  BY SelectionFacts
<1>2. CidrTypes'
  BY <1>1 DEF CidrInv, CidrTypes, Run, NoLists, disk
<1>3. Range(todo') \subseteq Selected'
  BY DEF Run, Selected
<1>4. ASSUME NEW d \in (Selected \cap Declaring)'
      PROVE  UpTo(version'[d], d, fetched'[d], PartsOf(d)')
  <2>1. d \in EdgeSet /\ d \in Range(todo')
    BY DEF Run, Selected, EdgeSet
  <2>2. PartsOf(d)' = 0 /\ fetched'[d] = {}
    BY <2>1 DEF Run, PartsOf, NoLists
  <2> QED
    BY <2>2, UpToNothing
<1>5. Gathered'
  BY <1>3, <1>4 DEF Gathered
<1> QED
  BY <1>2, <1>5 DEF CidrInv, Run, disk, FilesWhole, EnvMerged

\* What an answer leaves: the parts of the edge, its list once the last is there.
LEMMA GotPartInv ==
  ASSUME CidrInv, NEW e \in EdgeSet, Fetching(e), NEW list \in SUBSET Brought,
         e \in Declaring => list = List[e][part][version[e]],
         GotPart(e, list)
  PROVE  CidrInv'
<1> USE CidrsAssumption
<1>1. /\ CidrTypes /\ Gathered /\ FilesWhole /\ EnvMerged
      /\ at = "fetch" /\ at' = "fetch" /\ todo # <<>> /\ Head(todo) = e
  BY DEF CidrInv, Fetching, GotPart
<1>2. /\ version' = version /\ snapshot' = snapshot /\ env' = env /\ flags' = flags
      /\ fetched' = [fetched EXCEPT ![e] = @ \cup list]
      /\ fetched \in [EdgeSet -> SUBSET Brought] /\ old \in [EdgeSet -> SUBSET Brought]
      /\ snapshot \in [EdgeSet -> SUBSET Brought] /\ version \in [EdgeSet -> 1..MaxVersion]
      /\ part \in 1..Urls /\ todo \in Seq(EdgeSet) /\ IsInjective(todo)
  BY <1>1 DEF GotPart, disk, CidrTypes
<1>3. /\ e \in Range(todo) /\ Tail(todo) \in Seq(EdgeSet) /\ IsInjective(Tail(todo))
      /\ Range(Tail(todo)) = Range(todo) \ {e}
  BY <1>1, <1>2, TailFacts
<1>4. fetched' \in [EdgeSet -> SUBSET Brought] /\ old' \in [EdgeSet -> SUBSET Brought]
  <2>1. fetched[e] \cup list \in SUBSET Brought /\ snapshot[e] \in SUBSET Brought
    BY <1>2
  <2>2. fetched' = [fetched EXCEPT ![e] = fetched[e] \cup list]
    BY <1>2
  <2>3. old' = old \/ old' = [old EXCEPT ![e] = snapshot[e]]
    BY DEF GotPart
  <2>4. fetched' \in [EdgeSet -> SUBSET Brought]
    BY <1>2, <2>1, <2>2
  <2>5. old' \in [EdgeSet -> SUBSET Brought]
    BY <1>2, <2>1, <2>3
  <2> QED
    BY <2>4, <2>5
<1>5. part' \in 1..Urls
  BY <1>2 DEF GotPart
<1>6. todo' \in Seq(EdgeSet) /\ IsInjective(todo')
  BY <1>2, <1>3 DEF GotPart
<1>7. CidrTypes'
  BY <1>1, <1>2, <1>4, <1>5, <1>6 DEF CidrTypes
<1>8. FilesWhole' /\ EnvMerged'
  BY <1>1, <1>2 DEF FilesWhole, EnvMerged
<1>9. Range(todo') \subseteq Selected'
  BY <1>1, <1>2, <1>3 DEF GotPart, Gathered, Selected
<1>10. ASSUME NEW d \in Selected \cap Declaring, d = e
       PROVE  UpTo(version[d], d, fetched'[d], PartsOf(d)')
  <2>1. UpTo(version[e], e, fetched[e], part - 1)
    BY <1>1, <1>3, <1>10 DEF Gathered, PartsOf
  <2>2. part - 1 \in Nat /\ (part - 1) + 1 = part /\ version[e] \in 1..MaxVersion
    BY <1>2
  <2>3. UpTo(version[e], e, fetched[e] \cup List[e][part][version[e]], part)
    BY <2>1, <2>2, UpToNext
  <2>4. fetched'[e] = fetched[e] \cup List[e][part][version[e]]
    BY <1>2, <1>10
  <2>5. CASE part < Urls
    <3>1. part' = part + 1 /\ todo' = todo
      BY <2>5 DEF GotPart
    <3>2. PartsOf(e)' = part' - 1
      BY <1>1, <1>3, <3>1 DEF PartsOf
    <3>3. part' - 1 = part
      BY <1>2, <3>1
    <3> QED
      BY <1>10, <2>3, <2>4, <3>2, <3>3
  <2>6. CASE ~(part < Urls)
    <3>1. part = Urls /\ todo' = Tail(todo)
      BY <1>2, <2>6 DEF GotPart
    <3>2. PartsOf(e)' = Urls
      BY <1>3, <3>1 DEF PartsOf
    <3> QED
      BY <1>10, <2>3, <2>4, <3>1, <3>2
  <2> QED
    BY <2>5, <2>6
<1>11. ASSUME NEW d \in Selected \cap Declaring, d # e
       PROVE  UpTo(version[d], d, fetched'[d], PartsOf(d)')
  <2>1. UpTo(version[d], d, fetched[d], PartsOf(d)) /\ fetched'[d] = fetched[d]
    BY <1>1, <1>2, <1>11 DEF Gathered, EdgeSet
  <2>2. PartsOf(d)' = PartsOf(d)
    <3>1. CASE part < Urls
      BY <1>1, <1>11, <3>1 DEF GotPart, PartsOf
    <3>2. CASE ~(part < Urls)
      <4>1. part' = 1 /\ todo' = Tail(todo) /\ part' - 1 = 0
        BY <3>2 DEF GotPart
      <4>2. d \in Range(todo') <=> d \in Range(todo)
        BY <1>3, <1>11, <4>1
      <4> QED
        BY <1>1, <1>11, <4>1, <4>2 DEF PartsOf
    <3> QED
      BY <3>1, <3>2
  <2> QED
    BY <2>1, <2>2
<1>12. Gathered'
  BY <1>2, <1>9, <1>10, <1>11 DEF Gathered, Selected
<1> QED
  BY <1>7, <1>8, <1>12 DEF CidrInv

\* A part of a list arrives, whole or cut.
LEMMA FetchInv ==
  ASSUME CidrInv, NEW e \in EdgeSet, GetPart(e) \/ GetCut(e)
  PROVE  CidrInv'
<1>1. /\ part \in 1..Urls /\ version[e] \in 1..MaxVersion
  BY DEF CidrInv, CidrTypes
<1>2. /\ List[e][part][version[e]] \subseteq Brought
      /\ e \notin Declaring => Torn \in Brought
  BY <1>1, PartBrought
<1>3. CASE GetPart(e)
  BY <1>2, <1>3, GotPartInv DEF GetPart
<1>4. CASE GetCut(e)
  <2>1. PICK list \in SUBSET List[e][part][version[e]], line \in SUBSET {Torn} :
          GotPart(e, list \cup line)
    BY <1>4 DEF GetCut
  <2>2. list \cup line \in SUBSET Brought /\ e \notin Declaring /\ Fetching(e)
    BY <1>2, <1>4 DEF GetCut
  <2> QED
    BY <2>1, <2>2, GotPartInv
<1> QED
  BY <1>3, <1>4

\* A run that ends has written nothing in its last step.
LEMMA ExitInv ==
  ASSUME CidrInv, at' = "idle",
         UNCHANGED <<version, disk, flags, fetched, old, todo, part>>
  PROVE  CidrInv'
  BY DEF CidrInv, CidrTypes, FilesWhole, EnvMerged, disk

\* The operator confirms, or the command ends without writing.
LEMMA ConfirmInv == ASSUME CidrInv, Confirm PROVE CidrInv'
<1>1. CASE at' = "idle"
  BY <1>1, ExitInv DEF Confirm, Exit
<1>2. CASE at' # "idle"
  <2>1. /\ at = "fetch" /\ todo = <<>> /\ at' = "write" /\ todo' = flags.edges
        /\ UNCHANGED <<version, snapshot, env, flags, fetched, old, part>>
    BY <1>2 DEF Confirm, Exit, disk
  <2>2. CidrTypes' /\ FilesWhole' /\ EnvMerged'
    BY <2>1 DEF CidrInv, CidrTypes, FilesWhole, EnvMerged
  <2>3. \A d : PartsOf(d) = Urls
    <3>1. Range(todo) = {}
      BY <2>1 DEF Range
    <3> QED
      BY <3>1 DEF PartsOf
  <2>4. \A d : PartsOf(d)' = Urls
    BY <2>1 DEF PartsOf
  <2>5. Gathered
    BY <2>1 DEF CidrInv
  <2>6. Gathered'
    BY <2>1, <2>3, <2>4, <2>5 DEF Gathered, Selected
  <2> QED
    BY <2>2, <2>6 DEF CidrInv
<1> QED
  BY <1>1, <1>2

\* The edge at the head is written or passed over.
LEMMA WriteInv ==
  ASSUME CidrInv, WriteTmp \/ SkipEdge \/ RenameSnapshot
  PROVE  CidrInv'
<1> USE CidrsAssumption
<1>1. /\ CidrTypes /\ Gathered /\ FilesWhole /\ EnvMerged
      /\ at \in {"write", "rename"} /\ at' \in {"write", "rename"}
      /\ UNCHANGED <<version, env, flags, fetched, old, part>>
  BY DEF CidrInv, WriteTmp, SkipEdge, RenameSnapshot, disk
<1>2. (todo # <<>> /\ todo' = Tail(todo)) \/ todo' = todo
  BY DEF WriteTmp, SkipEdge, RenameSnapshot
<1>3. /\ todo' \in Seq(EdgeSet) /\ IsInjective(todo') /\ Range(todo') \subseteq Range(todo)
  <2>1. todo \in Seq(EdgeSet) /\ IsInjective(todo)
    BY <1>1 DEF CidrTypes
  <2>2. CASE todo # <<>> /\ todo' = Tail(todo)
    <3>1. /\ Tail(todo) \in Seq(EdgeSet) /\ IsInjective(Tail(todo))
          /\ Range(Tail(todo)) = Range(todo) \ {Head(todo)}
      BY <2>1, <2>2, TailFacts
    <3> QED
      BY <2>2, <3>1
  <2>3. CASE todo' = todo
    BY <2>1, <2>3
  <2> QED
    BY <1>2, <2>2, <2>3
<1>4. Gathered'
  <2>1. \A d : PartsOf(d) = Urls /\ PartsOf(d)' = Urls
    BY <1>1 DEF PartsOf
  <2> QED
    BY <1>1, <1>3, <2>1 DEF Gathered, Selected
<1>5. \/ snapshot' = snapshot
      \/ /\ todo # <<>> /\ snapshot' = [snapshot EXCEPT ![Head(todo)] = fetched[Head(todo)]]
  BY DEF WriteTmp, SkipEdge, RenameSnapshot, disk, Target
<1>6. todo # <<>> => Head(todo) \in EdgeSet /\ Head(todo) \in Selected
  <2>1. todo \in Seq(EdgeSet) /\ IsInjective(todo)
    BY <1>1 DEF CidrTypes
  <2> QED
    BY <1>1, <2>1, TailFacts DEF Gathered
<1>7. snapshot' \in [EdgeSet -> SUBSET Brought]
  BY <1>1, <1>5, <1>6 DEF CidrTypes
<1>8. CidrTypes'
  BY <1>1, <1>3, <1>7 DEF CidrTypes
<1>9. FilesWhole'
  <2> SUFFICES ASSUME NEW d \in Declaring
               PROVE  UpTo(version[d], d, snapshot'[d], Urls)
    BY <1>1 DEF FilesWhole
  <2>1. d \in EdgeSet /\ UpTo(version[d], d, snapshot[d], Urls)
    BY <1>1 DEF FilesWhole, EdgeSet
  <2>2. CASE snapshot'[d] = snapshot[d]
    BY <2>1, <2>2
  <2>3. CASE snapshot'[d] # snapshot[d]
    <3>1. todo # <<>> /\ d = Head(todo) /\ snapshot'[d] = fetched[d]
      BY <1>1, <1>5, <2>1, <2>3 DEF CidrTypes
    <3>2. UpTo(version[d], d, fetched[d], PartsOf(d)) /\ PartsOf(d) = Urls
      BY <1>1, <1>6, <3>1 DEF Gathered, PartsOf
    <3> QED
      BY <3>1, <3>2
  <2> QED
    BY <2>2, <2>3
<1> QED
  BY <1>1, <1>4, <1>8, <1>9 DEF CidrInv, EnvMerged

\* The merge takes out what the snapshots brought and puts in what was fetched.
LEMMA RenameEnvInv == ASSUME CidrInv, RenameEnv PROVE CidrInv'
<1>1. /\ CidrTypes /\ Gathered /\ FilesWhole /\ EnvMerged
      /\ at' = "idle" /\ env' = merge_env_trusted
      /\ UNCHANGED <<version, snapshot, flags, fetched, old, todo, part>>
  BY DEF CidrInv, RenameEnv, Exit, Target
<1>2. Selected \subseteq EdgeSet
  BY <1>1 DEF CidrTypes, Selected, Range
<1>3. /\ UNION {old[e] : e \in Selected} \subseteq Brought
      /\ UNION {fetched[e] : e \in Selected} \subseteq Brought
  BY <1>1, <1>2 DEF CidrTypes
<1>4. EnvMerged'
  BY <1>1, <1>3 DEF EnvMerged, merge_env_trusted, Brought
<1> QED
  BY <1>1, <1>4 DEF CidrInv, CidrTypes, FilesWhole

\* The files start as the providers published them.
LEMMA CidrInitInv == CidrsInit => CidrInv
<1> USE CidrsAssumption
<1> SUFFICES ASSUME CidrsInit PROVE CidrInv
  OBVIOUS
<1>1. /\ version = [e \in EdgeSet |-> 1] /\ snapshot = [e \in EdgeSet |-> Served(e)]
      /\ env = Extras \cup UNION {snapshot[e] : e \in EdgeSet}
      /\ at = "idle" /\ todo = <<>> /\ flags.edges = <<>> /\ part = 1
      /\ fetched = NoLists /\ old = NoLists
  BY DEF CidrsInit
<1>2. ASSUME NEW e \in EdgeSet
      PROVE  Served(e) \subseteq Brought
  <2>1. Served(e) = UNION {List[e][p][1] : p \in 1..Urls}
    BY <1>1 DEF Served
  <2>2. \A p \in 1..Urls : List[e][p][1] \subseteq Brought
    BY PartBrought
  <2> QED
    BY <2>1, <2>2
<1>3. <<>> \in Seq(EdgeSet) /\ IsInjective(<<>>)
  BY DEF IsInjective
<1>4. CidrTypes
  BY <1>1, <1>2, <1>3 DEF CidrTypes, NoLists
<1>5. FilesWhole
  <2> SUFFICES ASSUME NEW e \in Declaring PROVE UpTo(version[e], e, snapshot[e], Urls)
    BY DEF FilesWhole
  <2> DEFINE first == [p \in 1..Urls |-> 1]
  <2>1. /\ e \in EdgeSet /\ version[e] = 1 /\ version[e] <= version[e]
        /\ snapshot[e] = UNION {List[e][p][1] : p \in 1..Urls}
    BY <1>1 DEF EdgeSet, Served
  <2>2. first \in [1..Urls -> 1..MaxVersion] /\ \A p \in 1..Urls : first[p] = 1
    OBVIOUS
  <2> HIDE DEF first
  <2>3. \A x : x \in snapshot[e] <=> \E p \in 1..Urls : x \in List[e][p][first[p]]
    BY <2>1, <2>2
  <2>4. \A p \in 1..Urls : first[p] <= version[e]
    BY <2>1, <2>2
  <2> QED
    BY <2>2, <2>3, <2>4 DEF UpTo
<1>6. EnvMerged
  <2>1. UNION {snapshot[e] : e \in EdgeSet} \subseteq Brought
    BY <1>1, <1>2
  <2> QED
    BY <1>1, <2>1 DEF EnvMerged
<1> QED
  BY <1>1, <1>4, <1>5, <1>6 DEF CidrInv

\* Every step of the command keeps the invariant.
LEMMA CidrNextInv == CidrInv /\ [CidrsNext]_cidrVars => CidrInv'
<1> SUFFICES ASSUME CidrInv, [CidrsNext]_cidrVars PROVE CidrInv'
  OBVIOUS
<1>1. ASSUME NEW e \in EdgeSet, Publish(e) PROVE CidrInv'
  BY <1>1, PublishInv
<1>2. ASSUME NEW e \in EdgeSet, GetPart(e) \/ GetCut(e) PROVE CidrInv'
  BY <1>2, FetchInv
<1>3. ASSUME NEW e \in EdgeSet, GetFails(e) PROVE CidrInv'
  BY <1>3, ExitInv DEF GetFails, Exit
<1>4. ASSUME NEW f \in [edges : Selections, yes : BOOLEAN, tty : BOOLEAN, env : BOOLEAN],
             Run(f)
      PROVE  CidrInv'
  BY <1>4, RunInv
<1>5. CASE Unchanged \/ WriteFails \/ EnvUnchanged \/ Crash
  BY <1>5, ExitInv DEF Unchanged, WriteFails, EnvUnchanged, Crash, Exit
<1>6. CASE Confirm
  BY <1>6, ConfirmInv
<1>7. CASE WriteTmp \/ SkipEdge \/ RenameSnapshot
  BY <1>7, WriteInv
<1>8. CASE RenameEnv
  BY <1>8, RenameEnvInv
<1>9. CASE UNCHANGED cidrVars
  BY <1>9 DEF CidrInv, CidrTypes, Gathered, Selected, PartsOf, FilesWhole, EnvMerged, cidrVars
<1> QED
  BY <1>1, <1>2, <1>3, <1>4, <1>5, <1>6, <1>7, <1>8, <1>9 DEF CidrsNext

\* Whenever the command fails, the file of an edge whose answers declare their length holds
\* what the provider published and the .env loses none of the operator's networks and gains
\* only listed ones (cidrs.rs: run_with).
THEOREM LastKnownGoodKept == CidrsSpec => []LastKnownGood
<1>1. CidrInv => LastKnownGood
  BY PublishedIsUpTo DEF CidrInv, FilesWhole, EnvMerged, LastKnownGood, PublishedParts, Brought
<1> QED
  BY CidrInitInv, CidrNextInv, <1>1, PTL DEF CidrsSpec

-----------------------------------------------------------------------------
(* Abuse: the quotas of a fingerprint that changes its address *)

\* Every site keeps its quotas for the same time.  Otherwise the sweep of one drops what
\* another still counts.
OneWindow == \A s, t \in Sites : WindowOf[s] = WindowOf[t]

\* A map from some of the keys to ages, and the queue of a key.
QuotaMap(m) == DOMAIN m \subseteq QuotaKey /\ \A k \in DOMAIN m : m[k] \in Seq(Nat)
QueueOf(m, k) == IF k \in DOMAIN m THEN m[k] ELSE <<>>

\* Two maps that count the same within the window.
SameHits(m, o) ==
  \A k \in QuotaKey : Retain(QueueOf(m, k), WindowOf[k[1]]) = Retain(QueueOf(o, k), WindowOf[k[1]])

Cases == [at : {"over", "hit", "judge", "allowed"}, id : Identity, input : Input,
          next : 1 .. 5, reasons : SUBSET (Kinds \cup {"ua_weak", "ip_rotate"}), due : SUBSET Kinds]

\* A quota that was used up when the inspection began is among the reasons once it is
\* read, and is still used up until then.
Reading(m, v) ==
  \A k \in v.due : IF ReadAt[k] < v.next THEN k \in v.reasons ELSE OverIn(m, v.id, k)

Inspection(m, v) ==
  /\ v \in Cases
  /\ v.at \in {"over", "hit"} => Reading(m, v)
  /\ v.at = "hit" => v.input.path \in {"signup", "recover"}
  /\ v.at = "judge" => v.due \subseteq v.reasons
  /\ v.at = "allowed" => v.input.path \notin v.due

AbuseInv ==
  /\ QuotaMap(counters) /\ QuotaMap(noted) /\ SameHits(counters, noted)
  /\ DOMAIN inspected = Visitors
  /\ \A r \in Visitors : ~InspectionAt(r, "idle") => Inspection(counters, inspected[r])

\* The keys of an identity.
LEMMA KeyFacts ==
  ASSUME NEW id \in Identity, NEW kind \in Kinds
  PROVE  /\ KeysFor(id, kind) \subseteq QuotaKey
         /\ \A k \in KeysFor(id, kind) : k[1] = id.site
<1>1. ASSUME NEW d \in IdentityDims(id)
      PROVE  d \in Dim
  BY DEF IdentityDims, Dim, Identity
<1> QED
  BY <1>1 DEF KeysFor, QuotaKey, Identity

\* A queue of a map is a sequence of ages.
LEMMA QueueType ==
  ASSUME NEW m, QuotaMap(m), NEW k
  PROVE  QueueOf(m, k) \in Seq(Nat)
  BY DEF QuotaMap, QueueOf

\* A kind is over when one of its queues is full: a key without an entry has none.
LEMMA OverByQueue ==
  ASSUME NEW m, NEW id \in Identity, NEW kind \in Kinds
  PROVE  OverIn(m, id, kind) <=>
           \E k \in KeysFor(id, kind) :
             Len(Retain(QueueOf(m, k), WindowOf[k[1]])) >= MaxOf[kind]
<1>1. \A k \in KeysFor(id, kind) : k[1] = id.site
  BY KeyFacts
<1>2. ASSUME NEW k \in KeysFor(id, kind), k \notin DOMAIN m
      PROVE  ~(Len(Retain(QueueOf(m, k), WindowOf[k[1]])) >= MaxOf[kind])
  <2>1. Retain(<<>>, WindowOf[k[1]]) = <<>>
    BY RetainEmpty
  <2>2. QueueOf(m, k) = <<>> /\ MaxOf[kind] \in Nat \ {0}
    BY <1>2, AbuseAssumption DEF QueueOf, AbuseSettings
  <2>3. Len(Retain(QueueOf(m, k), WindowOf[k[1]])) = 0
    BY <2>1, <2>2
  <2> QED
    BY <2>2, <2>3
<1>3. ASSUME NEW k \in KeysFor(id, kind), k \in DOMAIN m
      PROVE  Retain(QueueOf(m, k), WindowOf[k[1]]) = Retain(m[k], WindowOf[id.site])
  BY <1>1, <1>3 DEF QueueOf
<1> QED
  BY <1>2, <1>3 DEF OverIn

\* Maps that count the same are over for the same kinds.
LEMMA SameOver ==
  ASSUME NEW m, NEW o, SameHits(m, o), NEW id \in Identity, NEW kind \in Kinds
  PROVE  OverIn(m, id, kind) <=> OverIn(o, id, kind)
<1>1. \A k \in KeysFor(id, kind) : k \in QuotaKey
  BY KeyFacts
<1> QED
  BY <1>1, OverByQueue DEF SameHits

\* The sweep counts as much as before.
LEMMA SweptSame ==
  ASSUME NEW m, QuotaMap(m), NEW s \in Sites, OneWindow
  PROVE  QuotaMap(Swept(m, WindowOf[s])) /\ SameHits(Swept(m, WindowOf[s]), m)
<1> DEFINE w == WindowOf[s]
           left == Swept(m, w)
<1>1. /\ \A k \in DOMAIN left : k \in DOMAIN m /\ left[k] = Retain(m[k], w)
      /\ \A k \in DOMAIN m : k \notin DOMAIN left => Retain(m[k], w) = <<>>
  BY DEF Swept
<1>2. QuotaMap(left)
  BY <1>1, RetainFacts DEF QuotaMap
<1> HIDE DEF left
<1>3. ASSUME NEW k \in QuotaKey
      PROVE  Retain(QueueOf(left, k), w) = Retain(QueueOf(m, k), w)
  <2>1. CASE k \in DOMAIN left
    BY <1>1, <2>1, RetainTwice DEF QuotaMap, QueueOf
  <2>2. CASE k \notin DOMAIN left /\ k \in DOMAIN m
    <3>1. QueueOf(left, k) = <<>> /\ Retain(QueueOf(m, k), w) = <<>>
      BY <1>1, <2>2 DEF QueueOf
    <3> QED
      BY <3>1, RetainEmpty
  <2>3. CASE k \notin DOMAIN left /\ k \notin DOMAIN m
    BY <2>3 DEF QueueOf
  <2> QED
    BY <1>1, <2>1, <2>2, <2>3
<1>4. \A k \in QuotaKey : WindowOf[k[1]] = w
  BY DEF QuotaKey, OneWindow
<1> QED
  BY <1>2, <1>3, <1>4 DEF SameHits, left

\* A hit counts in both, and nothing is over that was not or stops being over.
LEMMA AddSame ==
  ASSUME NEW m, QuotaMap(m), NEW keys \in SUBSET QuotaKey
  PROVE  /\ QuotaMap(Add(m, keys))
         /\ \A k \in QuotaKey : Retain(QueueOf(Add(m, keys), k), WindowOf[k[1]])
                                = IF k \in keys THEN Append(Retain(QueueOf(m, k), WindowOf[k[1]]), 0)
                                  ELSE Retain(QueueOf(m, k), WindowOf[k[1]])
<1> DEFINE more == Add(m, keys)
<1>1. /\ DOMAIN more = DOMAIN m \cup keys
      /\ \A k \in DOMAIN more : more[k] = IF k \in keys THEN Append(QueueOf(m, k), 0) ELSE m[k]
  BY DEF Add, QueueOf
<1> HIDE DEF more
<1>2. QuotaMap(more)
  <2>1. DOMAIN more \subseteq QuotaKey
    BY <1>1 DEF QuotaMap
  <2>2. ASSUME NEW k \in DOMAIN more
        PROVE  more[k] \in Seq(Nat)
    <3>1. QueueOf(m, k) \in Seq(Nat)
      BY QueueType
    <3>2. Append(QueueOf(m, k), 0) \in Seq(Nat)
      BY <3>1
    <3> QED
      BY <1>1, <3>2 DEF QuotaMap
  <2> QED
    BY <2>1, <2>2 DEF QuotaMap
<1>3. ASSUME NEW k \in QuotaKey
      PROVE  Retain(QueueOf(more, k), WindowOf[k[1]])
               = IF k \in keys THEN Append(Retain(QueueOf(m, k), WindowOf[k[1]]), 0)
                 ELSE Retain(QueueOf(m, k), WindowOf[k[1]])
  <2>1. CASE k \in keys
    <3>1. QueueOf(more, k) = Append(QueueOf(m, k), 0) /\ QueueOf(m, k) \in Seq(Nat)
      BY <1>1, <2>1, QueueType DEF QueueOf
    <3>2. k[1] \in Sites
      BY DEF QuotaKey
    <3>3. WindowOf[k[1]] \in Nat \ {0}
      BY <3>2, AbuseAssumption DEF AbuseSettings
    <3>4. 0 < WindowOf[k[1]]
      BY <3>3
    <3> QED
      BY <2>1, <3>1, <3>4, RetainAppend
  <2>2. CASE k \notin keys
    BY <1>1, <2>2 DEF QueueOf
  <2> QED
    BY <2>1, <2>2
<1> QED
  BY <1>2, <1>3 DEF more

\* The longest window is that of every site.
LEMMA WindowFacts ==
  ASSUME NEW k \in QuotaKey, OneWindow
  PROVE  WindowOf[k[1]] \in Nat \ {0} /\ MaxWindow = WindowOf[k[1]]
<1>1. k[1] \in Sites
  BY DEF QuotaKey
<1>2. WindowOf[k[1]] \in Nat \ {0}
  BY <1>1, AbuseAssumption DEF AbuseSettings
<1>3. \A s \in Sites : WindowOf[s] = WindowOf[k[1]]
  BY <1>1 DEF OneWindow
<1>4. \A s \in Sites : WindowOf[s] <= WindowOf[k[1]]
  BY <1>2, <1>3
<1>5. \A w \in {WindowOf[s] : s \in Sites} : w = WindowOf[k[1]]
  BY <1>3
<1>6. WindowOf[k[1]] \in {WindowOf[s] : s \in Sites}
  BY <1>1
<1>7. MaxWindow \in {WindowOf[s] : s \in Sites}
  BY <1>4, <1>6 DEF MaxWindow
<1> QED
  BY <1>2, <1>5, <1>7

\* A tick takes as much out of the window in both.
LEMMA TickSame ==
  ASSUME AbuseInv, AbuseTick, OneWindow
  PROVE  QuotaMap(counters') /\ QuotaMap(noted') /\ SameHits(counters', noted')
<1>1. QuotaMap(counters) /\ QuotaMap(noted) /\ SameHits(counters, noted)
  BY DEF AbuseInv
<1>2. /\ DOMAIN counters' = DOMAIN counters
      /\ \A k \in DOMAIN counters : counters'[k] = Aged(counters[k], MaxWindow)
      /\ \A k \in DOMAIN noted' : k \in DOMAIN noted
                                  /\ noted'[k] = Retain(Aged(noted[k], MaxWindow), WindowOf[k[1]])
      /\ \A k \in DOMAIN noted : k \notin DOMAIN noted'
                                 => Retain(Aged(noted[k], MaxWindow), WindowOf[k[1]]) = <<>>
  BY DEF AbuseTick
<1>3. ASSUME NEW k \in QuotaKey
      PROVE  /\ QueueOf(counters', k) = Aged(QueueOf(counters, k), MaxWindow)
             /\ QueueOf(noted', k) = Retain(Aged(QueueOf(noted, k), MaxWindow), WindowOf[k[1]])
  <2>1. MaxWindow \in Nat
    BY WindowFacts
  <2>2. Aged(<<>>, MaxWindow) = <<>> /\ Retain(<<>>, WindowOf[k[1]]) = <<>>
    BY RetainEmpty DEF Aged
  <2>3. QueueOf(counters', k) = Aged(QueueOf(counters, k), MaxWindow)
    BY <1>2, <2>2 DEF QueueOf
  <2>4. QueueOf(noted', k) = Retain(Aged(QueueOf(noted, k), MaxWindow), WindowOf[k[1]])
    BY <1>2, <2>2 DEF QueueOf
  <2> QED
    BY <2>3, <2>4
<1>4. ASSUME NEW k \in QuotaKey
      PROVE  /\ QueueOf(counters', k) \in Seq(Nat) /\ QueueOf(noted', k) \in Seq(Nat)
             /\ Retain(QueueOf(counters', k), WindowOf[k[1]])
                  = Retain(QueueOf(noted', k), WindowOf[k[1]])
  <2> DEFINE c == QueueOf(counters, k)
             n == QueueOf(noted, k)
             w == WindowOf[k[1]]
  <2>1. c \in Seq(Nat) /\ n \in Seq(Nat)
    BY <1>1, QueueType
  <2>2. w \in Nat /\ MaxWindow = w
    BY WindowFacts
  <2>3. Retain(c, w) = Retain(n, w)
    BY <1>1 DEF SameHits
  <2>4. QueueOf(counters', k) = Aged(c, w) /\ QueueOf(noted', k) = Retain(Aged(n, w), w)
    BY <1>3, <2>2
  <2> HIDE DEF c, n, w
  <2>5. Aged(c, w) \in Seq(Nat) /\ Aged(n, w) \in Seq(Nat) /\ w <= w
    BY <2>1, <2>2, AgedType
  <2>6. /\ Retain(Aged(c, w), w) = Retain(Aged(Retain(c, w), w), w)
        /\ Retain(Aged(n, w), w) = Retain(Aged(Retain(n, w), w), w)
    BY <2>1, <2>2, <2>5, RetainAged
  <2>7. Retain(Retain(Aged(n, w), w), w) = Retain(Aged(n, w), w)
        /\ Retain(Aged(n, w), w) \in Seq(Nat)
    BY <2>5, RetainTwice, RetainFacts
  <2> QED
    BY <2>3, <2>4, <2>5, <2>6, <2>7 DEF w
<1>5. DOMAIN counters' \subseteq QuotaKey /\ DOMAIN noted' \subseteq QuotaKey
  BY <1>1, <1>2 DEF QuotaMap
<1>6. /\ \A k \in DOMAIN counters' : counters'[k] = QueueOf(counters', k)
      /\ \A k \in DOMAIN noted' : noted'[k] = QueueOf(noted', k)
  BY DEF QueueOf
<1> QED
  BY <1>4, <1>5, <1>6 DEF QuotaMap, SameHits

\* A request that keeps its inspection keeps what is said of it, as long as no kind that
\* was over stops being over.
LEMMA InspectionKept ==
  ASSUME NEW m, NEW o, NEW v, Inspection(m, v),
         \A k \in Kinds : OverIn(m, v.id, k) => OverIn(o, v.id, k)
  PROVE  Inspection(o, v)
<1>1. v.due \subseteq Kinds
  BY DEF Inspection, Cases
<1>2. Reading(m, v) => Reading(o, v)
  BY <1>1 DEF Reading
<1> QED
  BY <1>2 DEF Inspection

\* Counting keys more keeps a kind over that was.
LEMMA AddOver ==
  ASSUME NEW m, QuotaMap(m), NEW keys \in SUBSET QuotaKey,
         NEW id \in Identity, NEW kind \in Kinds, OverIn(m, id, kind)
  PROVE  OverIn(Add(m, keys), id, kind)
<1>1. PICK k \in KeysFor(id, kind) :
             Len(Retain(QueueOf(m, k), WindowOf[k[1]])) >= MaxOf[kind]
  BY OverByQueue
<1>2. k \in QuotaKey
  BY KeyFacts
<1> DEFINE r == Retain(QueueOf(m, k), WindowOf[k[1]])
<1>3. r \in Seq(Nat) /\ Len(r) \in Nat
  BY QueueType, RetainFacts
<1>4. Retain(QueueOf(Add(m, keys), k), WindowOf[k[1]]) = IF k \in keys THEN Append(r, 0) ELSE r
  BY <1>2, AddSame
<1>5. MaxOf[kind] \in Nat
  BY AbuseAssumption DEF AbuseSettings
<1> HIDE DEF r
<1>6. Len(Append(r, 0)) = Len(r) + 1
  BY <1>3
<1>7. Len(r) >= MaxOf[kind]
  BY <1>1 DEF r
<1>8. Len(Append(r, 0)) >= MaxOf[kind]
  BY <1>3, <1>5, <1>6, <1>7
<1>9. Len(Retain(QueueOf(Add(m, keys), k), WindowOf[k[1]])) >= MaxOf[kind]
  BY <1>4, <1>7, <1>8
<1> QED
  BY <1>9, OverByQueue

\* A hit of one request, seen from the others.
LEMMA HitInv ==
  ASSUME AbuseInv, NEW r \in Visitors, NEW keys \in SUBSET QuotaKey, NEW v,
         counters' = Add(counters, keys), noted' = Add(noted, keys),
         inspected' = [inspected EXCEPT ![r] = v],
         v.at = "idle" \/ Inspection(counters', v)
  PROVE  AbuseInv'
<1>1. QuotaMap(counters) /\ QuotaMap(noted) /\ SameHits(counters, noted)
  BY DEF AbuseInv
<1>2. QuotaMap(counters') /\ QuotaMap(noted')
  BY <1>1, AddSame
<1>3. SameHits(counters', noted')
  BY <1>1, AddSame DEF SameHits
<1>4. DOMAIN inspected' = Visitors /\ inspected'[r] = v
      /\ \A q \in Visitors \ {r} : inspected'[q] = inspected[q]
  BY DEF AbuseInv
<1>5. ASSUME NEW q \in Visitors, inspected'[q].at # "idle"
      PROVE  Inspection(counters', inspected'[q])
  <2>1. CASE q = r
    BY <1>4, <1>5, <2>1
  <2>2. CASE q # r
    <3>1. inspected'[q] = inspected[q] /\ Inspection(counters, inspected[q])
      BY <1>4, <1>5, <2>2 DEF AbuseInv, InspectionAt
    <3>2. \A k \in Kinds : OverIn(counters, inspected[q].id, k)
                           => OverIn(counters', inspected[q].id, k)
      BY <1>1, <3>1, AddOver DEF Inspection, Cases
    <3>3. Inspection(counters', inspected[q])
      BY <3>1, <3>2, InspectionKept
    <3> QED
      BY <3>1, <3>3
  <2> QED
    BY <2>1, <2>2
<1> QED
  BY <1>2, <1>3, <1>4, <1>5 DEF AbuseInv, InspectionAt

\* inspect trims or clears both maps alike, and takes note of what is over.
LEMMA InspectInv ==
  ASSUME AbuseInv, OneWindow, NEW r \in Visitors,
         NEW id \in Identities, NEW input \in Inputs, Inspect(r, id, input)
  PROVE  AbuseInv'
<1> DEFINE swept == IF inspections = 0 THEN Swept(counters, WindowOf[id.site]) ELSE counters
           cleared == inspections = 0 /\ Cardinality(DOMAIN swept) > MaxKeys
           charged == IF cleared THEN << >> ELSE noted
           case == [at |-> "over", id |-> id, input |-> input, next |-> 1,
                    reasons |-> {}, due |-> {k \in Kinds : OverIn(charged, id, k)}]
<1>1. /\ counters' = IF cleared THEN << >> ELSE swept
      /\ noted' = charged
      /\ inspected' = [q \in Visitors |->
           IF q = r THEN case
           ELSE IF cleared /\ ~InspectionAt(q, "idle") THEN [inspected[q] EXCEPT !.due = {}]
                ELSE inspected[q]]
  BY DEF Inspect
<1>2. id \in Identity /\ input \in Input /\ id.site \in Sites
  BY AbuseAssumption DEF Identity, AbuseSettings
<1>3. QuotaMap(counters) /\ QuotaMap(noted) /\ SameHits(counters, noted)
  BY DEF AbuseInv
<1>4. QuotaMap(swept) /\ SameHits(swept, counters)
  BY <1>2, <1>3, SweptSame DEF SameHits
<1>5. QuotaMap(<<>>)
  BY DEF QuotaMap
<1> HIDE DEF swept, cleared
<1>6. QuotaMap(counters') /\ QuotaMap(noted') /\ SameHits(counters', noted')
  BY <1>1, <1>3, <1>4, <1>5 DEF SameHits
<1>7. DOMAIN inspected' = Visitors
  BY <1>1
<1>8. ASSUME NEW q \in Visitors, inspected'[q].at # "idle"
      PROVE  Inspection(counters', inspected'[q])
  <2>1. CASE q = r
    <3>1. inspected'[q] = case
      BY <1>1, <2>1
    <3>2. \A k \in Kinds : OverIn(charged, id, k) => OverIn(counters', id, k)
      BY <1>1, <1>2, <1>6, SameOver
    <3> HIDE DEF charged
    <3>3. case \in Cases
      BY <1>2 DEF Cases
    <3>4. Reading(counters', case)
      BY <3>2 DEF Reading, ReadAt, Kinds
    <3> QED
      BY <3>1, <3>3, <3>4 DEF Inspection
  <2>2. CASE q # r
    <3> DEFINE v == inspected[q]
    <3>1. /\ inspected'[q] = IF cleared /\ v.at # "idle" THEN [v EXCEPT !.due = {}] ELSE v
      BY <1>1, <2>2 DEF InspectionAt
    <3>2. v.at # "idle" => Inspection(counters, v)
      BY DEF AbuseInv, InspectionAt
    <3> HIDE DEF v
    <3>3. CASE cleared /\ v.at # "idle"
      <4>1. v \in Cases /\ inspected'[q] = [v EXCEPT !.due = {}]
        BY <3>1, <3>2, <3>3 DEF Inspection
      <4>2. /\ inspected'[q] \in Cases /\ inspected'[q].due = {}
            /\ inspected'[q].at = v.at /\ inspected'[q].input = v.input
        BY <4>1 DEF Cases
      <4>3. Reading(counters', inspected'[q])
        BY <4>2 DEF Reading
      <4> QED
        BY <3>2, <3>3, <4>2, <4>3 DEF Inspection
    <3>4. CASE ~cleared \/ v.at = "idle"
      <4>1. inspected'[q] = v /\ v.at # "idle" /\ counters' = swept
        BY <1>1, <1>8, <3>1, <3>4
      <4>2. v.id \in Identity
        BY <3>2, <4>1 DEF Inspection, Cases
      <4>3. \A k \in Kinds : OverIn(counters, v.id, k) => OverIn(counters', v.id, k)
        BY <1>4, <4>1, <4>2, SameOver
      <4> QED
        BY <3>2, <4>1, <4>3, InspectionKept
    <3> QED
      BY <3>3, <3>4
  <2> QED
    BY <2>1, <2>2
<1> QED
  BY <1>6, <1>7, <1>8 DEF AbuseInv, InspectionAt

\* What changes one request alone.
LEMMA OneInspected ==
  ASSUME AbuseInv, NEW r \in Visitors, NEW v,
         UNCHANGED <<counters, noted>>, inspected' = [inspected EXCEPT ![r] = v],
         v.at = "idle" \/ Inspection(counters, v)
  PROVE  AbuseInv'
  BY DEF AbuseInv, InspectionAt

\* The reads come one after another, and the verdict after the last of them.
LEMMA ReadFacts ==
  /\ \A k \in Kinds : ReadAt[k] \in 1 .. 4
  /\ \A k, j \in Kinds : ReadAt[k] = ReadAt[j] => k = j
  /\ \A n \in 1 .. 5 : /\ Onward(n) \in {"over", "judge"}
                       /\ Onward(n) = "judge" => \A k \in Kinds : ReadAt[k] < n
<1>1. \A k \in Kinds : ReadAt[k] \in 1 .. 4
  BY DEF ReadAt, Kinds
<1>2. \A k, j \in Kinds : ReadAt[k] = ReadAt[j] => k = j
  BY DEF ReadAt, Kinds
<1>3. \A n \in 1 .. 4 : \E k \in Kinds : ReadAt[k] = n
  <2>1. {"stuffing", "enumeration", "signup", "recover"} = Kinds
    BY DEF Kinds
  <2>2. ReadAt["stuffing"] = 1 /\ ReadAt["enumeration"] = 2
        /\ ReadAt["signup"] = 3 /\ ReadAt["recover"] = 4
    BY DEF ReadAt
  <2>3. \A n \in 1 .. 4 : n = 1 \/ n = 2 \/ n = 3 \/ n = 4
    OBVIOUS
  <2> QED
    BY <2>1, <2>2, <2>3
<1>4. ASSUME NEW n \in 1 .. 5, Onward(n) = "judge"
      PROVE  \A k \in Kinds : ReadAt[k] < n
  <2>1. n \notin 1 .. 4
    BY <1>3, <1>4 DEF Onward
  <2> QED
    BY <1>1, <2>1
<1> QED
  BY <1>1, <1>2, <1>4 DEF Onward

\* A quota that was used up at the inspection still is when it is read.
LEMMA OverInv == ASSUME AbuseInv, NEW r \in Visitors, Over(r) PROVE AbuseInv'
<1> DEFINE v == inspected[r]
<1>1. PICK kind \in Kinds :
        LET over == OverIn(counters, v.id, kind)
            counts == ~over /\ kind \in {"signup", "recover"} /\ v.input.path = kind
        IN  /\ ReadAt[kind] = v.next
            /\ inspected' = [inspected EXCEPT
                  ![r].at = IF counts THEN "hit" ELSE Onward(v.next + 1),
                  ![r].next = @ + 1,
                  ![r].reasons = IF over THEN @ \cup {kind} ELSE @]
  BY DEF Over
<1> DEFINE over == OverIn(counters, v.id, kind)
           counts == ~over /\ kind \in {"signup", "recover"} /\ v.input.path = kind
           place == IF counts THEN "hit" ELSE Onward(v.next + 1)
           reasons == IF over THEN v.reasons \cup {kind} ELSE v.reasons
           w == [v EXCEPT !.at = place, !.next = v.next + 1, !.reasons = reasons]
<1>2. v.at = "over" /\ UNCHANGED <<counters, noted>>
  BY DEF Over, InspectionAt
<1>3. inspected' = [inspected EXCEPT ![r] = w] /\ ReadAt[kind] = v.next
  BY <1>1
<1>4. v \in Cases /\ Reading(counters, v)
  BY <1>2 DEF AbuseInv, InspectionAt, Inspection
<1>5. v.next \in 1 .. 4 /\ v.next + 1 \in 1 .. 5 /\ v.due \subseteq Kinds
  BY <1>3, <1>4, ReadFacts DEF Cases
<1>6. /\ reasons \subseteq v.reasons \cup Kinds /\ v.reasons \subseteq reasons
      /\ over => kind \in reasons
      /\ place \in {"hit", "over", "judge"} /\ (place = "hit" => v.input.path \in {"signup", "recover"})
      /\ place = "judge" => \A k \in Kinds : ReadAt[k] < v.next + 1
  BY <1>5, ReadFacts
<1>7. ASSUME NEW k \in v.due
      PROVE  IF ReadAt[k] < v.next + 1 THEN k \in reasons ELSE OverIn(counters, v.id, k)
  <2>1. k \in Kinds /\ ReadAt[k] \in 1 .. 4
    BY <1>5, ReadFacts
  <2>2. CASE ReadAt[k] < v.next
    BY <1>4, <1>5, <1>6, <2>1, <2>2 DEF Reading
  <2>3. CASE ReadAt[k] = v.next
    <3>1. k = kind
      BY <1>3, <2>1, <2>3, ReadFacts
    <3>2. over
      BY <1>4, <1>5, <2>3, <3>1 DEF Reading
    <3> QED
      BY <1>5, <1>6, <2>3, <3>1, <3>2
  <2>4. CASE ReadAt[k] > v.next
    BY <1>4, <1>5, <2>1, <2>4 DEF Reading
  <2> QED
    BY <1>5, <2>1, <2>2, <2>3, <2>4
<1> HIDE DEF v, over, counts, place, reasons
<1>8. /\ w \in Cases /\ w.due = v.due /\ w.reasons = reasons /\ w.at = place
      /\ w.input = v.input /\ w.id = v.id /\ w.next = v.next + 1
  BY <1>4, <1>5, <1>6 DEF Cases
<1>9. Reading(counters, w)
  BY <1>7, <1>8 DEF Reading
<1>10. place = "judge" => v.due \subseteq reasons
  BY <1>5, <1>6, <1>7
<1>11. Inspection(counters, w)
  BY <1>6, <1>8, <1>9, <1>10 DEF Inspection
<1> QED
  BY <1>2, <1>3, <1>11, OneInspected

\* A sign-up or a recovery is counted.
LEMMA HitStepInv == ASSUME AbuseInv, NEW r \in Visitors, Hit(r) PROVE AbuseInv'
<1> DEFINE v == inspected[r]
           keys == KeysFor(v.id, v.input.path)
           w == [v EXCEPT !.at = Onward(v.next)]
<1>1. /\ v.at = "hit" /\ inspected' = [inspected EXCEPT ![r] = w]
      /\ counters' = Add(counters, keys) /\ noted' = Add(noted, keys)
  BY DEF Hit, InspectionAt
<1>2. Inspection(counters, v)
  BY <1>1 DEF AbuseInv, InspectionAt
<1>3. keys \in SUBSET QuotaKey
  <2>1. v.id \in Identity
    BY <1>2 DEF Inspection, Cases
  <2>2. v.input.path \in Kinds
    BY <1>1, <1>2 DEF Inspection, Kinds
  <2> QED
    BY <2>1, <2>2, KeyFacts
<1>4. v \in Cases /\ Reading(counters, v)
  BY <1>1, <1>2 DEF Inspection
<1>5. v.next \in 1 .. 5 /\ v.due \subseteq Kinds /\ v.id \in Identity
  BY <1>4 DEF Cases
<1>6. QuotaMap(counters)
  BY DEF AbuseInv
<1> HIDE DEF v, keys
<1>7. \A k \in Kinds : OverIn(counters, v.id, k) => OverIn(counters', v.id, k)
  BY <1>1, <1>3, <1>5, <1>6, AddOver
<1>8. /\ w \in Cases /\ w.due = v.due /\ w.reasons = v.reasons /\ w.at = Onward(v.next)
      /\ w.input = v.input /\ w.id = v.id /\ w.next = v.next
  BY <1>4, <1>5, ReadFacts DEF Cases
<1>9. Reading(counters', w)
  BY <1>4, <1>5, <1>7, <1>8 DEF Reading
<1>10. w.at = "judge" => w.due \subseteq w.reasons
  BY <1>4, <1>5, <1>8, ReadFacts DEF Reading
<1>11. Inspection(counters', w)
  BY <1>5, <1>8, <1>9, <1>10, ReadFacts DEF Inspection
<1> QED
  BY <1>1, <1>3, <1>11, HitInv

\* A request whose kind is among the reasons is not let through.
LEMMA JudgeInv == ASSUME AbuseInv, NEW r \in Visitors, Judge(r) PROVE AbuseInv'
<1> DEFINE v == inspected[r]
           all == AllReasons(r)
           w == IF Refuses(r) THEN NotInspected ELSE [v EXCEPT !.at = "allowed", !.reasons = all]
<1>1. /\ v.at = "judge" /\ inspected' = [inspected EXCEPT ![r] = w]
      /\ UNCHANGED <<counters, noted>>
  BY DEF Judge, InspectionAt, AbuseInv
<1>2. Inspection(counters, v)
  BY <1>1 DEF AbuseInv, InspectionAt
<1>3. v \in Cases /\ v.due \subseteq v.reasons
  BY <1>1, <1>2 DEF Inspection
<1>4. /\ v.reasons \subseteq all /\ all \subseteq v.reasons \cup {"ua_weak", "ip_rotate"}
      /\ ~Refuses(r) => v.input.path \notin all
  BY DEF AllReasons, Refuses
<1>5. CASE Refuses(r)
  <2>1. w.at = "idle"
    BY <1>5 DEF NotInspected
  <2> QED
    BY <1>1, <2>1, OneInspected
<1>6. CASE ~Refuses(r)
  <2>1. w = [v EXCEPT !.at = "allowed", !.reasons = all]
    BY <1>6
  <2> HIDE DEF v, all, w
  <2>2. w \in Cases /\ w.due = v.due /\ w.at = "allowed" /\ w.input = v.input
    BY <1>3, <1>4, <2>1 DEF Cases
  <2>3. Inspection(counters, w)
    BY <1>3, <1>4, <1>6, <2>2 DEF Inspection
  <2> QED
    BY <1>1, <2>3, OneInspected DEF w
<1> QED
  BY <1>5, <1>6

\* An answer of the origin is counted and ends the request.
LEMMA RecordStatusInv ==
  ASSUME AbuseInv, NEW r \in Visitors, NEW status, RecordOriginStatus(r, status)
  PROVE  AbuseInv'
<1> DEFINE v == inspected[r]
           counted == \/ status = 401 /\ v.input.path = "stuffing"
                      \/ status = 404 /\ v.input.path = "enumeration"
           keys == IF counted THEN KeysFor(v.id, v.input.path) ELSE {}
<1>1. /\ v.at = "allowed" /\ inspected' = [inspected EXCEPT ![r] = NotInspected]
      /\ counters' = Add(counters, keys) /\ noted' = Add(noted, keys)
  BY DEF RecordOriginStatus, InspectionAt
<1>2. Inspection(counters, v)
  BY <1>1 DEF AbuseInv, InspectionAt
<1>3. keys \in SUBSET QuotaKey
  <2>1. v.id \in Identity
    BY <1>2 DEF Inspection, Cases
  <2>2. counted => v.input.path \in Kinds
    BY DEF Kinds
  <2> HIDE DEF counted
  <2> QED
    BY <2>1, <2>2, KeyFacts
<1>4. NotInspected.at = "idle"
  BY DEF NotInspected
<1> HIDE DEF keys
<1> QED
  BY <1>1, <1>3, <1>4, HitInv

\* Time passes between inspections only.
LEMMA AbuseTickInv == ASSUME AbuseInv, OneWindow, AbuseTick PROVE AbuseInv'
<1>1. QuotaMap(counters') /\ QuotaMap(noted') /\ SameHits(counters', noted')
  BY TickSame
<1>2. inspected' = inspected
  BY DEF AbuseTick
<1>3. ASSUME NEW r \in Visitors, inspected[r].at # "idle"
      PROVE  Inspection(counters', inspected[r])
  <2>1. inspected[r].at = "allowed"
    BY <1>3 DEF AbuseTick, InspectionAt
  <2>2. Inspection(counters, inspected[r])
    BY <1>3 DEF AbuseInv, InspectionAt
  <2> QED
    BY <2>1, <2>2 DEF Inspection
<1> QED
  BY <1>1, <1>2, <1>3 DEF AbuseInv, InspectionAt

\* Nothing is counted at first.
LEMMA AbuseInitInv == AbuseInit => AbuseInv
  BY DEF AbuseInit, AbuseInv, QuotaMap, SameHits, InspectionAt, NotInspected

\* No step of any request breaks the invariant.
LEMMA AbuseNextInv == OneWindow /\ AbuseInv /\ [AbuseNext]_abuseVars => AbuseInv'
<1> SUFFICES ASSUME OneWindow, AbuseInv, [AbuseNext]_abuseVars PROVE AbuseInv'
  OBVIOUS
<1>1. ASSUME NEW r \in Visitors, InspectStep(r) PROVE AbuseInv'
  BY <1>1, OverInv, HitStepInv, JudgeInv, RecordStatusInv DEF InspectStep
<1>2. ASSUME NEW r \in Visitors, NEW id \in Identities, NEW input \in Inputs,
             Inspect(r, id, input)
      PROVE  AbuseInv'
  BY <1>2, InspectInv
<1>3. CASE AbuseTick
  BY <1>3, AbuseTickInv
<1>4. CASE UNCHANGED abuseVars
  BY <1>4 DEF abuseVars, AbuseInv, InspectionAt
<1> QED
  BY <1>1, <1>2, <1>3, <1>4 DEF AbuseNext

\* Requests of one fingerprint share the quota whatever address they come from.
THEOREM CapShared == OneWindow => (AbuseSpec => []SharedCap)
<1> SUFFICES ASSUME OneWindow PROVE AbuseSpec => []SharedCap
  OBVIOUS
<1>1. AbuseInv /\ [AbuseNext]_abuseVars => AbuseInv'
  BY AbuseNextInv
<1>2. AbuseInv => SharedCap
  BY DEF AbuseInv, SharedCap, InspectionAt, Inspection
<1> QED
  BY AbuseInitInv, <1>1, <1>2, PTL DEF AbuseSpec

-----------------------------------------------------------------------------
(* GraphqlQuota: the quotas of the policies that share a book *)

\* A book, and what was admitted of late according to it.
Book(b) == \A k \in DOMAIN b : b[k] \in Seq(Nat)
Booked(b, h) ==
  /\ h \in [QuotaKeys -> Seq(Nat)]
  /\ \A k \in QuotaKeys : h[k] = Retain(QueueOf(b, k), Shortest)

Asking == [at : {"room", "entry"}, key : QuotaKeys, policy : Overlays, cost : Costs]

QuotaInv ==
  /\ Book(book) /\ Booked(book, booked)
  /\ query \in [Queries -> Asking \cup {NoQuery}]

\* What the policies give, and the shortest of their windows.
LEMMA QuotaNumbers ==
  /\ QuotaAge \in Nat /\ Shortest \in Nat /\ 0 < Shortest /\ Shortest <= QuotaAge
  /\ \A p \in Overlays : /\ QuotaWindow[p] \in Nat /\ QuotaWindow[p] <= QuotaAge
                         /\ Shortest <= QuotaWindow[p] /\ Quota[p] \in Nat
  /\ \A c \in Costs : c \in Nat
<1> DEFINE S == {QuotaWindow[p] : p \in Overlays}
<1>1. /\ QuotaAge \in Nat /\ \A c \in Costs : c \in Nat
      /\ \A p \in Overlays : /\ QuotaWindow[p] \in Nat /\ QuotaWindow[p] <= QuotaAge
                             /\ 0 < QuotaWindow[p] /\ Quota[p] \in Nat
      /\ \E p \in Overlays : TRUE
  BY QuotaAssumption DEF QuotaSettings
<1>2. S \in SUBSET Nat /\ S # {}
  BY <1>1
<1>3. \E x \in S : \A y \in S : x <= y
  BY <1>2, LeastNumber
<1>4. Shortest = CHOOSE x \in S : \A y \in S : x <= y
  BY DEF Shortest, Min
<1>5. Shortest \in S /\ \A y \in S : Shortest <= y
  <2> HIDE DEF S
  <2> QED
    BY <1>3, <1>4
<1>6. \A p \in Overlays : QuotaWindow[p] \in S
  OBVIOUS
<1>7. PICK o \in Overlays : Shortest = QuotaWindow[o]
  BY <1>5
<1> QED
  BY <1>1, <1>5, <1>6, <1>7

\* The stamps of one unit more are those before and one more.
LEMMA StampsAdded ==
  ASSUME NEW c \in Nat
  PROVE  /\ Stamps(0) = <<>> /\ Stamps(c) \in Seq(Nat) /\ Len(Stamps(c)) = c
         /\ Stamps(c + 1) = Append(Stamps(c), 0)
<1>1. Stamps(0) = <<>> /\ Stamps(c) \in Seq(Nat) /\ Len(Stamps(c)) = c
  BY DEF Stamps
<1>2. Stamps(c + 1) = [i \in 1..(c + 1) |-> 0]
  BY DEF Stamps
<1>3. \A i \in 1..c : Stamps(c)[i] = 0
  BY DEF Stamps
<1> DEFINE t == Append(Stamps(c), 0)
<1>4. /\ t \in Seq(Nat) /\ Len(t) = c + 1 /\ t[c + 1] = 0
      /\ \A i \in 1..c : t[i] = Stamps(c)[i]
  BY <1>1
<1> HIDE DEF t
<1>5. t = [i \in 1..(c + 1) |-> t[i]]
  BY <1>4, SequenceIsFunction
<1>6. \A i \in 1..(c + 1) : t[i] = 0
  BY <1>3, <1>4
<1>7. t = [i \in 1..(c + 1) |-> 0]
  BY <1>5, <1>6
<1> QED
  BY <1>1, <1>2, <1>7 DEF t

\* Putting one after a sequence that follows another.
LEMMA ConcatAppend ==
  ASSUME NEW q \in Seq(Nat), NEW s \in Seq(Nat), NEW a \in Nat
  PROVE  q \o Append(s, a) = Append(q \o s, a)
  OBVIOUS

\* New stamps are within any window.
LEMMA RetainStamps ==
  ASSUME NEW q \in Seq(Nat), NEW w \in Nat, 0 < w, NEW c \in Nat
  PROVE  Retain(q \o Stamps(c), w) = Retain(q, w) \o Stamps(c)
<1> DEFINE S == {i \in Nat : Retain(q \o Stamps(i), w) = Retain(q, w) \o Stamps(i)}
<1>0. Retain(q, w) \in Seq(Nat)
  BY RetainFacts
<1>1. 0 \in S
  <2>1. Stamps(0) = <<>>
    BY StampsAdded
  <2>2. q \o <<>> = q /\ Retain(q, w) \o <<>> = Retain(q, w)
    BY <1>0
  <2> QED
    BY <2>1, <2>2
<1>2. ASSUME NEW i \in S
      PROVE  i + 1 \in S
  <2> DEFINE s == Stamps(i)
             r == Retain(q, w)
  <2>0. i \in Nat /\ i + 1 \in Nat
    OBVIOUS
  <2>1. s \in Seq(Nat) /\ Stamps(i + 1) = Append(s, 0)
    BY <2>0, StampsAdded
  <2>2. Retain(q \o s, w) = r \o s /\ 0 \in Nat
    OBVIOUS
  <2> HIDE DEF s, r
  <2>3. q \o Append(s, 0) = Append(q \o s, 0) /\ r \o Append(s, 0) = Append(r \o s, 0)
    BY <1>0, <2>1, <2>2, ConcatAppend DEF r
  <2>4. q \o s \in Seq(Nat)
    BY <2>1
  <2>5. Retain(Append(q \o s, 0), w) = IF 0 < w THEN Append(Retain(q \o s, w), 0)
                                       ELSE Retain(q \o s, w)
    BY <2>2, <2>4, RetainAppend
  <2>6. Retain(q \o Stamps(i + 1), w) = r \o Stamps(i + 1)
    BY <2>1, <2>2, <2>3, <2>5
  <2> QED
    BY <2>0, <2>6 DEF r
<1>3. S \in SUBSET Nat
  OBVIOUS
<1> HIDE DEF S
<1>4. S = Nat
  BY <1>1, <1>2, <1>3, NumberInduction
<1> QED
  BY <1>4 DEF S

\* The entry of a key, held to the window of a policy, has what the shortest window has.
LEMMA EnteredFacts ==
  ASSUME QuotaInv, NEW k \in QuotaKeys, NEW p \in Overlays
  PROVE  /\ Entered(k, QuotaWindow[p]) \in Seq(Nat)
         /\ Retain(Entered(k, QuotaWindow[p]), Shortest) = booked[k]
<1>1. QueueOf(book, k) \in Seq(Nat) /\ booked[k] = Retain(QueueOf(book, k), Shortest)
  BY DEF QuotaInv, Book, Booked, QueueOf
<1>2. Entered(k, QuotaWindow[p]) = Retain(QueueOf(book, k), QuotaWindow[p])
  BY DEF Entered, QueueOf
<1>3. Retain(QueueOf(book, k), QuotaWindow[p]) \in Seq(Nat)
  BY <1>1, RetainFacts
<1>4. Retain(Retain(QueueOf(book, k), QuotaWindow[p]), Shortest) = Retain(QueueOf(book, k), Shortest)
  BY <1>1, QuotaNumbers, RetainLess
<1> QED
  BY <1>1, <1>2, <1>3, <1>4

\* A book with one entry put.
LEMMA PutEntryInv ==
  ASSUME QuotaInv, NEW k \in QuotaKeys, NEW q \in Seq(Nat), PutEntry(k, q)
  PROVE  Book(book') /\ Booked(book', [booked EXCEPT ![k] = Retain(q, Shortest)])
<1>1. /\ DOMAIN book' = DOMAIN book \cup {k} /\ book'[k] = q
      /\ \A x \in DOMAIN book \ {k} : book'[x] = book[x]
  BY DEF PutEntry
<1>2. /\ booked \in [QuotaKeys -> Seq(Nat)] /\ Book(book)
      /\ \A x \in QuotaKeys : booked[x] = Retain(QueueOf(book, x), Shortest)
  BY DEF QuotaInv, Booked
<1>3. Book(book')
  BY <1>1, <1>2 DEF Book
<1>4. Retain(q, Shortest) \in Seq(Nat)
  BY RetainFacts
<1> DEFINE h == [booked EXCEPT ![k] = Retain(q, Shortest)]
<1>5. h \in [QuotaKeys -> Seq(Nat)]
  BY <1>2, <1>4
<1>6. ASSUME NEW x \in QuotaKeys
      PROVE  h[x] = Retain(QueueOf(book', x), Shortest)
  <2>1. CASE x = k
    BY <1>1, <1>2, <2>1 DEF QueueOf
  <2>2. CASE x # k
    BY <1>1, <1>2, <2>2 DEF QueueOf
  <2> QED
    BY <2>1, <2>2
<1> HIDE DEF h
<1>7. Booked(book', h)
  BY <1>5, <1>6 DEF Booked
<1> QED
  BY <1>3, <1>7 DEF h

\* A sweep, whatever the window of the policy that runs it, and the call it comes with.
LEMMA CallInv ==
  ASSUME QuotaInv, NEW q \in Queries, NEW k \in QuotaKeys, NEW p \in Overlays, NEW c \in Costs,
         Call(q, k, p, c)
  PROVE  QuotaInv'
<1> DEFINE w == QuotaWindow[p]
           s == SweptBook(w)
<1>1. booked' = booked /\ query' \in [Queries -> Asking \cup {NoQuery}]
  <2>1. [at |-> "room", key |-> k, policy |-> p, cost |-> c] \in Asking
    BY DEF Asking
  <2> QED
    BY <2>1 DEF Call, QuotaInv
<1>2. /\ DOMAIN s = {x \in DOMAIN book : Retain(book[x], w) # <<>>}
      /\ \A x \in DOMAIN s : s[x] = Retain(book[x], w)
  BY DEF SweptBook, Restrict
<1>3. \A x \in DOMAIN book : book[x] \in Seq(Nat)
  BY DEF QuotaInv, Book
<1>4. Shortest \in Nat /\ w \in Nat /\ Shortest <= w
  BY QuotaNumbers
<1> HIDE DEF s, w
<1>5. Book(s)
  BY <1>2, <1>3, RetainFacts DEF Book
<1>6. ASSUME NEW x \in QuotaKeys
      PROVE  Retain(QueueOf(s, x), Shortest) = Retain(QueueOf(book, x), Shortest)
  <2>1. CASE x \in DOMAIN s
    <3>1. x \in DOMAIN book /\ s[x] = Retain(book[x], w) /\ book[x] \in Seq(Nat)
      BY <1>2, <1>3, <2>1
    <3>2. Retain(Retain(book[x], w), Shortest) = Retain(book[x], Shortest)
      BY <1>4, <3>1, RetainLess
    <3> QED
      BY <2>1, <3>1, <3>2 DEF QueueOf
  <2>2. CASE x \in DOMAIN book /\ x \notin DOMAIN s
    <3>1. Retain(book[x], w) = <<>> /\ book[x] \in Seq(Nat)
      BY <1>2, <1>3, <2>2
    <3>2. Retain(Retain(book[x], w), Shortest) = Retain(book[x], Shortest)
      BY <1>4, <3>1, RetainLess
    <3> QED
      BY <2>2, <3>1, <3>2 DEF QueueOf
  <2>3. CASE x \notin DOMAIN book
    BY <1>2, <2>3 DEF QueueOf
  <2> QED
    BY <1>2, <2>1, <2>2, <2>3
<1>7. Booked(s, booked)
  BY <1>6 DEF QuotaInv, Booked
<1>8. book' = s \/ book' = book
  BY DEF Call, s, w
<1> QED
  BY <1>1, <1>5, <1>7, <1>8 DEF QuotaInv

\* What a query that looks at the book is.
LEMMA AskingFacts ==
  ASSUME QuotaInv, NEW q \in Queries, query[q].at \in {"room", "entry"}
  PROVE  /\ query[q] \in Asking /\ query[q].key \in QuotaKeys /\ query[q].policy \in Overlays
         /\ query[q].cost \in Costs
<1>1. query[q] \in Asking \cup {NoQuery} /\ NoQuery.at = "idle"
  BY DEF QuotaInv, NoQuery
<1>2. query[q] \in Asking
  BY <1>1
<1> QED
  BY <1>2 DEF Asking

\* The look for room changes nothing that counts.
LEMMA RoomInv ==
  ASSUME QuotaInv, NEW q \in Queries, Room(q)
  PROVE  QuotaInv'
<1>1. query[q].at = "room" /\ query \in [Queries -> Asking \cup {NoQuery}]
  BY DEF Room, QuotaInv
<1>2. query[q] \in Asking
  BY <1>1, AskingFacts
<1>3. [query[q] EXCEPT !.at = "entry"] \in Asking
  BY <1>2 DEF Asking
<1>4. query' \in [Queries -> Asking \cup {NoQuery}]
  BY <1>1, <1>3 DEF Room
<1>5. book' = book /\ booked' = booked
  BY DEF Room
<1> QED
  BY <1>4, <1>5 DEF QuotaInv

\* An admission, and how much it leaves within the shortest window.
LEMMA BookQueryInv ==
  ASSUME QuotaInv, NEW q \in Queries, BookQuery(q)
  PROVE  QuotaInv' /\ Len(booked'[query[q].key]) <= Quota[query[q].policy]
<1> DEFINE k == query[q].key
           p == query[q].policy
           c == query[q].cost
           kept == Entered(k, QuotaWindow[p])
<1>1. k \in QuotaKeys /\ p \in Overlays /\ c \in Costs
  BY AskingFacts DEF BookQuery
<1>2. /\ Len(kept) + c <= Quota[p] /\ PutEntry(k, kept \o Stamps(c))
      /\ booked' = [booked EXCEPT ![k] = booked[k] \o Stamps(c)]
      /\ query' = [query EXCEPT ![q] = NoQuery]
  BY DEF BookQuery
<1> HIDE DEF k, p, c, kept
<1>3. kept \in Seq(Nat) /\ Retain(kept, Shortest) = booked[k]
  BY <1>1, EnteredFacts DEF kept
<1>4. c \in Nat /\ Shortest \in Nat /\ 0 < Shortest /\ Quota[p] \in Nat
  BY <1>1, QuotaNumbers
<1>5. Stamps(c) \in Seq(Nat) /\ Len(Stamps(c)) = c
  BY <1>4, StampsAdded
<1>6. Retain(kept \o Stamps(c), Shortest) = booked[k] \o Stamps(c)
  <2>1. Retain(kept \o Stamps(c), Shortest) = Retain(kept, Shortest) \o Stamps(c)
    BY <1>3, <1>4, RetainStamps, Zenon
  <2> QED
    BY <1>3, <2>1
<1>7. kept \o Stamps(c) \in Seq(Nat)
  BY <1>3, <1>5
<1>8. Book(book') /\ Booked(book', booked')
  <2> DEFINE u == kept \o Stamps(c)
  <2>1. u \in Seq(Nat) /\ PutEntry(k, u) /\ booked' = [booked EXCEPT ![k] = Retain(u, Shortest)]
    BY <1>2, <1>6, <1>7
  <2> HIDE DEF u
  <2> QED
    BY <1>1, <2>1, PutEntryInv
<1>9. query' \in [Queries -> Asking \cup {NoQuery}]
  BY <1>2 DEF QuotaInv
<1>10. Len(booked'[k]) <= Quota[p]
  <2>1. booked'[k] = booked[k] \o Stamps(c)
    BY <1>1, <1>2 DEF QuotaInv, Booked
  <2>2. booked[k] \in Seq(Nat) /\ Len(booked[k]) <= Len(kept)
    BY <1>3, RetainFacts
  <2>3. Len(booked[k] \o Stamps(c)) = Len(booked[k]) + c
    <3> DEFINE r == booked[k]
               s == Stamps(c)
    <3>1. r \in Seq(Nat) /\ s \in Seq(Nat) /\ Len(s) = c
      BY <1>5, <2>2
    <3> HIDE DEF r, s
    <3>2. Len(r \o s) = Len(r) + Len(s)
      BY <3>1, ConcatProperties
    <3> QED
      BY <3>1, <3>2 DEF r, s
  <2>4. Len(kept) \in Nat /\ Len(booked[k]) \in Nat
    BY <1>3, <2>2
  <2> QED
    BY <1>2, <1>4, <2>1, <2>2, <2>3, <2>4
<1> QED
  BY <1>8, <1>9, <1>10 DEF QuotaInv, k, p

\* A refusal leaves what counts.
LEMMA RefuseQueryInv ==
  ASSUME QuotaInv, NEW q \in Queries, RefuseQuery(q)
  PROVE  QuotaInv'
<1> DEFINE k == query[q].key
           p == query[q].policy
           kept == Entered(k, QuotaWindow[p])
<1>1. k \in QuotaKeys /\ p \in Overlays
  BY AskingFacts DEF RefuseQuery
<1>2. PutEntry(k, kept) /\ booked' = booked /\ query' = [query EXCEPT ![q] = NoQuery]
  BY DEF RefuseQuery
<1> HIDE DEF k, p, kept
<1>3. kept \in Seq(Nat) /\ Retain(kept, Shortest) = booked[k]
  BY <1>1, EnteredFacts DEF kept
<1>4. Book(book') /\ Booked(book', [booked EXCEPT ![k] = Retain(kept, Shortest)])
  BY <1>1, <1>2, <1>3, PutEntryInv
<1>5. [booked EXCEPT ![k] = booked[k]] = booked
  BY <1>1 DEF QuotaInv, Booked
<1>6. query' \in [Queries -> Asking \cup {NoQuery}]
  BY <1>2 DEF QuotaInv
<1> QED
  BY <1>2, <1>3, <1>4, <1>5, <1>6 DEF QuotaInv

\* Time passes.
LEMMA QuotaTickInv ==
  ASSUME QuotaInv, QuotaTick
  PROVE  QuotaInv'
<1>1. /\ Book(book) /\ booked \in [QuotaKeys -> Seq(Nat)] /\ query' = query
      /\ \A k \in QuotaKeys : booked[k] = Retain(QueueOf(book, k), Shortest)
      /\ query \in [Queries -> Asking \cup {NoQuery}]
  BY DEF QuotaInv, Booked, QuotaTick
<1>2. /\ DOMAIN book' = DOMAIN book /\ \A k \in DOMAIN book : book'[k] = Aged(book[k], QuotaAge)
      /\ booked' = [k \in QuotaKeys |-> Retain(Aged(booked[k], QuotaAge), Shortest)]
  BY DEF QuotaTick
<1>3. Book(book')
  BY <1>1, <1>2, AgedType, QuotaNumbers DEF Book
<1>4. ASSUME NEW k \in QuotaKeys
      PROVE  /\ booked'[k] \in Seq(Nat)
             /\ booked'[k] = Retain(QueueOf(book', k), Shortest)
  <2> DEFINE u == QueueOf(book, k)
  <2>1. u \in Seq(Nat) /\ booked[k] = Retain(u, Shortest)
    BY <1>1 DEF Book, QueueOf
  <2>2. QueueOf(book', k) = Aged(u, QuotaAge)
    <3>1. Aged(<<>>, QuotaAge) = <<>>
      BY DEF Aged
    <3> QED
      BY <1>2, <3>1 DEF QueueOf
  <2> HIDE DEF u
  <2>3. /\ Retain(Aged(u, QuotaAge), Shortest) = Retain(Aged(Retain(u, Shortest), QuotaAge), Shortest)
        /\ Aged(u, QuotaAge) \in Seq(Nat)
    BY <2>1, RetainAged, AgedType, QuotaNumbers
  <2>4. Retain(Aged(u, QuotaAge), Shortest) \in Seq(Nat)
    BY <2>3, RetainFacts
  <2> QED
    BY <1>2, <2>1, <2>2, <2>3, <2>4
<1>5. Booked(book', booked')
  <2>1. booked' \in [QuotaKeys -> Seq(Nat)]
    BY <1>2, <1>4
  <2> QED
    BY <1>4, <2>1 DEF Booked
<1> QED
  BY <1>1, <1>3, <1>5 DEF QuotaInv

\* The book begins empty.
LEMMA QuotaInitInv ==
  ASSUME QuotaInit
  PROVE  QuotaInv
<1>1. Book(book) /\ query \in [Queries -> Asking \cup {NoQuery}]
  BY DEF QuotaInit, Book
<1>2. Booked(book, booked)
  <2>1. <<>> \in Seq(Nat) /\ Retain(<<>>, Shortest) = <<>>
    BY RetainEmpty
  <2> QED
    BY <2>1 DEF QuotaInit, Booked, QueueOf
<1> QED
  BY <1>1, <1>2 DEF QuotaInv

\* Every step keeps the invariant.
LEMMA QuotaNextInv == QuotaInv /\ [QuotaNext]_quotaVars => QuotaInv'
<1> SUFFICES ASSUME QuotaInv, [QuotaNext]_quotaVars PROVE QuotaInv'
  OBVIOUS
<1>1. CASE UNCHANGED quotaVars
  BY <1>1 DEF quotaVars, QuotaInv
<1>2. CASE QuotaNext
  BY <1>2, CallInv, RoomInv, BookQueryInv, RefuseQueryInv, QuotaTickInv DEF QuotaNext
<1> QED
  BY <1>1, <1>2

\* No admission passes its quota within the shortest window of the policies that share
\* the book, for any policies, costs and interleaving of queries.
THEOREM QuotasHold == QuotaSpec => QuotaHeld
<1>1. QuotaInit => QuotaInv
  BY QuotaInitInv
<1>2. QuotaInv /\ [QuotaNext]_quotaVars => QuotaInv'
  BY QuotaNextInv
<1>3. QuotaInv /\ [QuotaNext]_quotaVars =>
        [\A q \in Queries : BookQuery(q) =>
           Len(booked'[query[q].key]) <= Quota[query[q].policy]]_quotaVars
  BY BookQueryInv
<1> QED
  BY <1>1, <1>2, <1>3, PTL DEF QuotaSpec, QuotaHeld

-----------------------------------------------------------------------------
(* RateLimiter: what is admitted within a window *)

\* How much of a queue a window has.
Count(q, w) == Len(Retain(q, w))

\* The map: every entry within the limit.
RateMap(m) ==
  /\ DOMAIN m \subseteq RateKey
  /\ \A k \in DOMAIN m : m[k] \in Seq(Nat) /\ Count(m[k], Window) <= MaxRequests

\* Where a caller can be.  A sweep comes before the first charge, and only a caller that
\* shrinks the map has victims.
RateCall == [at : {"idle", "sweep", "charge", "shrink", "cap"}, keys : Seq(RateKey),
             i : Nat \ {0}, victims : SUBSET RateKey]
Proper(x) == /\ x.at \in {"sweep", "shrink"} => x.i = 1
             /\ x.victims # {} => x.at \in {"shrink", "cap"}

\* The callers that have charged a key and are not yet admitted or refused.
Charging(cs, k) ==
  {c \in Callers : cs[c].at = "charge" /\ \E j \in 1..(cs[c].i - 1) : cs[c].keys[j] = k}

\* Every admission, and every charge on the way to one, is in the entry of the key: within
\* any part of the window, so that it still is when time passes.
Covered(m, a, cs, f) ==
  \A k \in RateKey \ f : \A w \in 1..Window :
    Count(a[k], w) + Cardinality(Charging(cs, k)) <= Count(QueueOf(m, k), w)

RateInv ==
  /\ RateMap(requests)
  /\ call \in [Callers -> RateCall] /\ \A c \in Callers : Proper(call[c])
  /\ admitted \in [RateKey -> Seq(Nat)]
  /\ \A k \in RateKey \cap forgotten : admitted[k] = <<>>
  /\ Covered(requests, admitted, call, forgotten)

\* The constants are numbers.
LEMMA RateNumbers ==
  ASSUME RateAssumption
  PROVE  /\ Window \in Nat \ {0} /\ MaxRequests \in Nat \ {0} /\ Window \in 1..Window
         /\ IsFiniteSet(Callers) /\ IsFiniteSet(Credentials)
  BY DEF RateAssumption

\* What a window has of a queue, trimmed, charged or empty.
LEMMA CountFacts ==
  ASSUME RateAssumption, NEW q \in Seq(Nat), NEW w \in 1..Window
  PROVE  /\ Count(q, w) \in Nat /\ Count(<<>>, w) = 0
         /\ Count(Append(q, 0), w) = Count(q, w) + 1
         /\ Live(q) \in Seq(Nat) /\ Count(Live(q), w) = Count(q, w)
<1>1. Window \in Nat /\ w \in Nat /\ 0 < w /\ w <= Window /\ 0 \in Nat
  BY RateNumbers
<1>2. Retain(q, w) \in Seq(Nat) /\ Retain(q, Window) \in Seq(Nat)
  BY RetainFacts
<1>3. Retain(Append(q, 0), w) = Append(Retain(q, w), 0) /\ Retain(<<>>, w) = <<>>
  BY <1>1, RetainAppend
<1>4. Retain(Retain(q, Window), w) = Retain(q, w)
  BY <1>1, RetainLess
<1>5. Len(Append(Retain(q, w), 0)) = Len(Retain(q, w)) + 1 /\ Len(Retain(q, w)) \in Nat
  BY <1>2
<1> QED
  BY <1>2, <1>3, <1>4, <1>5 DEF Count, Live

\* The queue of a key is a queue.
LEMMA RateQueue ==
  ASSUME NEW m, RateMap(m), NEW k
  PROVE  QueueOf(m, k) \in Seq(Nat)
  BY DEF RateMap, QueueOf

\* The callers that are charging are finitely many.
LEMMA ChargingFinite ==
  ASSUME RateAssumption, NEW cs, NEW k
  PROVE  IsFiniteSet(Charging(cs, k)) /\ Cardinality(Charging(cs, k)) \in Nat
<1>1. Charging(cs, k) \subseteq Callers
  BY DEF Charging
<1>2. IsFiniteSet(Charging(cs, k))
  BY <1>1, RateNumbers, FS_Subset
<1> QED
  BY <1>2, FS_CardinalityType

\* A caller that goes where nothing is charged yet is no longer one of them.
LEMMA ChargingLess ==
  ASSUME RateAssumption, NEW cs \in [Callers -> RateCall], NEW c \in Callers, NEW x \in RateCall,
         x.at = "charge" => x.i = 1, NEW k
  PROVE  /\ Charging([cs EXCEPT ![c] = x], k) \subseteq Charging(cs, k) \ {c}
         /\ Cardinality(Charging([cs EXCEPT ![c] = x], k)) <= Cardinality(Charging(cs, k))
         /\ c \in Charging(cs, k) =>
              Cardinality(Charging([cs EXCEPT ![c] = x], k)) + 1 <= Cardinality(Charging(cs, k))
<1> DEFINE to == [cs EXCEPT ![c] = x]
           A == Charging(cs, k)
           B == Charging(to, k)
<1>1. to[c] = x /\ \A d \in Callers \ {c} : to[d] = cs[d]
  OBVIOUS
<1>2. c \notin B
  <2>1. ~(x.at = "charge" /\ \E j \in 1..(x.i - 1) : x.keys[j] = k)
    <3>1. x.i = 1 => 1..(x.i - 1) = {}
      OBVIOUS
    <3> QED
      BY <3>1
  <2> QED
    BY <1>1, <2>1 DEF Charging
<1>3. B \subseteq A \ {c}
  <2>1. \A d \in B : d \in Callers /\ d # c
    BY <1>2 DEF Charging
  <2>2. ASSUME NEW d \in B
        PROVE  d \in A
    BY <1>1, <2>1, <2>2 DEF Charging
  <2> QED
    BY <2>1, <2>2
<1>4. /\ IsFiniteSet(A) /\ Cardinality(A) \in Nat /\ IsFiniteSet(B) /\ Cardinality(B) \in Nat
  BY ChargingFinite
<1> HIDE DEF A, B, to
<1>5. Cardinality(B) <= Cardinality(A)
  BY <1>3, <1>4, FS_Subset
<1>6. ASSUME c \in A
      PROVE  Cardinality(B) + 1 <= Cardinality(A)
  <2>1. IsFiniteSet(A \ {c}) /\ Cardinality(A \ {c}) = Cardinality(A) - 1
    BY <1>4, <1>6, FS_RemoveElement
  <2>2. Cardinality(B) <= Cardinality(A \ {c})
    BY <1>3, <2>1, FS_Subset
  <2> QED
    BY <1>4, <2>1, <2>2
<1> QED
  BY <1>3, <1>5, <1>6 DEF A, B, to

\* A step of a caller that charges nothing, admits nothing and loses no entry but those
\* that are forgotten.
LEMMA SettleInv ==
  ASSUME RateAssumption, RateInv, NEW c \in Callers, NEW x \in RateCall, Proper(x),
         x.at = "charge" => x.i = 1, call' = [call EXCEPT ![c] = x],
         RateMap(requests'),
         \A k \in RateKey \ forgotten' : \A w \in 1..Window :
           Count(QueueOf(requests', k), w) = Count(QueueOf(requests, k), w),
         admitted' \in [RateKey -> Seq(Nat)], forgotten \subseteq forgotten',
         \A k \in RateKey \ forgotten' : admitted'[k] = admitted[k],
         \A k \in RateKey \cap forgotten' : admitted'[k] = <<>>
  PROVE  RateInv'
<1>0. /\ call \in [Callers -> RateCall] /\ RateMap(requests) /\ admitted \in [RateKey -> Seq(Nat)]
      /\ \A d \in Callers : Proper(call[d])
      /\ Covered(requests, admitted, call, forgotten)
  BY DEF RateInv
<1>1. call' \in [Callers -> RateCall] /\ \A d \in Callers : Proper(call'[d])
  BY <1>0
<1>2. ASSUME NEW k \in RateKey \ forgotten', NEW w \in 1..Window
      PROVE  Count(admitted'[k], w) + Cardinality(Charging(call', k)) <= Count(QueueOf(requests', k), w)
  <2>1. Count(admitted[k], w) + Cardinality(Charging(call, k)) <= Count(QueueOf(requests, k), w)
    BY <1>0 DEF Covered
  <2>2. Cardinality(Charging(call', k)) <= Cardinality(Charging(call, k))
    BY <1>0, ChargingLess
  <2>3. Cardinality(Charging(call', k)) \in Nat /\ Cardinality(Charging(call, k)) \in Nat
    BY ChargingFinite
  <2>4. Count(admitted[k], w) \in Nat /\ Count(QueueOf(requests, k), w) \in Nat
    <3>1. admitted[k] \in Seq(Nat) /\ QueueOf(requests, k) \in Seq(Nat)
      BY <1>0, RateQueue
    <3> QED
      BY <3>1, CountFacts
  <2>5. /\ admitted'[k] = admitted[k]
        /\ Count(QueueOf(requests', k), w) = Count(QueueOf(requests, k), w)
    OBVIOUS
  <2> QED
    BY <2>1, <2>2, <2>3, <2>4, <2>5
<1>3. Covered(requests', admitted', call', forgotten')
  BY <1>2 DEF Covered
<1> QED
  BY <1>1, <1>3 DEF RateInv

\* evict_expired loses nothing of a window.
LEMMA EvictRate ==
  ASSUME RateAssumption, NEW m, RateMap(m)
  PROVE  /\ RateMap(EvictExpired(m))
         /\ \A k \in RateKey, w \in 1..Window :
              Count(QueueOf(EvictExpired(m), k), w) = Count(QueueOf(m, k), w)
<1> DEFINE e == EvictExpired(m)
<1>1. DOMAIN e = {k \in DOMAIN m : Live(m[k]) # <<>>} /\ \A k \in DOMAIN e : e[k] = Live(m[k])
  BY DEF EvictExpired
<1> HIDE DEF e
<1>2. RateMap(e)
  <2>1. ASSUME NEW k \in DOMAIN e
        PROVE  e[k] \in Seq(Nat) /\ Count(e[k], Window) <= MaxRequests
    <3>1. m[k] \in Seq(Nat) /\ Count(m[k], Window) <= MaxRequests /\ e[k] = Live(m[k])
      BY <1>1 DEF RateMap
    <3> QED
      BY <3>1, CountFacts, RateNumbers
  <2> QED
    BY <1>1, <2>1 DEF RateMap
<1>3. ASSUME NEW k \in RateKey, NEW w \in 1..Window
      PROVE  Count(QueueOf(e, k), w) = Count(QueueOf(m, k), w)
  <2>1. CASE k \in DOMAIN e
    <3>1. m[k] \in Seq(Nat) /\ e[k] = Live(m[k]) /\ k \in DOMAIN m
      BY <1>1, <2>1 DEF RateMap
    <3> QED
      BY <2>1, <3>1, CountFacts DEF QueueOf
  <2>2. CASE k \in DOMAIN m /\ k \notin DOMAIN e
    <3>1. m[k] \in Seq(Nat) /\ Live(m[k]) = <<>>
      BY <1>1, <2>2 DEF RateMap
    <3>2. Count(<<>>, w) = Count(m[k], w)
      BY <3>1, CountFacts
    <3> QED
      BY <2>2, <3>2 DEF QueueOf
  <2>3. CASE k \notin DOMAIN m
    BY <1>1, <2>3 DEF QueueOf
  <2> QED
    BY <1>1, <2>1, <2>2, <2>3
<1> QED
  BY <1>2, <1>3 DEF e

\* A finite set in some order is a sequence of its elements.
LEMMA SetToSeqType ==
  ASSUME NEW S, IsFiniteSet(S)
  PROVE  SetToSeq(S) \in Seq(S)
<1> DEFINE F == [1..Cardinality(S) -> S]
<1>1. Cardinality(S) \in Nat /\ ExistsBijection(1..Cardinality(S), S)
  BY FS_CardinalityType
<1>2. \E f \in F : IsInjective(f)
  BY <1>1 DEF ExistsBijection, Bijection, Injection
<1>3. SetToSeq(S) \in F
  BY <1>2 DEF SetToSeq
<1>4. \A f \in F : f \in Seq(S)
  BY <1>1
<1> QED
  BY <1>3, <1>4

\* The keys of a request.
LEMMA KeysType ==
  ASSUME RateAssumption, NEW id \in RateIdentity
  PROVE  KeysOf(id) \in Seq(RateKey)
<1> DEFINE S == id.creds \X {"credential"}
           a == << <<id.network, "network">>, <<id.network, id.route>> >>
<1>1. id.network \in RateNetworks /\ id.route \in Routes /\ id.creds \subseteq Credentials
  BY DEF RateIdentity
<1>2. a \in Seq(RateKey) /\ S \subseteq RateKey
  BY <1>1 DEF RateKey
<1>3. IsFiniteSet(S)
  <2>1. IsFiniteSet(id.creds) /\ IsFiniteSet({"credential"})
    BY <1>1, RateNumbers, FS_Subset, FS_Singleton
  <2> QED
    BY <2>1, FS_Product
<1> HIDE DEF S, a
<1>4. SetToSeq(S) \in Seq(S)
  BY <1>3, SetToSeqType
<1>5. Seq(S) \subseteq Seq(RateKey)
  BY <1>2
<1>6. a \o SetToSeq(S) \in Seq(RateKey)
  BY <1>2, <1>4, <1>5, ConcatProperties
<1> QED
  BY <1>6 DEF KeysOf, S, a

\* Idle callers.
LEMMA IdleCall == Idle \in RateCall /\ Proper(Idle) /\ Idle.at = "idle" /\ Idle.i = 1 /\ Idle.victims = {}
<1>1. <<>> \in Seq(RateKey)
  OBVIOUS
<1> QED
  BY <1>1 DEF Idle, RateCall, Proper

\* check begins.
LEMMA CheckRate ==
  ASSUME RateAssumption, RateInv, NEW c \in Callers, NEW id \in RateIdentity, Check(c, id)
  PROVE  RateInv'
<1> DEFINE x == [Idle EXCEPT !.keys = KeysOf(id), !.at = IF hits = 0 THEN "sweep" ELSE "charge"]
<1>1. KeysOf(id) \in Seq(RateKey)
  BY KeysType
<1>2. x \in RateCall /\ x.i = 1 /\ x.victims = {}
  <2> DEFINE a == IF hits = 0 THEN "sweep" ELSE "charge"
  <2>1. a \in {"sweep", "charge"}
    OBVIOUS
  <2> HIDE DEF a
  <2>2. [Idle EXCEPT !.keys = KeysOf(id), !.at = a] \in RateCall
    BY <1>1, <2>1, IdleCall DEF RateCall
  <2>3. /\ [Idle EXCEPT !.keys = KeysOf(id), !.at = a].i = 1
        /\ [Idle EXCEPT !.keys = KeysOf(id), !.at = a].victims = {}
    BY IdleCall DEF RateCall
  <2> QED
    BY <2>2, <2>3 DEF a
<1>3. Proper(x)
  <2> HIDE DEF x
  <2> QED
    BY <1>2 DEF Proper
<1>4. call' = [call EXCEPT ![c] = x] /\ UNCHANGED <<requests, admitted, forgotten>>
  BY DEF Check
<1> HIDE DEF x
<1> QED
  BY <1>2, <1>3, <1>4, SettleInv DEF RateInv

\* maybe_sweep evicts.
LEMMA SweepRate ==
  ASSUME RateAssumption, RateInv, NEW c \in Callers, Sweep(c)
  PROVE  RateInv'
<1> DEFINE x == [call[c] EXCEPT !.at = "shrink"]
<1>1. /\ call \in [Callers -> RateCall] /\ Proper(call[c]) /\ call[c].at = "sweep" /\ RateMap(requests)
      /\ admitted \in [RateKey -> Seq(Nat)] /\ \A k \in RateKey \cap forgotten : admitted[k] = <<>>
  BY DEF RateInv, Sweep, At
<1>2. call[c] \in RateCall
  BY <1>1
<1>3. x \in RateCall /\ Proper(x) /\ x.at = "shrink"
  BY <1>1, <1>2 DEF RateCall, Proper
<1>4. /\ call' = [call EXCEPT ![c] = x] /\ requests' = EvictExpired(requests)
      /\ UNCHANGED <<admitted, forgotten>>
  BY DEF Sweep
<1> HIDE DEF x
<1>5. /\ RateMap(requests')
      /\ \A k \in RateKey, w \in 1..Window :
           Count(QueueOf(requests', k), w) = Count(QueueOf(requests, k), w)
  BY <1>1, <1>4, EvictRate
<1> QED
  BY <1>1, <1>3, <1>4, <1>5, SettleInv

\* Where a shrink ends.
LEMMA AfterShrinkCall ==
  ASSUME RateInv, NEW c \in Callers, At(c, "shrink") \/ At(c, "cap")
  PROVE  LET x == [AfterShrink(c) EXCEPT !.victims = {}]
         IN  /\ x \in RateCall /\ Proper(x) /\ (x.at = "charge" => x.i = 1)
             /\ call[c].victims = {} => x = AfterShrink(c)
<1> DEFINE y == AfterShrink(c)
           x == [y EXCEPT !.victims = {}]
<1>1. call[c] \in RateCall /\ Proper(call[c])
  BY DEF RateInv
<1>2. CASE At(c, "cap")
  <2>1. y = Idle
    BY <1>2 DEF AfterShrink
  <2>2. [Idle EXCEPT !.victims = {}] = Idle
    BY IdleCall DEF RateCall
  <2> QED
    BY <2>1, <2>2, IdleCall
<1>3. CASE At(c, "shrink")
  <2>1. y = [call[c] EXCEPT !.at = "charge"] /\ call[c].i = 1
    BY <1>1, <1>3 DEF AfterShrink, At, Proper
  <2>2. y \in RateCall /\ y.at = "charge" /\ y.i = 1 /\ y.victims = call[c].victims
    BY <1>1, <2>1 DEF RateCall
  <2> HIDE DEF y
  <2>3. x \in RateCall /\ x.at = "charge" /\ x.i = 1 /\ x.victims = {}
    BY <2>2 DEF RateCall
  <2>4. Proper(x)
    BY <2>3 DEF Proper
  <2>5. y.victims = {} => x = y
    BY <2>2 DEF RateCall
  <2> QED
    BY <2>2, <2>3, <2>4, <2>5 DEF y
<1> QED
  BY <1>2, <1>3

\* shrink_to_cap collects.
LEMMA CollectRate ==
  ASSUME RateAssumption, RateInv, NEW c \in Callers, ShrinkCollect(c)
  PROVE  RateInv'
<1>1. /\ call[c] \in RateCall /\ Proper(call[c]) /\ RateMap(requests) /\ call[c].victims = {}
      /\ At(c, "shrink") \/ At(c, "cap")
      /\ UNCHANGED <<requests, admitted, forgotten>>
  BY DEF RateInv, ShrinkCollect
<1> DEFINE y == AfterShrink(c)
<1>2. y \in RateCall /\ Proper(y) /\ (y.at = "charge" => y.i = 1)
  BY <1>1, AfterShrinkCall
<1>3. PICK v \in SUBSET Tracked : \/ call' = [call EXCEPT ![c] = y]
                                   \/ call' = [call EXCEPT ![c] = [call[c] EXCEPT !.victims = v]]
  <2>1. Victims(c) \subseteq SUBSET Tracked
    BY DEF Victims
  <2>2. {} \in SUBSET Tracked
    OBVIOUS
  <2> QED
    BY <2>1, <2>2 DEF ShrinkCollect
<1> HIDE DEF y
<1>4. CASE call' = [call EXCEPT ![c] = y]
  BY <1>1, <1>2, <1>4, SettleInv DEF RateInv
<1>5. CASE call' = [call EXCEPT ![c] = [call[c] EXCEPT !.victims = v]]
  <2> DEFINE x == [call[c] EXCEPT !.victims = v]
  <2>1. v \subseteq RateKey
    BY <1>1 DEF RateMap, Tracked
  <2>2. x \in RateCall /\ x.at = call[c].at /\ x.i = call[c].i
    BY <1>1, <2>1 DEF RateCall
  <2>3. x.at \in {"shrink", "cap"}
    BY <1>1, <2>2 DEF At
  <2> HIDE DEF x
  <2>4. Proper(x)
    BY <1>1, <2>2, <2>3 DEF Proper
  <2> QED
    BY <1>1, <1>5, <2>2, <2>3, <2>4, SettleInv DEF RateInv, x
<1> QED
  BY <1>3, <1>4, <1>5

\* And it removes: the key is forgotten, whatever was charged to it.
LEMMA RemoveRate ==
  ASSUME RateAssumption, RateInv, NEW c \in Callers, ShrinkRemove(c)
  PROVE  RateInv'
<1>1. PICK k \in call[c].victims :
        /\ requests' = [x \in Tracked \ {k} |-> requests[x]]
        /\ forgotten' = forgotten \cup {k} /\ admitted' = [admitted EXCEPT ![k] = <<>>]
        /\ call' = [call EXCEPT ![c] =
                      IF call[c].victims = {k} THEN [AfterShrink(c) EXCEPT !.victims = {}]
                      ELSE [call[c] EXCEPT !.victims = @ \ {k}]]
  BY DEF ShrinkRemove
<1>2. /\ call[c] \in RateCall /\ Proper(call[c]) /\ RateMap(requests)
      /\ admitted \in [RateKey -> Seq(Nat)] /\ \A x \in RateKey \cap forgotten : admitted[x] = <<>>
  BY DEF RateInv
<1>3. call[c].at \in {"shrink", "cap"}
  BY <1>1, <1>2 DEF Proper
<1>4. k \in RateKey
  BY <1>1, <1>2 DEF RateCall
<1> DEFINE u == [AfterShrink(c) EXCEPT !.victims = {}]
           v == [call[c] EXCEPT !.victims = @ \ {k}]
           x == IF call[c].victims = {k} THEN u ELSE v
<1>5. u \in RateCall /\ Proper(u) /\ (u.at = "charge" => u.i = 1)
  BY <1>3, AfterShrinkCall DEF At
<1>6. v \in RateCall /\ v.at = call[c].at /\ v.i = call[c].i
  BY <1>2 DEF RateCall
<1> HIDE DEF u, v
<1>7. Proper(v)
  BY <1>2, <1>3, <1>6 DEF Proper
<1>8. x \in RateCall /\ Proper(x) /\ (x.at = "charge" => x.i = 1)
  BY <1>3, <1>5, <1>6, <1>7
<1>9. call' = [call EXCEPT ![c] = x]
  BY <1>1 DEF u, v
<1> HIDE DEF x
<1>10. /\ DOMAIN requests' = DOMAIN requests \ {k}
       /\ \A y \in DOMAIN requests \ {k} : requests'[y] = requests[y]
  BY <1>1 DEF Tracked
<1>11. RateMap(requests')
  BY <1>2, <1>10 DEF RateMap
<1>12. \A y \in RateKey \ forgotten' : QueueOf(requests', y) = QueueOf(requests, y)
  BY <1>1, <1>10 DEF QueueOf
<1>13. /\ admitted' \in [RateKey -> Seq(Nat)] /\ forgotten \subseteq forgotten'
       /\ \A y \in RateKey \ forgotten' : admitted'[y] = admitted[y]
       /\ \A y \in RateKey \cap forgotten' : admitted'[y] = <<>>
  <2>1. <<>> \in Seq(Nat)
    OBVIOUS
  <2> QED
    BY <1>1, <1>2, <1>4, <2>1
<1>14. \A y \in RateKey \ forgotten' : \A w \in 1..Window :
         Count(QueueOf(requests', y), w) = Count(QueueOf(requests, y), w)
  BY <1>12
<1> QED
  BY <1>8, <1>9, <1>11, <1>13, <1>14, SettleInv

\* The map with one entry put.
PutIn(m, key, q) == [k \in DOMAIN m \cup {key} |-> IF k = key THEN q ELSE m[k]]

\* It is a map of the limiter, and only the entry that is put reads differently.
LEMMA PutRate ==
  ASSUME RateAssumption, NEW m, RateMap(m), NEW key \in RateKey, NEW q \in Seq(Nat),
         Count(q, Window) <= MaxRequests
  PROVE  /\ RateMap(PutIn(m, key, q)) /\ QueueOf(PutIn(m, key, q), key) = q
         /\ \A k \in RateKey \ {key} : QueueOf(PutIn(m, key, q), k) = QueueOf(m, k)
<1> DEFINE to == PutIn(m, key, q)
<1>1. DOMAIN to = DOMAIN m \cup {key} /\ to[key] = q /\ \A k \in DOMAIN m \ {key} : to[k] = m[k]
  BY DEF PutIn
<1> HIDE DEF to
<1>2. RateMap(to)
  BY <1>1 DEF RateMap
<1>3. QueueOf(to, key) = q
  BY <1>1 DEF QueueOf
<1>4. \A k \in RateKey \ {key} : QueueOf(to, k) = QueueOf(m, k)
  BY <1>1 DEF QueueOf
<1> QED
  BY <1>2, <1>3, <1>4 DEF to

\* A caller that charges the next of its keys is one more for that key, and for no other.
LEMMA ChargingMore ==
  ASSUME RateAssumption, NEW cs \in [Callers -> RateCall], NEW c \in Callers,
         cs[c].at = "charge", NEW k
  PROVE  LET to == [cs EXCEPT ![c] = [cs[c] EXCEPT !.i = cs[c].i + 1]]
         IN  /\ Cardinality(Charging(to, k)) <= Cardinality(Charging(cs, k)) + 1
             /\ cs[c].keys[cs[c].i] # k =>
                  Cardinality(Charging(to, k)) <= Cardinality(Charging(cs, k))
<1> DEFINE x == [cs[c] EXCEPT !.i = cs[c].i + 1]
           to == [cs EXCEPT ![c] = x]
           A == Charging(cs, k)
           B == Charging(to, k)
<1>0. cs[c] \in RateCall
  OBVIOUS
<1>1. /\ x.at = cs[c].at /\ x.keys = cs[c].keys /\ x.i = cs[c].i + 1 /\ cs[c].i \in Nat
  BY <1>0 DEF RateCall
<1>2. to[c] = x /\ \A d \in Callers \ {c} : to[d] = cs[d]
  OBVIOUS
<1>3. IsFiniteSet(A) /\ IsFiniteSet(B) /\ Cardinality(A) \in Nat /\ Cardinality(B) \in Nat
  BY ChargingFinite
<1> HIDE DEF x, to
<1>4. \A d \in Callers \ {c} : d \in B <=> d \in A
  BY <1>2 DEF Charging
<1>5. A \subseteq Callers /\ B \subseteq Callers
  BY DEF Charging
<1>6. c \in A <=> \E j \in 1..(cs[c].i - 1) : cs[c].keys[j] = k
  BY DEF Charging
<1>7. c \in B <=> \E j \in 1..(x.i - 1) : x.keys[j] = k
  BY <1>1, <1>2 DEF Charging
<1>8. x.i - 1 = cs[c].i
  BY <1>1
<1> HIDE DEF A, B
<1>9. Cardinality(B) <= Cardinality(A) + 1
  <2>1. B \subseteq A \cup {c}
    BY <1>4, <1>5
  <2>2. IsFiniteSet(A \cup {c}) /\ Cardinality(A \cup {c}) <= Cardinality(A) + 1
    <3>1. /\ IsFiniteSet(A \cup {c})
          /\ Cardinality(A \cup {c}) = IF c \in A THEN Cardinality(A) ELSE Cardinality(A) + 1
      BY <1>3, FS_AddElement
    <3> QED
      BY <1>3, <3>1
  <2>3. Cardinality(B) <= Cardinality(A \cup {c}) /\ Cardinality(A \cup {c}) \in Nat
    BY <2>1, <2>2, FS_Subset, FS_CardinalityType
  <2> QED
    BY <1>3, <2>2, <2>3
<1>10. ASSUME cs[c].keys[cs[c].i] # k
       PROVE  Cardinality(B) <= Cardinality(A)
  <2>1. \A j \in 1..cs[c].i : j \in 1..(cs[c].i - 1) \/ j = cs[c].i
    BY <1>1
  <2>2. c \in B => c \in A
    BY <1>1, <1>6, <1>7, <1>8, <1>10, <2>1
  <2>3. B \subseteq A
    BY <1>4, <1>5, <2>2
  <2> QED
    BY <1>3, <2>3, FS_Subset
<1> QED
  BY <1>9, <1>10 DEF A, B, to, x

\* One entry is trimmed, judged and charged.
LEMMA ChargeRate ==
  ASSUME RateAssumption, RateInv, NEW c \in Callers, Charge(c)
  PROVE  RateInv'
<1> DEFINE key == call[c].keys[call[c].i]
           before == QueueOf(requests, key)
           entry == Live(before)
<1>1. /\ call \in [Callers -> RateCall] /\ call[c] \in RateCall /\ Proper(call[c])
      /\ RateMap(requests) /\ call[c].at = "charge" /\ call[c].i <= Len(call[c].keys)
      /\ admitted \in [RateKey -> Seq(Nat)] /\ (\A k \in RateKey \cap forgotten : admitted[k] = <<>>)
      /\ Covered(requests, admitted, call, forgotten) /\ \A d \in Callers : Proper(call[d])
      /\ UNCHANGED <<admitted, forgotten>>
  BY DEF RateInv, Charge, At
<1>2. key \in RateKey /\ call[c].i \in Nat \ {0}
  <2>1. call[c].keys \in Seq(RateKey) /\ call[c].i \in Nat \ {0}
    BY <1>1 DEF RateCall
  <2>2. call[c].i \in 1..Len(call[c].keys)
    BY <1>1, <2>1
  <2> QED
    BY <2>1, <2>2
<1>3. before \in Seq(Nat)
  BY <1>1, RateQueue
<1>4. /\ entry \in Seq(Nat) /\ Count(entry, Window) = Len(entry) /\ Append(entry, 0) \in Seq(Nat)
      /\ Len(entry) \in Nat /\ Count(Append(entry, 0), Window) = Len(entry) + 1
      /\ \A w \in 1..Window : /\ Count(entry, w) = Count(before, w) /\ Count(before, w) \in Nat
                               /\ Count(Append(entry, 0), w) = Count(before, w) + 1
  <2> HIDE DEF before
  <2>1. entry \in Seq(Nat) /\ \A w \in 1..Window : Count(entry, w) = Count(before, w) /\ Count(before, w) \in Nat
    BY <1>3, CountFacts, RateNumbers
  <2>2. Count(entry, Window) = Len(entry)
    BY <1>3, RetainTwice DEF Live, Count
  <2> HIDE DEF entry
  <2>3. Append(entry, 0) \in Seq(Nat) /\ Len(entry) \in Nat
    BY <2>1
  <2>4. \A w \in 1..Window : Count(Append(entry, 0), w) = Count(entry, w) + 1
    BY <2>1, CountFacts
  <2> QED
    BY <2>1, <2>2, <2>3, <2>4, RateNumbers
<1>5. entry = IF key \in Tracked THEN Live(requests[key]) ELSE <<>>
  BY RetainEmpty DEF QueueOf, Tracked, Live
<1>6. \/ /\ Len(entry) >= MaxRequests /\ requests' = PutIn(requests, key, entry)
         /\ call' = [call EXCEPT ![c] = Idle]
      \/ /\ Len(entry) < MaxRequests /\ requests' = PutIn(requests, key, Append(entry, 0))
         /\ call' = [call EXCEPT ![c] = [call[c] EXCEPT !.i = call[c].i + 1]]
  <2> HIDE DEF entry
  <2> QED
    BY <1>5 DEF Charge, Tracked, PutIn
<1>7. CASE /\ Len(entry) >= MaxRequests /\ requests' = PutIn(requests, key, entry)
           /\ call' = [call EXCEPT ![c] = Idle]
  <2>1. Count(entry, Window) <= MaxRequests
    <3>1. CASE key \in DOMAIN requests
      <4>1. requests[key] \in Seq(Nat) /\ Count(requests[key], Window) <= MaxRequests
        BY <1>1, <3>1 DEF RateMap
      <4>2. before = requests[key]
        BY <3>1 DEF QueueOf
      <4> QED
        BY <1>4, <4>1, <4>2, RateNumbers
    <3>2. CASE key \notin DOMAIN requests
      <4>1. before = <<>>
        BY <3>2 DEF QueueOf
      <4>2. Count(before, Window) = 0
        BY <1>3, <4>1, CountFacts, RateNumbers
      <4> HIDE DEF before, entry
      <4> QED
        BY <1>4, <4>2, RateNumbers
    <3> QED
      BY <3>1, <3>2
  <2> HIDE DEF key, before, entry
  <2>2. /\ RateMap(requests') /\ QueueOf(requests', key) = entry
        /\ \A k \in RateKey \ {key} : QueueOf(requests', k) = QueueOf(requests, k)
    <3>1. requests' = PutIn(requests, key, entry)
      BY <1>7
    <3>2. RateMap(requests) /\ key \in RateKey /\ entry \in Seq(Nat)
      BY <1>1, <1>2, <1>4
    <3> QED
      BY RateAssumption, <2>1, <3>1, <3>2, PutRate
  <2>3. ASSUME NEW k \in RateKey, NEW w \in 1..Window
        PROVE  Count(QueueOf(requests', k), w) = Count(QueueOf(requests, k), w)
    BY <1>4, <2>2 DEF before
  <2> QED
    BY <1>1, <1>7, <2>2, <2>3, IdleCall, SettleInv
<1>8. CASE /\ Len(entry) < MaxRequests /\ requests' = PutIn(requests, key, Append(entry, 0))
           /\ call' = [call EXCEPT ![c] = [call[c] EXCEPT !.i = call[c].i + 1]]
  <2> HIDE DEF entry, before
  <2> DEFINE q == Append(entry, 0)
  <2>1. q \in Seq(Nat) /\ Count(q, Window) <= MaxRequests
    BY <1>4, <1>8, RateNumbers
  <2>2. requests' = PutIn(requests, key, q)
    BY <1>8
  <2>3. \A w \in 1..Window : Count(q, w) = Count(before, w) + 1 /\ Count(before, w) \in Nat
    BY <1>4
  <2> HIDE DEF q
  <2>4. /\ RateMap(requests') /\ QueueOf(requests', key) = q
        /\ \A k \in RateKey \ {key} : QueueOf(requests', k) = QueueOf(requests, k)
    <3> HIDE DEF key
    <3>1. requests' = PutIn(requests, key, q)
      BY <2>2
    <3>2. RateMap(requests) /\ key \in RateKey
      BY <1>1, <1>2
    <3> QED
      BY <2>1, <3>1, <3>2, PutRate
  <2> DEFINE x == [call[c] EXCEPT !.i = call[c].i + 1]
  <2>5. x \in RateCall /\ x.at = "charge" /\ x.victims = call[c].victims
    <3>1. call[c].i + 1 \in Nat \ {0}
      BY <1>2
    <3>2. call[c] \in RateCall /\ call[c].at = "charge"
      BY <1>1
    <3> HIDE DEF key
    <3> QED
      BY <3>1, <3>2 DEF RateCall
  <2>6. Proper(x)
    <3> HIDE DEF x
    <3> QED
      BY <1>1, <2>5 DEF Proper
  <2>7. call' \in [Callers -> RateCall] /\ \A d \in Callers : Proper(call'[d])
    <3>1. call' = [call EXCEPT ![c] = x]
      BY <1>8
    <3> HIDE DEF x
    <3> QED
      BY <1>1, <2>5, <2>6, <3>1
  <2>8. ASSUME NEW k \in RateKey \ forgotten, NEW w \in 1..Window
        PROVE  Count(admitted[k], w) + Cardinality(Charging(call', k)) <= Count(QueueOf(requests', k), w)
    <3>1. Count(admitted[k], w) + Cardinality(Charging(call, k)) <= Count(QueueOf(requests, k), w)
      BY <1>1 DEF Covered
    <3>2. /\ Cardinality(Charging(call', k)) <= Cardinality(Charging(call, k)) + 1
          /\ key # k => Cardinality(Charging(call', k)) <= Cardinality(Charging(call, k))
      BY <1>1, <1>8, ChargingMore
    <3>3. Cardinality(Charging(call', k)) \in Nat /\ Cardinality(Charging(call, k)) \in Nat
      BY ChargingFinite
    <3>4. Count(admitted[k], w) \in Nat /\ Count(QueueOf(requests, k), w) \in Nat
      <4>1. admitted[k] \in Seq(Nat) /\ QueueOf(requests, k) \in Seq(Nat)
        BY <1>1, RateQueue
      <4> QED
        BY <4>1, CountFacts
    <3>5. CASE k = key
      <4>1. Count(QueueOf(requests', k), w) = Count(QueueOf(requests, k), w) + 1
        BY <2>3, <2>4, <3>5 DEF before
      <4> QED
        BY <3>1, <3>2, <3>3, <3>4, <4>1
    <3>6. CASE k # key
      <4>1. QueueOf(requests', k) = QueueOf(requests, k)
        BY <2>4, <3>6
      <4> QED
        BY <3>1, <3>2, <3>3, <3>4, <3>6, <4>1
    <3> QED
      BY <3>5, <3>6
  <2>9. Covered(requests', admitted', call', forgotten')
    BY <1>1, <2>8 DEF Covered
  <2> QED
    BY <1>1, <2>4, <2>7, <2>9 DEF RateInv
<1> QED
  BY <1>6, <1>7, <1>8

\* A request is admitted: its charges become admissions, under the keys it charged.
LEMMA EnforceCapRate ==
  ASSUME RateAssumption, RateInv, NEW c \in Callers, EnforceCap(c)
  PROVE  RateInv'
<1> DEFINE mine == Range(call[c].keys) \ forgotten
<1>1. /\ call \in [Callers -> RateCall] /\ call[c] \in RateCall /\ Proper(call[c])
      /\ RateMap(requests) /\ call[c].at = "charge" /\ call[c].i > Len(call[c].keys)
      /\ admitted \in [RateKey -> Seq(Nat)] /\ (\A k \in RateKey \cap forgotten : admitted[k] = <<>>)
      /\ Covered(requests, admitted, call, forgotten) /\ (\A d \in Callers : Proper(call[d]))
      /\ forgotten' = forgotten
      /\ admitted' = [k \in RateKey |-> IF k \in mine THEN Append(admitted[k], 0) ELSE admitted[k]]
  BY DEF RateInv, EnforceCap, At, Remember
<1>2. /\ RateMap(requests')
      /\ \A k \in RateKey, w \in 1..Window :
           Count(QueueOf(requests', k), w) = Count(QueueOf(requests, k), w)
  <2>1. requests' = requests \/ requests' = EvictExpired(requests)
    BY DEF EnforceCap
  <2> QED
    BY <1>1, <2>1, EvictRate
<1>3. PICK x \in RateCall : /\ Proper(x) /\ x.at # "charge" /\ call' = [call EXCEPT ![c] = x]
  <2> DEFINE y == [call[c] EXCEPT !.at = "cap"]
  <2>1. y \in RateCall /\ y.at = "cap"
    BY <1>1 DEF RateCall
  <2>2. Proper(y)
    <3> HIDE DEF y
    <3> QED
      BY <2>1 DEF Proper
  <2>3. call' = [call EXCEPT ![c] = Idle] \/ call' = [call EXCEPT ![c] = y]
    BY DEF EnforceCap
  <2> HIDE DEF y
  <2> QED
    BY <2>1, <2>2, <2>3, IdleCall
<1>4. call' \in [Callers -> RateCall] /\ \A d \in Callers : Proper(call'[d])
  BY <1>1, <1>3
<1>5. \A k \in mine : c \in Charging(call, k)
  <2>1. call[c].keys \in Seq(RateKey) /\ call[c].i \in Nat
    BY <1>1 DEF RateCall
  <2>2. ASSUME NEW k \in mine
        PROVE  c \in Charging(call, k)
    <3>1. PICK j \in DOMAIN call[c].keys : call[c].keys[j] = k
      BY DEF Range
    <3>2. j \in 1..(call[c].i - 1)
      <4>1. j \in 1..Len(call[c].keys) /\ Len(call[c].keys) \in Nat
        BY <2>1
      <4> QED
        BY <1>1, <2>1, <4>1
    <3> QED
      BY <1>1, <3>1, <3>2 DEF Charging
  <2> QED
    BY <2>2
<1> HIDE DEF mine
<1>6. admitted' \in [RateKey -> Seq(Nat)]
  <2>1. \A k \in RateKey : Append(admitted[k], 0) \in Seq(Nat) /\ admitted[k] \in Seq(Nat)
    BY <1>1
  <2> QED
    BY <1>1, <2>1
<1>7. \A k \in RateKey \cap forgotten' : admitted'[k] = <<>>
  BY <1>1 DEF mine
<1>8. ASSUME NEW k \in RateKey \ forgotten, NEW w \in 1..Window
      PROVE  Count(admitted'[k], w) + Cardinality(Charging(call', k)) <= Count(QueueOf(requests', k), w)
  <2>1. Count(admitted[k], w) + Cardinality(Charging(call, k)) <= Count(QueueOf(requests, k), w)
    BY <1>1 DEF Covered
  <2>2. /\ Cardinality(Charging(call', k)) <= Cardinality(Charging(call, k))
        /\ c \in Charging(call, k) =>
             Cardinality(Charging(call', k)) + 1 <= Cardinality(Charging(call, k))
    BY <1>1, <1>3, ChargingLess
  <2>3. Cardinality(Charging(call', k)) \in Nat /\ Cardinality(Charging(call, k)) \in Nat
    BY ChargingFinite
  <2>4. admitted[k] \in Seq(Nat) /\ QueueOf(requests, k) \in Seq(Nat)
    BY <1>1, RateQueue
  <2>5. /\ Count(admitted[k], w) \in Nat /\ Count(QueueOf(requests, k), w) \in Nat
        /\ Count(Append(admitted[k], 0), w) = Count(admitted[k], w) + 1
    BY <2>4, CountFacts
  <2>6. CASE k \in mine
    <3>1. Count(admitted'[k], w) = Count(admitted[k], w) + 1
      BY <1>1, <2>5, <2>6
    <3> QED
      BY <1>2, <1>5, <2>1, <2>2, <2>3, <2>5, <2>6, <3>1
  <2>7. CASE k \notin mine
    <3>1. admitted'[k] = admitted[k]
      BY <1>1, <2>7
    <3> QED
      BY <1>2, <2>1, <2>2, <2>3, <2>5, <3>1
  <2> QED
    BY <2>6, <2>7
<1>9. Covered(requests', admitted', call', forgotten')
  BY <1>1, <1>8 DEF Covered
<1> QED
  BY <1>2, <1>4, <1>6, <1>7, <1>9 DEF RateInv

\* A window of nothing has nothing.
LEMMA CountNone == ASSUME NEW q \in Seq(Nat) PROVE Count(q, 0) = 0
<1>1. Retain(q, 0) \in Seq(Nat) /\ \A i \in 1..Len(Retain(q, 0)) : Retain(q, 0)[i] < 0
  BY RetainFacts
<1> DEFINE r == Retain(q, 0)
<1> HIDE DEF r
<1>2. r \in Seq(Nat) /\ \A i \in 1..Len(r) : r[i] < 0
  BY <1>1 DEF r
<1>3. Len(r) \in Nat /\ \A i \in 1..Len(r) : r[i] \in Nat
  BY <1>2
<1>4. 1 \notin 1..Len(r)
  BY <1>2, <1>3
<1>5. Len(r) = 0
  BY <1>3, <1>4
<1> QED
  BY <1>5 DEF Count, r

\* Time passes while nobody is inside check.
LEMMA TickRate ==
  ASSUME RateAssumption, RateInv, Tick
  PROVE  RateInv'
<1>1. /\ call \in [Callers -> RateCall] /\ RateMap(requests)
      /\ admitted \in [RateKey -> Seq(Nat)] /\ (\A k \in RateKey \cap forgotten : admitted[k] = <<>>)
      /\ Covered(requests, admitted, call, forgotten) /\ (\A d \in Callers : Proper(call[d]))
      /\ (\A d \in Callers : call[d].at = "idle")
      /\ forgotten' = {} /\ call' = call
      /\ DOMAIN requests' = DOMAIN requests
      /\ \A k \in DOMAIN requests : requests'[k] = Aged(requests[k], Window)
      /\ admitted' = [k \in RateKey |-> Live(Aged(admitted[k], Window))]
  BY DEF RateInv, Tick, At, Tracked
<1>2. Window \in Nat /\ Window \in 1..Window /\ MaxRequests \in Nat
  BY RateNumbers
<1>3. ASSUME NEW q \in Seq(Nat), NEW w \in 1..Window
      PROVE  /\ Aged(q, Window) \in Seq(Nat) /\ Live(Aged(q, Window)) \in Seq(Nat)
             /\ Count(Aged(q, Window), w) = Count(q, w - 1)
             /\ Count(Live(Aged(q, Window)), w) = Count(q, w - 1)
  <2>1. Aged(q, Window) \in Seq(Nat) /\ Count(Aged(q, Window), w) = Count(q, w - 1)
    BY <1>2, AgedType, AgedCount DEF Count
  <2> QED
    BY <2>1, CountFacts
<1>4. \A k : Charging(call, k) = {}
  BY <1>1 DEF Charging
<1>5. ASSUME NEW k \in RateKey
      PROVE  QueueOf(requests', k) = Aged(QueueOf(requests, k), Window)
  <2>1. Aged(<<>>, Window) = <<>>
    BY DEF Aged
  <2> QED
    BY <1>1, <2>1 DEF QueueOf
<1>6. ASSUME NEW k \in RateKey, NEW w \in 0..Window
      PROVE  Count(admitted[k], w) <= Count(QueueOf(requests, k), w)
  <2>1. admitted[k] \in Seq(Nat) /\ QueueOf(requests, k) \in Seq(Nat)
    BY <1>1, RateQueue
  <2>2. CASE w = 0
    BY <2>1, <2>2, CountNone
  <2>3. CASE w \in 1..Window /\ k \notin forgotten
    <3>1. Count(admitted[k], w) + Cardinality(Charging(call, k)) <= Count(QueueOf(requests, k), w)
      BY <1>1, <2>3 DEF Covered
    <3>2. Cardinality(Charging(call, k)) = 0
      BY <1>4, FS_EmptySet
    <3>3. Count(admitted[k], w) \in Nat
      BY <2>1, <2>3, CountFacts
    <3> QED
      BY <3>1, <3>2, <3>3
  <2>4. CASE w \in 1..Window /\ k \in forgotten
    <3>1. admitted[k] = <<>>
      BY <1>1, <2>4
    <3>2. Count(<<>>, w) = 0 /\ Count(QueueOf(requests, k), w) \in Nat
      BY <2>1, <2>4, CountFacts
    <3> QED
      BY <3>1, <3>2
  <2> QED
    BY <1>2, <2>2, <2>3, <2>4
<1>7. RateMap(requests')
  <2>1. ASSUME NEW k \in DOMAIN requests
        PROVE  requests'[k] \in Seq(Nat) /\ Count(requests'[k], Window) <= MaxRequests
    <3>1. requests[k] \in Seq(Nat) /\ Count(requests[k], Window) <= MaxRequests
      BY <1>1 DEF RateMap
    <3>2. Aged(requests[k], Window) \in Seq(Nat) /\ Count(Aged(requests[k], Window), Window) = Count(requests[k], Window - 1)
      BY <1>2, <1>3, <3>1
    <3>3. Count(requests[k], Window - 1) <= Count(requests[k], Window)
      <4> DEFINE r == Retain(requests[k], Window)
      <4>1. r \in Seq(Nat)
        BY <3>1, RetainFacts
      <4>2. Window - 1 \in Nat /\ Window - 1 <= Window
        BY RateNumbers
      <4>3. Retain(r, Window - 1) = Retain(requests[k], Window - 1)
        BY <1>2, <3>1, <4>2, RetainLess
      <4>4. Len(Retain(r, Window - 1)) <= Len(r)
        <5> HIDE DEF r
        <5> QED
          BY <4>1, RetainFacts
      <4> QED
        BY <4>3, <4>4 DEF Count
    <3>4. Count(requests[k], Window) \in Nat /\ Count(Aged(requests[k], Window), Window) \in Nat
      BY <1>2, <3>1, <3>2, CountFacts
    <3> QED
      BY <1>1, <1>2, <3>1, <3>2, <3>3, <3>4
  <2> QED
    BY <1>1, <2>1 DEF RateMap
<1>8. admitted' \in [RateKey -> Seq(Nat)]
  <2>1. \A k \in RateKey : Live(Aged(admitted[k], Window)) \in Seq(Nat)
    BY <1>1, <1>2, <1>3
  <2> QED
    BY <1>1, <2>1
<1>9. ASSUME NEW k \in RateKey, NEW w \in 1..Window
      PROVE  Count(admitted'[k], w) + Cardinality(Charging(call', k)) <= Count(QueueOf(requests', k), w)
  <2>1. admitted[k] \in Seq(Nat) /\ QueueOf(requests, k) \in Seq(Nat)
    BY <1>1, RateQueue
  <2>2. Cardinality(Charging(call', k)) = 0
    BY <1>1, <1>4, FS_EmptySet
  <2>3. /\ Count(admitted'[k], w) = Count(admitted[k], w - 1)
        /\ Count(QueueOf(requests', k), w) = Count(QueueOf(requests, k), w - 1)
    BY <1>1, <1>3, <1>5, <2>1
  <2>4. w - 1 \in 0..Window
    BY <1>2
  <2>5. Count(admitted[k], w - 1) <= Count(QueueOf(requests, k), w - 1)
    BY <1>6, <2>4
  <2>6. Count(admitted[k], w - 1) \in Nat
    <3>1. Retain(admitted[k], w - 1) \in Seq(Nat)
      BY <2>1, RetainFacts
    <3> QED
      BY <3>1 DEF Count
  <2> QED
    BY <2>2, <2>3, <2>5, <2>6
<1>10. Covered(requests', admitted', call', forgotten')
  BY <1>9 DEF Covered
<1> QED
  BY <1>1, <1>7, <1>8, <1>10 DEF RateInv

\* The limiter begins with an empty map.
LEMMA RateInitInv ==
  ASSUME RateAssumption, RateInit
  PROVE  RateInv
<1>1. /\ DOMAIN requests = {} /\ call = [c \in Callers |-> Idle] /\ forgotten = {}
      /\ admitted = [k \in RateKey |-> <<>>]
  BY DEF RateInit
<1>2. call \in [Callers -> RateCall] /\ \A c \in Callers : Proper(call[c]) /\ call[c].at = "idle"
  BY <1>1, IdleCall
<1>3. <<>> \in Seq(Nat)
  OBVIOUS
<1>4. ASSUME NEW k \in RateKey, NEW w \in 1..Window
      PROVE  Count(admitted[k], w) + Cardinality(Charging(call, k)) <= Count(QueueOf(requests, k), w)
  <2>1. Charging(call, k) = {}
    BY <1>2 DEF Charging
  <2>2. Cardinality(Charging(call, k)) = 0 /\ Count(<<>>, w) = 0
    BY <1>3, <2>1, FS_EmptySet, CountFacts
  <2> QED
    BY <1>1, <2>2 DEF QueueOf
<1> QED
  BY <1>1, <1>2, <1>3, <1>4 DEF RateInv, RateMap, Covered

\* The limit follows from the invariant.
LEMMA RateInvLimit ==
  ASSUME RateAssumption, RateInv
  PROVE  AdmittedWithinWindow
<1> SUFFICES ASSUME NEW k \in RateKey \ forgotten
             PROVE  Len(Live(admitted[k])) <= MaxRequests
  BY DEF AdmittedWithinWindow
<1>1. /\ RateMap(requests) /\ admitted[k] \in Seq(Nat)
      /\ Count(admitted[k], Window) + Cardinality(Charging(call, k)) <= Count(QueueOf(requests, k), Window)
  BY RateNumbers DEF RateInv, Covered
<1>2. Cardinality(Charging(call, k)) \in Nat /\ Count(admitted[k], Window) \in Nat
  BY <1>1, ChargingFinite, CountFacts, RateNumbers
<1>3. Count(QueueOf(requests, k), Window) <= MaxRequests /\ Count(QueueOf(requests, k), Window) \in Nat
  <2>1. CASE k \in DOMAIN requests
    BY <1>1, <2>1, CountFacts, RateNumbers DEF RateMap, QueueOf
  <2>2. CASE k \notin DOMAIN requests
    <3>1. <<>> \in Seq(Nat)
      OBVIOUS
    <3>2. Count(<<>>, Window) = 0
      BY <3>1, CountFacts, RateNumbers
    <3> QED
      BY <2>2, <3>2, RateNumbers DEF QueueOf
  <2> QED
    BY <2>1, <2>2
<1> QED
  BY <1>1, <1>2, <1>3, RateNumbers DEF Count, Live

\* Every step keeps the invariant.
LEMMA RateNextInv ==
  ASSUME RateAssumption, RateInv, [RateNext]_rateVars
  PROVE  RateInv'
<1>1. CASE UNCHANGED rateVars
  BY <1>1 DEF rateVars, RateInv, Covered, Charging, QueueOf
<1>2. CASE RateNext
  BY <1>2, TickRate, CheckRate, SweepRate, ChargeRate, EnforceCapRate, CollectRate, RemoveRate
  DEF RateNext, Step
<1> QED
  BY <1>1, <1>2

\* However calls interleave, and for any limits, no key admits more than MaxRequests within
\* a window, unless the cap made the limiter forget it.
THEOREM LimitHeld == RateAssumption => (RateSpec => []AdmittedWithinWindow)
<1> SUFFICES ASSUME RateAssumption PROVE RateSpec => []AdmittedWithinWindow
  OBVIOUS
<1>1. RateInit => RateInv
  BY RateInitInv
<1>2. RateInv /\ [RateNext]_rateVars => RateInv'
  BY RateNextInv
<1>3. RateInv => AdmittedWithinWindow
  BY RateInvLimit
<1> QED
  BY <1>1, <1>2, <1>3, PTL DEF RateSpec
=============================================================================
