------------------------ MODULE RequestPipeline_proofs ------------------------
(***************************************************************************)
(* What request_filter guarantees for any number of requests, any routes   *)
(* and any limits: nothing reaches an origin past a gate that should have  *)
(* stopped it, no way out of the filter leaks a slot or a byte, and what   *)
(* the proxy refuses is exported as denied.                                *)
(*                                                                         *)
(* What a request owes depends on how far it has come, so the inductive    *)
(* invariant says it stage by stage (Kept); the two counters are tied to   *)
(* what all the requests hold (Held).                                      *)
(***************************************************************************)
EXTENDS RequestPipeline, Lemmas

\* The stages before the body is read, and those after each judgement of it.
HeadStages == {"headers", "host", "resolve", "https", "jwt", "abuse", "behavioral", "smuggling",
               "bot", "method", "uri", "size", "rate", "protocol", "waf", "openapi", "grpc",
               "reserve"}
AfterAuthz == {"dispatch", "origin"}
AfterL1 == {"body_rules", "authz"} \cup AfterAuthz
AfterL0 == {"l1"} \cup AfterL1
Stages == {"idle", "admit", "read", "inspect", "log"} \cup HeadStages \cup AfterL0

Ctx == [guard : BOOLEAN, route : Routes, jwt : BOOLEAN, len : Nat, declared : BOOLEAN,
        gzip : BOOLEAN, upgrade : BOOLEAN, skip : BOOLEAN, reserved : Nat, read : Nat,
        l0 : Outcomes \cup {"none"}, l1 : {"none", "allow", "block", "unavailable"},
        authz : {"none", "allow", "unavailable"}, sent : {"no", "commit", "stream"},
        noted : BOOLEAN, responded : BOOLEAN, status : Nat, by : {"nobody", "us", "origin"}]

Types == /\ stage \in [Requests -> Stages]
         /\ ctx \in [Requests -> Ctx]
         /\ in_flight \in Nat
         /\ used \in Nat

\* A request that is not admitted holds nothing.
Fresh(s, c) == s \in {"idle", "admit"} => c = NewCtx

\* What may be read of the body is reserved before its first chunk, for every copy.
Copies(c) == IF c.route.spool THEN 1 ELSE 2
Expected(c) ==
  IF c.declared /\ c.len < BodyLimit(c.route) THEN c.len ELSE BodyLimit(c.route)
Covered(s, c) ==
  /\ Copies(c) * c.read <= c.reserved
  /\ s \in HeadStages => c.read = 0
  /\ s = "read" => c.read <= Expected(c) /\ Copies(c) * Expected(c) <= c.reserved

\* What a strict route and an authorization policy ask for, once that gate is passed.
Inspected(s, c) ==
  Strict(c.route) /\ ~c.skip => /\ s \in AfterL0 => InspectedByL0(c)
                                /\ s \in AfterL1 => InspectedByL1(c)
Allowed(s, c) == s \in AfterAuthz /\ c.route.authz # "none" => Authorized(c)

\* Only an answer of the origin that is passed on leaves `responded` without a note.
Reported(s, c) ==
  /\ c.responded => s \in {"origin", "log"}
  /\ c.responded /\ (s = "origin" \/ c.by = "us") => c.noted

Kept(s, c) ==
  /\ Fresh(s, c) /\ Covered(s, c) /\ Inspected(s, c) /\ Allowed(s, c) /\ Reported(s, c)

Reserved == [r \in Requests |-> ctx[r].reserved]
Held == /\ in_flight = Cardinality(Guarded) /\ in_flight <= MaxInFlight
        /\ used = Total(Reserved) /\ used <= BudgetMax

PipelineInv == Types /\ Held /\ \A r \in Requests : Kept(stage[r], ctx[r])

-----------------------------------------------------------------------------
(* One request moves. *)

\* The limits are numbers, so a reservation is one.
LEMMA LimitTypes ==
  ASSUME NEW c \in Ctx
  PROVE  /\ c.route \in Route
         /\ BodyLimit(c.route) \in Nat /\ Expected(c) \in Nat
         /\ Reservation(c) \in Nat
<1>1. c.route \in Route
  BY PipelineHolds DEF PipelineAssumption, Ctx
<1>2. BodyLimit(c.route) \in Nat /\ MaxDecoded \in Nat /\ Inflate \in Nat
  BY PipelineHolds DEF PipelineAssumption, BodyLimit
<1>3. c.len \in Nat
  BY DEF Ctx
<1>4. Expected(c) \in Nat
  BY <1>2, <1>3 DEF Expected
<1>5. Reservation(c) = (IF c.route.spool THEN Expected(c) ELSE 2 * Expected(c))
                         + (IF c.gzip THEN IF c.route.spool THEN MaxDecoded + 1 ELSE Inflate
                            ELSE 0)
  BY DEF Reservation, Expected
<1> QED BY <1>1, <1>2, <1>4, <1>5

\* The context a request begins and ends with.
LEMMA NewCtxType ==
  /\ NewCtx \in Ctx /\ ~NewCtx.guard /\ NewCtx.reserved = 0
  /\ NewCtx.read = 0 /\ ~NewCtx.responded
<1>1. AnyRoute \in Routes
  BY PipelineHolds DEF PipelineAssumption, AnyRoute
<1> QED BY <1>1 DEF NewCtx, Ctx, NoBody

\* A step moves one request and the counters by what it gains or gives back.
LEMMA MoveKeeps ==
  ASSUME PipelineInv, NEW r \in Requests, NEW s \in Stages, NEW c \in Ctx, Kept(s, c),
         stage' = [stage EXCEPT ![r] = s],
         ctx' = [ctx EXCEPT ![r] = c],
         in_flight' = in_flight + (IF c.guard THEN 1 ELSE 0)
                        - (IF ctx[r].guard THEN 1 ELSE 0),
         in_flight' <= MaxInFlight,
         used' = used + c.reserved - ctx[r].reserved,
         used' <= BudgetMax
  PROVE  PipelineInv'
<1>1. ctx \in [Requests -> Ctx] /\ stage \in [Requests -> Stages]
  BY DEF PipelineInv, Types
<1>2. ctx' \in [Requests -> Ctx] /\ stage' \in [Requests -> Stages]
  BY <1>1
<1>3. ASSUME NEW q \in Requests PROVE Kept(stage'[q], ctx'[q])
  <2>1. CASE q = r
    BY <2>1, <1>1
  <2>2. CASE q # r
    BY <2>2, <1>1 DEF PipelineInv
  <2> QED BY <2>1, <2>2
<1>4. used' = Total(Reserved)' /\ used' \in Nat
  <2>1. Reserved \in [Requests -> Nat] /\ Reserved' \in [Requests -> Nat]
    BY <1>1, <1>2 DEF Reserved, Ctx
  <2>2. \A q \in Requests \ {r} : Reserved'[q] = Reserved[q]
    BY <1>1 DEF Reserved
  <2>3. Reserved[r] = ctx[r].reserved /\ Reserved'[r] = c.reserved
    BY <1>1 DEF Reserved
  <2>4. IsFiniteSet(Requests)
    BY PipelineHolds DEF PipelineAssumption
  <2>5. Total(Reserved') = Total(Reserved) + Reserved'[r] - Reserved[r]
    BY <2>1, <2>2, <2>4, TotalChange
  <2>6. Total(Reserved)' = Total(Reserved')
    BY DEF Total, Units
  <2>7. Total(Reserved') \in Nat
    BY <2>1, <2>4, TotalType
  <2> QED BY <2>3, <2>5, <2>6, <2>7 DEF PipelineInv, Held
<1>5. in_flight' = Cardinality(Guarded)' /\ in_flight' \in Nat
  <2>1. Guarded \subseteq Requests /\ IsFiniteSet(Requests)
    BY PipelineHolds DEF PipelineAssumption, Guarded
  <2>2. IsFiniteSet(Guarded)
    BY <2>1, FS_Subset
  <2>3. Cardinality(Guarded) \in Nat /\ in_flight = Cardinality(Guarded)
    BY <2>2, FS_CardinalityType DEF PipelineInv, Held
  <2>4. CASE c.guard /\ ~ctx[r].guard
    <3>1. Guarded' = Guarded \cup {r} /\ r \notin Guarded
      BY <2>4, <1>1 DEF Guarded
    <3>2. Cardinality(Guarded \cup {r}) = Cardinality(Guarded) + 1
      BY <3>1, <2>2, FS_AddElement
    <3> QED BY <3>1, <3>2, <2>3, <2>4
  <2>5. CASE ~c.guard /\ ctx[r].guard
    <3>1. Guarded' = Guarded \ {r} /\ r \in Guarded
      BY <2>5, <1>1 DEF Guarded
    <3>2. Cardinality(Guarded \ {r}) = Cardinality(Guarded) - 1
      BY <3>1, <2>2, FS_RemoveElement
    <3>3. IsFiniteSet(Guarded \ {r})
      BY <2>2, FS_Subset
    <3>4. Cardinality(Guarded \ {r}) \in Nat
      BY <3>3, FS_CardinalityType
    <3> QED BY <3>1, <3>2, <3>4, <2>3, <2>5
  <2>6. CASE c.guard = ctx[r].guard
    <3>1. Guarded' = Guarded
      BY <2>6, <1>1 DEF Guarded
    <3> QED BY <3>1, <2>3, <2>6
  <2>7. c.guard \in BOOLEAN /\ ctx[r].guard \in BOOLEAN
    BY <1>1 DEF Ctx
  <2> QED BY <2>4, <2>5, <2>6, <2>7
<1> QED BY <1>2, <1>3, <1>4, <1>5 DEF PipelineInv, Types, Held

\* A step that takes and gives back nothing.
LEMMA StayKeeps ==
  ASSUME PipelineInv, NEW r \in Requests, NEW s \in Stages, NEW c \in Ctx, Kept(s, c),
         Goto(r, s), Set(r, c), UNCHANGED <<in_flight, used>>,
         c.guard = ctx[r].guard, c.reserved = ctx[r].reserved
  PROVE  PipelineInv'
<1>1. stage' = [stage EXCEPT ![r] = s] /\ ctx' = [ctx EXCEPT ![r] = c]
  BY DEF Goto, Set
<1>2. in_flight \in Nat /\ used \in Nat /\ ctx[r] \in Ctx /\ ctx[r].reserved \in Nat
  BY DEF PipelineInv, Types, Ctx
<1>3. in_flight' <= MaxInFlight /\ used' <= BudgetMax
  BY DEF PipelineInv, Held
<1>4. /\ in_flight' = in_flight + (IF c.guard THEN 1 ELSE 0) - (IF ctx[r].guard THEN 1 ELSE 0)
      /\ used' = used + c.reserved - ctx[r].reserved
  BY <1>2
<1> QED BY <1>1, <1>3, <1>4, MoveKeeps

\* A gate that passes the request on and writes nothing down.
LEMMA PassKeeps ==
  ASSUME PipelineInv, NEW r \in Requests, NEW s \in Stages, Kept(s, ctx[r]),
         Goto(r, s), UNCHANGED <<in_flight, used, ctx>>
  PROVE  PipelineInv'
<1>1. ctx[r] \in Ctx /\ ctx = [ctx EXCEPT ![r] = ctx[r]]
  BY DEF PipelineInv, Types
<1>2. Set(r, ctx[r])
  BY <1>1 DEF Set
<1> QED BY <1>1, <1>2, StayKeeps

\* What an answer of the proxy changes in the context.
LEMMA AnsweredType ==
  ASSUME NEW c \in Ctx, NEW code \in Nat, NEW noted \in BOOLEAN
  PROVE  LET d == Answered(c, code, noted)
         IN  /\ d \in Ctx /\ d.guard = c.guard /\ d.reserved = c.reserved
             /\ d.read = c.read /\ d.route = c.route /\ d.responded = c.responded
             /\ d.noted = (c.noted \/ noted)
BY DEF Answered, Ctx

\* An answer of the proxy ends the filter at any stage, and keeps what is held until
\* the request is finished.
LEMMA DenyKeeps ==
  ASSUME PipelineInv, NEW r \in Requests, NEW code \in Nat, NEW noted \in BOOLEAN,
         stage[r] # "log", Deny(r, code, noted)
  PROVE  PipelineInv'
<1> DEFINE c == Answered(ctx[r], code, noted)
<1>1. ctx[r] \in Ctx /\ Kept(stage[r], ctx[r])
  BY DEF PipelineInv, Types
<1>2. /\ c \in Ctx /\ c.guard = ctx[r].guard /\ c.reserved = ctx[r].reserved
      /\ c.read = ctx[r].read /\ c.route = ctx[r].route /\ c.responded = ctx[r].responded
      /\ c.noted = (ctx[r].noted \/ noted)
  BY <1>1, AnsweredType
<1>3. Kept("log", c)
  <2>1. "log" \notin {"idle", "admit"} /\ "log" \notin HeadStages /\ "log" \notin AfterL0
        /\ "log" \notin AfterL1 /\ "log" \notin AfterAuthz
    BY DEF HeadStages, AfterL0, AfterL1, AfterAuthz
  <2>2. Covered("log", c)
    BY <1>1, <1>2, <2>1 DEF Kept, Covered, Copies
  <2>3. Reported("log", c)
    BY <1>1, <1>2 DEF Kept, Reported
  <2> HIDE DEF c
  <2> QED BY <2>1, <2>2, <2>3 DEF Kept, Fresh, Inspected, Allowed
<1>4. Goto(r, "log") /\ Set(r, c) /\ UNCHANGED <<in_flight, used>>
  BY DEF Deny
<1>5. "log" \in Stages
  BY DEF Stages
<1> HIDE DEF c
<1> QED BY <1>2, <1>3, <1>4, <1>5, StayKeeps

\* The request is answered by the proxy, with some code, noted or not.
Refused(r) == \E code \in Nat : Deny(r, code, TRUE) \/ Deny(r, code, FALSE)

\* A refusal of the gates keeps the invariant, whatever of the request was noted.
LEMMA RefusedKeeps ==
  ASSUME PipelineInv, NEW r \in Requests, stage[r] # "log", Refused(r)
  PROVE  PipelineInv'
BY DenyKeeps DEF Refused

-----------------------------------------------------------------------------
(* The actions, in the order of request_filter. *)

\* The gates on the head of a request.
LEMMA GateKeeps ==
  ASSUME PipelineInv, NEW r \in Requests, NEW here \in HeadStages, NEW next \in HeadStages,
         NEW codes \in SUBSET Nat, NEW noted \in BOOLEAN, Gate(r, here, next, codes, noted)
  PROVE  PipelineInv'
<1>1. stage[r] = here /\ stage[r] # "log" /\ next \in Stages
  BY DEF Gate, HeadStages, Stages
<1>2. ASSUME Goto(r, next), UNCHANGED <<in_flight, used, ctx>> PROVE PipelineInv'
  <2>1. Kept(stage[r], ctx[r])
    BY DEF PipelineInv
  <2>2. /\ \A s \in HeadStages : s \notin {"idle", "admit", "read", "origin", "log"} \cup AfterL0
        /\ AfterL1 \subseteq AfterL0 /\ AfterAuthz \subseteq AfterL0
    BY DEF HeadStages, AfterL0, AfterL1, AfterAuthz
  <2>3. Kept(next, ctx[r])
    BY <1>1, <2>1, <2>2 DEF Kept, Fresh, Covered, Inspected, Allowed, Reported
  <2> QED BY <1>1, <1>2, <2>3, PassKeeps
<1>3. ASSUME NEW code \in codes, Deny(r, code, noted) PROVE PipelineInv'
  BY <1>1, <1>3, DenyKeeps
<1> QED BY <1>2, <1>3 DEF Gate

\* The gates that write down what they found: none of it is held or judged yet.
LEMMA NoteKeeps ==
  ASSUME PipelineInv, NEW r \in Requests, stage[r] \in HeadStages, NEW next \in HeadStages,
         NEW c \in Ctx, Goto(r, next), Set(r, c), UNCHANGED <<in_flight, used>>,
         c.guard = ctx[r].guard, c.reserved = ctx[r].reserved, c.read = ctx[r].read,
         c.responded = ctx[r].responded
  PROVE  PipelineInv'
<1>1. Kept(stage[r], ctx[r]) /\ ctx[r] \in Ctx
  BY DEF PipelineInv, Types
<1>2. next \in Stages
  BY DEF Stages
<1>3. /\ \A s \in HeadStages : s \notin {"idle", "admit", "read", "origin", "log"} \cup AfterL0
      /\ AfterL1 \subseteq AfterL0 /\ AfterAuthz \subseteq AfterL0
  BY DEF HeadStages, AfterL0, AfterL1, AfterAuthz
<1>4. c.read = 0 /\ c.reserved \in Nat
  BY <1>1 DEF Kept, Covered, Ctx
<1>5. Covered(next, c)
  BY <1>3, <1>4 DEF Covered, Copies
<1>6. Kept(next, c)
  BY <1>1, <1>3, <1>5 DEF Kept, Fresh, Inspected, Allowed, Reported
<1> QED BY <1>2, <1>6, StayKeeps

\* A request arrives, and is given a slot or turned away.
LEMMA AdmitKeeps ==
  ASSUME PipelineInv, NEW r \in Requests, Arrive(r) \/ Admit(r)
  PROVE  PipelineInv'
<1>0. ctx[r] \in Ctx /\ Kept(stage[r], ctx[r]) /\ in_flight \in Nat /\ used \in Nat
  BY DEF PipelineInv, Types
<1>1. CASE Arrive(r)
  <2>1. Kept("admit", ctx[r])
    BY <1>0, <1>1 DEF Arrive, Kept, Fresh, Covered, Inspected, Allowed, Reported, HeadStages,
       AfterL0, AfterL1, AfterAuthz
  <2> QED BY <1>1, <2>1, PassKeeps DEF Arrive, Stages
<1>2. CASE Admit(r)
  <2>1. stage[r] = "admit" /\ ctx[r] = NewCtx
    BY <1>0, <1>2 DEF Admit, Kept, Fresh
  <2>2. CASE in_flight < MaxInFlight /\ ~(in_flight >= MaxInFlight)
    <3> DEFINE c == [ctx[r] EXCEPT !.guard = TRUE]
    <3>1. /\ c \in Ctx /\ c.guard /\ c.reserved = 0 /\ c.read = 0 /\ ~c.responded
          /\ ~ctx[r].guard /\ ctx[r].reserved = 0
      <4>1. /\ c \in Ctx /\ c.guard /\ c.reserved = ctx[r].reserved /\ c.read = ctx[r].read
            /\ c.responded = ctx[r].responded
        BY <1>0 DEF Ctx
      <4> QED BY <2>1, <4>1, NewCtxType
    <3>2. Kept("headers", c)
      BY <3>1 DEF Kept, Fresh, Covered, Copies, Inspected, Allowed, Reported, HeadStages, AfterL0,
         AfterL1, AfterAuthz
    <3>3. /\ stage' = [stage EXCEPT ![r] = "headers"] /\ ctx' = [ctx EXCEPT ![r] = c]
          /\ in_flight' = in_flight + 1 /\ used' = used
      BY <1>2, <2>2 DEF Admit, Goto, Set
    <3>4. in_flight' <= MaxInFlight /\ used' <= BudgetMax
      BY <1>0, <2>2, <3>3, PipelineHolds DEF PipelineInv, Held, PipelineAssumption
    <3>5. "headers" \in Stages
      BY DEF Stages, HeadStages
    <3> HIDE DEF c
    <3>6. /\ in_flight' = in_flight + (IF c.guard THEN 1 ELSE 0)
                            - (IF ctx[r].guard THEN 1 ELSE 0)
          /\ used' = used + c.reserved - ctx[r].reserved
      BY <1>0, <3>1, <3>3
    <3> QED BY <3>1, <3>2, <3>3, <3>4, <3>5, <3>6, MoveKeeps
  <2>3. CASE ~(in_flight < MaxInFlight)
    <3>1. Deny(r, 503, FALSE)
      BY <1>2, <2>3 DEF Admit
    <3>2. 503 \in Nat /\ stage[r] # "log"
      BY <2>1
    <3> QED BY <3>1, <3>2, DenyKeeps
  <2> QED BY <1>0, <2>2, <2>3, PipelineHolds DEF PipelineAssumption
<1> QED BY <1>1, <1>2

\* The rest of the head.
LEMMA HeadKeeps ==
  ASSUME PipelineInv, NEW r \in Requests, HeadStep(r)
  PROVE  PipelineInv'
<1>0. ctx[r] \in Ctx /\ Kept(stage[r], ctx[r]) /\ BodyLimit(ctx[r].route) \in Nat
  BY LimitTypes DEF PipelineInv, Types
<1>1. CASE Admit(r)
  BY <1>1, AdmitKeeps
<1>2. CASE \/ CheckHeaders(r) \/ CheckHost(r) \/ ForceHttps(r) \/ Abuse(r) \/ Behavioral(r)
           \/ CheckSmuggling(r) \/ CheckUserAgent(r) \/ CheckMethod(r) \/ CheckUri(r)
           \/ RateLimit(r) \/ InspectHead(r) \/ OpenapiEnvelope(r)
  <2>1. CASE CheckHeaders(r)
    <3>1. "headers" \in HeadStages /\ "host" \in HeadStages /\ {431} \in SUBSET Nat
      BY DEF HeadStages
    <3> QED BY <2>1, <3>1, GateKeeps, Zenon DEF CheckHeaders
  <2>2. CASE CheckHost(r)
    <3>1. "host" \in HeadStages /\ "resolve" \in HeadStages /\ {400, 421} \in SUBSET Nat
      BY DEF HeadStages
    <3> QED BY <2>2, <3>1, GateKeeps, Zenon DEF CheckHost
  <2>3. CASE ForceHttps(r)
    <3>1. "https" \in HeadStages /\ "jwt" \in HeadStages /\ {301, 421} \in SUBSET Nat
      BY DEF HeadStages
    <3> QED BY <2>3, <3>1, GateKeeps, Zenon DEF ForceHttps
  <2>4. CASE Abuse(r)
    <3>1. "abuse" \in HeadStages /\ "behavioral" \in HeadStages /\ {403} \in SUBSET Nat
      BY DEF HeadStages
    <3> QED BY <2>4, <3>1, GateKeeps, Zenon DEF Abuse
  <2>5. CASE Behavioral(r)
    <3>1. "behavioral" \in HeadStages /\ "smuggling" \in HeadStages /\ {403, 429} \in SUBSET Nat
      BY DEF HeadStages
    <3> QED BY <2>5, <3>1, GateKeeps, Zenon DEF Behavioral
  <2>6. CASE CheckSmuggling(r)
    <3>1. "smuggling" \in HeadStages /\ "bot" \in HeadStages /\ {400} \in SUBSET Nat
      BY DEF HeadStages
    <3> QED BY <2>6, <3>1, GateKeeps, Zenon DEF CheckSmuggling
  <2>7. CASE CheckUserAgent(r)
    <3>1. "bot" \in HeadStages /\ "method" \in HeadStages /\ {403} \in SUBSET Nat
      BY DEF HeadStages
    <3> QED BY <2>7, <3>1, GateKeeps, Zenon DEF CheckUserAgent
  <2>8. CASE CheckMethod(r)
    <3>1. "method" \in HeadStages /\ "uri" \in HeadStages /\ {405} \in SUBSET Nat
      BY DEF HeadStages
    <3> QED BY <2>8, <3>1, GateKeeps, Zenon DEF CheckMethod
  <2>9. CASE CheckUri(r)
    <3>1. "uri" \in HeadStages /\ "size" \in HeadStages /\ {414} \in SUBSET Nat
      BY DEF HeadStages
    <3> QED BY <2>9, <3>1, GateKeeps, Zenon DEF CheckUri
  <2>10. CASE RateLimit(r)
    <3>1. "rate" \in HeadStages /\ "protocol" \in HeadStages /\ {429} \in SUBSET Nat
      BY DEF HeadStages
    <3> QED BY <2>10, <3>1, GateKeeps, Zenon DEF RateLimit
  <2>11. CASE InspectHead(r)
    <3>1. "waf" \in HeadStages /\ "openapi" \in HeadStages /\ {403} \in SUBSET Nat
      BY DEF HeadStages
    <3> QED BY <2>11, <3>1, GateKeeps, Zenon DEF InspectHead
  <2>12. CASE OpenapiEnvelope(r)
    <3>1. "openapi" \in HeadStages /\ "grpc" \in HeadStages /\ {403} \in SUBSET Nat
      BY DEF HeadStages
    <3> QED BY <2>12, <3>1, GateKeeps, Zenon DEF OpenapiEnvelope
  <2> QED BY <1>2, <2>1, <2>2, <2>3, <2>4, <2>5, <2>6, <2>7, <2>8, <2>9, <2>10, <2>11, <2>12
<1>3. CASE Resolve(r)
  <2>1. stage[r] \in HeadStages /\ stage[r] # "log" /\ "https" \in HeadStages /\ 421 \in Nat
    BY <1>3 DEF Resolve, HeadStages
  <2>2. ASSUME NEW t \in Routes, Goto(r, "https"), Set(r, [ctx[r] EXCEPT !.route = t]),
               UNCHANGED <<in_flight, used>>
        PROVE  PipelineInv'
    <3> DEFINE c == [ctx[r] EXCEPT !.route = t]
    <3>1. /\ c \in Ctx /\ c.guard = ctx[r].guard /\ c.reserved = ctx[r].reserved
          /\ c.read = ctx[r].read /\ c.responded = ctx[r].responded
      BY <1>0 DEF Ctx
    <3> QED BY <2>1, <2>2, <3>1, NoteKeeps
  <2> QED BY <1>3, <2>1, <2>2, RefusedKeeps DEF Resolve, Refused
<1>4. CASE JwtIdentity(r)
  <2>1. stage[r] \in HeadStages /\ stage[r] # "log" /\ "abuse" \in HeadStages /\ 401 \in Nat /\ 403 \in Nat
    BY <1>4 DEF JwtIdentity, HeadStages
  <2>2. ASSUME NEW p \in BOOLEAN, Goto(r, "abuse"), Set(r, [ctx[r] EXCEPT !.jwt = p]),
               UNCHANGED <<in_flight, used>>
        PROVE  PipelineInv'
    <3> DEFINE c == [ctx[r] EXCEPT !.jwt = p]
    <3>1. /\ c \in Ctx /\ c.guard = ctx[r].guard /\ c.reserved = ctx[r].reserved
          /\ c.read = ctx[r].read /\ c.responded = ctx[r].responded
      BY <1>0 DEF Ctx
    <3> QED BY <2>1, <2>2, <3>1, NoteKeeps
  <2>3. CASE \E code \in {401, 403} : Deny(r, code, TRUE)
    <3>1. {401, 403} \subseteq Nat
      OBVIOUS
    <3>2. Refused(r)
      BY <2>3, <3>1, Zenon DEF Refused
    <3> QED BY <2>1, <3>2, RefusedKeeps
  <2> QED BY <1>4, <2>2, <2>3, Zenon DEF JwtIdentity
<1>5. CASE CheckSize(r)
  <2>0. stage[r] = "size"
    BY <1>5, Zenon DEF CheckSize
  <2>1. stage[r] \in HeadStages /\ stage[r] # "log" /\ "rate" \in HeadStages /\ 413 \in Nat
    BY <2>0 DEF HeadStages
  <2>2. ASSUME NEW len \in 0 .. (BodyLimit(ctx[r].route) + 1),
               NEW declared \in BOOLEAN, NEW gzip \in BOOLEAN, NEW upgrade \in BOOLEAN,
               Goto(r, "rate"), UNCHANGED <<in_flight, used>>,
               Set(r, [ctx[r] EXCEPT !.len = len, !.declared = declared, !.gzip = gzip,
                                     !.upgrade = upgrade])
        PROVE  PipelineInv'
    <3> DEFINE c == [ctx[r] EXCEPT !.len = len, !.declared = declared, !.gzip = gzip,
                                   !.upgrade = upgrade]
    <3>0. len \in Nat
      BY <1>0
    <3>1. /\ c \in Ctx /\ c.guard = ctx[r].guard /\ c.reserved = ctx[r].reserved
          /\ c.read = ctx[r].read /\ c.responded = ctx[r].responded
      BY <1>0, <3>0 DEF Ctx
    <3> QED BY <2>1, <2>2, <3>1, NoteKeeps
  <2> QED BY <1>5, <2>1, <2>2, RefusedKeeps DEF CheckSize, Refused
<1>6. CASE ProtocolMatrix(r)
  <2>1. stage[r] \in HeadStages /\ stage[r] # "log" /\ "waf" \in HeadStages /\ 403 \in Nat
    BY <1>6 DEF ProtocolMatrix, HeadStages
  <2>2. ASSUME NEW p \in BOOLEAN, Goto(r, "waf"), Set(r, [ctx[r] EXCEPT !.skip = p]),
               UNCHANGED <<in_flight, used>>
        PROVE  PipelineInv'
    <3> DEFINE c == [ctx[r] EXCEPT !.skip = p]
    <3>1. /\ c \in Ctx /\ c.guard = ctx[r].guard /\ c.reserved = ctx[r].reserved
          /\ c.read = ctx[r].read /\ c.responded = ctx[r].responded
      BY <1>0 DEF Ctx
    <3> QED BY <2>1, <2>2, <3>1, NoteKeeps
  <2> QED BY <1>6, <2>1, <2>2, RefusedKeeps DEF ProtocolMatrix, Refused
<1>7. CASE GrpcHeaders(r)
  <2>1. stage[r] = "grpc" /\ stage[r] # "log" /\ 403 \in Nat
    BY <1>7 DEF GrpcHeaders
  <2>2. CASE Deny(r, 403, TRUE) \/ Deny(r, 403, FALSE)
    BY <2>1, <2>2, DenyKeeps
  <2>3. ASSUME UNCHANGED <<in_flight, used, ctx>>, NEW s \in {"l1", "reserve"}, Goto(r, s),
               s = "l1" => ctx[r].len = NoBody /\ ctx[r].declared
        PROVE  PipelineInv'
    <3>1. Kept(s, ctx[r])
      BY <1>0, <2>1, <2>3 DEF Kept, Fresh, Covered, Inspected, InspectedByL0, Allowed,
         Reported, HeadStages, AfterL0, AfterL1, AfterAuthz
    <3>2. s \in Stages
      BY DEF Stages, HeadStages, AfterL0
    <3> QED BY <2>3, <3>1, <3>2, PassKeeps
  <2> QED BY <1>7, <2>2, <2>3 DEF GrpcHeaders
<1> QED BY <1>1, <1>2, <1>3, <1>4, <1>5, <1>6, <1>7 DEF HeadStep

-----------------------------------------------------------------------------
(* The body: reserved, read, inspected and authorized. *)

\* ReserveBody takes what every copy of the longest body it will read needs.
LEMMA ReserveKeeps ==
  ASSUME PipelineInv, NEW r \in Requests, ReserveBody(r)
  PROVE  PipelineInv'
<1> DEFINE n == Reservation(ctx[r])
           c == [ctx[r] EXCEPT !.reserved = @ + n]
<1>0. /\ ctx[r] \in Ctx /\ Kept(stage[r], ctx[r]) /\ in_flight \in Nat /\ used \in Nat
      /\ in_flight <= MaxInFlight /\ BudgetMax \in Nat
  BY PipelineHolds DEF PipelineInv, Types, Held, PipelineAssumption
<1>1. n \in Nat /\ Expected(ctx[r]) \in Nat /\ ctx[r].reserved \in Nat
  BY <1>0, LimitTypes DEF Ctx
<1>2. stage[r] = "reserve" /\ ctx[r].read = 0 /\ ~ctx[r].responded
  <2>1. stage[r] = "reserve"
    BY DEF ReserveBody
  <2>2. "reserve" \in HeadStages /\ ctx[r].responded \in BOOLEAN
    BY <1>0 DEF HeadStages, Ctx
  <2> QED BY <1>0, <2>1, <2>2 DEF Kept, Covered, Reported
<1>3. CASE used + n <= BudgetMax
  <2>1. /\ stage' = [stage EXCEPT ![r] = "read"] /\ ctx' = [ctx EXCEPT ![r] = c]
        /\ used' = used + n /\ in_flight' = in_flight
    <3>1. ~(used + n > BudgetMax)
      BY <1>0, <1>1, <1>3
    <3> QED BY <3>1, Zenon DEF ReserveBody, Goto, Set
  <2>2. /\ c \in Ctx /\ c.reserved = ctx[r].reserved + n /\ c.guard = ctx[r].guard
        /\ c.read = 0 /\ ~c.responded /\ c.route = ctx[r].route /\ c.len = ctx[r].len
        /\ c.declared = ctx[r].declared
    <3>1. ctx[r].reserved + n \in Nat
      BY <1>1
    <3> QED BY <1>0, <1>2, <3>1 DEF Ctx
  <2>3. Copies(ctx[r]) * Expected(ctx[r]) <= n
    <3>1. n = (IF ctx[r].route.spool THEN Expected(ctx[r]) ELSE 2 * Expected(ctx[r]))
                + (IF ctx[r].gzip THEN IF ctx[r].route.spool THEN MaxDecoded + 1 ELSE Inflate
                   ELSE 0)
      BY DEF Reservation, Expected
    <3>2. MaxDecoded \in Nat /\ Inflate \in Nat
      BY PipelineHolds DEF PipelineAssumption
    <3> QED BY <1>1, <3>1, <3>2 DEF Copies
  <2>4. Copies(c) = Copies(ctx[r]) /\ Expected(c) = Expected(ctx[r])
    BY <2>2 DEF Copies, Expected
  <2> HIDE DEF c, n
  <2>5. Covered("read", c)
    BY <1>1, <2>2, <2>3, <2>4 DEF Covered, HeadStages, Copies
  <2>6. Kept("read", c)
    BY <2>2, <2>5 DEF Kept, Fresh, Inspected, Allowed, Reported, AfterL0, AfterL1, AfterAuthz
  <2>7. /\ in_flight' = in_flight + (IF c.guard THEN 1 ELSE 0)
                          - (IF ctx[r].guard THEN 1 ELSE 0)
        /\ used' = used + c.reserved - ctx[r].reserved
        /\ in_flight' <= MaxInFlight /\ used' <= BudgetMax
    BY <1>0, <1>1, <1>3, <2>1, <2>2
  <2>8. "read" \in Stages
    BY DEF Stages
  <2> QED BY <2>1, <2>2, <2>6, <2>7, <2>8, MoveKeeps
<1>4. CASE ~(used + n <= BudgetMax)
  <2>1. Deny(r, 503, FALSE)
    BY <1>4 DEF ReserveBody
  <2>2. 503 \in Nat /\ stage[r] # "log"
    BY <1>2
  <2> QED BY <2>1, <2>2, DenyKeeps
<1> QED BY <1>3, <1>4

\* The body is read up to what was reserved for it, or given up.
LEMMA ReadKeeps ==
  ASSUME PipelineInv, NEW r \in Requests,
         ReadChunk(r) \/ BodyTimeout(r) \/ ClientGone(r) \/ ReadEnd(r)
  PROVE  PipelineInv'
<1>0. /\ ctx[r] \in Ctx /\ Kept(stage[r], ctx[r]) /\ ctx[r].read \in Nat
      /\ ctx[r].len \in Nat /\ ctx[r].reserved \in Nat /\ ctx[r].skip \in BOOLEAN
  BY DEF PipelineInv, Types, Ctx
<1>1. stage[r] = "read" /\ stage[r] # "log"
  BY Zenon DEF ReadChunk, BodyTimeout, ClientGone, ReadEnd
<1>2. 413 \in Nat /\ 503 \in Nat /\ 408 \in Nat /\ 502 \in Nat
  OBVIOUS
<1>3. CASE \/ Deny(r, 413, FALSE) \/ Deny(r, 503, FALSE) \/ Deny(r, 408, FALSE)
           \/ Deny(r, 502, FALSE)
  BY <1>1, <1>2, <1>3, DenyKeeps, Zenon
<1>4. ASSUME ctx[r].read < ctx[r].len, ctx[r].read < BodyLimit(ctx[r].route),
             Set(r, [ctx[r] EXCEPT !.read = @ + 1]), UNCHANGED <<stage, in_flight, used>>
      PROVE  PipelineInv'
  <2> DEFINE c == [ctx[r] EXCEPT !.read = @ + 1]
  <2>1. /\ c \in Ctx /\ c.read = ctx[r].read + 1 /\ c.guard = ctx[r].guard
        /\ c.reserved = ctx[r].reserved /\ c.route = ctx[r].route /\ c.len = ctx[r].len
        /\ c.declared = ctx[r].declared /\ c.responded = ctx[r].responded
    <3>1. ctx[r].read + 1 \in Nat
      BY <1>0
    <3> QED BY <1>0, <3>1 DEF Ctx
  <2>2. Copies(c) = Copies(ctx[r]) /\ Expected(c) = Expected(ctx[r])
    BY <2>1 DEF Copies, Expected
  <2>3. BodyLimit(ctx[r].route) \in Nat /\ Expected(ctx[r]) \in Nat
    BY <1>0, LimitTypes
  <2>4. Goto(r, "read")
    BY <1>1, <1>4 DEF Goto, PipelineInv, Types
  <2> HIDE DEF c
  <2>5. c.read <= Expected(ctx[r])
    BY <1>0, <1>4, <2>1, <2>3 DEF Expected
  <2>6. Copies(ctx[r]) * Expected(ctx[r]) <= ctx[r].reserved
    BY <1>0, <1>1 DEF Kept, Covered
  <2>7. Covered("read", c)
    BY <1>0, <2>1, <2>2, <2>3, <2>5, <2>6 DEF Covered, Copies, HeadStages
  <2>8. Kept("read", c)
    BY <1>0, <1>1, <2>1, <2>7 DEF Kept, Fresh, Inspected, Allowed, Reported, AfterL0, AfterL1,
       AfterAuthz
  <2> QED BY <1>4, <2>1, <2>4, <2>8, StayKeeps DEF c, Stages
<1>5. ASSUME NEW s \in {"inspect", "body_rules", "authz"}, s # "inspect" => ctx[r].skip,
             Goto(r, s), UNCHANGED <<in_flight, used, ctx>>
      PROVE  PipelineInv'
  <2>1. Kept(s, ctx[r])
    BY <1>0, <1>1, <1>5 DEF Kept, Fresh, Covered, Inspected, Allowed, Reported, HeadStages, AfterL0,
       AfterL1, AfterAuthz
  <2>2. s \in Stages
    BY DEF Stages, AfterL0, AfterL1
  <2> QED BY <1>5, <2>1, <2>2, PassKeeps
<1>6. CASE ReadChunk(r)
  BY <1>3, <1>4, <1>6, Zenon DEF ReadChunk
<1>7. CASE BodyTimeout(r)
  BY <1>3, <1>7, Zenon DEF BodyTimeout
<1>8. CASE ClientGone(r)
  BY <1>3, <1>8, Zenon DEF ClientGone
<1>9. CASE ReadEnd(r)
  <2>1. \/ Deny(r, 503, FALSE)
        \/ /\ Goto(r, IF ~ctx[r].skip THEN "inspect"
                      ELSE IF ctx[r].route.body_rules THEN "body_rules" ELSE "authz")
           /\ UNCHANGED <<in_flight, used, ctx>>
    BY <1>9, Zenon DEF ReadEnd
  <2> QED BY <1>0, <1>3, <1>5, <2>1
<1> QED BY <1>6, <1>7, <1>8, <1>9

\* The body WAF: on a strict route only a complete inspection goes on.
LEMMA InspectKeeps ==
  ASSUME PipelineInv, NEW r \in Requests, InspectBody(r)
  PROVE  PipelineInv'
<1>0. ctx[r] \in Ctx /\ Kept(stage[r], ctx[r]) /\ ctx[r].route \in Route
  BY LimitTypes DEF PipelineInv, Types
<1>1. stage[r] = "inspect"
  BY DEF InspectBody
<1>2. PICK outcome \in Outcomes \ {"TimedOut", "BudgetExceeded"}, block \in BOOLEAN :
        LET c == [ctx[r] EXCEPT !.l0 = outcome]
            denied == block \/ Disposition(ctx[r].route, outcome) = "deny"
        IN  /\ Set(r, IF denied THEN Answered(c, 403, block) ELSE c)
            /\ Goto(r, IF denied THEN "log" ELSE "l1")
            /\ UNCHANGED <<in_flight, used>>
  BY Zenon DEF InspectBody
<1> DEFINE c == [ctx[r] EXCEPT !.l0 = outcome]
           d == Answered(c, 403, block)
           denied == block \/ Disposition(ctx[r].route, outcome) = "deny"
<1>3. /\ c \in Ctx /\ c.guard = ctx[r].guard /\ c.reserved = ctx[r].reserved
      /\ c.read = ctx[r].read /\ c.route = ctx[r].route /\ c.l0 = outcome
      /\ c.responded = ctx[r].responded
  BY <1>0 DEF Ctx
<1>4. /\ d \in Ctx /\ d.guard = ctx[r].guard /\ d.reserved = ctx[r].reserved
      /\ d.read = ctx[r].read /\ d.route = ctx[r].route /\ d.responded = ctx[r].responded
  <2>1. 403 \in Nat
    OBVIOUS
  <2> HIDE DEF c
  <2> QED BY <1>3, <2>1, AnsweredType
<1>5. ~ctx[r].responded /\ Copies(ctx[r]) * ctx[r].read <= ctx[r].reserved
  BY <1>0, <1>1 DEF Kept, Reported, Covered
<1>6. CASE denied
  <2>1. Set(r, d) /\ Goto(r, "log") /\ UNCHANGED <<in_flight, used>>
    BY <1>2, <1>6
  <2> HIDE DEF d
  <2>2. Kept("log", d)
    BY <1>4, <1>5 DEF Kept, Fresh, Covered, Copies, Inspected, Allowed, Reported, HeadStages,
       AfterL0, AfterL1, AfterAuthz
  <2> QED BY <1>4, <2>1, <2>2, StayKeeps DEF Stages
<1>7. CASE ~denied
  <2>1. Set(r, c) /\ Goto(r, "l1") /\ UNCHANGED <<in_flight, used>>
    BY <1>2, <1>7
  <2>2. Strict(ctx[r].route) => outcome = "Complete"
    BY <1>0, <1>7 DEF Strict, Disposition, Outcomes, Route
  <2> HIDE DEF c
  <2>3. Kept("l1", c)
    BY <1>3, <1>5, <2>2 DEF Kept, Fresh, Covered, Copies, Inspected, InspectedByL0, Allowed,
       Reported, HeadStages, AfterL0, AfterL1, AfterAuthz
  <2> QED BY <1>3, <2>1, <2>3, StayKeeps DEF Stages, AfterL0
<1> QED BY <1>6, <1>7

\* The sidecar: an enforcing route goes on only with its consent, a strict one not
\* without its answer.
LEMMA L1Keeps ==
  ASSUME PipelineInv, NEW r \in Requests, ApplyL1(r)
  PROVE  PipelineInv'
<1> DEFINE t == ctx[r].route
           skipped == ctx[r].skip \/ ~Coraza \/ t.l1 = "skip"
<1>0. ctx[r] \in Ctx /\ Kept(stage[r], ctx[r]) /\ t \in Route
  BY LimitTypes DEF PipelineInv, Types
<1>1. stage[r] = "l1"
  BY Zenon DEF ApplyL1
<1>2. ~ctx[r].responded /\ Copies(ctx[r]) * ctx[r].read <= ctx[r].reserved
  BY <1>0, <1>1 DEF Kept, Reported, Covered
<1>3. CASE skipped
  <2>1. Goto(r, "body_rules") /\ UNCHANGED <<in_flight, used, ctx>>
    BY <1>3, Zenon DEF ApplyL1
  <2>2. Kept("body_rules", ctx[r])
    BY <1>0, <1>1, <1>3 DEF Kept, Fresh, Covered, Inspected, InspectedByL1, Allowed, Reported,
       HeadStages, AfterL0, AfterL1, AfterAuthz
  <2> QED BY <2>1, <2>2, PassKeeps DEF Stages, AfterL0, AfterL1
<1>4. CASE ~skipped
  <2>1. PICK verdict \in {"allow", "block", "unavailable"} :
          LET denied == \/ verdict = "block" /\ t.l1 = "enforce"
                        \/ verdict = "unavailable" /\ Disposition(t, "TimedOut") = "deny"
              c == [ctx[r] EXCEPT !.l1 = verdict]
          IN  /\ Set(r, IF denied THEN Answered(c, 403, verdict = "block") ELSE c)
              /\ Goto(r, IF denied THEN "log" ELSE "body_rules")
    BY <1>4, Zenon DEF ApplyL1
  <2>2. UNCHANGED <<in_flight, used>>
    BY <1>4, Zenon DEF ApplyL1
  <2> DEFINE c == [ctx[r] EXCEPT !.l1 = verdict]
             d == Answered(c, 403, verdict = "block")
             denied == \/ verdict = "block" /\ t.l1 = "enforce"
                       \/ verdict = "unavailable" /\ Disposition(t, "TimedOut") = "deny"
  <2>3. /\ c \in Ctx /\ c.guard = ctx[r].guard /\ c.reserved = ctx[r].reserved
        /\ c.read = ctx[r].read /\ c.route = t /\ c.l1 = verdict /\ c.l0 = ctx[r].l0
        /\ c.responded = ctx[r].responded /\ c.skip = ctx[r].skip /\ c.len = ctx[r].len
        /\ c.declared = ctx[r].declared
    BY <1>0 DEF Ctx
  <2>4. /\ d \in Ctx /\ d.guard = ctx[r].guard /\ d.reserved = ctx[r].reserved
        /\ d.read = ctx[r].read /\ d.route = t /\ d.responded = ctx[r].responded
    <3>1. 403 \in Nat
      OBVIOUS
    <3>2. PICK noted \in BOOLEAN : noted = (verdict = "block")
      OBVIOUS
    <3> HIDE DEF c
    <3>3. d = Answered(c, 403, noted)
      BY <3>2
    <3> HIDE DEF d
    <3> QED BY <2>3, <3>1, <3>3, AnsweredType
  <2>5. CASE denied
    <3>1. Set(r, d) /\ Goto(r, "log")
      BY <2>1, <2>5
    <3> HIDE DEF d
    <3>2. Kept("log", d)
      BY <1>2, <2>4 DEF Kept, Fresh, Covered, Copies, Inspected, Allowed, Reported, HeadStages,
         AfterL0, AfterL1, AfterAuthz
    <3> QED BY <2>2, <2>4, <3>1, <3>2, StayKeeps DEF Stages
  <2>6. CASE ~denied
    <3>1. Set(r, c) /\ Goto(r, "body_rules")
      BY <2>1, <2>6
    <3>2. Strict(t) => verdict = "allow" \/ (verdict = "block" /\ t.l1 = "shadow")
      BY <1>0, <1>4, <2>6 DEF Strict, Disposition, Route
    <3>3. Strict(t) /\ ~ctx[r].skip => InspectedByL0(ctx[r])
      BY <1>0, <1>1 DEF Kept, Inspected, AfterL0
    <3> HIDE DEF c
    <3>4. Inspected("body_rules", c)
      BY <2>3, <3>2, <3>3 DEF Inspected, InspectedByL0, InspectedByL1
    <3>5. Kept("body_rules", c)
      BY <1>2, <2>3, <3>4 DEF Kept, Fresh, Covered, Copies, Allowed, Reported, HeadStages, AfterL0,
         AfterL1, AfterAuthz
    <3> QED BY <2>2, <2>3, <3>1, <3>5, StayKeeps DEF Stages, AfterL0, AfterL1
  <2> QED BY <2>5, <2>6
<1> QED BY <1>3, <1>4

\* The rules on the body judge nothing that the invariant speaks of.
LEMMA BodyRulesKeeps ==
  ASSUME PipelineInv, NEW r \in Requests, BodyRules(r)
  PROVE  PipelineInv'
<1>0. Kept(stage[r], ctx[r]) /\ stage[r] = "body_rules" /\ stage[r] # "log"
  BY DEF PipelineInv, BodyRules
<1>1. CASE Goto(r, "authz") /\ UNCHANGED <<in_flight, used, ctx>>
  <2>1. Kept("authz", ctx[r])
    BY <1>0 DEF Kept, Fresh, Covered, Inspected, Allowed, Reported, HeadStages, AfterL0, AfterL1,
       AfterAuthz
  <2> QED BY <1>1, <2>1, PassKeeps DEF Stages, AfterL0, AfterL1
<1>2. CASE \E code \in {401, 403}, noted \in BOOLEAN : Deny(r, code, noted)
  <2>1. {401, 403} \subseteq Nat
    OBVIOUS
  <2>2. PICK code \in Nat, noted \in BOOLEAN : Deny(r, code, noted)
    BY <1>2, <2>1, Zenon
  <2> QED BY <1>0, <2>2, DenyKeeps
<1> QED BY <1>1, <1>2, Zenon DEF BodyRules

\* A principal, and an answer of the service that the route's fail mode accepts.
LEMMA AuthzKeeps ==
  ASSUME PipelineInv, NEW r \in Requests, ApplyAuthz(r)
  PROVE  PipelineInv'
<1>0. ctx[r] \in Ctx /\ Kept(stage[r], ctx[r])
  BY DEF PipelineInv, Types
<1>1. stage[r] = "authz" /\ stage[r] # "log"
  BY Zenon DEF ApplyAuthz
<1>2. "dispatch" \in Stages
  BY DEF Stages, AfterL0, AfterL1, AfterAuthz
<1>3. CASE ctx[r].route.authz = "none" /\ Goto(r, "dispatch")
           /\ UNCHANGED <<in_flight, used, ctx>>
  <2>1. Kept("dispatch", ctx[r])
    BY <1>0, <1>1, <1>3 DEF Kept, Fresh, Covered, Inspected, Allowed, Reported, HeadStages, AfterL0,
       AfterL1, AfterAuthz
  <2> QED BY <1>2, <1>3, <2>1, PassKeeps
<1>4. ASSUME ctx[r].jwt, NEW c \in Ctx, Set(r, c), Goto(r, "dispatch"),
             UNCHANGED <<in_flight, used>>,
             c.authz = "allow" \/ (c.authz = "unavailable" /\ c.route.authz = "open"),
             c.guard = ctx[r].guard, c.reserved = ctx[r].reserved, c.read = ctx[r].read,
             c.route = ctx[r].route, c.jwt = ctx[r].jwt, c.skip = ctx[r].skip,
             c.l0 = ctx[r].l0, c.l1 = ctx[r].l1, c.len = ctx[r].len,
             c.declared = ctx[r].declared, c.responded = ctx[r].responded
      PROVE  PipelineInv'
  <2>1. Inspected("dispatch", c)
    BY <1>0, <1>1, <1>4 DEF Kept, Inspected, InspectedByL0, InspectedByL1, AfterL0, AfterL1,
       AfterAuthz
  <2>2. Allowed("dispatch", c)
    BY <1>4 DEF Allowed, Authorized
  <2>3. Covered("dispatch", c) /\ Reported("dispatch", c)
    BY <1>0, <1>1, <1>4 DEF Kept, Covered, Copies, Reported, HeadStages
  <2>4. Kept("dispatch", c)
    BY <2>1, <2>2, <2>3 DEF Kept, Fresh
  <2> QED BY <1>2, <1>4, <2>4, StayKeeps
<1>5. CASE ctx[r].jwt /\ Goto(r, "dispatch") /\ UNCHANGED <<in_flight, used>>
           /\ Set(r, [ctx[r] EXCEPT !.authz = "allow"])
  <2> DEFINE c == [ctx[r] EXCEPT !.authz = "allow"]
  <2>1. /\ c \in Ctx /\ c.authz = "allow" /\ c.guard = ctx[r].guard
        /\ c.reserved = ctx[r].reserved /\ c.read = ctx[r].read /\ c.route = ctx[r].route
        /\ c.jwt = ctx[r].jwt /\ c.skip = ctx[r].skip /\ c.l0 = ctx[r].l0
        /\ c.l1 = ctx[r].l1 /\ c.len = ctx[r].len /\ c.declared = ctx[r].declared
        /\ c.responded = ctx[r].responded
    BY <1>0 DEF Ctx
  <2>2. Set(r, c)
    BY <1>5
  <2> HIDE DEF c
  <2> QED BY <1>4, <1>5, <2>1, <2>2
<1>6. CASE ctx[r].route.authz = "open" /\ ctx[r].jwt /\ Goto(r, "dispatch")
           /\ UNCHANGED <<in_flight, used>>
           /\ Set(r, [ctx[r] EXCEPT !.authz = "unavailable", !.noted = TRUE])
  <2> DEFINE c == [ctx[r] EXCEPT !.authz = "unavailable", !.noted = TRUE]
  <2>1. /\ c \in Ctx /\ c.authz = "unavailable" /\ c.guard = ctx[r].guard
        /\ c.reserved = ctx[r].reserved /\ c.read = ctx[r].read /\ c.route = ctx[r].route
        /\ c.jwt = ctx[r].jwt /\ c.skip = ctx[r].skip /\ c.l0 = ctx[r].l0
        /\ c.l1 = ctx[r].l1 /\ c.len = ctx[r].len /\ c.declared = ctx[r].declared
        /\ c.responded = ctx[r].responded
    BY <1>0 DEF Ctx
  <2>2. Set(r, c)
    BY <1>6
  <2> HIDE DEF c
  <2> QED BY <1>4, <1>6, <2>1, <2>2
<1>7. CASE Deny(r, 403, TRUE)
  <2>1. 403 \in Nat
    OBVIOUS
  <2> QED BY <1>1, <1>7, <2>1, DenyKeeps
<1> QED BY <1>3, <1>5, <1>6, <1>7, Zenon DEF ApplyAuthz

-----------------------------------------------------------------------------
(* The origin, and the end. *)

\* A request is sent on, or shed.
LEMMA DispatchKeeps ==
  ASSUME PipelineInv, NEW r \in Requests, Dispatch(r)
  PROVE  PipelineInv'
<1>0. ctx[r] \in Ctx /\ Kept(stage[r], ctx[r])
  BY DEF PipelineInv, Types
<1>1. stage[r] = "dispatch" /\ stage[r] # "log"
  BY Zenon DEF Dispatch
<1>2. CASE Deny(r, 503, TRUE) \/ Deny(r, 503, FALSE)
  <2>1. 503 \in Nat
    OBVIOUS
  <2> QED BY <1>1, <1>2, <2>1, DenyKeeps
<1>3. ASSUME NEW way \in {"commit", "stream"}, Goto(r, "origin"),
             Set(r, [ctx[r] EXCEPT !.sent = way]), UNCHANGED <<in_flight, used>>
      PROVE  PipelineInv'
  <2> DEFINE c == [ctx[r] EXCEPT !.sent = way]
  <2>1. /\ c \in Ctx /\ c.authz = ctx[r].authz /\ c.guard = ctx[r].guard
        /\ c.reserved = ctx[r].reserved /\ c.read = ctx[r].read /\ c.route = ctx[r].route
        /\ c.jwt = ctx[r].jwt /\ c.skip = ctx[r].skip /\ c.l0 = ctx[r].l0
        /\ c.l1 = ctx[r].l1 /\ c.len = ctx[r].len /\ c.declared = ctx[r].declared
        /\ c.responded = ctx[r].responded
    BY <1>0 DEF Ctx
  <2>2. Set(r, c)
    BY <1>3
  <2> HIDE DEF c
  <2>3. Inspected("origin", c)
    BY <1>0, <1>1, <2>1 DEF Kept, Inspected, InspectedByL0, InspectedByL1, AfterL0, AfterL1,
       AfterAuthz
  <2>4. Allowed("origin", c)
    BY <1>0, <1>1, <2>1 DEF Kept, Allowed, Authorized, AfterAuthz
  <2>5. Covered("origin", c) /\ Reported("origin", c)
    BY <1>0, <1>1, <2>1 DEF Kept, Covered, Copies, Reported, HeadStages
  <2>6. Kept("origin", c)
    BY <2>3, <2>4, <2>5 DEF Kept, Fresh
  <2> QED BY <1>3, <2>1, <2>2, <2>6, StayKeeps DEF Stages, AfterL0, AfterL1, AfterAuthz
<1>4. CASE \E committed \in BOOLEAN :
             /\ Goto(r, "origin")
             /\ Set(r, [ctx[r] EXCEPT !.sent = IF committed THEN "commit" ELSE "stream"])
             /\ UNCHANGED <<in_flight, used>>
  BY <1>3, <1>4
<1>5. \/ Deny(r, 503, TRUE) \/ Deny(r, 503, FALSE)
      \/ LET committed == (ctx[r].route.spool /\ ctx[r].read > 0)
                             \/ (DlpBlock /\ ~ctx[r].upgrade)
         IN  /\ Goto(r, "origin")
             /\ Set(r, [ctx[r] EXCEPT !.sent = IF committed THEN "commit" ELSE "stream"])
             /\ UNCHANGED <<in_flight, used>>
  BY Zenon DEF Dispatch
<1> QED BY <1>2, <1>4, <1>5

\* An answer of the origin is passed on, refused or missing.
LEMMA OriginKeeps ==
  ASSUME PipelineInv, NEW r \in Requests,
         OriginAnswers(r) \/ OriginRefused(r) \/ OriginFails(r)
  PROVE  PipelineInv'
<1>0. ctx[r] \in Ctx /\ Kept(stage[r], ctx[r])
  BY DEF PipelineInv, Types
<1>1. stage[r] = "origin" /\ stage[r] # "log"
  BY Zenon DEF OriginAnswers, OriginRefused, OriginFails
<1>2. Copies(ctx[r]) * ctx[r].read <= ctx[r].reserved
  BY <1>0 DEF Kept, Covered
<1>3. CASE OriginAnswers(r)
  <2>1. PICK code \in {200, 403} :
          Set(r, [ctx[r] EXCEPT !.responded = TRUE, !.status = code, !.by = "origin"])
    BY <1>3, Zenon DEF OriginAnswers
  <2> DEFINE c == [ctx[r] EXCEPT !.responded = TRUE, !.status = code, !.by = "origin"]
  <2>0. code \in Nat
    OBVIOUS
  <2>2. /\ c \in Ctx /\ c.guard = ctx[r].guard /\ c.reserved = ctx[r].reserved
        /\ c.read = ctx[r].read /\ c.route = ctx[r].route /\ c.by = "origin"
    BY <1>0, <2>0 DEF Ctx
  <2>3. Set(r, c) /\ Goto(r, "log") /\ UNCHANGED <<in_flight, used>>
    BY <1>3, <2>1, Zenon DEF OriginAnswers
  <2> HIDE DEF c
  <2>4. Kept("log", c)
    BY <1>2, <2>2 DEF Kept, Fresh, Covered, Copies, Inspected, Allowed, Reported, HeadStages,
       AfterL0, AfterL1, AfterAuthz
  <2> QED BY <2>2, <2>3, <2>4, StayKeeps DEF Stages
<1>4. CASE OriginRefused(r)
  <2> DEFINE c == [ctx[r] EXCEPT !.responded = TRUE, !.noted = TRUE]
             d == Answered(c, 502, TRUE)
  <2>1. /\ c \in Ctx /\ c.guard = ctx[r].guard /\ c.reserved = ctx[r].reserved
        /\ c.read = ctx[r].read /\ c.route = ctx[r].route /\ c.noted
        /\ c.authz = ctx[r].authz /\ c.jwt = ctx[r].jwt /\ c.skip = ctx[r].skip
        /\ c.l0 = ctx[r].l0 /\ c.l1 = ctx[r].l1 /\ c.len = ctx[r].len
        /\ c.declared = ctx[r].declared
    BY <1>0 DEF Ctx
  <2>2. \/ Goto(r, "log") /\ Set(r, d) /\ UNCHANGED <<in_flight, used>>
        \/ UNCHANGED stage /\ Set(r, c) /\ UNCHANGED <<in_flight, used>>
    BY <1>4, Zenon DEF OriginRefused
  <2> HIDE DEF c
  <2>3. /\ d \in Ctx /\ d.guard = c.guard /\ d.reserved = c.reserved
        /\ d.read = c.read /\ d.route = c.route /\ d.noted
    <3>1. 502 \in Nat
      OBVIOUS
    <3>2. PICK noted \in BOOLEAN : noted = TRUE
      OBVIOUS
    <3> HIDE DEF d
    <3>3. d = Answered(c, 502, noted)
      BY <3>2 DEF d
    <3>4. /\ d \in Ctx /\ d.guard = c.guard /\ d.reserved = c.reserved
          /\ d.read = c.read /\ d.route = c.route
      BY <2>1, <3>1, <3>3, AnsweredType
    <3>5. d.noted
      BY <2>1 DEF d, Answered, Ctx
    <3> QED BY <3>4, <3>5
  <2> HIDE DEF d
  <2>4. CASE Goto(r, "log") /\ Set(r, d) /\ UNCHANGED <<in_flight, used>>
    <3>1. Kept("log", d)
      BY <1>2, <2>1, <2>3 DEF Kept, Fresh, Covered, Copies, Inspected, Allowed, Reported, HeadStages,
         AfterL0, AfterL1, AfterAuthz
    <3> QED BY <2>1, <2>3, <2>4, <3>1, StayKeeps DEF Stages
  <2>5. CASE UNCHANGED stage /\ Set(r, c) /\ UNCHANGED <<in_flight, used>>
    <3>1. Inspected("origin", c)
      BY <1>0, <1>1, <2>1 DEF Kept, Inspected, InspectedByL0, InspectedByL1
    <3>2. Allowed("origin", c)
      BY <1>0, <1>1, <2>1 DEF Kept, Allowed, Authorized
    <3>3. Covered("origin", c) /\ Reported("origin", c)
      BY <1>2, <2>1 DEF Covered, Copies, Reported, HeadStages
    <3>4. Kept("origin", c)
      BY <3>1, <3>2, <3>3 DEF Kept, Fresh
    <3>5. Goto(r, "origin")
      BY <1>1, <2>5 DEF Goto, PipelineInv, Types
    <3> QED BY <2>1, <2>5, <3>4, <3>5, StayKeeps DEF Stages, AfterL0, AfterL1, AfterAuthz
  <2> QED BY <2>2, <2>4, <2>5
<1>5. CASE OriginFails(r)
  <2>1. 502 \in Nat /\ 503 \in Nat /\ {502, 503} \subseteq Nat
    OBVIOUS
  <2>2. PICK code \in Nat, noted \in BOOLEAN : Deny(r, code, noted)
    <3>1. CASE \E code \in {502, 503} : Deny(r, code, code = 503)
      <4>1. PICK code \in {502, 503} : Deny(r, code, code = 503)
        BY <3>1
      <4>2. PICK noted \in BOOLEAN : noted = (code = 503)
        OBVIOUS
      <4>3. Deny(r, code, noted)
        BY <4>1, <4>2
      <4>4. code \in Nat
        OBVIOUS
      <4> QED BY <4>3, <4>4, Zenon
    <3>2. CASE \E noted \in BOOLEAN : Deny(r, 503, noted)
      BY <2>1, <3>2, Zenon
    <3> QED BY <1>5, <3>1, <3>2, Zenon DEF OriginFails
  <2> QED BY <1>1, <2>2, DenyKeeps
<1> QED BY <1>3, <1>4, <1>5

\* The request gives back its slot, if it has one, and its bytes.
LEMMA FinishKeeps ==
  ASSUME PipelineInv, NEW r \in Requests, Finish(r)
  PROVE  PipelineInv'
<1>0. /\ ctx[r] \in Ctx /\ in_flight \in Nat /\ used \in Nat /\ ctx[r].reserved \in Nat
      /\ in_flight <= MaxInFlight /\ used <= BudgetMax /\ MaxInFlight \in Nat
      /\ BudgetMax \in Nat
  BY PipelineHolds DEF PipelineInv, Types, Held, Ctx, PipelineAssumption
<1>1. /\ stage' = [stage EXCEPT ![r] = "idle"] /\ ctx' = [ctx EXCEPT ![r] = NewCtx]
      /\ in_flight' = IF ctx[r].guard THEN in_flight - 1 ELSE in_flight
      /\ used' = used - ctx[r].reserved
  BY Zenon DEF Finish, Goto, Set
<1>2. Kept("idle", NewCtx)
  BY NewCtxType DEF Kept, Fresh, Covered, Copies, Inspected, Allowed, Reported, HeadStages, AfterL0,
     AfterL1, AfterAuthz
<1>3. /\ in_flight' = in_flight + (IF NewCtx.guard THEN 1 ELSE 0)
                        - (IF ctx[r].guard THEN 1 ELSE 0)
      /\ used' = used + NewCtx.reserved - ctx[r].reserved
      /\ in_flight' <= MaxInFlight /\ used' <= BudgetMax
  BY <1>0, <1>1, NewCtxType
<1>4. "idle" \in Stages
  BY DEF Stages
<1> QED BY <1>1, <1>2, <1>3, <1>4, NewCtxType, MoveKeeps

-----------------------------------------------------------------------------
\* Nobody is there and nothing is held.
LEMMA InitInv == Init => PipelineInv
<1> SUFFICES ASSUME Init PROVE PipelineInv
  OBVIOUS
<1>1. /\ stage = [r \in Requests |-> "idle"] /\ ctx = [r \in Requests |-> NewCtx]
      /\ in_flight = 0 /\ used = 0
  BY DEF Init
<1>2. Types
  BY <1>1, NewCtxType DEF Types, Stages
<1>3. Kept("idle", NewCtx)
  BY NewCtxType DEF Kept, Fresh, Covered, Copies, Inspected, Allowed, Reported, HeadStages, AfterL0,
     AfterL1, AfterAuthz
<1>4. in_flight = Cardinality(Guarded)
  <2>1. Guarded = {}
    BY <1>1, NewCtxType DEF Guarded
  <2> QED BY <1>1, <2>1, FS_EmptySet
<1>5. used = Total(Reserved)
  <2>1. Reserved \in [Requests -> Nat] /\ \A r \in Requests : Reserved[r] = 0
    BY <1>1, NewCtxType DEF Reserved
  <2> QED BY <1>1, <2>1, TotalZero
<1>6. in_flight <= MaxInFlight /\ used <= BudgetMax
  BY <1>1, PipelineHolds DEF PipelineAssumption
<1> QED BY <1>1, <1>2, <1>3, <1>4, <1>5, <1>6 DEF PipelineInv, Held

\* Every step keeps the invariant.
LEMMA NextInv == PipelineInv /\ [Next]_vars => PipelineInv'
<1> SUFFICES ASSUME PipelineInv, [Next]_vars PROVE PipelineInv'
  OBVIOUS
<1>1. CASE UNCHANGED vars
  <2>1. stage' = stage /\ in_flight' = in_flight /\ used' = used /\ ctx' = ctx
    BY <1>1 DEF vars
  <2> QED BY <2>1 DEF PipelineInv, Types, Held, Guarded, Reserved, Total, Units
<1>2. ASSUME NEW r \in Requests, ClientStep(r) \/ Step(r) PROVE PipelineInv'
  <2>1. CASE HeadStep(r) \/ Arrive(r)
    BY <2>1, HeadKeeps, AdmitKeeps
  <2>2. CASE ReserveBody(r)
    BY <2>2, ReserveKeeps
  <2>3. CASE ReadChunk(r) \/ BodyTimeout(r) \/ ClientGone(r) \/ ReadEnd(r)
    BY <2>3, ReadKeeps
  <2>4. CASE InspectBody(r)
    BY <2>4, InspectKeeps
  <2>5. CASE ApplyL1(r)
    BY <2>5, L1Keeps
  <2>6. CASE BodyRules(r)
    BY <2>6, BodyRulesKeeps
  <2>7. CASE ApplyAuthz(r)
    BY <2>7, AuthzKeeps
  <2>8. CASE Dispatch(r)
    BY <2>8, DispatchKeeps
  <2>9. CASE OriginAnswers(r) \/ OriginRefused(r) \/ OriginFails(r)
    BY <2>9, OriginKeeps
  <2>10. CASE Finish(r)
    BY <2>10, FinishKeeps
  <2> QED BY <1>2, <2>1, <2>2, <2>3, <2>4, <2>5, <2>6, <2>7, <2>8, <2>9, <2>10
          DEF ClientStep, Step, BodyStep, OriginStep
<1> QED BY <1>1, <1>2 DEF Next

\* Types, counters and what each request owes at its stage, in every reachable state.
THEOREM Invariance == Spec => []PipelineInv
<1>1. Init => PipelineInv
  BY InitInv
<1>2. PipelineInv /\ [Next]_vars => PipelineInv'
  BY NextInv
<1> QED BY <1>1, <1>2, PTL DEF Spec

\* Nothing reaches an origin past a gate its route asks for: a strict route's body was
\* completely inspected and the L1 engine did not object, unless the protocol matrix
\* bypasses it; an authorization policy was asked and answered (request_filter, whose
\* branches around skip, a missing body and a missing principal meet at apply_authz).
THEOREM GatesFailClosed == Spec => []FailClosed
<1>1. PipelineInv => FailClosed
  <2> SUFFICES ASSUME PipelineInv, NEW r \in Requests, stage[r] = "origin"
               PROVE  /\ Strict(ctx[r].route) /\ ~ctx[r].skip
                           => InspectedByL0(ctx[r]) /\ InspectedByL1(ctx[r])
                      /\ ctx[r].route.authz # "none" => Authorized(ctx[r])
    BY DEF FailClosed
  <2>1. Kept("origin", ctx[r])
    BY DEF PipelineInv
  <2> QED BY <2>1 DEF Kept, Inspected, Allowed, AfterL0, AfterL1, AfterAuthz
<1> QED BY <1>1, Invariance, PTL

\* The in-flight counter and the byte budget are what the requests hold, within their
\* limits, on every way out of request_filter, and what is read of a body is covered by
\* its reservation, for any number of requests and any limits.
THEOREM SlotsAndBytesAccounted == Spec => []Accounting
<1>1. PipelineInv => Accounting
  <2> SUFFICES ASSUME PipelineInv PROVE Accounting
    OBVIOUS
  <2>1. \A r \in Requests : Copies(ctx[r]) * ctx[r].read <= ctx[r].reserved
    BY DEF PipelineInv, Kept, Covered
  <2>2. CopiesReserved
    BY <2>1 DEF CopiesReserved, Copies
  <2> QED BY <2>2 DEF PipelineInv, Held, Reserved, Accounting
<1> QED BY <1>1, Invariance, PTL

\* What the proxy answers with an error is exported as denied, whatever the origin said
\* before (logging reads `noted` before `responded`).
THEOREM RefusalsExported == Spec => []RefusalsAreDenied
<1>1. PipelineInv => RefusalsAreDenied
  <2> SUFFICES ASSUME PipelineInv, NEW r \in Requests, stage[r] = "log", ctx[r].by = "us",
                      ctx[r].status >= 400
               PROVE  Decision(ctx[r]) = "deny"
    BY DEF RefusalsAreDenied
  <2>1. ctx[r].responded => ctx[r].noted
    BY DEF PipelineInv, Kept, Reported
  <2> QED BY <2>1 DEF Decision
<1> QED BY <1>1, Invariance, PTL
===============================================================================
