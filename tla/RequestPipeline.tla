--------------------------- MODULE RequestPipeline ---------------------------
(***************************************************************************)
(* FerroadaProxy::request_filter (src/src/proxy.rs): the gates a request   *)
(* goes through before an origin sees a byte of it, in the code's order,   *)
(* with the two shared resources they draw on, the in-flight slots         *)
(* (ConcurrencyState) and the request body budget (ByteBudget), and the    *)
(* decision `logging` exports when the request ends.                       *)
(*                                                                         *)
(* What a gate looks at is abstracted to its verdict, a nondeterministic   *)
(* choice; what it does with the verdict is the code's.                    *)
(***************************************************************************)
EXTENDS Integers, FiniteSets, Budgets

CONSTANTS
  Requests,
  Routes,        \* the routes of the policy snapshot, see Route
  MaxInFlight,   \* MAX_IN_FLIGHT_REQUESTS
  MaxBody,       \* shield::max_body_size()
  MaxDecoded,    \* max_decoded_body of the routes that set it
  BudgetMax,     \* WAF_MAX_IN_FLIGHT_BYTES
  Inflate,       \* waf::max_inflate_buffer_bytes()
  Coraza,        \* waf_engine.is_coraza()
  DlpBlock       \* dlp_action = Block

Action == {"deny", "monitor"}
Route == [complete : BOOLEAN,            \* inspection.require_complete
          on_truncated : Action, on_parse_error : Action,
          spool : BOOLEAN,               \* max_decoded_body is set
          l1 : {"skip", "shadow", "enforce"},
          body_rules : BOOLEAN,          \* OpenAPI, JWT body binding, GraphQL, gRPC or an
                                         \* authorization resource taken from the body
          authz : {"none", "closed", "open"}]

PipelineAssumption ==
  /\ IsFiniteSet(Requests)
  /\ Routes \subseteq Route /\ Routes # {}
  /\ MaxInFlight \in Nat \ {0} /\ MaxBody \in Nat \ {0} /\ MaxDecoded \in Nat \ {0}
  /\ BudgetMax \in Nat /\ Inflate \in Nat
  /\ Coraza \in BOOLEAN
  /\ DlpBlock \in BOOLEAN

ASSUME PipelineHolds == PipelineAssumption

VARIABLES
  stage,      \* where in request_filter the request is
  in_flight,  \* ConcurrencyState.current
  used,       \* request_budget.current
  ctx         \* FerroadaCtx, and what the request turned out to be

vars == <<stage, in_flight, used, ctx>>

-----------------------------------------------------------------------------
(* The state of a request. `len` and `declared` describe the body the       *)
(* client sends: its bytes and whether Content-Length announces them.       *)

AnyRoute == CHOOSE t \in Routes : TRUE
NoBody == 0

NewCtx == [guard |-> FALSE, route |-> AnyRoute, jwt |-> FALSE,
           len |-> NoBody, declared |-> FALSE, gzip |-> FALSE, upgrade |-> FALSE,
           skip |-> FALSE, reserved |-> 0, read |-> 0,
           l0 |-> "none", l1 |-> "none", authz |-> "none", sent |-> "no",
           noted |-> FALSE, responded |-> FALSE, status |-> 0, by |-> "nobody"]

BodyLimit(t) == IF t.spool THEN MaxDecoded ELSE MaxBody

Outcomes == {"Complete", "Truncated", "ParseError", "UnsupportedEncoding",
             "UnsupportedContentType", "TimedOut", "BudgetExceeded"}

\* mutant: an inspection that did not answer in time is let through
Disposition_TimedOutOpen(t, outcome) ==
  CASE outcome = "Complete" -> "allow"
    [] outcome = "Truncated" -> t.on_truncated
    [] outcome = "ParseError" -> t.on_parse_error
    [] outcome \in {"UnsupportedEncoding", "UnsupportedContentType"} ->
         IF t.complete THEN "deny" ELSE "monitor"
    [] outcome = "TimedOut" -> "monitor"
    [] outcome = "BudgetExceeded" -> "deny"

\* InspectionPolicy::disposition
Disposition(t, outcome) ==
  CASE outcome = "Complete" -> "allow"
    [] outcome = "Truncated" -> t.on_truncated
    [] outcome = "ParseError" -> t.on_parse_error
    [] outcome \in {"UnsupportedEncoding", "UnsupportedContentType", "TimedOut"} ->
         IF t.complete THEN "deny" ELSE "monitor"
    [] outcome = "BudgetExceeded" -> "deny"

Goto(r, s) == stage' = [stage EXCEPT ![r] = s]
Set(r, c) == ctx' = [ctx EXCEPT ![r] = c]

Answered(c, code, noted) ==
  [c EXCEPT !.status = code, !.noted = @ \/ noted, !.by = "us"]

\* send_4xx, send_502 and send_503: our own answer ends request_filter
Deny(r, code, noted) ==
  /\ Goto(r, "log")
  /\ Set(r, Answered(ctx[r], code, noted))
  /\ UNCHANGED <<in_flight, used>>

\* a gate that passes the request on or answers it with one of `codes`
Gate(r, here, next, codes, noted) ==
  /\ stage[r] = here
  /\ \/ Goto(r, next) /\ UNCHANGED <<in_flight, used, ctx>>
     \/ \E code \in codes : Deny(r, code, noted)

-----------------------------------------------------------------------------
(* Headers. *)

Arrive(r) ==
  /\ stage[r] = "idle"
  /\ Goto(r, "admit")
  /\ UNCHANGED <<in_flight, used, ctx>>

\* ConcurrencyState::acquire
Admit(r) ==
  /\ stage[r] = "admit"
  /\ \/ /\ in_flight < MaxInFlight
        /\ in_flight' = in_flight + 1
        /\ Goto(r, "headers")
        /\ Set(r, [ctx[r] EXCEPT !.guard = TRUE])
        /\ UNCHANGED used
     \/ /\ in_flight >= MaxInFlight
        /\ Deny(r, 503, FALSE)

CheckHeaders(r) == Gate(r, "headers", "host", {431}, FALSE)
CheckHost(r) == Gate(r, "host", "resolve", {400, 421}, FALSE)

\* config.resolve: the route and its policy come from one snapshot
Resolve(r) ==
  /\ stage[r] = "resolve"
  /\ \/ \E t \in Routes : /\ Goto(r, "https")
                          /\ Set(r, [ctx[r] EXCEPT !.route = t])
                          /\ UNCHANGED <<in_flight, used>>
     \/ Deny(r, 421, FALSE)

ForceHttps(r) == Gate(r, "https", "jwt", {301, 421}, FALSE)

\* apply_jwt_identity: a site without JWT goes on without a principal
JwtIdentity(r) ==
  /\ stage[r] = "jwt"
  /\ \/ \E p \in BOOLEAN : /\ Goto(r, "abuse")
                           /\ Set(r, [ctx[r] EXCEPT !.jwt = p])
                           /\ UNCHANGED <<in_flight, used>>
     \/ \E code \in {401, 403} : Deny(r, code, TRUE)

Abuse(r) == Gate(r, "abuse", "behavioral", {403}, TRUE)
Behavioral(r) == Gate(r, "behavioral", "smuggling", {403, 429}, FALSE)
CheckSmuggling(r) == Gate(r, "smuggling", "bot", {400}, FALSE)
CheckUserAgent(r) == Gate(r, "bot", "method", {403}, FALSE)
CheckMethod(r) == Gate(r, "method", "uri", {405}, TRUE)
CheckUri(r) == Gate(r, "uri", "size", {414}, FALSE)

\* the body the client sends, and whether Content-Length announces it: more
\* than the route's limit is 413 here, or found out by ReadChunk
CheckSize(r) ==
  LET limit == BodyLimit(ctx[r].route)
  IN  /\ stage[r] = "size"
      /\ \/ \E len \in 0 .. (limit + 1), declared, gzip, upgrade \in BOOLEAN :
              /\ declared => len <= limit
              /\ Goto(r, "rate")
              /\ Set(r, [ctx[r] EXCEPT !.len = len, !.declared = declared, !.gzip = gzip,
                                       !.upgrade = upgrade])
              /\ UNCHANGED <<in_flight, used>>
         \/ Deny(r, 413, FALSE)

RateLimit(r) == Gate(r, "rate", "protocol", {429}, TRUE)

\* the protocol matrix: deny and quarantine answer 403, bypass-explicit (and a
\* gRPC route) skips the body WAF, monitor and inspect go on
ProtocolMatrix(r) ==
  /\ stage[r] = "protocol"
  /\ \/ \E skip \in BOOLEAN : /\ Goto(r, "waf")
                              /\ Set(r, [ctx[r] EXCEPT !.skip = skip])
                              /\ UNCHANGED <<in_flight, used>>
     \/ Deny(r, 403, FALSE)

InspectHead(r) == Gate(r, "waf", "openapi", {403}, TRUE)
OpenapiEnvelope(r) == Gate(r, "openapi", "grpc", {403}, TRUE)

\* apply_grpc_headers: an invalid frame follows on_parse_error and notes no event.
\* A request without a body goes on at apply_l1
GrpcHeaders(r) ==
  /\ stage[r] = "grpc"
  /\ \/ /\ Goto(r, IF ctx[r].len = NoBody /\ ctx[r].declared THEN "l1" ELSE "reserve")
        /\ UNCHANGED <<in_flight, used, ctx>>
     \/ Deny(r, 403, TRUE)
     \/ /\ Disposition(ctx[r].route, "ParseError") = "deny"
        /\ Deny(r, 403, FALSE)

-----------------------------------------------------------------------------
(* The body. *)

\* mutant: a body without Content-Length reserves nothing
Reservation_Announced(c) ==
  LET body == IF c.declared THEN c.len ELSE 0
      copies == IF c.route.spool THEN body ELSE 2 * body
      inflated == IF c.route.spool THEN MaxDecoded + 1 ELSE Inflate
  IN  copies + IF c.gzip THEN inflated ELSE 0

\* request_inspection_reservation and spool_inspection_reservation
Reservation(c) ==
  LET limit == BodyLimit(c.route)
      body == IF c.declared /\ c.len < limit THEN c.len ELSE limit
      copies == IF c.route.spool THEN body ELSE 2 * body
      inflated == IF c.route.spool THEN MaxDecoded + 1 ELSE Inflate
  IN  copies + IF c.gzip THEN inflated ELSE 0

\* ByteBudget::reserve through ctx.reserve_request
ReserveBody(r) ==
  LET n == Reservation(ctx[r])
  IN  /\ stage[r] = "reserve"
      /\ \/ /\ used + n <= BudgetMax
            /\ used' = used + n
            /\ Set(r, [ctx[r] EXCEPT !.reserved = @ + n])
            /\ Goto(r, "read")
            /\ UNCHANGED in_flight
         \/ /\ used + n > BudgetMax
            /\ Deny(r, 503, FALSE)

\* one chunk of read_request_body: kept, over the route's limit (413), or refused
\* by the spool's own limits (503)
ReadChunk(r) ==
  LET fits == ctx[r].read < BodyLimit(ctx[r].route)
  IN  /\ stage[r] = "read"
      /\ \/ /\ ctx[r].read < ctx[r].len /\ fits
            /\ Set(r, [ctx[r] EXCEPT !.read = @ + 1])
            /\ UNCHANGED <<stage, in_flight, used>>
         \/ /\ ctx[r].read < ctx[r].len /\ ~fits
            /\ Deny(r, 413, FALSE)
         \/ /\ ctx[r].route.spool
            /\ Deny(r, 503, FALSE)

\* mutant: a client that stops sending is waited for
BodyTimeout_Never(r) == FALSE /\ UNCHANGED vars

\* the deadline of the read loop
BodyTimeout(r) ==
  /\ stage[r] = "read"
  /\ Deny(r, 408, FALSE)

\* the client goes away while its body is read: request_filter fails and
\* fail_to_proxy answers 502
ClientGone(r) ==
  /\ stage[r] = "read"
  /\ Deny(r, 502, FALSE)

\* the body is whole. Pingora's replay copy must be the same bytes, and a spool that
\* anybody is to read must be readable; without either the request is refused
ReadEnd(r) ==
  LET t == ctx[r].route
      spared == t.spool /\ ctx[r].skip /\ ~t.body_rules
  IN  /\ stage[r] = "read"
      /\ ctx[r].read = ctx[r].len
      /\ \/ /\ Goto(r, IF ~ctx[r].skip THEN "inspect"
                       ELSE IF t.body_rules THEN "body_rules" ELSE "authz")
            /\ UNCHANGED <<in_flight, used, ctx>>
         \/ /\ IF t.spool THEN ~spared ELSE ctx[r].read > 0
            /\ Deny(r, 503, FALSE)

\* inflate_for_inspect_limited and inspect_body_limited on the body.
\* BudgetExceeded and TimedOut are not outcomes of this step in the code.
InspectBody(r) ==
  /\ stage[r] = "inspect"
  /\ \E outcome \in Outcomes \ {"TimedOut", "BudgetExceeded"}, block \in BOOLEAN :
       LET c == [ctx[r] EXCEPT !.l0 = outcome]
           denied == block \/ Disposition(ctx[r].route, outcome) = "deny"
       IN  /\ Set(r, IF denied THEN Answered(c, 403, block) ELSE c)
           /\ Goto(r, IF denied THEN "log" ELSE "l1")
           /\ UNCHANGED <<in_flight, used>>

\* apply_l1, whose verdict is a round trip to the sidecar with a timeout
ApplyL1(r) ==
  LET t == ctx[r].route
      skipped == ctx[r].skip \/ ~Coraza \/ t.l1 = "skip"
  IN  /\ stage[r] = "l1"
      /\ \/ /\ skipped
            /\ Goto(r, "body_rules")
            /\ UNCHANGED <<in_flight, used, ctx>>
         \/ /\ ~skipped
            /\ \E verdict \in {"allow", "block", "unavailable"} :
                 LET denied == \/ verdict = "block" /\ t.l1 = "enforce"
                               \/ verdict = "unavailable" /\ Disposition(t, "TimedOut") = "deny"
                     c == [ctx[r] EXCEPT !.l1 = verdict]
                 IN  /\ Set(r, IF denied THEN Answered(c, 403, verdict = "block") ELSE c)
                     /\ Goto(r, IF denied THEN "log" ELSE "body_rules")
            /\ UNCHANGED <<in_flight, used>>

\* apply_openapi_body, apply_jwt_body, apply_graphql and apply_grpc_body, in this
\* order and with no state of their own; a body none of them can parse is denied
\* only where the route says so
BodyRules(r) ==
  /\ stage[r] = "body_rules"
  /\ \/ Goto(r, "authz") /\ UNCHANGED <<in_flight, used, ctx>>
     \/ /\ ctx[r].route.body_rules
        /\ \E code \in {401, 403}, noted \in BOOLEAN : Deny(r, code, noted)

\* apply_authz: no principal or no resource is a denial, an unavailable service
\* follows the route's fail mode and marks the request either way
ApplyAuthz(r) ==
  LET mode == ctx[r].route.authz
  IN  /\ stage[r] = "authz"
      /\ \/ /\ mode = "none"
            /\ Goto(r, "dispatch")
            /\ UNCHANGED <<in_flight, used, ctx>>
         \/ /\ mode # "none" /\ ctx[r].jwt
            /\ Goto(r, "dispatch")
            /\ Set(r, [ctx[r] EXCEPT !.authz = "allow"])
            /\ UNCHANGED <<in_flight, used>>
         \/ /\ mode = "open" /\ ctx[r].jwt
            /\ Goto(r, "dispatch")
            /\ Set(r, [ctx[r] EXCEPT !.authz = "unavailable", !.noted = TRUE])
            /\ UNCHANGED <<in_flight, used>>
         \/ /\ mode # "none"
            /\ Deny(r, 403, TRUE)

-----------------------------------------------------------------------------
(* The origin. *)

\* replay_spool_to_origin, commit_origin_response, or back to Pingora; shed
\* either way when no origin is ready.
Dispatch(r) ==
  LET spooled == ctx[r].route.spool /\ ctx[r].read > 0
      committed == spooled \/ (DlpBlock /\ ~ctx[r].upgrade)
  IN  /\ stage[r] = "dispatch"
      /\ \/ /\ Goto(r, "origin")
            /\ Set(r, [ctx[r] EXCEPT !.sent = IF committed THEN "commit" ELSE "stream"])
            /\ UNCHANGED <<in_flight, used>>
         \/ Deny(r, 503, TRUE)
         \/ spooled /\ Deny(r, 503, FALSE)     \* the spool cannot be read

\* the origin's answer reaches the client
OriginAnswers(r) ==
  /\ stage[r] = "origin"
  /\ Goto(r, "log")
  /\ \E code \in {200, 403} :
       Set(r, [ctx[r] EXCEPT !.responded = TRUE, !.status = code, !.by = "origin"])
  /\ UNCHANGED <<in_flight, used>>

\* the origin answers and the response is refused: a partial text or, with DLP
\* blocking, one that is too long, unreadable or holds sensitive data. Before
\* anything is written the streaming path may retry
OriginRefused(r) ==
  LET c == [ctx[r] EXCEPT !.responded = TRUE, !.noted = TRUE]
  IN  /\ stage[r] = "origin"
      /\ \/ /\ Goto(r, "log")
            /\ Set(r, Answered(c, 502, TRUE))
         \/ /\ c.sent = "stream"
            /\ Set(r, c)
            /\ UNCHANGED stage
      /\ UNCHANGED <<in_flight, used>>

\* no answer: fail_to_proxy, or the 503 of the committed path, which notes no
\* event when it found no origin to pick
OriginFails(r) ==
  /\ stage[r] = "origin"
  /\ \/ ctx[r].sent = "stream" /\ \E code \in {502, 503} : Deny(r, code, code = 503)
     \/ ctx[r].sent = "commit" /\ \E noted \in BOOLEAN : Deny(r, 503, noted)

\* mutant: an answer of the origin counts before what was noted
Decision_OriginFirst(c) ==
  IF c.responded THEN "allow"
  ELSE IF c.noted \/ c.status >= 400 THEN "deny" ELSE "allow"

\* `logging` exports the decision
Decision(c) ==
  IF c.noted THEN "deny"
  ELSE IF c.responded THEN "allow"
  ELSE IF c.status >= 400 THEN "deny" ELSE "allow"

\* the end of the request: logging, then Drop of the context and of its guard
Finish(r) ==
  /\ stage[r] = "log"
  /\ Goto(r, "idle")
  /\ in_flight' = IF ctx[r].guard THEN in_flight - 1 ELSE in_flight
  /\ used' = used - ctx[r].reserved
  /\ Set(r, NewCtx)

-----------------------------------------------------------------------------
Init ==
  /\ stage = [r \in Requests |-> "idle"]
  /\ in_flight = 0
  /\ used = 0
  /\ ctx = [r \in Requests |-> NewCtx]

HeadStep(r) ==
  \/ Admit(r) \/ CheckHeaders(r) \/ CheckHost(r) \/ Resolve(r) \/ ForceHttps(r)
  \/ JwtIdentity(r) \/ Abuse(r) \/ Behavioral(r) \/ CheckSmuggling(r) \/ CheckUserAgent(r)
  \/ CheckMethod(r) \/ CheckUri(r) \/ CheckSize(r) \/ RateLimit(r) \/ ProtocolMatrix(r)
  \/ InspectHead(r) \/ OpenapiEnvelope(r) \/ GrpcHeaders(r)

BodyStep(r) ==
  \/ ReserveBody(r) \/ BodyTimeout(r) \/ InspectBody(r) \/ ApplyL1(r) \/ BodyRules(r)
  \/ ApplyAuthz(r)

\* what the client does: nobody can make it go on
ClientStep(r) == Arrive(r) \/ ReadChunk(r) \/ ReadEnd(r) \/ ClientGone(r)

OriginStep(r) == Dispatch(r) \/ OriginAnswers(r) \/ OriginRefused(r) \/ OriginFails(r) \/ Finish(r)

Step(r) == HeadStep(r) \/ BodyStep(r) \/ OriginStep(r)

Next == \E r \in Requests : ClientStep(r) \/ Step(r)

Spec == Init /\ [][Next]_vars

\* A request runs on: every wait in request_filter has a timeout (the body
\* deadline, the sidecar's, the authorization service's, the origin's). The client
\* owes nothing.
FairSpec == Spec /\ \A r \in Requests : WF_vars(Step(r))

-----------------------------------------------------------------------------
\* What an origin sees has passed every gate the route asks for. On a route that
\* requires complete inspection and denies what it cannot read, its body was
\* completely inspected, and an enforcing L1 engine neither blocked it nor failed to
\* judge it; only a request that the protocol matrix or the policy of a gRPC route
\* lets skip the body WAF is exempt. On a route with an authorization policy the
\* principal was allowed by the service, or the service is unavailable and the route
\* fails open: skipping the WAF, a missing body or a missing JWT is no way around it.
Strict(t) == t.complete /\ t.on_truncated = "deny" /\ t.on_parse_error = "deny"
InspectedByL0(c) == c.l0 = "Complete" \/ (c.len = NoBody /\ c.declared)
InspectedByL1(c) ==
  Coraza /\ c.route.l1 # "skip" => c.l1 = "allow" \/ (c.l1 = "block" /\ c.route.l1 = "shadow")
Authorized(c) == c.jwt /\ (c.authz = "allow" \/ (c.authz = "unavailable" /\ c.route.authz = "open"))
FailClosed ==
  \A r \in Requests : stage[r] = "origin" =>
    /\ Strict(ctx[r].route) /\ ~ctx[r].skip => InspectedByL0(ctx[r]) /\ InspectedByL1(ctx[r])
    /\ ctx[r].route.authz # "none" => Authorized(ctx[r])

\* The two counters are what the requests hold, on every way out of request_filter,
\* and never above their limits: no slot and no byte leaks. And what is read of a
\* body is covered by what was reserved before the first chunk, for both copies (the
\* local one and Pingora's replay), whether or not the client announced its length.
Guarded == {r \in Requests : ctx[r].guard}
CopiesReserved ==
  \A r \in Requests : (IF ctx[r].route.spool THEN 1 ELSE 2) * ctx[r].read <= ctx[r].reserved
Accounting ==
  /\ in_flight = Cardinality(Guarded) /\ in_flight <= MaxInFlight
  /\ used = Total([r \in Requests |-> ctx[r].reserved]) /\ used <= BudgetMax
  /\ CopiesReserved

\* `logging` reports a request we answered with an error as denied, the response
\* an origin gave and DLP refused included.
RefusalsAreDenied ==
  \A r \in Requests : stage[r] = "log" /\ ctx[r].by = "us" /\ ctx[r].status >= 400
                        => Decision(ctx[r]) = "deny"

\* An admitted request gives back its slot and its bytes, even if its client stops
\* sending half way through a body.
Drained == \A r \in Requests : ctx[r].guard ~> ~ctx[r].guard

=============================================================================
