-------------------------------- MODULE Authz --------------------------------
(***************************************************************************)
(* The authorization callback of a route (src/src/authz.rs, called by      *)
(* apply_authz of src/src/proxy.rs): the policy a site's file gives, the   *)
(* resource a request is about, and the exchange with the decision service *)
(* over its Unix socket, under one timeout.                                *)
(*                                                                         *)
(* The answer is the units the service sends before it closes, of which    *)
(* the first HeadLen are the head. It arrives in pieces, and every piece   *)
(* makes query_socket try to parse what it has so far. `doc` units of the  *)
(* body are the JSON document; a shorter or a longer piece is none.        *)
(***************************************************************************)
EXTENDS Integers, Sequences, SequencesExt

CONSTANTS
  Files,            \* the `authorization` blocks a site may have
  Inquiries,        \* requests to the route that has the block
  Answers,          \* what the service may answer
  HeadLen,          \* units up to the end of the head
  ReadSize,         \* units one read may return
  MaxResponse,      \* MAX_RESPONSE
  DefaultTimeout,   \* DEFAULT_TIMEOUT, in ticks
  MaxTimeout        \* MAX_TIMEOUT, in ticks

Absent == -1        \* no timeout_ms in the file, no Content-Length in the head

ASSUME AuthzAssumption ==
  /\ {HeadLen, ReadSize, MaxResponse, DefaultTimeout, MaxTimeout} \subseteq Nat \ {0}
  /\ DefaultTimeout <= MaxTimeout
  /\ \A a \in Answers : a.doc \in Nat \ {0} /\ a.sent \in Nat /\ a.length \in Nat \cup {Absent}

VARIABLES
  policy,    \* AuthzPolicy of the route
  request,   \* principal, path parameters and body of the request
  callback,  \* where apply_authz is
  answer,    \* the service's answer
  got,       \* units of it in `buf`
  elapsed,   \* ticks of the timeout that are over
  verdict    \* AuthzVerdict

authzVars == <<policy, request, callback, answer, got, elapsed, verdict>>

Waiting == callback \in {"connect", "write", "read"}

-----------------------------------------------------------------------------
\* parse_timeout, parse_unix_socket, parse_resource and parse_fail_mode
TimeoutOf(file) == IF file.timeout_ms = Absent THEN DefaultTimeout ELSE file.timeout_ms
TimeoutOk(file) == TimeoutOf(file) \in 1..MaxTimeout
SocketOk(file) == file.socket = "unix:///absolute"
SelectorOk(file) ==
  \/ file.resource.from = "path" /\ Len(file.resource.name) = 1
  \/ file.resource.from = "body" /\ Len(file.resource.name) > 0
FailModeOk(file) == file.fail_mode \in {"closed", "open"}

\* AuthzPolicy::parse and load_authz, which also wants a jwt block for the principal
parse(file) ==
  /\ file.jwt /\ file.action # ""
  /\ SocketOk(file) /\ SelectorOk(file) /\ FailModeOk(file) /\ TimeoutOk(file)

\* needs_body
needs_body == policy.resource.from = "body"

Missing == [kind |-> "missing"]

\* json_field: the dotted path, through objects only, to a scalar
json_field(json, name) ==
  LET found == FoldLeft(LAMBDA v, part : IF v.kind = "object" /\ part \in DOMAIN v.fields
                                         THEN v.fields[part] ELSE Missing, json, name)
  IN  IF found.kind \in {"string", "number", "bool"} THEN found ELSE Missing

\* extract_resource; a body that is blank or not JSON has no field
extract_resource(r) ==
  IF needs_body THEN json_field(r.body, policy.resource.name)
  ELSE IF policy.resource.name[1] \in r.params THEN [kind |-> "string"] ELSE Missing

-----------------------------------------------------------------------------
\* mutant: all that follows the head is taken for the body
try_parse_http_Rest(n) ==
  IF n < HeadLen \/ n - HeadLen < answer.length THEN [is |-> "incomplete"]
  ELSE IF answer.head # "ok" THEN [is |-> "error"]
  ELSE [is |-> "response", body |-> n - HeadLen]

\* try_parse_http on the first n units: without Content-Length, the body is what
\* came with the head
try_parse_http(n) ==
  LET rest == n - HeadLen
  IN  IF rest < 0 THEN [is |-> "incomplete"]
      ELSE IF answer.head # "ok" THEN [is |-> "error"]
      ELSE IF answer.length = Absent THEN [is |-> "response", body |-> rest]
      ELSE IF rest < answer.length THEN [is |-> "incomplete"]
      ELSE [is |-> "response", body |-> answer.length]

\* parse_allow_body: anything but 200 and {"allow": bool} is no decision
parse_allow_body(body) ==
  IF answer.status = 200 /\ body = answer.doc /\ answer.json \in {"allow", "deny"}
  THEN answer.json ELSE "unavailable"

Passed(v) == v = "allow" \/ (v = "unavailable" /\ policy.fail_mode = "open")

\* decide ends; apply_authz, reject_authz_deny and reject_authz_unavailable act on it
Decide(v) ==
  /\ verdict' = v
  /\ callback' = IF Passed(v) THEN "passed" ELSE "denied"

-----------------------------------------------------------------------------
\* a site's file is compiled; a block that does not parse fails the load
Load ==
  /\ callback = "load"
  /\ callback' = IF parse(policy) THEN "apply" ELSE "refused"
  /\ UNCHANGED <<policy, request, answer, got, elapsed, verdict>>

\* apply_authz: a request without principal or without resource is denied unasked
Apply ==
  /\ callback = "apply"
  /\ IF request.principal /\ extract_resource(request) # Missing
     THEN callback' = "connect" /\ UNCHANGED verdict
     ELSE Decide("deny")
  /\ UNCHANGED <<policy, request, answer, got, elapsed>>

\* query_socket: UnixStream::connect, then write_all and shutdown
Proceed ==
  /\ \/ callback = "connect" /\ callback' = "write"
     \/ callback = "write" /\ callback' = "read"
  /\ UNCHANGED <<policy, request, answer, got, elapsed, verdict>>

\* either of them, or a read, fails
Fail ==
  /\ Waiting
  /\ Decide("unavailable")
  /\ UNCHANGED <<policy, request, answer, got, elapsed>>

\* a read returns n units: too many in all, or enough to decide, or go on
Read(n) ==
  /\ callback = "read"
  /\ got + n <= answer.sent
  /\ got' = got + n
  /\ LET parsed == try_parse_http(got')
     IN  \/ /\ got' > MaxResponse \/ parsed.is = "error"
            /\ Decide("unavailable")
         \/ /\ got' <= MaxResponse /\ parsed.is = "response"
            /\ Decide(parse_allow_body(parsed.body))
         \/ /\ got' <= MaxResponse /\ parsed.is = "incomplete"
            /\ UNCHANGED <<callback, verdict>>
  /\ UNCHANGED <<policy, request, answer, elapsed>>

\* the service closes: what try_parse_http could not use before is incomplete
Eof ==
  /\ callback = "read" /\ got = answer.sent
  /\ Decide("unavailable")
  /\ UNCHANGED <<policy, request, answer, got, elapsed>>

AuthzTick ==
  /\ Waiting /\ elapsed < TimeoutOf(policy)
  /\ elapsed' = elapsed + 1
  /\ UNCHANGED <<policy, request, callback, answer, got, verdict>>

\* tokio::time::timeout around the whole exchange
Timeout ==
  /\ Waiting /\ elapsed = TimeoutOf(policy)
  /\ Decide("unavailable")
  /\ UNCHANGED <<policy, request, answer, got, elapsed>>

AuthzInit ==
  /\ policy \in Files /\ request \in Inquiries /\ answer \in Answers
  /\ callback = "load" /\ got = 0 /\ elapsed = 0 /\ verdict = "none"

AuthzNext ==
  \/ Load \/ Apply \/ Proceed \/ Fail \/ Eof \/ AuthzTick \/ Timeout
  \/ \E n \in 1..ReadSize : Read(n)

AuthzSpec == AuthzInit /\ [][AuthzNext]_authzVars

-----------------------------------------------------------------------------
\* Whatever pieces the answer comes in, whatever follows it and however late it is:
\* a request passes only if it has a principal and a resource and the service
\* allowed it, or gave no decision on a route that fails open; and a decision whose
\* Content-Length is right is obeyed once it is read, so a denial never turns into
\* `unavailable`, which a route that fails open would let through. (A denial without
\* Content-Length whose head comes alone does.)
Framed == answer.head = "ok" /\ answer.status = 200 /\ answer.length = answer.doc
            /\ answer.json \in {"allow", "deny"}
Whole == Framed /\ got >= HeadLen + answer.doc /\ got <= MaxResponse
Named == request.principal /\ extract_resource(request) # Missing
DecisionObeyed ==
  /\ callback = "passed" =>
       /\ Named
       /\ \/ answer.json = "allow" /\ answer.status = 200 /\ got >= HeadLen + answer.doc
          \/ policy.fail_mode = "open" /\ ~Whole
  /\ callback = "denied" => ~Named \/ ~Whole \/ answer.json = "deny"
=============================================================================
