------------------------------ MODULE OriginPool ------------------------------
(***************************************************************************)
(* One site's origin pool (src/src/origin.rs) and the requests that use it *)
(* (src/src/proxy.rs): the circuit breaker of every origin, the `down` map *)
(* the health thread and the requests share, the round robin pick, and the *)
(* retry loop of the streaming path next to the single attempt of          *)
(* commit_origin_response.                                                 *)
(*                                                                         *)
(* A step is what runs under one DashMap entry lock or one atomic: the     *)
(* breaker and the `down` map are different maps, so record_failure and    *)
(* the health check update them in two steps that others may interleave.   *)
(***************************************************************************)
EXTENDS Naturals, Sequences, FiniteSets

CONSTANTS
  N,               \* backend.origins.len()
  Requests,        \* requests in flight
  Kinds,           \* the requests clients send: [path, idem, truncated]
  ConfiguredRetries, \* MAX_UPSTREAM_RETRIES
  FailuresToOpen   \* FAILURES_TO_OPEN

Origins == 0 .. (N - 1)
Kind == [path : {"stream", "commit"}, idem : BOOLEAN, truncated : BOOLEAN]

AnyKind == CHOOSE k \in Kinds : TRUE   \* of a request that is not there

ASSUME NAssumption == N \in Nat \ {0}
ASSUME KindsAssumption == Kinds \subseteq Kind /\ Kinds # {}
ASSUME RetriesAssumption == ConfiguredRetries \in Nat
ASSUME FailuresAssumption == FailuresToOpen \in Nat \ {0}

VARIABLES
  down,      \* SitePool.down
  circuits,  \* SitePool.circuits: opened_at, probing, consecutive_failures
  cursor,    \* SitePool.cursor, of which only the residue mod N is read
  health,    \* the health thread: the origin it is at and its place in check()
  pc,        \* where each request is
  kind,      \* what each request is
  left,      \* origins the current loop has still to look at
  cand,      \* origin the current loop is looking at; after a pick, selected_origin
  tried,     \* ctx.tried_origins
  retries,   \* ctx.upstream_retries
  why,       \* what led to mark_origin_failure: a 5xx status or an error
  written,   \* session.response_written()
  attempts,  \* history: the origins the request was sent to, in order
  passed     \* history: requests let through since the circuit last changed

reqVars == <<pc, kind, left, cand, tried, retries, why, written, attempts>>
vars == <<down, circuits, cursor, health, reqVars, passed>>

-----------------------------------------------------------------------------
(* CircuitBreaker. opened_at is "none", "fresh" (less than open_for ago) or *)
(* "elapsed". consecutive_failures saturates at FailuresToOpen, beyond      *)
(* which the code does not tell values apart.                               *)

Opened == {"none", "fresh", "elapsed"}
Breaker == [opened : Opened, probing : BOOLEAN, failures : 0 .. FailuresToOpen]
NewBreaker == [opened |-> "none", probing |-> FALSE, failures |-> 0]

AllowsTraffic(c) == c.opened # "fresh"

\* mutant: half-open lets everybody through
CanSend_NoProbe(c) == c.opened # "fresh"

CanSend(c) == \/ c.opened = "none"
              \/ c.opened = "elapsed" /\ ~c.probing

\* the compare_exchange of can_send, when it answers true
AfterCanSend(c) == IF c.opened = "elapsed" THEN [c EXCEPT !.probing = TRUE] ELSE c

OnSuccess(c) == NewBreaker

OnFailure(c) ==
  LET failures == IF c.failures < FailuresToOpen THEN c.failures + 1 ELSE c.failures
  IN  [opened   |-> IF failures >= FailuresToOpen THEN "fresh" ELSE c.opened,
       probing  |-> FALSE,
       failures |-> failures]

SetCircuit(o, c) == /\ circuits' = [circuits EXCEPT ![o] = c]
                    /\ passed' = [passed EXCEPT ![o] = 0]

\* time: the circuit of o has been open for open_for
Elapse(o) ==
  /\ circuits[o].opened = "fresh"
  /\ circuits' = [circuits EXCEPT ![o].opened = "elapsed"]
  /\ UNCHANGED <<down, cursor, health, reqVars, passed>>

-----------------------------------------------------------------------------
(* The health thread: run_health_check(false) visits the origins one after  *)
(* the other, and TrackingHealth::check applies each result.                *)

\* mutant: the index runs past the last origin
NextTarget_NoWrap(o) == o + 1

NextTarget(o) == (o + 1) % N

\* the origin's answer to GET health_path, read before the maps are touched
HealthProbe ==
  /\ health.at = "probe"
  /\ \E result \in {"ok", "err"} : health' = [health EXCEPT !.at = result]
  /\ UNCHANGED <<down, circuits, cursor, reqVars, passed>>

HealthRemoveDown ==
  /\ health.at = "ok"
  /\ down' = down \ {health.target}
  /\ health' = [health EXCEPT !.at = "close"]
  /\ UNCHANGED <<circuits, cursor, reqVars, passed>>

\* mutant: a successful check does not reach the breaker
HealthCloseCircuit_Forgets ==
  /\ health.at = "close"
  /\ health' = [at |-> "probe", target |-> NextTarget(health.target)]
  /\ UNCHANGED <<down, circuits, cursor, reqVars, passed>>

HealthCloseCircuit ==
  /\ health.at = "close"
  /\ SetCircuit(health.target, OnSuccess(circuits[health.target]))
  /\ health' = [at |-> "probe", target |-> NextTarget(health.target)]
  /\ UNCHANGED <<down, cursor, reqVars>>

HealthInsertDown ==
  /\ health.at = "err"
  /\ down' = down \cup {health.target}
  /\ health' = [at |-> "probe", target |-> NextTarget(health.target)]
  /\ UNCHANGED <<circuits, cursor, reqVars, passed>>

\* only a balanced site has a pool, and with it a health thread
IsBalanced == N > 1

Health ==
  /\ IsBalanced
  /\ HealthProbe \/ HealthRemoveDown \/ HealthCloseCircuit \/ HealthInsertDown

-----------------------------------------------------------------------------
(* A request. *)

ExtraRetryBudget ==
  LET capped == IF ConfiguredRetries < 3 THEN ConfiguredRetries ELSE 3
  IN  IF IsBalanced /\ capped < 1 THEN 1 ELSE capped

\* mutants: the method, or what was already written, is not looked at
ShouldRetryUpstream_AnyMethod(r) ==
  /\ kind[r].path = "stream"
  /\ retries[r] < ExtraRetryBudget
  /\ ~written[r]
  /\ ~kind[r].truncated

ShouldRetryUpstream_AfterWrite(r) ==
  /\ kind[r].path = "stream"
  /\ retries[r] < ExtraRetryBudget
  /\ kind[r].idem
  /\ ~kind[r].truncated

ShouldRetryUpstream(r) ==
  /\ kind[r].path = "stream"
  /\ retries[r] < ExtraRetryBudget
  /\ ~written[r]
  /\ kind[r].idem
  /\ ~kind[r].truncated

\* request_filter has approved the request and hands it to the pool
Arrive(r, k) ==
  /\ pc[r] = "idle"
  /\ pc' = [pc EXCEPT ![r] = "shed"]
  /\ kind' = [kind EXCEPT ![r] = k]
  /\ UNCHANGED <<down, circuits, cursor, health, left, cand, tried, retries, why, written,
                 attempts, passed>>

\* shed_unhealthy_origin: has_ready looks at the origins in order
Shed(r) ==
  LET ready == cand[r] \notin down /\ AllowsTraffic(circuits[cand[r]])
  IN  /\ pc[r] = "shed"
      /\ pc' = [pc EXCEPT ![r] = IF ~IsBalanced \/ ready THEN "pick"
                                 ELSE IF left[r] = 1 THEN "none" ELSE "shed"]
      /\ left' = [left EXCEPT ![r] = IF pc'[r] = "shed" THEN @ - 1 ELSE N]
      /\ cand' = [cand EXCEPT ![r] = IF pc'[r] = "shed" THEN NextTarget(@) ELSE 0]
      /\ UNCHANGED <<down, circuits, cursor, health, kind, tried, retries, why,
                     written, attempts, passed>>

\* pick: take the round robin cursor
Pick(r) ==
  /\ pc[r] = "pick"
  /\ pc' = [pc EXCEPT ![r] = "scan"]
  /\ cand' = [cand EXCEPT ![r] = IF IsBalanced THEN cursor ELSE 0]
  /\ cursor' = IF IsBalanced THEN NextTarget(cursor) ELSE cursor
  /\ UNCHANGED <<down, circuits, health, kind, left, tried, retries, why, written,
                 attempts, passed>>

\* mutant: the loop over the origins has no end
Skip_Endless(r) ==
  /\ pc' = [pc EXCEPT ![r] = "scan"]
  /\ cand' = [cand EXCEPT ![r] = NextTarget(@)]
  /\ UNCHANGED left

\* the next origin of the loop, or no origin at all
Skip(r) ==
  /\ pc' = [pc EXCEPT ![r] = IF left[r] = 1 THEN "none" ELSE "scan"]
  /\ left' = [left EXCEPT ![r] = IF @ = 1 THEN N ELSE @ - 1]
  /\ cand' = [cand EXCEPT ![r] = NextTarget(@)]

IsTried(r, o) == \E i \in 1 .. Len(tried[r]) : tried[r][i] = o

\* pick: tried and is_down; can_send is the next step
Scan(r) ==
  /\ pc[r] = "scan"
  /\ \/ /\ IsBalanced
        /\ IsTried(r, cand[r]) \/ cand[r] \in down
        /\ Skip(r)
     \/ /\ ~IsBalanced \/ (~IsTried(r, cand[r]) /\ cand[r] \notin down)
        /\ pc' = [pc EXCEPT ![r] = "cansend"]
        /\ UNCHANGED <<left, cand>>
  /\ UNCHANGED <<down, circuits, cursor, health, kind, tried, retries, why,
                 written, attempts, passed>>

\* upstream_peer keeps what it tried; commit_origin_response does not
Selected(r) ==
  /\ pc' = [pc EXCEPT ![r] = "sent"]
  /\ left' = [left EXCEPT ![r] = N]
  /\ tried' = IF kind[r].path = "stream" /\ ~IsTried(r, cand[r])
              THEN [tried EXCEPT ![r] = Append(@, cand[r])] ELSE tried
  /\ attempts' = [attempts EXCEPT ![r] = Append(@, cand[r])]

CanSendStep(r) ==
  /\ pc[r] = "cansend"
  /\ \/ /\ ~IsBalanced
        /\ Selected(r)
        /\ UNCHANGED <<circuits, passed, cand>>
     \/ /\ IsBalanced
        /\ CanSend(circuits[cand[r]])
        /\ circuits' = [circuits EXCEPT ![cand[r]] = AfterCanSend(@)]
        /\ passed' = [passed EXCEPT ![cand[r]] = IF circuits[cand[r]].opened = "none" THEN 0 ELSE @ + 1]
        /\ Selected(r)
        /\ UNCHANGED cand
     \/ /\ IsBalanced
        /\ ~CanSend(circuits[cand[r]])
        /\ Skip(r)
        /\ UNCHANGED <<circuits, passed, tried, attempts>>
  /\ UNCHANGED <<down, cursor, health, kind, retries, why, written>>

\* the attempt fails: no connection, a reset, a timeout or, on the streaming
\* path, an error on the client's side, which error_while_proxy does not tell apart
AttemptFails(r) ==
  /\ pc[r] \in {"sent", "body"}
  /\ pc' = [pc EXCEPT ![r] = "fail"]
  /\ why' = [why EXCEPT ![r] = "error"]
  /\ UNCHANGED <<down, circuits, cursor, health, kind, left, cand, tried, retries,
                 written, attempts, passed>>

\* the origin answers below 500: mark_origin_outcome records a success
RespondSuccess(r) ==
  /\ pc[r] = "sent"
  /\ kind[r].path = "stream"
  /\ pc' = [pc EXCEPT ![r] = "decorate"]
  /\ IF IsBalanced THEN SetCircuit(cand[r], OnSuccess(circuits[cand[r]]))
                   ELSE UNCHANGED <<circuits, passed>>
  /\ UNCHANGED <<down, cursor, health, kind, left, cand, tried, retries, why, written,
                 attempts>>

\* the origin answers 500 or more: mark_origin_outcome records a failure
RespondError(r) ==
  /\ pc[r] = "sent"
  /\ kind[r].path = "stream"
  /\ pc' = [pc EXCEPT ![r] = "fail"]
  /\ why' = [why EXCEPT ![r] = "status"]
  /\ UNCHANGED <<down, circuits, cursor, health, kind, left, cand, tried, retries,
                 written, attempts, passed>>

\* the origin answers a committed request: no outcome is recorded, whatever the
\* status, and a probe taken from the breaker is not given back
RespondCommitted(r) ==
  /\ pc[r] = "sent"
  /\ kind[r].path = "commit"
  /\ pc' = [pc EXCEPT ![r] = "answered"]
  /\ UNCHANGED <<down, circuits, cursor, health, kind, left, cand, tried, retries, why,
                 written, attempts, passed>>

\* decorate_origin_response: the response is passed on, or refused with a 502
\* that reaches error_while_proxy before anything is written
Decorate(r) ==
  /\ pc[r] = "decorate"
  /\ \/ /\ pc' = [pc EXCEPT ![r] = "body"]
        /\ written' = [written EXCEPT ![r] = TRUE]
        /\ UNCHANGED why
     \/ /\ pc' = [pc EXCEPT ![r] = "fail"]
        /\ why' = [why EXCEPT ![r] = "error"]
        /\ UNCHANGED written
  /\ UNCHANGED <<down, circuits, cursor, health, kind, left, cand, tried, retries,
                 attempts, passed>>

\* record_failure, first map
FailOpenCircuit(r) ==
  /\ pc[r] = "fail"
  /\ pc' = [pc EXCEPT ![r] = "fail_down"]
  /\ IF IsBalanced THEN SetCircuit(cand[r], OnFailure(circuits[cand[r]]))
                   ELSE UNCHANGED <<circuits, passed>>
  /\ UNCHANGED <<down, cursor, health, kind, left, cand, tried, retries, why,
                 written, attempts>>

\* record_failure, second map, and the retry decision of fail_to_connect and
\* error_while_proxy
FailInsertDown(r) ==
  /\ pc[r] = "fail_down"
  /\ down' = IF IsBalanced THEN down \cup {cand[r]} ELSE down
  /\ why' = [why EXCEPT ![r] = "error"]
  /\ \/ /\ why[r] = "status"
        /\ pc' = [pc EXCEPT ![r] = "decorate"]
        /\ UNCHANGED retries
     \/ /\ why[r] = "error" /\ ShouldRetryUpstream(r)
        /\ pc' = [pc EXCEPT ![r] = "pick"]
        /\ retries' = [retries EXCEPT ![r] = @ + 1]
     \/ /\ why[r] = "error" /\ ~ShouldRetryUpstream(r)
        /\ pc' = [pc EXCEPT ![r] = "failed"]
        /\ UNCHANGED retries
  /\ UNCHANGED <<circuits, cursor, health, kind, left, cand, tried, written, attempts,
                 passed>>

\* the response body ends
Finish(r) ==
  /\ pc[r] = "body"
  /\ pc' = [pc EXCEPT ![r] = "answered"]
  /\ UNCHANGED <<down, circuits, cursor, health, kind, left, cand, tried, retries,
                 why, written, attempts, passed>>

\* the request is over (answered, failed, or 503 for want of an origin)
Leave(r) ==
  /\ pc[r] \in {"answered", "failed", "none"}
  /\ pc' = [pc EXCEPT ![r] = "idle"]
  /\ tried' = [tried EXCEPT ![r] = <<>>]
  /\ attempts' = [attempts EXCEPT ![r] = <<>>]
  /\ retries' = [retries EXCEPT ![r] = 0]
  /\ written' = [written EXCEPT ![r] = FALSE]
  /\ cand' = [cand EXCEPT ![r] = 0]
  /\ kind' = [kind EXCEPT ![r] = AnyKind]
  /\ UNCHANGED <<down, circuits, cursor, health, left, why, passed>>

Request(r) ==
  \/ Shed(r) \/ Pick(r) \/ Scan(r) \/ CanSendStep(r)
  \/ RespondSuccess(r) \/ RespondError(r) \/ RespondCommitted(r) \/ Decorate(r)
  \/ FailOpenCircuit(r) \/ FailInsertDown(r) \/ Finish(r) \/ Leave(r)

-----------------------------------------------------------------------------
\* build_pool: empty maps, and a thread about to check the first origin
Init ==
  /\ down = {}
  /\ circuits = [o \in Origins |-> NewBreaker]
  /\ cursor = 0
  /\ health = [at |-> "probe", target |-> 0]
  /\ pc = [r \in Requests |-> "idle"]
  /\ kind = [r \in Requests |-> AnyKind]
  /\ left = [r \in Requests |-> N]
  /\ cand = [r \in Requests |-> 0]
  /\ tried = [r \in Requests |-> <<>>]
  /\ retries = [r \in Requests |-> 0]
  /\ why = [r \in Requests |-> "error"]
  /\ written = [r \in Requests |-> FALSE]
  /\ attempts = [r \in Requests |-> <<>>]
  /\ passed = [o \in Origins |-> 0]

Next ==
  \/ Health
  \/ \E o \in Origins : Elapse(o)
  \/ \E r \in Requests : Request(r) \/ AttemptFails(r) \/ \E k \in Kinds : Arrive(r, k)

\* The health thread never stops while the pool lives and every check ends
\* within HEALTH_CONNECT_TIMEOUT; a request runs on until it is answered, and
\* the upstream timeouts end an attempt the origin leaves unanswered.
Fairness ==
  /\ WF_vars(Health)
  /\ \A r \in Requests : WF_vars(Request(r) \/ AttemptFails(r))

Spec == Init /\ [][Next]_vars
FairSpec == Spec /\ Fairness

-----------------------------------------------------------------------------
Pc == {"idle", "shed", "pick", "scan", "cansend", "sent", "decorate", "fail",
       "fail_down", "body", "answered", "failed", "none"}

\* Every variable has its type.
TypeOK ==
  /\ down \subseteq Origins
  /\ circuits \in [Origins -> Breaker]
  /\ cursor \in Origins
  /\ health \in [at : {"probe", "ok", "err", "close"}, target : Origins]
  /\ pc \in [Requests -> Pc]
  /\ kind \in [Requests -> Kind]
  /\ left \in [Requests -> 1 .. N]
  /\ cand \in [Requests -> Origins]
  /\ tried \in [Requests -> Seq(Origins)]
  /\ retries \in [Requests -> Nat]
  /\ why \in [Requests -> {"status", "error"}]
  /\ written \in [Requests -> BOOLEAN]
  /\ attempts \in [Requests -> Seq(Origins)]
  /\ passed \in [Origins -> Nat]

\* While its circuit is open an origin sees at most one request, the probe of
\* half-open, between two outcomes recorded for it (can_send's compare_exchange
\* against on_success and on_failure of everybody else).
OneProbePerOpening == \A o \in Origins : circuits[o].opened # "none" => passed[o] <= 1

\* An open circuit whose origin is not in `down` means somebody is half way
\* through record_failure or the health check on that origin: the two maps never
\* stay apart, so an origin that failed is not picked again on the breaker's
\* timer alone, only after a health check.
RecordingFailure(o) == \E r \in Requests : pc[r] = "fail_down" /\ cand[r] = o
ClosingCircuit(o) == health.at = "close" /\ health.target = o
OpenIsDown ==
  \A o \in Origins : circuits[o].opened # "none" /\ o \notin down
                       => RecordingFailure(o) \/ ClosingCircuit(o)

\* A balanced request goes to one origin at most once, within the retry budget,
\* and more than once only if it is idempotent and its body can be replayed;
\* the committed path makes one attempt (should_retry_upstream, tried_origins).
RetryDiscipline ==
  \A r \in Requests :
    /\ IsBalanced => \A i, j \in 1 .. Len(attempts[r]) :
                        attempts[r][i] = attempts[r][j] => i = j
    /\ Len(attempts[r]) <= 1 + ExtraRetryBudget
    /\ Len(attempts[r]) > 1 => /\ kind[r].idem
                               /\ ~kind[r].truncated
                               /\ kind[r].path = "stream"

\* Once any part of a response went to the client, the request is never sent to
\* an origin again: the client cannot receive two responses spliced together.
NoRetryAfterWrite ==
  [][\A r \in Requests : written[r] /\ written'[r] => attempts'[r] = attempts[r]]_vars

\* An origin that answers again, and on which no request is failing, is back in
\* rotation for good, whatever was left behind in `down`, in the breaker or in
\* an abandoned probe.
Failing(o) == \E r \in Requests : pc[r] \in {"fail", "fail_down"} /\ cand[r] = o
Selectable(o) == o \notin down /\ CanSend(circuits[o])
Answers(o) == health.target = o => health.at # "err"
Recovery == \A o \in Origins : <>[](Answers(o) /\ ~Failing(o)) => <>[]Selectable(o)

\* Every request is answered, however origins fail: the retry loop ends.
Answered == \A r \in Requests : (pc[r] = "shed") ~> (pc[r] = "idle")

\* README: with several origins a GET, HEAD or OPTIONS gets at least one retry
\* if the origin resets before responding. A request whose only attempt failed
\* is then never given up on.
AtLeastOneRetry ==
  \A r \in Requests :
    pc[r] = "failed" /\ IsBalanced /\ kind[r].idem /\ ~kind[r].truncated /\ ~written[r]
      => retries[r] >= 1
=============================================================================
