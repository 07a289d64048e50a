# A TLA+ model of ferroada

ferroada is a reverse proxy that puts a WAF in front of an origin. A request
comes in over a rate-limited, counted connection, goes through a long chain of
gates that may each answer it, has its body read and inspected as a whole, and
only then reaches one of the site's origins, whose answer is searched for
sensitive data on its way back. The interesting state is what requests share:
counters, budgets, windows, caches, the health of the origins, the live policy,
the spool directory. This project models that shared state and the steps that
touch it, and the algorithms that decide what a request or an answer is. It
checks them with TLC on small instances and proves the invariants that matter
most with TLAPS for all of them.

Source paths are those of the repository (`src/proxy.rs` and so on).
`PROJECT.json` maps every definition to the lines it models.

## 1. The system

| Part | State | Operations | Interacts with |
|---|---|---|---|
| Connection rate filter (`connection.rs`) | queue of attempts per IP and of all, a check counter | `check`, `evict_expired` | first half of `should_accept` |
| Active connection slots (`connection.rs`) | `current`, `pending` by TCP peer | `reserve_pending`, `activate`, `acquire`, `evict_expired_pending`, guard's `Drop` | second half of `should_accept`, `process_new` |
| Client address (`client_ip.rs`, `proxy_protocol.rs`) | the peer of a connection, the address so far | PROXY v2 header, `resolve_sources` | every limit and score hangs on its result |
| Request pipeline (`proxy.rs`) | in-flight counter, request byte budget, `FerroadaCtx` | `request_filter` and its `apply_*`, `fail_to_proxy`, `logging`, `Drop` | everything below, by call |
| Route policies (`config.rs`, `waf_l1.rs`) | the compiled routes of a site | merge, validate, `inspection_policy`, `authz_for`, `l1_for`, `dlp_fields_for`, `graphql_for` | the pipeline asks by request target |
| Origin pools (`origin.rs`) | per site: `down`, `circuits`, `cursor`; health thread | `pick`, `has_ready`, `record_success`, `record_failure`, `TrackingHealth::check` | requests through `upstream_peer`, `error_while_proxy`, `commit_origin_response` |
| Policy store (`policy.rs`) | the live policy, its version in the metrics | `try_reload` from SIGHUP and from `POST /api/reload` | every request reads a snapshot; `OriginPools::sync` rebuilds |
| Request spool (`spool.rs`) | byte and file budgets, `spool-*` files | `push`, `spill_to_file`, `Drop`, `prepare` | pipeline (body), policy store (new runtime at reload) |
| Response DLP (`dlp.rs`, `proxy.rs`) | response buffers, shared budget | `response_body_filter`, `commit_origin_response`, `mask_cards` | streaming and committed path |
| Rate limiter, behavioral, abuse (`rate_limit.rs`, `behavioral.rs`, `abuse.rs`) | windows, scores, bans and quotas per identity in bounded maps | `check`, `check_and_record`, `record_*`, `inspect` | gates of the pipeline |
| JWT, JWKS (`jwt.rs`) | JWKS cache, seen `jti`s | `authenticate`, `key`, `remember_jti` | gate of the pipeline; identity of the limiters |
| Authorization (`authz.rs`) | one exchange at a time | `apply_authz`, `query_socket` | last gate of the pipeline |
| GraphQL, OpenAPI (`graphql.rs`, `openapi.rs`) | the walk of a document, the quota book, compiled schemas | `check`, `consume_quota`, `validate_envelope`, `validate_body` | gates of the pipeline |
| WAF L0/L1, protocol matrix, gRPC | compiled rules | verdicts on head and body | gates of the pipeline |
| Dashboard (`dashboard*.rs`) | sessions, pending sign-ins, API rate, audit log | login, OIDC, reload, metrics | policy store, metrics |
| `ferroada cidrs` (`cidrs.rs`) | snapshots of the edges' lists, a `.env` | fetch, diff, confirm, replace | the operator; read at the next start |
| Metrics, OpenTelemetry (`metrics.rs`, `otel.rs`) | counters, an event ring, an export queue | `record_*`, export | written by everything |

What is hard about it: requests run on many threads and share lock-free
counters and sharded maps, whose updates are atomic one entry at a time and
never across two of them; a health thread, a SIGHUP thread and the dashboard
change state under running requests; clients stop half way; sidecars, origins
and identity providers do not answer, or answer in pieces; maps are pruned
while they are used; the process is killed with files on disk.

What makes each part correct, in a line: no window, quota or budget is exceeded
whatever is swept or pruned meanwhile; a ban is served; a connection slot is
neither lost nor counted twice; no origin sees a request that its route says must
be inspected, judged or authorized first, however its path is spelled; slots and
bytes come back on every way out; a failing origin gets one probe at a time,
comes back when it is healthy, and nothing is sent twice that must not be; the
live policy is the last one read, and what is derived from it follows; no spool
byte or file leaks; a token is used once and its key dies when it is withdrawn;
one sign-in gives one session; an answer reaches the client whole and as the DLP
action says; a file on disk is the last known good one.

## 2. Modules

`MC*.tla` set modules up for TLC, `*_proofs.tla` and `Lemmas` hold theorems. Operators
whose name has a suffix after `_` and whose comment says "mutant" are
deliberately wrong versions of the definition below them; no specification uses
them.

### The path of a request

**`OriginPool`** - one site's pool of `N` origins. `down`, `circuits` and
`cursor` are the maps and the cursor of `SitePool`; `health` is the thread of
`spawn_health_loop`; each request has a program counter, `tried`, `retries` and
`written`. One step is what happens under one map entry's lock:
`record_failure` is `FailOpenCircuit` then `FailInsertDown`, a good health check
is `HealthRemoveDown` then `HealthCloseCircuit`, `pick` is `Pick`, then `Scan`
and `CanSendStep` for each origin. The streaming path (`kind.path = "stream"`)
retries; `commit_origin_response` (`"commit"`) makes one attempt and records no
outcome when the origin answers. Time is `Elapse`. `consecutive_failures`
saturates at the threshold; `cursor` is kept modulo `N`, all that is read of it.
`attempts` and `passed` are history.

**`RequestPipeline`** - `request_filter`, stage by stage, in the code's order,
then dispatch, origin and `logging`. A gate is a nondeterministic verdict; what
it does with it (status, whether an event is noted, which stage follows) is the
code's. `Route` is what the policy says of a path: the inspection policy, spool
or not, L1 mode, body rules, authorization fail mode. The two shared counters
are `in_flight` and `used`. Bodies are counted in chunks.

**`ActiveConnections`** - the slots. `Reserve`, `Insert` and `Undo` are the three
atomic steps of `reserve_pending`; `EvictEntry` is one entry of `retain`;
`Activate` and `Acquire` are `activate`.

**`ConnectionRate`** - `check` runs under one mutex, so it is one step. Attempts
are kept as ages. `accepted` and `acceptedFrom` are history: the ages of what was
really let in, which no eviction touches.

**`PolicyReload`** - `Load`, `Swap` and `Expose` are the three steps of
`try_reload`; a request resolves, then runs `sync` (`SyncRead` reads the version
before the mutex, `SyncBuild` the config after it, `SyncClear` and `SyncInsert`
change the map of pools entry by entry) and looks its pool up. A policy is its
version: restoring a file restores its digest. A load that fails changes nothing
and is not a step. Rebuilding with a site whose pool cannot be built panics in
the code and is not modelled.

**`Spool`** - a body goes `open`, `store`, and over the ceiling `spill`, `create`,
`write`; `Drop` is three steps in the code's order. `wiper` is `spool::boot`, at
start and inside a reload, removing entries one by one while bodies come and go.
`Crash` loses everything but the directory. Bytes are counted in chunks. A request
opens a body only if its own policy has a spool route (`uses_spool`), and on the
runtime that is live by then, which may be one without a spool: that one is capped by
the default (`DefaultBytes`) and not by `SPOOL_MAX_BYTES`.

### Who is let in

**`ClientAddress`** - a connection's peer, replaced by the source of a PROXY v2
header where that is on, and the walk over the sources of `CLIENT_IP_ORDER`, one
entry of a header at a time. The property compares the result with a definition
of the nearest untrusted hop that knows nothing of the walk.

**`RateLimiter`** - `check` charges the keys of an identity one entry's lock at a
time; `Sweep`, `ShrinkCollect` and `ShrinkRemove` are `maybe_sweep` and
`shrink_to_cap`, whose victims are collected before they are removed. Charges are
kept as ages. `WindowHeld` is `AdmittedWithinWindow`, about what the history
`admitted` says was let in, and `TrackedBounded`: only an admitted request enforces
the cap, so between two sweeps every caller may leave the keys of refused requests
behind, up to `KeysPerRequest - 1` each and all of those of the one it is in.

**`Behavioral`** - scores, flags, bans and the clean-up of `PROFILES`. Decay is
lazy in the code and taken at every tick here, which comes to the same score.

**`Abuse`** - `inspect` with each read (`over`, one for every kind of quota) and
each write (`hit`) a step of its own, rotation with its cap on networks, the verdict,
the signals of the origin's status, and the sweep.

**`Jwt`** - `authenticate` from the header to the `jti` map. A download holds the
fetch mutex and takes time; the state mutex does not. The provider rotates its
document at any moment, a download may fail, the policy may be reloaded.

**`GraphqlQuota`** - `consume_quota` on the book that a site's overlays share. A
stamp of the code is a time and a cost; an entry here has one age for each unit of
cost, so that what is used is its length. `booked` is history: what was admitted
within the shortest window. `QuotaHeld` is an action property, about the moment of
an admission and the quota of the policy that admits.

**`Console`** - the dashboard's API: token, certificate or OIDC, sessions and
pending sign-ins in capped maps, CSRF, roles, the API's rate limit, and the reload
whose body is read after the session was checked.

**`Authz`** - the authorization callback: the block of a route and what makes its
load fail, the resource of a request, and the exchange under one timeout, with an
answer that comes in pieces of any size.

### What is in it

**`RoutePolicy`** - the entries of a site are merged in file order and validated;
a request target is decoded until nothing changes, and every rule set is looked up
with the result. A target is spelled in tokens with the number of decodings each
needs. `RoutesHold` compares with the nearest declaration, defined on the clear
path.

**`OpenApi`** and **`Schemas`** - matching, parameters and bodies against a table
of schemas that may refer to each other; `schema_ok` with its depth and its
`strict` flag, `deny_undeclared`. `BodyContract` compares a body that is let through
with `Valid`, which is what JSON Schema means by every keyword of the model (`oneOf`
of exactly one branch and `additionalProperties`, false or a schema, included), and
with `Closed`, the fields that the parts of a composition declare; both know neither
depth nor strictness. The comment above them names the three places where the code
means something else on purpose. `EnvelopeSound`, its other half, compares the
operation, the parameters and the media type with the most specific template that
fits. In the bodies part of `Content` the converse holds as well (`BodyComplete`).

**`Graphql`** - a query is revealed lexeme by lexeme, parsed, and walked with the
counters and caps of `walk`; `LimitsExact` compares with the query in which every
fragment is written out, `WorkBounded` bounds the steps of the walk by the cap and
the text.

**`ResponseDlp`**, **`DlpPromise`** - an answer on the streaming or the committed
path with the shared budget; see the refinement below. **`CardMask`** - the
scanner for card numbers, with short cards.

**`Cidrs`** - `ferroada cidrs update`, killed at any step and run again.

### Composition and refinement

Parts that share no variable are checked in one run: `MCCore` (`OriginPool`,
`Spool`), `MCLive` (`ActiveConnections`, `PolicyReload`, `RequestPipeline`,
`ConnectionRate`), `MCAdmission` (`RequestPipeline`, `Jwt` and the other modules of
"Who is let in") and `MCContent` (`ResponseDlp` and the rest of "What is in it")
have a variable, `part` or `component`, that is chosen at first and never changes.
A behaviour of the run is a behaviour of the module it names, beside the others at
one of their initial states. So a property of a module is an invariant of the run
exactly if it is one of the module (on the other behaviours it is looked at in an
initial state only), and a step is owed by fairness only by the module that runs.
Nothing is said about interleavings between those parts, which have no state in
common through which they could meet; `RequestPipeline` is where they do, as
verdicts.

The modules with theorems are extended, with the constants of the cfg, so that a
run and a proof speak of the same definition; the others are instances, and so are
the two instances of `RateLimiter` and a second one of `Console`, whose constants
differ. Where an
extended module has two parts of a run, each part takes the steps that satisfy its
condition: `OneReloader` and `TwoReloaders` in `MCLive`; `Alone` (one request, every
route) and `Pair` (two requests, one strict route), `Rotation` (keys change, one
policy) and `Spending` (tokens expire, the keys stay) in `MCAdmission`. These
conditions bound the state space of a run; the specifications and the theorems know
nothing of them.

`Windows` has the two operators of every sliding window: `Retain`, which keeps what
is younger than the window, and `Aged`, a tick. `RateLimiter`, `Abuse`,
`GraphqlQuota` and `ConnectionRate` are built on it.

`Budgets` says what a counter shared by several owners should be: the number of
units they hold. `RequestPipeline`, `Spool` and `ResponseDlp` state their budgets
with it.

`DlpPromise` says what becomes of an answer (all that is delivered is masked, or is as
the origin sent it, or the answer is refused, lost, or exposed and recorded), without
buffers, budgets, lengths and encodings.
`ResponseDlp` instantiates it with a mapping from chunks sent, buffers and
flags (`Fate`, `ExemptNow`), and `KeepsPromise` is its specification: every step of
the two response paths is one of its steps or none.

## 3. Runs

| Run | Part | Bounds | Shows |
|---|---|---|---|
| `Core_path` | origins | 2 origins, 2 requests, threshold 1 | `TypeOK`, `OneProbePerOpening`, `OpenIsDown` (the breaker and `down` agree but for the two half-done updates) |
| | spool | 3 bodies of up to 3 chunks, ceiling 1, 5 bytes (4 without a spool), 1 file, 1 reload, crashes | `BudgetsExact`, `NoOrphans` |
| `OriginPool_retry` | | 3 origins, 1 request of every kind, budget 1, fairness | `RetryDiscipline`, `NoRetryAfterWrite`; `Answered`: every request ends; `Recovery`: an origin that answers is back for good |
| `Core_live` | slots | 3 connections, 2 peers, 2 slots, fairness | `Accounting`, `Bounded`; `GateReopens` after abandoned handshakes |
| | pipeline | 2 requests, 1 slot, fairness | `Drained`: the slot comes back though a client stops |
| | policy | 3 policies, 2 sites, 1 reloader, 2 requests, fairness | `PoolsWhole`, `PoolsFollow` |
| | reloads | 2 policies, 2 sites, 2 reloaders, 1 request | `PoolsWhole`; `LiveIsLatest`, as long as no two reloads overlapped |
| | rate | 4 IPs, memory for 3, window 3, eviction every 3rd check | `WindowLimits`: no more within the window than the limits, no more IPs than the memory |
| `Admission` | rate, flood | 2 callers, 2 networks, a credential; 1 caller, 3 networks, cap 1 | `WindowHeld` |
| | risk | 2 requests, a network and its token, cap 1 | `BanServed` |
| | abuse | 2 requests, a sign-up and a log-in path, 1 fingerprint on 2 networks, caps of 1 | `SharedCap` |
| | quota | 2 keys, 2 policies with windows 2 and 1 | `QuotaHeld` |
| | keys | 2 requests, a rotation, TTL 2, 3 ticks | `WithdrawnKeyDies`, `KnownKid` |
| | tokens | 2 requests, tokens that expire, a full `jti` map, a reload | `NoReplay` |
| | certified, oidc | 2 requests, 1 session, 1 pending sign-in, 3 identifiers | `ReloadLateness`, `OneSessionPerSignIn` |
| | address | 2 proxies and a client, 2 entries, 3 orders | `NearestUntrusted` |
| | gates | 1 request, 70 routes, Coraza on | `FailClosed`, `RefusalsAreDenied`, `Accounting` |
| | pair | 2 requests, 1 strict route, a budget that does not cover both | `Accounting`: the counters are what is held, and cover every copy of a body |
| | authz | 10 blocks, 4 requests, 35 answers in pieces of up to 3 of 6 units | `DecisionObeyed` |
| `Content` | dlp | 1 or 2 answers of 10 kinds under 3 actions | `KeepsPromise`, `BudgetHeld`, `DeliveredWhole` |
| | cards | texts of up to 6 of 4 characters, cards of 2 to 3 digits | `CardsMasked` |
| | bodies, paths | 3528 schema tables and 15 values; 3 paths, 2 methods | `BodyContract` |
| | queries, batches | every query of 6 lexemes of 12; 3 operations in 9 lexemes of 5 | `LimitsExact` |
| | routes | sites of up to 2 of 27 entries, 16 targets, 2 decoding rounds | `RoutesHold` |
| | edges | 2 edges of 2 lists, 2 versions, 2 runs, kills and failing writes | `LastKnownGood` |
| `Graphql_doubling` | | 3 fragments that spread each other or themselves in any way, in two shapes of up to 18 lexemes; complexity cap 2 | `WalkHeld`: the limits are exact and the walk is cut off at the cap, up to the query whose expansion doubles three times |

The bounds are the smallest at which every branch is taken and every race has
its actors: two requests and the thread for the two maps; a third origin so that
a retry can run out of budget before it runs out of origins; a budget that is
one request too small; two connections per address so that a duplicate, an
eviction and an activation can meet; fewer file slots than bodies; maps whose cap
is below the keys in use, and a sweep every second call; windows of different
length on one book; one tick more than a key set lives; a batch one longer than
allowed. The named bounds are the `Max*`, `Hard*`, `Word`, `Rounds` (8 in
`canonical_route_path`, 2 in the run, whose targets need up to 3), `Window`,
`EvictEvery` and `*Sweep*` constants. A request to a site's routes is the only
one of its behaviour, since the lookups keep no state. Symmetry is used over
identical requests, bodies and clients, and never in a run with a liveness
property.

The reloads part of `Core_live` has two reloaders, and `LiveIsLatest` excludes the reloads that
overlapped (`raced`): nothing orders the load, the swap and the metric of a SIGHUP
and of a `POST /api/reload`, and the older policy may win. `Core_live` has an operator
who does not roll back; what a rollback does is told under "Seen while modelling".

Deadlock is checked in `Core_path`, `OriginPool_retry` and `Core_live`. In
`Admission`, `Content` and `Graphql_doubling` behaviours end: a token, an address, a text or a query is
dealt with and nothing follows.

### Runs that expect a violation

Each states what a document, a comment or an assertion of the repository says and
finds a behaviour of the code against it.

| Run | Says | Code |
|---|---|---|
| `OriginPool_readme_retry` | README.md:485, one retry with several origins | the committed path has none |
| `Spool_aggregate` | README.md:523, an aggregate cap | every reload starts a fresh budget while the bodies of the old one keep theirs |
| `ResponseDlp_block` | README.md:531, `block` refuses for PII or overflow | an answer without body but with Content-Length is waited for and refused |
| `OpenApi_extras` | openapi.rs:3, undeclared fields are denied | not inside `anyOf` and `oneOf` |
| `Abuse_windows` | README.md:86, a fingerprint shares the cap | a site with a short window sweeps the hits of one with a long window |
| `RoutePolicy_l1` | waf_l1.rs:50, `executing_paranoia` is not below `blocking_paranoia` | two nested routes pass the load and fail together at every request |

### Seen while modelling

Differences and edges that are not runs:

- `proxy.rs:1741` says that what was forwarded is logged as "allow"; a request
  forwarded while the authorization service is away and fails open carries the
  event `authz_unavailable` and is logged as "deny".
- `OriginPools::sync` reads the version before the mutex and the config after it. If
  the policy goes from A to B between the two reads and later back to A, whose digest
  is the same, the pools are B's and tagged A, and no later `sync` rebuilds them: with
  an operator who rolls back, `PoolsFollow` fails. Requests still go to the origins
  of their own policy, since `pick` and `has_ready` go through `backend.origins`
  (`origin.rs:262`); only `down`, the circuits, the cursor and the client certificate
  come from the pool of the other policy.
- README.md:195 limits the sum of the concurrent body buffers; the copy that
  `request_filter` inspects (`to_vec`) is a third one next to the two reserved.
- The committed response path: a chunked answer on a connection the origin keeps
  open is read to its end of file (`proxy.rs:2021`) and times out, as the request's
  `Connection` header was stripped (`proxy.rs:2247`); an answer to HEAD on a closed
  one is a 502 (`proxy.rs:2443`); a body of exactly the cap without a length is
  refused; under `redact` and `monitor` a longer one is cut without a word
  (`proxy.rs:2466`; README.md:303); it takes nothing from the shared budget
  (README.md:535) and records no outcome for its origin. A body that is not UTF-8
  counts as clean on both paths.
- `authz.rs`: an answer without Content-Length is judged as soon as its head is
  there. A denial whose body comes in a later piece is "unavailable", and a route
  that fails open lets the request through; `DecisionObeyed` leaves this case out.
- `client_ip.rs` reads the first `X-Forwarded-For` line only.
- GraphQL: a policy with a shorter window drops stamps a longer one still counts
  (`graphql.rs:296`, `graphql.rs:305`); `QuotaHeld` is stated for the shortest window of
  the book. A route cannot set the window back to the default of 60.
- OpenAPI: where the depth runs out (`MAX_SCHEMA_DEPTH`, 32) a branch counts as not
  holding, so a `oneOf` whose second branch is cut off passes; `BodyContract` is
  checked where the depth is enough for the document. `null` passes a schema without a type (`openapi.rs:1078`);
  `path_params` takes the first template that matches, whatever its methods
  (`openapi.rs:138`); a parameter that may be integer or boolean refuses `true`.
- `ferroada cidrs`: a list without Content-Length that is cut short is accepted;
  several edges are replaced one by one; a run with `--env` after an unchanged
  snapshot ends before it looks at the `.env` (`cidrs.rs:243`).
- A target that cannot be decoded gets the site's DLP fields and GraphQL policy
  only (`config.rs:395`, `config.rs:419`).

### Fairness

- `OriginPool!FairSpec`: the health thread loops while the pool lives, and every
  check has a connect and a read timeout; a request in progress goes on, and an
  attempt the origin leaves unanswered ends by the upstream timeouts. Time
  (`Elapse`) and arrivals are not fair.
- `RequestPipeline`: our own steps only. A chunk, the end of the body and the
  client's going away are never forced; the body deadline is a step of ours.
- `ActiveConnections`: handshakes end within Pingora's 60 seconds and entries grow
  old. An active connection may stay for ever.
- `PolicyReload!FairReloadSpec`: a reload or a request once begun runs to its end; `PoolsFollow`
  assumes in its own statement that requests keep coming.

`MCLive!LiveFairness` is these for the part that runs. No other run has a property
that needs fairness.

## 4. Proofs

`OriginPool_proofs`, for any number of origins and requests, any kinds, any
retry configuration and threshold (assumptions: `N`, `FailuresToOpen` positive,
`ConfiguredRetries` natural, `Kinds` a non-empty set of kinds):

- `TypeCorrect`: `TypeOK` is inductive as it stands.
- `OpenOriginsAreDown`: `OpenIsDown` is inductive together with `TypeOK` and
  `NoPool` (a site with one origin never opens a circuit; without it
  `FailInsertDown`, which adds nothing to `down` then, could break it). The
  argument: the writer that opens a circuit still owes the `down` entry, the one
  that removes the entry still owes the closing, and both debts are named in the
  invariant.
- `OneProbe`: `OneProbePerOpening` alone is not inductive, because `passed = 1`
  says nothing about whether a further request would be let through. `ProbeInv`
  ties the two: `probing` implies an elapsed circuit and exactly one request
  passed; an open circuit that is not probing has let nobody through.

The retry theorems of `OriginPool_proofs`:

- `RetriesDisciplined`: `RetryDiscipline` speaks of the attempts made, the code of
  `tried` and `retries`. `RetryInv` ties them together at every place of a request:
  the attempts are one more than the retries once it is sending (`AttemptsCounted`),
  the tried origins are those it was sent to, and the candidate in hand is not among
  them (`TriedIsAttempted`).
- `NoSplicedResponse` is an action property and needs `WrittenIsLast` of the same
  invariant: a request that has written is at none of the places that lead back to a
  pick.

`Lemmas` has what several proofs need:

- budgets: `TotalChange`, for any finite set of owners, what the total does when one
  owner takes or gives back. A total is the cardinality of the set of units held and
  not a sum by recursion; the lemmas come from the cardinality of unions and products;
- induction: the library's theorems take a predicate for a parameter, which no prover
  here instantiates. `NumberInduction` and `SequenceInduction` speak of a set that is
  closed instead, and come from `WFMin`, a theorem about sets. A use of them names
  the set of the sequences that have the property;
- windows: `Retain` is a recursive function, so that it has a solution
  (`RetentionExists`) and what it yields (`RetainAppend`, `RetainFacts`, `RetainLess`,
  `RetainAged`, `AgedCount`) are proved by that induction. What they come to: trimming
  may be put off, or done with a longer window first, or before or after a tick,
  without a difference to what the window counts.

`RequestPipeline_proofs`, for finite sets of requests, any routes and limits
(`PipelineAssumption`):

- `GatesFailClosed`, `SlotsAndBytesAccounted` and `RefusalsExported` from
  `PipelineInv`. `FailClosed` speaks of a request that has been sent; what it owes
  grows with every gate, so `Kept` says stage by stage what is already known
  (inspected after L0, judged after L1, allowed after authorization, reserved
  before the first chunk is read, noted once answered). `Held` ties the two
  counters to what all requests hold. All refusals end alike, so one lemma
  (`DenyKeeps`) covers every early return of `request_filter`.

`Spool_proofs`, for finite sets of bodies and any limits (`SpoolAssumption`; the
ceiling may be 0):

- `BudgetsAreExact` and `FilesAreOwned` from `SpoolInv`. A reload resets the counters of the
  next runtime, harmless only because no body is on it yet (`Opened`); a slot is
  given back at several places, and once only because a handle's place tells whether
  it has one (`Sound`); and the leftovers of a crash are on the wiper's list while
  they are wiped (`Leftovers`).

`ResponseDlp_proofs`, for finite sets of answers, any documents and limits and every
`DLP_ACTION` (`DlpAssumption`; what is found in a document is not longer than it):

- `BudgetIsHeld`, `WholeOrRefused` and `PromiseKept` from `DlpInv`, which says for each phase
  of an answer what is in its buffer, what was received and what was sent. The
  refinement is proved action by action: buffering and reading change no fate, every
  other step is one step of `DlpPromise` on that answer, and `PromiseLocal` carries
  it from one answer to the function of all fates.

`Live_proofs`, in three sections. `ActiveConnections`, for finite sets of connections
and peers and any positive limit:

- `SlotsTyped`, `SlotsAccounted`, `SlotsBounded` from one inductive invariant,
  `SlotsInv` = types, `Accounting`, `current <= Max`. The type of `current` is the
  subtle part: it is decremented without a look, and stays a natural number only
  because it counts two finite sets; in the code it is an unsigned atomic that would
  wrap.

`PolicyReload`, for any policies, sites, reloaders and requests:

- `LatestGoesLive`: `LiveIsLatest` is silent while a reload runs; `Lone` carries it
  through one, as the only reload under way holds the policy read last.
- `PoolsOfOnePolicy`: `PoolsWhole` is silent while pools are rebuilt; `Built` says
  what is in the map then, and `Exclusive` that one request alone rebuilds, since it
  holds the mutex of the version from before it reads the config to its last insert.

`ConnectionRate`, for any addresses, window and limits (`WindowAssumption`):

- `WindowsHold`: `WindowLimits` counts what was accepted, the code counts what its
  queues still hold. The invariant says that the two are the same within the window,
  also for an address whose entry was evicted. The code pops from the front until an
  age counts, and that is trimming only on a queue with the oldest first
  (`PopIsRetain`); the invariant carries that order.

`Admission_proofs`, a section for each module of "Who is let in" but `Jwt`, and `Cidrs`:

- `ServiceObeyed` (`Authz`, any sizes of heads, documents and reads): while the
  service is asked, there is somebody and something to ask about, and what has been
  read does not hold a decision yet (`Asked`). So a callback that gives up gives up
  on a decision that was never read whole.
- `BansServed` (`Behavioral`, any keys, points and limits): `BanServed` is inductive
  with the types of the profiles. The history `sentence` moves with the clock and is
  set by whoever bans; that no other step between a read and a write of a profile
  shortens `banned` is what the lemmas for `ScoreKey` and `Record` show.
- `ClientIsNearestUntrusted` (`ClientAddress`, headers of any length, any trusted
  networks; every order names `x-forwarded-for`, the case the property is about):
  `Walked(j)` says of the walk that hops 0 to j were readable and all but the last
  trusted, and what is left of the header. An order may name the header twice;
  `WalkedAgain` is the second walk, which starts from a trusted address and ends
  where the first did.
- `ReloadsNotLate` and `SignInsOnce` (`Console`, any visits, identifiers and
  lifetimes): a session is late by at most the ticks its body was awaited
  (`Lateness`); an attempt is in one place only, pending, in the hands of one
  request, or signed in (`OnePlace`), and whoever has it has the code that was
  authorised for it (`Vouched`).
- `LastKnownGoodKept` (`Cidrs`, any edges without repetition, parts and versions):
  while a run gathers, what it has of a selected edge is made of whole parts up to
  the one it is at (`Gathered`), and files change only from there.
- `CapShared` (`Abuse`): under `OneWindow`, all sites keep their hits for the same
  time. Without it the statement is false, and `Abuse_windows` shows it. The counters
  and the history `noted`, which no sweep touches, count the same within the window
  (`SameHits`); what is due when an inspection begins is still over when it is read.
- `QuotasHold` (`GraphqlQuota`, any policies on one book): the history is what the
  shortest window keeps of the book. An entry trimmed with any policy's window still
  has all of it, because no window is shorter.
- `LimitHeld` (`RateLimiter`, under `RateAssumption`: the limits are positive, callers
  and keys finite): `AdmittedWithinWindow` is about admissions, and a key is charged
  before. `Covered` says that what was admitted, and every caller that has charged
  the key and is on its way (`Charging`), is in the key's entry: for the whole window
  and for every part of it, since it is a part that a tick leaves. A key the cap
  removed is `forgotten` until the next tick, and its history starts again.

`Jwt_proofs`, for any requests, tokens, documents and durations (`JwtAssumption`:
finite key sets, the clock with the leeway below `2^64`; a token's own `exp` may be
any number, so that `validate_claims` wraps where `remember_jti` saturates):

- `TokensSpentOnce`, `WithdrawnKeysDie` and `ServedKidsKnown` from `JwtInv`. For
  `NoReplay`, `Remembered`: the `jti` map holds every token let through at least as
  long as its claims would pass, also for a call whose `now` is old. For
  `WithdrawnKeyDies` and `KnownKid`, `CacheKept`, `Downloads` and `Reads`: a set with
  a withdrawn key was stored at most one download after the withdrawal, a set without
  a served kid was asked for before the kid was served or an attempt has failed
  since, and whoever downloads holds the fetch mutex and is not late. `KnownKid` is an
  action property and needs `Mutex` as well: the fetch mutex is held by a download
  and by nothing else. `MaxNow` and `MaxReloads` are any numbers, so the bounds of
  the runs are no bounds of the theorems.

Every property that a theorem states is checked by a run as well, the first half of
`WindowHeld` with the second. Assumptions on constants are evaluated by TLC in the runs
that extend their modules.

Only model-checked:

- liveness under fairness (`Answered`, `Recovery`, `Drained`, `GateReopens`,
  `PoolsFollow`), which is outside the prover's reach;
- what compares with a reference defined by recursion over data: `LimitsExact`,
  `WorkBounded`, `BodyContract`, `CardsMasked`, `RoutesHold`. Their modules have
  recursive operators, which take the SMT backend from a module that reaches them;
- `TrackedBounded`, the half of `WindowHeld` about the size of the limiter's map. Its
  bound counts what callers have left behind since a sweep, of which the state keeps
  no record; an inductive invariant would need one for every caller.

## 5. Plan

`CardMask`, `RoutePolicy` and `Graphql` with recursive functions instead of
recursive operators, so that `SequenceInduction` can carry their references:
`CardsMasked` first. A history of the keys that refused requests leave behind, for
`TrackedBounded`.

Then `PolicyReload` and `Spool` composed, so that a request's snapshot and its spool
runtime can differ; `pick_most_severe` of the protocol matrix and `combine` of
inspection outcomes against reference definitions.

## 6. Not modelled

Patterns and byte formats (WAF rules, gRPC descriptors, the layout of PROXY v2,
prefix arithmetic of CIDRs), whose verdicts are inputs; cryptography; TOML
parsing and the table of hosts; start-up wiring, listeners, TLS fingerprints and
`ferroada init`, which run once or keep no state; log and metric texts, the event
ring and the OTLP exporter, on which nothing else depends.
