----------------------------- MODULE MCAdmission -----------------------------
(***************************************************************************)
(* What is let in, on small instances: who a client is and how much it may *)
(* ask for (RateLimiter, Behavioral, Abuse, GraphqlQuota, Jwt, Console,    *)
(* ClientAddress), the gates its request passes (RequestPipeline) and the  *)
(* service that has the last word (Authz).                                 *)
(* They keep separate state: a behaviour is one of the instance that       *)
(* `part` names, and the others stay as they begin.                        *)
(***************************************************************************)
EXTENDS RequestPipeline, Jwt, Authz, ClientAddress, Console, Behavioral, Abuse,
        GraphqlQuota, TLC

CONSTANTS r1, r2

VARIABLES part,
          requests, hits, call, admitted, forgotten

rateVars == <<requests, hits, call, admitted, forgotten>>

Clients == {r1, r2}

-----------------------------------------------------------------------------
\* Two callers on two networks; and one that comes from three and fills the map.
Rate == INSTANCE RateLimiter WITH
  Callers <- Clients, RateNetworks <- {"n1", "n2"}, Routes <- {"r"}, Credentials <- {"s"},
  Window <- 1, MaxRequests <- 1, MaxIps <- 4, RateSweep <- 2
Flood == INSTANCE RateLimiter WITH
  Callers <- {r1}, RateNetworks <- {"n1", "n2", "n3"}, Routes <- {"r"}, Credentials <- {},
  Window <- 1, MaxRequests <- 1, MaxIps <- 1, RateSweep <- 2

\* A network and a token from it, with the map at its cap.
SomeIdentities == {<<"n1", "j">>}
SomePoints == [waf |-> 2, paths |-> 1, agents |-> 1, noAgent |-> 1, request |-> 0,
               notFound |-> 1, denied |-> 1]

\* One fingerprint on two networks.
From(network) == [site |-> "s", network |-> network, fingerprint |-> "f", session |-> "none"]
To(path, weak, html) == [path |-> path, weak |-> weak, html |-> html]
OneFingerprint == {From("n1"), From("n2")}
SomePaths == {To("signup", FALSE, FALSE), To("stuffing", TRUE, TRUE)}
TwoTicks == [s |-> 2]
OneOfEach == [k \in Kinds |-> 1]

\* Two policies with different windows share the book.
TwoQuotas == [s |-> 1, t |-> 2]
TwoQuotaWindows == [s |-> 2, t |-> 1]

-----------------------------------------------------------------------------
Token(kid, key, exp, jti) ==
  [defect |-> "none", alg |-> "RS256", kid |-> kid, key |-> key, exp |-> exp, nbf |-> 0,
   jti |-> jti, sub |-> "u"]

\* The provider replaces its one key by another while two requests look it up; and
\* tokens expire while they are checked, the jti map is full, the policy is reloaded.
RotatedTokens == {Token("k1", "A", 9, "j1"), Token("k2", "B", 9, "j1")}
SpentTokens == {Token("k1", "A", 1, "j1"),
                [Token("k1", "A", 2, "j2") EXCEPT !.alg = "HS256", !.key = "secret"]}
SomeTokens == RotatedTokens \cup SpentTokens
SomeKeySets == {[k1 |-> "A"], [k2 |-> "B"]}
SomeKeyKinds == [A |-> "RS256", B |-> "RS256"]
Presents(tokens) == \A r \in Clients : bearer'[r].at = "idle" \/ bearer'[r].token \in tokens
Rotation == Presents(RotatedTokens) /\ Cardinality(DOMAIN policies') = 1
Spending == Presents(SpentTokens) /\ published' = published

\* OIDC, with one session at a time; and the token and client certificates.
NoCertificates == [none |-> "none"]
SomeRoles == [ann |-> "operator"]
Certified == INSTANCE Console WITH
  Peers <- {"p", "q"}, HasToken <- TRUE, HasOidc <- FALSE, Production <- TRUE, RateMax <- 2,
  CertRole <- [none |-> "none", cn |-> "operator"]

\* Two proxies and two clients, in the orders the documentation gives.
SomeOrders == {<<"proxy_protocol", "x-forwarded-for">>,
               <<"x-forwarded-for", "forwarded", "header">>, <<"header", "x-forwarded-for">>}

\* One request at a time on the combinations of what a route may ask for; and two at
\* once on a route that asks for everything, with a budget that does not cover both.
SomeRoutes == {t \in Route : /\ ~(t.complete /\ t.spool) => t.on_truncated = t.on_parse_error
                             /\ t.l1 = "shadow" => t.authz = "none"
                             /\ t.body_rules <=> t.authz # "closed"}
Closed == [complete |-> TRUE, on_truncated |-> "deny", on_parse_error |-> "deny",
           spool |-> TRUE, l1 |-> "skip", body_rules |-> FALSE, authz |-> "closed"]
Alone == \E r \in Clients : \A q \in Clients \ {r} : stage'[q] = "idle"
Pair == \A r \in Clients : /\ stage'[r] = "https" => ctx'[r].route = Closed
                           /\ stage'[r] = "abuse" => ctx'[r].jwt
                           /\ ~ctx'[r].upgrade /\ ~ctx'[r].skip

\* A service that answers in every way, on routes that fail closed and open.
Block == [jwt |-> TRUE, socket |-> "unix:///absolute", action |-> "read", timeout_ms |-> 1,
          resource |-> [from |-> "path", name |-> <<"id">>], fail_mode |-> "closed"]
InBody == [from |-> "body", name |-> <<"account", "id">>]
Blocks == {Block, [Block EXCEPT !.fail_mode = "open"],
           [Block EXCEPT !.fail_mode = "open", !.resource = InBody, !.timeout_ms = -1],
           [Block EXCEPT !.jwt = FALSE], [Block EXCEPT !.socket = "tcp://"],
           [Block EXCEPT !.action = ""], [Block EXCEPT !.timeout_ms = 0],
           [Block EXCEPT !.timeout_ms = 3], [Block EXCEPT !.fail_mode = "fail_open"],
           [Block EXCEPT !.resource.name = <<"account", "id">>]}
Object(fields) == [kind |-> "object", fields |-> fields]
Account(id) == Object([account |-> Object([id |-> id])])
About(params, body) == [principal |-> TRUE, params |-> params, body |-> body]
Blank == [kind |-> "blank"]
Abouts == {About({"id"}, Account([kind |-> "string"])), About({}, Account([kind |-> "null"])),
           About({"id"}, Blank), [About({"id"}, Blank) EXCEPT !.principal = FALSE]}
Reply(json, length, sent) ==
  [head |-> "ok", status |-> 200, json |-> json, length |-> length, doc |-> 2, sent |-> sent]
Replies == {Reply(json, length, sent) :
              json \in {"allow", "deny"}, length \in {-1, 1, 2, 3}, sent \in {1, 3, 4, 6}}
             \cup {[Reply("allow", 2, 4) EXCEPT !.head = "not UTF-8"],
                   [Reply("allow", 2, 4) EXCEPT !.status = 500], Reply("other", 2, 4)}

ASSUME Rate!RateAssumption /\ Flood!RateAssumption
ASSUME Certified!ConsoleSettings

-----------------------------------------------------------------------------
AdmissionInit ==
  /\ part \in {"rate", "flood", "risk", "abuse", "quota", "keys", "tokens", "certified",
               "oidc", "address", "gates", "pair", "authz"}
  /\ IF part = "flood" THEN Flood!RateInit ELSE Rate!RateInit
  /\ BehaviorInit /\ AbuseInit /\ QuotaInit
  /\ part # "keys" => published = [k1 |-> "A"]
  /\ JwtInit
  /\ IF part = "certified" THEN Certified!ConsoleInit ELSE ConsoleInit
  /\ IF part = "address"
     THEN forwarded \in {h \in Headers : Len(h) <= 1}
     ELSE /\ proxied = FALSE /\ accept = FALSE /\ order = <<"header", "x-forwarded-for">>
          /\ xff = <<>> /\ forwarded = <<>> /\ extra = <<>> /\ peer = "p"
  /\ AddressInit
  /\ accept => extra = <<>>
  /\ Init
  /\ IF part = "authz" THEN TRUE
     ELSE policy = Block /\ request = About({"id"}, Blank) /\ answer = Reply("allow", 2, 4)
  /\ AuthzInit

AdmissionNext ==
  \/ /\ UNCHANGED <<part, behaviorVars, abuseVars, quotaVars, jwtVars, consoleVars, addressVars,
                      vars, authzVars>>
     /\ \/ part = "rate" /\ Rate!RateNext
        \/ part = "flood" /\ Flood!RateNext
  \/ /\ UNCHANGED <<part, rateVars, abuseVars, quotaVars, jwtVars, consoleVars, addressVars,
                      vars, authzVars>>
     /\ part = "risk" /\ BehaviorNext
  \/ /\ UNCHANGED <<part, rateVars, behaviorVars, quotaVars, jwtVars, consoleVars, addressVars,
                      vars, authzVars>>
     /\ part = "abuse" /\ AbuseNext
  \/ /\ UNCHANGED <<part, rateVars, behaviorVars, abuseVars, jwtVars, consoleVars, addressVars,
                      vars, authzVars>>
     /\ part = "quota" /\ QuotaNext
  \/ /\ UNCHANGED <<part, rateVars, behaviorVars, abuseVars, quotaVars, consoleVars, addressVars,
                      vars, authzVars>>
     /\ \/ part = "keys" /\ JwtNext /\ Rotation
        \/ part = "tokens" /\ JwtNext /\ Spending
  \/ /\ UNCHANGED <<part, rateVars, behaviorVars, abuseVars, quotaVars, jwtVars, addressVars,
                      vars, authzVars>>
     /\ \/ part = "certified" /\ Certified!ConsoleNext
        \/ part = "oidc" /\ ConsoleNext
  \/ /\ UNCHANGED <<part, rateVars, behaviorVars, abuseVars, quotaVars, jwtVars, consoleVars,
                      vars, authzVars>>
     /\ part = "address" /\ AddressNext
  \/ /\ UNCHANGED <<part, rateVars, behaviorVars, abuseVars, quotaVars, jwtVars, consoleVars,
                      addressVars, authzVars>>
     /\ \/ part = "gates" /\ Next /\ Alone
        \/ part = "pair" /\ Next /\ Pair
  \/ /\ UNCHANGED <<part, rateVars, behaviorVars, abuseVars, quotaVars, jwtVars, consoleVars,
                      addressVars, vars>>
     /\ part = "authz" /\ AuthzNext

AdmissionSpec ==
  AdmissionInit /\ [][AdmissionNext]_<<part, rateVars, behaviorVars, abuseVars, quotaVars,
                                       jwtVars, consoleVars, addressVars, vars, authzVars>>

Symmetry == Permutations(Clients)

-----------------------------------------------------------------------------
\* What the properties of the modules say, here.
WindowHeld == IF part = "flood" THEN Flood!WindowHeld ELSE Rate!WindowHeld
=============================================================================
