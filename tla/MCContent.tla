------------------------------ MODULE MCContent ------------------------------
(***************************************************************************)
(* What is in a request and in its answer, on small instances: the answer  *)
(* under DLP (ResponseDlp) and the cards in it (CardMask), the GraphQL and *)
(* OpenAPI rules for a body (Graphql, OpenApi), the routes that say which  *)
(* rules apply (RoutePolicy), and the lists of trusted edges (Cidrs).      *)
(* They keep separate state: a behaviour is one of the instance that       *)
(* `component` names, and the others stay as they begin.                   *)
(***************************************************************************)
EXTENDS MCResponseDlp, MCSchemas, MCSites, Cidrs, TLC

VARIABLES component,
          text, i, masked, count,
          schemas, api, request, matched, conforms,
          query_form, left, query, nest, want, head, ops, frags, frames, stack, stats, work,
          totals, ruling,
          site, compiled, merging, routes, asked, found

cardVars == <<text, i, masked, count>>
apiVars == <<schemas, api, request, matched, conforms>>
graphqlVars == <<query_form, left, query, nest, want, head, ops, frags, frames, stack, stats,
                 work, totals, ruling>>
routeVars == <<site, compiled, merging, routes, asked, found>>

-----------------------------------------------------------------------------
\* Texts of up to six characters: digits, a space (-1) and a letter (-3).
Cards == INSTANCE CardMask WITH
  Texts <- UNION {[1..n -> {1, 9, -1, -3}] : n \in 1..6}, MinDigits <- 2, MaxDigits <- 3

\* Every composition of small schemas; and every route of a small document.
Bodies == INSTANCE OpenApi WITH
  Docs <- Tables, Specs <- {Unset}, Requests <- BodyRequests, MaxSchemaDepth <- 8,
  doc <- schemas, spec <- api, verdict <- conforms
Paths == INSTANCE OpenApi WITH
  Docs <- {OneTable}, Specs <- Apis, Requests <- PathRequests, MaxSchemaDepth <- 4,
  doc <- schemas, spec <- api, verdict <- conforms

\* Every query of six lexemes; and batches of longer ones that spread a fragment.
Limits(depth, complexity, aliases, fragments) ==
  [max_depth |-> depth, max_complexity |-> complexity, max_aliases |-> aliases,
   max_fragments |-> fragments, max_operations |-> {}, introspection |-> {},
   persisted_only |-> {}, default_list_size |-> {2}]
Braces == {<<"{">>, <<"}">>}
Fragment(names) == {"spread", "fragment"} \X names
ShortLexemes(q) ==
  Braces \cup Fragment({"A"})
    \cup ({"field"} \X {"plain", "alias", "schema", "list", "var"})
    \cup {<<"inline">>, <<"operation">>, <<"bad">>}
LongLexemes(q) == Braces \cup Fragment({"A"}) \cup {<<"field", "plain">>}
SiteLimits == Limits({2}, {3}, {}, {2})
RouteLimits == Limits({}, {4}, {1}, {})
TightLimits == Limits({1}, {1}, {}, {})
Queries == INSTANCE Graphql WITH
  Lexemes <- ShortLexemes, Fragments <- {"A"}, Site <- SiteLimits, Route <- RouteLimits,
  Production <- TRUE, ListArg <- 8, DefaultListSize <- 2, HardDepth <- 3, HardComplexity <- 6,
  HardOperations <- 2, Word <- 7, MaxLexemes <- 6, MaxBatch <- 1,
  form <- query_form, verdict <- ruling
Batches == INSTANCE Graphql WITH
  Lexemes <- LongLexemes, Fragments <- {"A"}, Site <- TightLimits, Route <- TightLimits,
  Production <- TRUE, ListArg <- 3, DefaultListSize <- 2, HardDepth <- 3, HardComplexity <- 6,
  HardOperations <- 2, Word <- 7, MaxLexemes <- 9, MaxBatch <- 3,
  form <- query_form, verdict <- ruling

\* Sites of up to two entries, and targets spelled with up to three escapes.
Backends == INSTANCE RoutePolicy WITH
  Sites <- SomeSites, Uris <- SpelledUris, Media <- {{}, {"form"}}, Rounds <- 2,
  phase <- compiled, todo <- merging

\* Two edges of two lists each, of which one declares their length.
Lists == [f |-> <<<<{"f1"}, {"f1", "f2"}>>, <<{"f4"}, {"f5"}>>>>,
          c |-> <<<<{"c1"}, {"c2"}>>, <<{"c4"}, {"c4"}>>>>]
TwoEdges == <<"f", "c">>

ASSUME Cards!CardAssumption
ASSUME Backends!RouteAssumption

-----------------------------------------------------------------------------
Idle(running, pin) == component = running \/ pin

ContentInit ==
  /\ component \in {"dlp", "cards", "bodies", "paths", "queries", "batches", "routes", "edges"}
  /\ Init /\ Idle("dlp", action = "block")
  /\ IF component = "cards" THEN Cards!Init ELSE text = <<1>> /\ i = 1 /\ masked = {} /\ count = 0
  /\ CASE component = "bodies" -> Bodies!Init
       [] component = "paths" -> Paths!Init
       [] OTHER -> /\ schemas = OneTable /\ api = Unset /\ matched = {} /\ conforms = "pending"
                   /\ request = CHOOSE r \in BodyRequests : TRUE
  /\ IF component = "batches" THEN Batches!Init ELSE Queries!Init
  /\ component \notin {"queries", "batches"} =>
       query_form = [post |-> TRUE, path_ok |-> TRUE, dedicated |-> TRUE, body |-> "operations"]
  /\ site \in (IF component = "routes" THEN SomeSites ELSE {NoSite})
  /\ Backends!Init
  /\ CidrsInit

ContentNext ==
  /\ UNCHANGED component
  /\ \/ /\ component = "dlp" /\ Next
        /\ UNCHANGED <<cardVars, apiVars, graphqlVars, routeVars, cidrVars>>
     \/ /\ component = "cards" /\ Cards!Next
        /\ UNCHANGED <<vars, apiVars, graphqlVars, routeVars, cidrVars>>
     \/ /\ \/ component = "bodies" /\ Bodies!Next
           \/ component = "paths" /\ Paths!Next
        /\ UNCHANGED <<vars, cardVars, graphqlVars, routeVars, cidrVars>>
     \/ /\ \/ component = "queries" /\ Queries!Next
           \/ component = "batches" /\ Batches!Next
        /\ UNCHANGED <<vars, cardVars, apiVars, routeVars, cidrVars>>
     \/ /\ component = "routes" /\ Backends!Next
        /\ UNCHANGED <<vars, cardVars, apiVars, graphqlVars, cidrVars>>
     \/ /\ component = "edges" /\ CidrsNext
        /\ UNCHANGED <<vars, cardVars, apiVars, graphqlVars, routeVars>>

ContentSpec ==
  ContentInit /\ [][ContentNext]_<<component, vars, cardVars, apiVars, graphqlVars, routeVars,
                                     cidrVars>>

-----------------------------------------------------------------------------
\* What the properties of the modules say, here.
CardsMasked == Cards!CardsMasked
BodyContract == IF component = "paths" THEN Paths!BodyContract
                ELSE Bodies!BodyContract /\ Bodies!BodyComplete
LimitsExact == IF component = "batches" THEN Batches!LimitsExact ELSE Queries!LimitsExact
RoutesHold == Backends!RoutesHold
=============================================================================
