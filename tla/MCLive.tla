-------------------------------- MODULE MCLive --------------------------------
(***************************************************************************)
(* What must happen in the end, on one instance each: connection slots     *)
(* come back (ActiveConnections), requests drain (RequestPipeline) and     *)
(* pools follow the policy (PolicyReload); and, beside them, two reloads   *)
(* at once and the connection windows (ConnectionRate).  A behaviour is    *)
(* one of the part that `part` names; the others stay at their initial     *)
(* state, so a step is owed only by the component that runs.               *)
(***************************************************************************)
EXTENDS ActiveConnections, PolicyReload, ConnectionRate, TLC

CONSTANTS r1, r2, p1, p2, p3, s1, s2, hup, post

VARIABLES part,
          stage, in_flight, used, ctx

pipelineVars == <<stage, in_flight, used, ctx>>

\* Two requests, one in-flight slot.
Plain == [complete |-> FALSE, on_truncated |-> "monitor", on_parse_error |-> "monitor",
          spool |-> FALSE, l1 |-> "skip", body_rules |-> FALSE, authz |-> "none"]
Pipeline == INSTANCE RequestPipeline WITH
  Requests <- {r1, r2}, Routes <- {Plain}, MaxInFlight <- 1, MaxBody <- 1, MaxDecoded <- 1,
  BudgetMax <- 2, Inflate <- 1, Coraza <- FALSE, DlpBlock <- TRUE

\* p1 and p3 balance one site each, p2 both; the operator goes forward.
ThreePolicies == {p1, p2, p3}
TwoSites == {s1, s2}
Forward == {<<p1, p2>>, <<p2, p3>>}
BalancedSites == p1 :> {s1} @@ p2 :> {s1, s2} @@ p3 :> {s2}
\* Two requests while SIGHUP reloads; and one while POST /api/reload does too.
OneReloader == loading'[post].at = "idle"
TwoReloaders == file' \in {p1, p2} /\ req'[r2].at = "idle"

ASSUME Pipeline!PipelineAssumption

LiveInit ==
  /\ part \in {"slots", "pipeline", "policy", "reloads", "rate"}
  /\ Init /\ Pipeline!Init /\ ReloadInit /\ WindowInit
  /\ part # "slots" => addr = [c \in Conns |-> CHOOSE a \in Addrs : TRUE]

LiveNext ==
  \/ part = "slots" /\ Next /\ UNCHANGED <<part, pipelineVars, reloadVars, windowVars>>
  \/ part = "pipeline" /\ Pipeline!Next /\ UNCHANGED <<part, vars, reloadVars, windowVars>>
  \/ part = "policy" /\ ReloadNext /\ OneReloader
                     /\ UNCHANGED <<part, vars, pipelineVars, windowVars>>
  \/ part = "reloads" /\ ReloadNext /\ TwoReloaders
                      /\ UNCHANGED <<part, vars, pipelineVars, windowVars>>
  \/ part = "rate" /\ WindowNext /\ UNCHANGED <<part, vars, pipelineVars, reloadVars>>

\* The fairness of ActiveConnections, RequestPipeline and PolicyReload.
LiveFairness ==
  /\ \A c \in Conns : WF_vars(part = "slots" /\ Step(c))
  /\ \A a \in Addrs : WF_vars(part = "slots" /\ Expire(a))
  /\ \A r \in {r1, r2} : WF_pipelineVars(part = "pipeline" /\ Pipeline!Step(r))
  /\ WF_reloadVars(part = "policy" /\ (Swap(hup) \/ Expose(hup)))
  /\ \A r \in {r1, r2} : WF_reloadVars(part = "policy" /\ Request(r))

LiveSpec ==
  LiveInit /\ [][LiveNext]_<<part, vars, pipelineVars, reloadVars, windowVars>> /\ LiveFairness

\* RequestPipeline: what its property says, here.
Drained == Pipeline!Drained
=============================================================================
