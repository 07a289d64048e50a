---------------------------- MODULE MCRoutePolicy ----------------------------
(* The routes of small sites. *)
EXTENDS RoutePolicy, MCSites

AnyMedia == {{}, {"form"}}
=============================================================================
