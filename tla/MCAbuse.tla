------------------------------- MODULE MCAbuse -------------------------------
(* An instance of Abuse for TLC: two sites, one with a shorter window. *)
EXTENDS Abuse

From(site) == [site |-> site, network |-> "n", fingerprint |-> "f", session |-> "none"]
Clients == {From("long"), From("short")}
SignUps == {[path |-> "signup", weak |-> FALSE, html |-> FALSE]}
TwoWindows == [long |-> 2, short |-> 1]
OneEach == [k \in Kinds |-> 1]
=============================================================================
