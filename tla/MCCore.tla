-------------------------------- MODULE MCCore --------------------------------
(***************************************************************************)
(* The origins a request picks from (OriginPool) and the body it spools    *)
(* (Spool), on one instance each.  A behaviour is one of the component     *)
(* that `part` names, and the other stays at its initial state.            *)
(***************************************************************************)
EXTENDS OriginPool, Spool, TLC

Get == [path |-> "stream", idem |-> TRUE, truncated |-> FALSE]
GetOnly == {Get}

VARIABLE part

CoreInit == /\ part \in {"origins", "spool"}
            /\ Init /\ SpoolInit
            /\ part # "spool" => wiper.on

CoreNext ==
  \/ part = "origins" /\ Next /\ UNCHANGED <<part, spoolVars>>
  \/ part = "spool" /\ SpoolNext /\ UNCHANGED <<part, vars>>

CoreSpec == CoreInit /\ [][CoreNext]_<<part, vars, spoolVars>>

Symmetry == Permutations(Requests) \cup Permutations(Bodies)
=============================================================================
