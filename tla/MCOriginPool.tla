---------------------------- MODULE MCOriginPool ----------------------------
(* Instances of OriginPool for TLC. *)
EXTENDS OriginPool, TLC

\* what clients send
Get == [path |-> "stream", idem |-> TRUE, truncated |-> FALSE]
Post == [path |-> "stream", idem |-> FALSE, truncated |-> FALSE]
GetTruncated == [path |-> "stream", idem |-> TRUE, truncated |-> TRUE]
GetCommitted == [path |-> "commit", idem |-> TRUE, truncated |-> FALSE]

GetOnly == {Get}
TwoPaths == {Get, GetCommitted}
AllKinds == {Get, Post, GetTruncated, GetCommitted}

Symmetry == Permutations(Requests)
=============================================================================
