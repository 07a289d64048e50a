------------------------------- MODULE Budgets -------------------------------
(***************************************************************************)
(* A budget: what several owners hold of one counter (the ByteBudgets and  *)
(* file slots of src/src/proxy.rs and src/src/spool.rs).  `held` gives the *)
(* units of each owner, and the total is the number of units held.  It is  *)
(* stated as a cardinality and not as a fold, so that it can be reasoned   *)
(* about without induction over the owners.                                *)
(***************************************************************************)
EXTENDS Integers, FiniteSets

Units(held) == UNION {{o} \X (1 .. held[o]) : o \in DOMAIN held}

Total(held) == Cardinality(Units(held))
=============================================================================
