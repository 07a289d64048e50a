------------------------------- MODULE Windows -------------------------------
(***************************************************************************)
(* Sliding windows: the queues of time stamps that RateLimiter, Abuse,     *)
(* GraphqlQuota and ConnectionRate keep.  A stamp is kept as its age in    *)
(* ticks; a new one has age 0 and comes last.                              *)
(***************************************************************************)
EXTENDS Integers, Sequences

\* stamps.retain(|t| now.duration_since(*t) < window)
Retain(q, window) ==
  LET kept[i \in 0..Len(q)] == IF i = 0 THEN <<>>
                               ELSE IF q[i] < window THEN Append(kept[i - 1], q[i])
                               ELSE kept[i - 1]
  IN  kept[Len(q)]

\* A tick passes; ages are not told apart beyond `most`.
Aged(q, most) == [i \in DOMAIN q |-> IF q[i] < most THEN q[i] + 1 ELSE q[i]]
=============================================================================
