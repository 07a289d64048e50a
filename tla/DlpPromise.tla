----------------------------- MODULE DlpPromise -----------------------------
(***************************************************************************)
(* What the data-loss prevention of Ferroada promises about the responses  *)
(* of the origins, without buffers, budgets, chunks or encodings: what may *)
(* become of a response, and when sensitive data may reach the client in   *)
(* the clear.  README.md, "Outbound layer (DLP)", in a few actions.        *)
(***************************************************************************)
CONSTANTS Responses,   \* the responses of one execution
          Actions      \* the values of DLP_ACTION the process may run with

VARIABLES action,      \* DLP_ACTION: "monitor", "redact" or "block"
          fate,        \* what became of each response
          seen,        \* responses whose skip was recorded as an event
          exempt       \* responses of a kind that is never transformed

vars == <<action, fate, seen, exempt>>

\* "exposed": the client has sensitive data in the clear; "raw": it has the
\* origin's bytes and none of them is sensitive.
Fates == {"pending", "passing", "raw", "exposed", "masked", "refused", "lost"}

Init == /\ action \in Actions
        /\ fate = [r \in Responses |-> "pending"]
        /\ seen = {}
        /\ exempt = {}

Settle(r, f) == fate' = [fate EXCEPT ![r] = f]

\* What the gateway may find out on the way and must record: that the kind of
\* the response exempts it, or that it cannot be inspected.
Notes(r) == \/ UNCHANGED <<seen, exempt>>
            \/ seen' = seen \cup {r} /\ exempt' \in {exempt, exempt \cup {r}}

Exempt(r) == /\ fate[r] = "pending"
             /\ exempt' = exempt \cup {r}
             /\ seen' = seen \cup {r}
             /\ UNCHANGED <<action, fate>>

\* Sensitive data leaves in the clear only where somebody said it may: the
\* response is exempt, or the process only monitors, or redaction had to give
\* up on it, and then an event says so.
MayExpose(r) == \/ r \in exempt'
                \/ action = "monitor"
                \/ action = "redact" /\ r \in seen'

\* The first part of a response that is passed on as it comes.
Pass(r) == /\ fate[r] = "pending"
           /\ r \in exempt \/ action # "block"
           /\ seen' = seen \cup {r}
           /\ Settle(r, "passing")
           /\ UNCHANGED <<action, exempt>>

Deliver(r) == /\ fate[r] \in {"pending", "passing"}
              /\ Notes(r)
              /\ \/ Settle(r, "raw")
                 \/ MayExpose(r) /\ Settle(r, "exposed")
                 \/ action = "redact" /\ fate[r] = "pending" /\ Settle(r, "masked")
              /\ UNCHANGED action

Refuse(r) == /\ fate[r] = "pending"
             /\ Notes(r)
             /\ Settle(r, "refused")
             /\ UNCHANGED action

Lose(r) == /\ fate[r] \in {"pending", "passing"}
           /\ Settle(r, "lost")
           /\ UNCHANGED <<action, seen, exempt>>

Next == \E r \in Responses : Exempt(r) \/ Pass(r) \/ Deliver(r) \/ Refuse(r) \/ Lose(r)

Spec == Init /\ [][Next]_vars
=============================================================================
