----------------------------- MODULE ResponseDlp -----------------------------
(***************************************************************************)
(* The way of an origin's response through the gateway (proxy.rs, dlp.rs). *)
(* It either streams through Pingora, which hands it to                    *)
(* response_body_filter chunk by chunk, or it is read whole by             *)
(* commit_origin_response: under DLP_ACTION=block, and for every request   *)
(* that went through the spool.  The streams share the budget of           *)
(* DLP_MAX_IN_FLIGHT_BYTES.                                                *)
(*                                                                         *)
(* A response is a document:                                               *)
(*   kind     "text"; "packed" (gzip, deflate or brotli); "bomb" (packed,  *)
(*            and beyond the limit when inflated); "opaque" (not UTF-8);   *)
(*            "exempt" (signed, upgraded, streaming, binary, an encoding   *)
(*            that is not supported, or DLP_ENABLED=false)                 *)
(*   framing  "length", "chunked" or "close", what ends the body           *)
(*   len      its bytes; pii: where sensitive data ends in it, 0 if it has *)
(*            none                                                         *)
(*   partial  a 206 or a Content-Range                                     *)
(*   bodyless the answer to a HEAD, or a 304: len is declared, none follows*)
(*   keep     the origin leaves the connection open after it               *)
(***************************************************************************)
EXTENDS Integers, FiniteSetsExt, Budgets

CONSTANTS Responses,     \* requests that reach an origin
          Documents,     \* what origins may answer
          Actions,       \* the values of DLP_ACTION to consider
          MaxResponse,   \* DLP_MAX_RESPONSE_BYTES
          MaxInFlight    \* DLP_MAX_IN_FLIGHT_BYTES

Document == [kind : {"text", "packed", "bomb", "opaque", "exempt"},
             framing : {"length", "chunked", "close"}, len : Nat, pii : Nat,
             partial : BOOLEAN, bodyless : BOOLEAN, keep : BOOLEAN]

ASSUME DlpAssumption ==
  /\ IsFiniteSet(Responses)
  /\ MaxResponse \in Nat \ {0}
  /\ MaxInFlight \in Nat \ {0}
  /\ Actions \subseteq {"monitor", "redact", "block"}
  /\ Documents \subseteq Document
  /\ \A d \in Documents : d.pii <= d.len

VARIABLES
  action,    \* dlp_action, fixed for the process
  phase,     \* "idle", "stream", "commit", "read", "done"
  doc,       \* the response of the origin, once its head has been read
  got,       \* bytes that arrived from the origin
  buffer,    \* body_buffer, or what origin_roundtrip_blocking returned
  reserved,  \* dlp_reserved
  used,      \* dlp_budget.current
  skip,      \* skip_dlp
  sent,      \* bytes of the body the client has
  form,      \* "none", "raw", "framed" (chunk framing left in) or "masked"
  answer,    \* "none", "ok", "502", "503", "lost"
  seen       \* responses with a dlp_skip event

vars == <<action, phase, doc, got, buffer, reserved, used, skip, sent, form, answer, seen>>

NoDoc == [kind |-> "none"]

Init == /\ action \in Actions
        /\ phase = [r \in Responses |-> "idle"]
        /\ doc = [r \in Responses |-> NoDoc]
        /\ got = [r \in Responses |-> 0]
        /\ buffer = [r \in Responses |-> 0]
        /\ reserved = [r \in Responses |-> 0]
        /\ used = 0
        /\ skip = [r \in Responses |-> FALSE]
        /\ sent = [r \in Responses |-> 0]
        /\ form = [r \in Responses |-> "none"]
        /\ answer = [r \in Responses |-> "none"]
        /\ seen = {}

-----------------------------------------------------------------------------
(* dlp.rs: what an inspection says of the first n bytes of a document. *)

BodyLen(d) == IF d.bodyless THEN 0 ELSE d.len

\* sanitize_encoded_body_with: identity is read as it is; a packed body is
\* inspected only if all of it is there and it inflates within the limit.
Complete(d, n) == \/ d.kind \in {"text", "opaque"}
                  \/ d.kind = "packed" /\ n = BodyLen(d)

\* sanitize_body_with: what is not UTF-8 is passed as complete and clean.
Found(d, n) == d.kind # "opaque" /\ d.pii \in 1..n

Inspect(d, n) ==
  [complete |-> Complete(d, n),
   found    |-> Complete(d, n) /\ Found(d, n),
   form     |-> IF action = "redact" /\ Complete(d, n) /\ Found(d, n) THEN "masked" ELSE "raw"]

\* mutant: block does not refuse what it could not inspect
Rejects_Found(result) == action = "block" /\ result.found
Rejects(result) == action = "block" /\ (~result.complete \/ result.found)

-----------------------------------------------------------------------------
(* decorate_origin_response: the decision taken on the head. *)

Declared(d) == d.framing = "length"

DecorateRefuses(d) == /\ d.kind # "exempt"
                      /\ \/ action = "block" /\ Declared(d) /\ d.len > MaxResponse
                         \/ d.partial

\* mutant: the counter keeps what is released
Release_Forget(r) == UNCHANGED used /\ reserved' = [reserved EXCEPT ![r] = 0]
Release(r) == /\ used' = used - reserved[r]
              /\ reserved' = [reserved EXCEPT ![r] = 0]

\* The request ends; Drop of its context gives the reservation back.
Close(r, a) == /\ phase' = [phase EXCEPT ![r] = "done"]
               /\ answer' = [answer EXCEPT ![r] = a]
               /\ buffer' = [buffer EXCEPT ![r] = 0]
               /\ Release(r)

\* request_filter sends the request on: block commits unless the request asks
\* for an upgrade, a spooled request always commits.
Forward(r, spooled, upgrade) ==
  /\ phase[r] = "idle"
  /\ phase' = [phase EXCEPT ![r] =
       IF spooled \/ (action = "block" /\ ~upgrade) THEN "commit" ELSE "stream"]
  /\ UNCHANGED <<action, doc, got, buffer, reserved, used, skip, sent, form, answer, seen>>

-----------------------------------------------------------------------------
(* The streaming path. *)

\* upstream_response_filter
ResponseFilter(r, d) ==
  /\ phase[r] = "stream" /\ doc[r] = NoDoc
  /\ doc' = [doc EXCEPT ![r] = d]
  /\ IF DecorateRefuses(d)
       THEN /\ Close(r, "502")
            /\ UNCHANGED <<skip, seen>>
       ELSE /\ skip' = [skip EXCEPT ![r] = d.kind = "exempt"]
            /\ seen' = IF d.kind = "exempt" THEN seen \cup {r} ELSE seen
            /\ UNCHANGED <<phase, answer, buffer, reserved, used>>
  /\ UNCHANGED <<action, got, sent, form>>

Streaming(r) == phase[r] = "stream" /\ doc[r] # NoDoc

\* reserve: a compare-and-swap on the shared counter.
Fits(r, n) == buffer[r] + n <= MaxResponse /\ used + n <= MaxInFlight

\* response_body_filter, a chunk of n bytes that DLP no longer looks at.
ChunkPass(r, n) ==
  /\ Streaming(r) /\ skip[r]
  /\ n \in 1..(BodyLen(doc[r]) - got[r])
  /\ got' = [got EXCEPT ![r] = @ + n]
  /\ sent' = [sent EXCEPT ![r] = @ + n]
  /\ form' = [form EXCEPT ![r] = "raw"]
  /\ UNCHANGED <<action, phase, doc, buffer, reserved, used, skip, answer, seen>>

\* response_body_filter, a chunk that finds room.
ChunkBuffer(r, n) ==
  /\ Streaming(r) /\ ~skip[r]
  /\ n \in 1..(BodyLen(doc[r]) - got[r])
  /\ Fits(r, n)
  /\ got' = [got EXCEPT ![r] = @ + n]
  /\ buffer' = [buffer EXCEPT ![r] = @ + n]
  /\ reserved' = [reserved EXCEPT ![r] = @ + n]
  /\ used' = used + n
  /\ UNCHANGED <<action, phase, doc, skip, sent, form, answer, seen>>

\* The buffered bytes and the chunk that did not fit leave together.
\* mutant: the chunk that overflows is lost
Flushed_Dropped(r, n) == buffer[r]
Flushed(r, n) == buffer[r] + n

\* response_body_filter, a chunk that finds none: block gives up, the other
\* actions flush what is buffered with the chunk and stop inspecting.
ChunkOverflow(r, n) ==
  /\ Streaming(r) /\ ~skip[r]
  /\ n \in 1..(BodyLen(doc[r]) - got[r])
  /\ ~Fits(r, n)
  /\ got' = [got EXCEPT ![r] = @ + n]
  /\ IF action = "block"
       THEN /\ Close(r, "502")
            /\ UNCHANGED <<skip, sent, form, seen>>
       ELSE /\ Release(r)
            /\ skip' = [skip EXCEPT ![r] = TRUE]
            /\ sent' = [sent EXCEPT ![r] = Flushed(r, n)]
            /\ form' = [form EXCEPT ![r] = "raw"]
            /\ buffer' = [buffer EXCEPT ![r] = 0]
            /\ seen' = seen \cup {r}
            /\ UNCHANGED <<phase, answer>>
  /\ UNCHANGED <<action, doc>>

\* response_body_filter at end_of_stream.
EndOfStream(r) ==
  /\ Streaming(r) /\ got[r] = BodyLen(doc[r])
  /\ LET result == Inspect(doc[r], buffer[r])
     IN IF skip[r]
          THEN /\ Close(r, "ok")
               /\ UNCHANGED <<sent, form, seen>>
          ELSE IF Rejects(result)
            THEN /\ Close(r, "502")
                 /\ UNCHANGED <<sent, form, seen>>
            ELSE /\ Close(r, "ok")
                 /\ sent' = [sent EXCEPT ![r] = buffer[r]]
                 /\ form' = [form EXCEPT ![r] = result.form]
                 /\ seen' = IF result.complete THEN seen ELSE seen \cup {r}
  /\ UNCHANGED <<action, doc, got, skip>>

\* The origin or the client breaks the connection, or a read times out.
Broken(r) ==
  /\ phase[r] = "stream"
  /\ Close(r, "lost")
  /\ UNCHANGED <<action, doc, got, skip, sent, form, seen>>

-----------------------------------------------------------------------------
(* The committed path. *)

\* Chunk sizes and line ends that precede the bytes of a chunked body.
Wire(d) == IF d.framing = "chunked" /\ ~d.bodyless THEN d.len + 1 ELSE BodyLen(d)

\* Where read_capped stops by itself, without an end of file.
Wanted(d) == IF Declared(d) THEN Min({d.len, MaxResponse}) ELSE MaxResponse

\* read_http11_response_sync when the origin sends `wire` bytes of the body and
\* closes ("close") or stays silent until the read times out ("wait").
ReadFails(d, wire, after) ==
  \/ wire < Wanted(d) /\ after = "wait"
  \/ d.framing = "chunked" /\ wire < Wire(d) /\ wire < MaxResponse

ReadBytes(d, wire) ==
  IF d.framing = "chunked" /\ Wire(d) <= MaxResponse
    THEN BodyLen(d)
    ELSE Min({wire, Wanted(d)})

\* decode_chunked fails on a body cut at the cap, which is then kept as it is.
StillFramed(d) == d.framing = "chunked" /\ Wire(d) > MaxResponse

\* origin_roundtrip_blocking ends well.  A whole body is followed by a close
\* unless the origin keeps the connection: nothing asks it to close.
CommitRead(r, d, wire, after) ==
  /\ phase[r] = "commit"
  /\ wire \in 0..Wire(d)
  /\ wire = Wire(d) => after = IF d.keep THEN "wait" ELSE "close"
  /\ doc' = [doc EXCEPT ![r] = d]
  /\ got' = [got EXCEPT ![r] = wire]
  /\ IF ReadFails(d, wire, after)
       THEN Close(r, "503")
       ELSE /\ phase' = [phase EXCEPT ![r] = "read"]
            /\ buffer' = [buffer EXCEPT ![r] = ReadBytes(d, wire)]
            /\ UNCHANGED <<answer, reserved, used>>
  /\ UNCHANGED <<action, skip, sent, form, seen>>

\* No origin, or the connection fails.
CommitFails(r) ==
  /\ phase[r] = "commit"
  /\ Close(r, "503")
  /\ UNCHANGED <<action, doc, got, skip, sent, form, seen>>

Truncated(d, n) == IF Declared(d) THEN d.len > n ELSE n >= MaxResponse

\* The rest of commit_origin_response.
CommitAnswer(r) ==
  /\ phase[r] = "read"
  /\ LET d      == doc[r]
         n      == buffer[r]
         exempt == d.kind = "exempt"
         result == Inspect(d, n)
         raw    == IF StillFramed(d) THEN "framed" ELSE "raw"
     IN /\ IF \/ DecorateRefuses(d)
              \/ action = "block" /\ Truncated(d, n)
              \/ ~exempt /\ Rejects(result)
             THEN /\ Close(r, "502")
                  /\ UNCHANGED <<sent, form>>
             ELSE /\ Close(r, "ok")
                  /\ sent' = [sent EXCEPT ![r] = n]
                  /\ form' = [form EXCEPT ![r] =
                       IF ~exempt /\ result.form = "masked" THEN "masked" ELSE raw]
        /\ skip' = [skip EXCEPT ![r] = exempt]
        /\ seen' = IF exempt \/ (~DecorateRefuses(d) /\ action # "block" /\ ~result.complete)
                     THEN seen \cup {r} ELSE seen
  /\ UNCHANGED <<action, doc, got>>

-----------------------------------------------------------------------------
Step(r) == \/ \E s, u \in BOOLEAN : Forward(r, s, u)
           \/ \E d \in Documents : ResponseFilter(r, d)
           \/ \E n \in 1..Max({d.len : d \in Documents}) :
                ChunkPass(r, n) \/ ChunkBuffer(r, n) \/ ChunkOverflow(r, n)
           \/ EndOfStream(r)
           \/ Broken(r)
           \/ \E d \in Documents, after \in {"close", "wait"} : \E wire \in 0..Wire(d) :
                CommitRead(r, d, wire, after)
           \/ CommitFails(r)
           \/ CommitAnswer(r)

Next == \E r \in Responses : Step(r)

Spec == Init /\ [][Next]_vars

-----------------------------------------------------------------------------
(* Properties. *)

\* What the client has of the response, for the abstract specification.
Exposed(r) == form[r] \in {"raw", "framed"} /\ doc[r].pii \in 1..sent[r] /\ doc[r].kind # "opaque"

Fate(r) == IF answer[r] \in {"502", "503"} THEN "refused"
           ELSE IF answer[r] = "lost" THEN "lost"
           ELSE IF answer[r] = "ok"
             THEN IF form[r] = "masked" THEN "masked" ELSE IF Exposed(r) THEN "exposed" ELSE "raw"
           ELSE IF sent[r] > 0 THEN "passing" ELSE "pending"

ExemptNow == {r \in Responses : r \in seen /\ doc[r].kind = "exempt"}

Promise == INSTANCE DlpPromise WITH fate <- [r \in Responses |-> Fate(r)], exempt <- ExemptNow

\* The gateway keeps the promise of DlpPromise: what is delivered of a
\* response is all masked or all as the origin sent it, or the response is refused,
\* never a part of each; under block sensitive data that can be inspected never
\* leaves (README.md:295), and redact leaves it in the clear only with a dlp_skip
\* event (README.md:304). How much of a response is delivered is DeliveredWhole's
\* subject.
KeepsPromise == Promise!Spec

\* A reservation of the shared budget stands for buffered bytes and for
\* nothing else, whichever way the response ends (reserve_dlp, release_dlp,
\* Drop), and the streams together stay within DLP_MAX_IN_FLIGHT_BYTES.
BudgetHeld ==
  /\ used = Total(reserved)
  /\ \A r \in Responses : phase[r] = "stream" => reserved[r] = buffer[r]
  /\ used <= MaxInFlight

\* On the streaming path, and under block, what a client takes for the whole is the
\* whole. response_body_filter neither loses nor repeats bytes when it gives up on a
\* response half way: what has arrived is buffered or with the client, and a stream
\* that ends well has delivered all of it. Under block a body that was cut, by the cap
\* or by an origin that died, is refused and not delivered with the Content-Length of
\* what was read (proxy.rs:2438); one that only the close of the connection ends
\* cannot be told from a cut one. A committed answer under redact or monitor is
\* delivered as far as it was read, and of that nothing is said here.
DeliveredWhole ==
  [][\A r \in Responses :
       /\ phase[r] = "stream" =>
            /\ phase'[r] = "stream" => got'[r] = sent'[r] + buffer'[r]
            /\ answer'[r] = "ok" => sent'[r] = BodyLen(doc[r])
       /\ action = "block" /\ answer'[r] = "ok" /\ doc'[r].framing # "close" =>
            sent'[r] = BodyLen(doc'[r]) /\ form'[r] # "framed"]_vars

\* README.md:531: "`block` (502 if PII is found or the buffer overflows)": a
\* response that the origin finished is not refused for any other reason.
BlockRefusesForCause ==
  \A r \in Responses :
    LET d == doc[r]
    IN action = "block" /\ answer[r] \in {"502", "503"} /\ d # NoDoc /\ got[r] = Wire(d) =>
         d.partial \/ Found(d, BodyLen(d)) \/ Wire(d) > MaxResponse \/ d.kind = "bomb"
=============================================================================
