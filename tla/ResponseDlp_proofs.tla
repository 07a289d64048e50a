-------------------------- MODULE ResponseDlp_proofs --------------------------
(***************************************************************************)
(* Theorems about ResponseDlp for any finite set of responses, any         *)
(* documents, any limits and every DLP_ACTION: the shared budget is what   *)
(* the streams have buffered, what is delivered as whole is whole, and     *)
(* the gateway implements DlpPromise.                                      *)
(***************************************************************************)
EXTENDS ResponseDlp, Lemmas

Phases == {"idle", "stream", "commit", "read", "done"}
Forms == {"none", "raw", "framed", "masked"}

Types ==
  /\ action \in Actions
  /\ phase \in [Responses -> Phases]
  /\ doc \in [Responses -> Documents \cup {NoDoc}]
  /\ got \in [Responses -> Nat]
  /\ buffer \in [Responses -> Nat]
  /\ reserved \in [Responses -> Nat]
  /\ used \in Int
  /\ skip \in [Responses -> BOOLEAN]
  /\ sent \in [Responses -> Nat]
  /\ form \in [Responses -> Forms]
  /\ answer \in [Responses -> {"none", "ok", "502", "503", "lost"}]
  /\ seen \subseteq Responses

\* nothing of the response has left, and nobody has said anything of it
Untouched(r) == /\ sent[r] = 0 /\ form[r] = "none" /\ ~skip[r]
                /\ r \notin seen /\ reserved[r] = 0

\* before the head of the response was read
Begun(r) == /\ phase[r] \in {"idle", "commit"} =>
                 Untouched(r) /\ doc[r] = NoDoc /\ got[r] = 0 /\ buffer[r] = 0
            /\ phase[r] # "done" => answer[r] = "none"

\* response_body_filter: everything is buffered, or DLP has let go of the response
StreamKept(r) ==
  phase[r] = "stream" =>
    /\ reserved[r] = buffer[r]
    /\ got[r] = sent[r] + buffer[r]
    /\ doc[r] = NoDoc => got[r] = 0 /\ ~skip[r] /\ r \notin seen
    /\ ~skip[r] => sent[r] = 0 /\ form[r] = "none" /\ doc[r].kind # "exempt"
    /\ skip[r] => /\ buffer[r] = 0 /\ form[r] \in {"none", "raw"} /\ r \in seen
                  /\ doc[r].kind = "exempt" \/ action # "block"

\* commit_origin_response holds what the origin's round trip read
CommitKept(r) ==
  phase[r] = "read" =>
    /\ Untouched(r)
    /\ doc[r] \in Documents
    /\ got[r] \in 0 .. Wire(doc[r])
    /\ buffer[r] = ReadBytes(doc[r], got[r])
    /\ ~(doc[r].framing = "chunked" /\ got[r] < Wire(doc[r]) /\ got[r] < MaxResponse)

\* the response is over
DoneKept(r) ==
  /\ phase[r] = "done" => reserved[r] = 0
  /\ action = "block" /\ answer[r] = "ok" /\ doc[r].framing # "close"
       => sent[r] = BodyLen(doc[r]) /\ form[r] # "framed"

Kept(r) == Begun(r) /\ StreamKept(r) /\ CommitKept(r) /\ DoneKept(r)

\* The invariant behind all three theorems.
DlpInv == Types /\ \A r \in Responses : Kept(r)
Budget == used = Total(reserved) /\ used <= MaxInFlight

-----------------------------------------------------------------------------
(* What the model is built from. *)

\* Min of two numbers, as read_capped uses it.
LEMMA MinPair ==
  ASSUME NEW a \in Nat, NEW b \in Nat
  PROVE  /\ Min({a, b}) \in Nat /\ Min({a, b}) <= a /\ Min({a, b}) <= b
         /\ Min({a, b}) = a \/ Min({a, b}) = b
<1>1. \E x \in {a, b} : \A y \in {a, b} : x <= y
  <2>1. a <= b \/ b <= a
    OBVIOUS
  <2> QED BY <2>1
<1>2. Min({a, b}) \in {a, b} /\ \A y \in {a, b} : Min({a, b}) <= y
  BY <1>1 DEF Min
<1> QED BY <1>2

\* The measures of a document are numbers, and a document is there or not.
LEMMA DocTypes ==
  ASSUME NEW d \in Documents
  PROVE  /\ d # NoDoc /\ d.kind # "none"
         /\ d.len \in Nat /\ d.pii \in Nat
         /\ BodyLen(d) \in Nat /\ Wire(d) \in Nat /\ Wanted(d) \in Nat /\ Wanted(d) <= MaxResponse
         /\ \A n \in Nat : ReadBytes(d, n) \in Nat
<1>1. d \in Document
  BY DlpAssumption
<1>2. d.len \in Nat /\ d.pii \in Nat /\ d.kind # "none" /\ d.bodyless \in BOOLEAN
  BY <1>1 DEF Document
<1>3. d # NoDoc
  BY <1>2 DEF NoDoc
<1>4. BodyLen(d) \in Nat
  BY <1>2 DEF BodyLen
<1>5. Wire(d) \in Nat
  BY <1>2, <1>4 DEF Wire
<1>6. Wanted(d) \in Nat /\ Wanted(d) <= MaxResponse
  BY <1>2, MinPair, DlpAssumption DEF Wanted
<1>7. \A n \in Nat : ReadBytes(d, n) \in Nat
  BY <1>4, <1>6, MinPair DEF ReadBytes
<1> QED BY <1>2, <1>3, <1>4, <1>5, <1>6, <1>7

\* A body that block delivers from the committed path is the whole body, decoded:
\* one that was cut is truncated or was never read to its end.
LEMMA CommittedWhole ==
  ASSUME NEW d \in Documents, NEW wire \in 0 .. Wire(d), d.framing # "close",
         ~(d.framing = "chunked" /\ wire < Wire(d) /\ wire < MaxResponse),
         ~Truncated(d, ReadBytes(d, wire))
  PROVE  ReadBytes(d, wire) = BodyLen(d) /\ ~StillFramed(d)
<1> USE DlpAssumption
<1>0. /\ d.len \in Nat /\ BodyLen(d) \in Nat /\ Wire(d) \in Nat /\ wire \in Nat
      /\ Wanted(d) \in Nat /\ d.framing \in {"length", "chunked"} /\ d.bodyless \in BOOLEAN
  BY DocTypes DEF Document
<1>1. CASE d.framing = "length"
  <2>1. ReadBytes(d, wire) = Min({wire, Min({d.len, MaxResponse})})
    BY <1>1 DEF ReadBytes, Wanted, Declared
  <2>2. Wire(d) = BodyLen(d) /\ BodyLen(d) <= d.len /\ (~d.bodyless => BodyLen(d) = d.len)
    BY <1>0, <1>1 DEF Wire, BodyLen
  <2>3. ReadBytes(d, wire) <= wire /\ ReadBytes(d, wire) \in Nat
    BY <1>0, <2>1, MinPair
  <2>4. ~(d.len > ReadBytes(d, wire))
    BY <1>1 DEF Truncated, Declared
  <2>5. wire <= BodyLen(d)
    BY <1>0, <2>2
  <2>6. ReadBytes(d, wire) = BodyLen(d)
    BY <1>0, <2>2, <2>3, <2>4, <2>5
  <2> QED BY <1>1, <2>6 DEF StillFramed
<1>2. CASE d.framing = "chunked"
  <2>0. ReadBytes(d, wire) \in Nat
    BY <1>0, DocTypes
  <2>1. ReadBytes(d, wire) < MaxResponse /\ Wanted(d) = MaxResponse
    BY <1>2, <2>0 DEF Truncated, Declared, Wanted
  <2>2. CASE Wire(d) <= MaxResponse
    BY <1>0, <1>2, <2>2 DEF ReadBytes, StillFramed
  <2>3. CASE ~(Wire(d) <= MaxResponse)
    <3>1. wire >= MaxResponse
      BY <1>0, <1>2, <2>3
    <3>2. ReadBytes(d, wire) = Min({wire, MaxResponse})
      BY <2>1, <2>3 DEF ReadBytes
    <3>3. ReadBytes(d, wire) = wire \/ ReadBytes(d, wire) = MaxResponse
      BY <1>0, <3>2, MinPair
    <3> QED BY <1>0, <2>1, <3>1, <3>3
  <2> QED BY <2>2, <2>3
<1> QED BY <1>0, <1>1, <1>2

-----------------------------------------------------------------------------
(* The invariant. A step belongs to one response: the others keep theirs. *)

Rests(q) ==
  /\ UNCHANGED <<action, phase[q], doc[q], got[q], buffer[q], reserved[q], skip[q], sent[q],
                 form[q], answer[q]>>
  /\ q \in seen' <=> q \in seen

\* Kept speaks of one response, and of DLP_ACTION, which never changes.
LEMMA KeptFrame ==
  ASSUME NEW q, Kept(q), Rests(q)
  PROVE  Kept(q)'
  BY DEF Rests, Kept, Begun, StreamKept, CommitKept, DoneKept, Untouched, BodyLen, Wire, ReadBytes,
         Wanted, Declared, NoDoc

\* ... and a step of one response leaves the state of the others alone.
LEMMA StepOwn ==
  ASSUME Types, NEW r \in Responses, Step(r), NEW q \in Responses \ {r}
  PROVE  Rests(q)
<1> USE DEF Types, Rests
<1>1. CASE \E s, u \in BOOLEAN : Forward(r, s, u)
  BY <1>1 DEF Forward
<1>2. CASE \E d \in Documents : ResponseFilter(r, d)
  BY <1>2 DEF ResponseFilter, Close, Release
<1>3. ASSUME NEW n, ChunkPass(r, n) \/ ChunkBuffer(r, n)
      PROVE  Rests(q)
  BY <1>3 DEF ChunkPass, ChunkBuffer
<1>4. ASSUME NEW n, ChunkOverflow(r, n) PROVE Rests(q)
  BY <1>4 DEF ChunkOverflow, Close, Release
<1>5. CASE EndOfStream(r)
  BY <1>5 DEF EndOfStream, Close, Release
<1>6. CASE Broken(r) \/ CommitFails(r)
  BY <1>6 DEF Broken, CommitFails, Close, Release
<1>7. ASSUME NEW d, NEW wire, NEW after, CommitRead(r, d, wire, after)
      PROVE  Rests(q)
  BY <1>7 DEF CommitRead, Close, Release
<1>8. CASE CommitAnswer(r)
  <2>1. Close(r, "502") \/ Close(r, "ok")
    BY <1>8 DEF CommitAnswer
  <2>2. sent' = sent \/ sent' = [sent EXCEPT ![r] = buffer[r]]
    BY <1>8 DEF CommitAnswer
  <2>3. form' = form \/ \E f : form' = [form EXCEPT ![r] = f]
    BY <1>8 DEF CommitAnswer
  <2>4. \E b : skip' = [skip EXCEPT ![r] = b]
    BY <1>8 DEF CommitAnswer
  <2>5. seen' = seen \/ seen' = seen \cup {r}
    BY <1>8 DEF CommitAnswer
  <2>6. UNCHANGED <<action, doc, got>>
    BY <1>8 DEF CommitAnswer
  <2> QED BY <2>1, <2>2, <2>3, <2>4, <2>5, <2>6 DEF Close, Release
<1> QED BY <1>1, <1>2, <1>3, <1>4, <1>5, <1>6, <1>7, <1>8 DEF Step

\* What the end of a request sets is well typed.
LEMMA CloseTypes ==
  ASSUME Types, NEW r \in Responses, NEW a \in {"ok", "502", "503", "lost"}, Close(r, a)
  PROVE  /\ phase' \in [Responses -> Phases]
         /\ answer' \in [Responses -> {"none", "ok", "502", "503", "lost"}]
         /\ buffer' \in [Responses -> Nat]
         /\ reserved' \in [Responses -> Nat]
         /\ used' \in Int
  BY DEF Close, Release, Types, Phases

\* An end that delivers nothing, or the whole under block, keeps the invariant.
LEMMA CloseKept ==
  ASSUME Types, NEW r \in Responses, NEW a \in {"ok", "502", "503", "lost"}, Close(r, a),
         UNCHANGED action,
         a = "ok" /\ action = "block" /\ doc'[r].framing # "close"
           => sent'[r] = BodyLen(doc'[r]) /\ form'[r] # "framed"
  PROVE  Kept(r)'
<1>1. phase'[r] = "done" /\ answer'[r] = a /\ reserved'[r] = 0
  BY DEF Close, Release, Types
<1> QED BY <1>1 DEF Kept, Begun, StreamKept, CommitKept, DoneKept, BodyLen

\* The choice between the streaming and the committed path.
LEMMA ForwardStep ==
  ASSUME Types, NEW r \in Responses, Kept(r), NEW s \in BOOLEAN, NEW u \in BOOLEAN,
         Forward(r, s, u)
  PROVE  Types' /\ Kept(r)'
<1>1. phase[r] = "idle" /\ phase'[r] \in {"commit", "stream"} /\ phase' \in [Responses -> Phases]
  BY DEF Forward, Types, Phases
<1>2. UNCHANGED <<action, doc, got, buffer, reserved, used, skip, sent, form, answer, seen>>
  BY DEF Forward
<1>3. Untouched(r) /\ doc[r] = NoDoc /\ got[r] = 0 /\ buffer[r] = 0 /\ answer[r] = "none"
  BY <1>1 DEF Kept, Begun
<1>4. Begun(r)' /\ CommitKept(r)' /\ DoneKept(r)'
  BY <1>1, <1>2, <1>3 DEF Begun, CommitKept, DoneKept, Untouched, NoDoc
<1>5. StreamKept(r)'
  BY <1>1, <1>2, <1>3 DEF StreamKept, Untouched, NoDoc
<1> QED BY <1>1, <1>2, <1>4, <1>5 DEF Types, Kept

\* The head of the response: refused, exempt, or to be searched.
LEMMA FilterStep ==
  ASSUME Types, NEW r \in Responses, Kept(r), NEW d \in Documents, ResponseFilter(r, d)
  PROVE  Types' /\ Kept(r)'
<1>0. /\ phase[r] = "stream" /\ doc[r] = NoDoc /\ doc' = [doc EXCEPT ![r] = d]
      /\ UNCHANGED <<action, got, sent, form>>
  BY DEF ResponseFilter
<1>1. CASE DecorateRefuses(d)
  <2>1. Close(r, "502") /\ UNCHANGED <<skip, seen>>
    BY <1>1 DEF ResponseFilter
  <2>2. Kept(r)'
    BY <1>0, <2>1, CloseKept
  <2> QED BY <1>0, <2>1, <2>2, CloseTypes DEF Types
<1>2. CASE ~DecorateRefuses(d)
  <2>1. /\ skip' = [skip EXCEPT ![r] = d.kind = "exempt"]
        /\ seen' = IF d.kind = "exempt" THEN seen \cup {r} ELSE seen
        /\ UNCHANGED <<phase, answer, buffer, reserved, used>>
    BY <1>2 DEF ResponseFilter
  <2>2. skip' \in [Responses -> BOOLEAN] /\ (skip'[r] <=> d.kind = "exempt") /\ doc'[r] = d
    BY <1>0, <2>1 DEF Types
  <2>3. Types'
    BY <1>0, <2>1, <2>2 DEF Types
  <2>4. /\ got[r] = 0 /\ ~skip[r] /\ r \notin seen /\ sent[r] = 0 /\ form[r] = "none"
        /\ reserved[r] = buffer[r] /\ got[r] = sent[r] + buffer[r] /\ buffer[r] \in Nat
        /\ answer[r] = "none"
    BY <1>0 DEF Kept, Begun, StreamKept, Types
  <2>5. buffer[r] = 0
    BY <2>4
  <2>6. StreamKept(r)'
    BY <1>0, <2>1, <2>2, <2>4, <2>5, DocTypes DEF StreamKept
  <2>7. Begun(r)' /\ CommitKept(r)' /\ DoneKept(r)'
    BY <1>0, <2>1, <2>4 DEF Begun, CommitKept, DoneKept
  <2> QED BY <2>3, <2>6, <2>7 DEF Kept
<1> QED BY <1>1, <1>2

\* What a step with a chunk of n bytes begins with.
LEMMA ChunkArrives ==
  ASSUME Types, NEW r \in Responses, Kept(r), NEW n,
         Streaming(r), n \in 1 .. (BodyLen(doc[r]) - got[r])
  PROVE  /\ phase[r] = "stream" /\ answer[r] = "none" /\ doc[r] \in Documents
         /\ doc[r] # NoDoc /\ n \in Nat \ {0}
         /\ {got[r], sent[r], buffer[r], reserved[r], got[r] + n, sent[r] + n, buffer[r] + n,
             reserved[r] + n} \subseteq Nat
<1>1. doc[r] \in Documents /\ phase[r] = "stream" /\ doc[r] # NoDoc
  BY DEF Streaming, Types
<1>2. BodyLen(doc[r]) \in Nat /\ {got[r], sent[r], buffer[r], reserved[r]} \subseteq Nat
  BY <1>1, DocTypes DEF Types
<1>3. n \in Nat \ {0}
  BY <1>2
<1>4. answer[r] = "none"
  BY <1>1 DEF Kept, Begun
<1> QED BY <1>1, <1>2, <1>3, <1>4

\* A chunk of a response DLP has let go of is sent on.
LEMMA PassStep ==
  ASSUME Types, NEW r \in Responses, Kept(r), NEW n, ChunkPass(r, n)
  PROVE  Types' /\ Kept(r)'
<1>0. /\ phase[r] = "stream" /\ answer[r] = "none" /\ doc[r] # NoDoc /\ n \in Nat
      /\ {got[r], sent[r], buffer[r], got[r] + n, sent[r] + n} \subseteq Nat
  BY ChunkArrives DEF ChunkPass
<1>1. /\ skip[r] /\ got' = [got EXCEPT ![r] = got[r] + n] /\ sent' = [sent EXCEPT ![r] = sent[r] + n]
      /\ form' = [form EXCEPT ![r] = "raw"]
      /\ UNCHANGED <<action, phase, doc, buffer, reserved, used, skip, answer, seen>>
  BY DEF ChunkPass
<1>2. got' \in [Responses -> Nat] /\ sent' \in [Responses -> Nat] /\ form' \in [Responses -> Forms]
  BY <1>0, <1>1 DEF Types, Forms
<1>3. Types'
  BY <1>1, <1>2 DEF Types
<1>4. got'[r] = got[r] + n /\ sent'[r] = sent[r] + n /\ form'[r] = "raw"
  BY <1>1 DEF Types
<1>5. got'[r] = sent'[r] + buffer[r]
  BY <1>0, <1>4 DEF Kept, StreamKept
<1>6. StreamKept(r)'
  BY <1>0, <1>1, <1>4, <1>5 DEF Kept, StreamKept, NoDoc
<1>7. Begun(r)' /\ CommitKept(r)' /\ DoneKept(r)'
  BY <1>0, <1>1 DEF Begun, CommitKept, DoneKept
<1> QED BY <1>3, <1>6, <1>7 DEF Kept

\* A chunk that fits is buffered and reserved.
LEMMA BufferStep ==
  ASSUME Types, NEW r \in Responses, Kept(r), NEW n, ChunkBuffer(r, n)
  PROVE  Types' /\ Kept(r)'
<1>0. /\ phase[r] = "stream" /\ answer[r] = "none" /\ doc[r] # NoDoc /\ n \in Nat
      /\ {got[r], sent[r], buffer[r], reserved[r], got[r] + n, buffer[r] + n,
          reserved[r] + n} \subseteq Nat
  BY ChunkArrives DEF ChunkBuffer
<1>1. /\ ~skip[r] /\ got' = [got EXCEPT ![r] = got[r] + n]
      /\ buffer' = [buffer EXCEPT ![r] = buffer[r] + n]
      /\ reserved' = [reserved EXCEPT ![r] = reserved[r] + n]
      /\ used' = used + n
      /\ UNCHANGED <<action, phase, doc, skip, sent, form, answer, seen>>
  BY DEF ChunkBuffer
<1>2. got' \in [Responses -> Nat] /\ buffer' \in [Responses -> Nat]
      /\ reserved' \in [Responses -> Nat]
  BY <1>0, <1>1 DEF Types
<1>3. used' \in Int
  BY <1>0, <1>1 DEF Types
<1>4. Types'
  BY <1>1, <1>2, <1>3 DEF Types
<1>5. got'[r] = got[r] + n /\ buffer'[r] = buffer[r] + n /\ reserved'[r] = reserved[r] + n
  BY <1>1 DEF Types
<1>6. got'[r] = sent[r] + buffer'[r] /\ reserved'[r] = buffer'[r]
  BY <1>0, <1>5 DEF Kept, StreamKept
<1>7. StreamKept(r)'
  BY <1>0, <1>1, <1>6 DEF Kept, StreamKept, NoDoc
<1>8. Begun(r)' /\ CommitKept(r)' /\ DoneKept(r)'
  BY <1>0, <1>1 DEF Begun, CommitKept, DoneKept
<1> QED BY <1>4, <1>7, <1>8 DEF Kept

\* A chunk that does not fit: block refuses, the others let go of the response.
LEMMA OverflowStep ==
  ASSUME Types, NEW r \in Responses, Kept(r), NEW n, ChunkOverflow(r, n)
  PROVE  Types' /\ Kept(r)'
<1>0. /\ phase[r] = "stream" /\ answer[r] = "none" /\ doc[r] # NoDoc /\ n \in Nat
      /\ {got[r], sent[r], buffer[r], got[r] + n, buffer[r] + n} \subseteq Nat
  BY ChunkArrives DEF ChunkOverflow
<1>1. ~skip[r] /\ got' = [got EXCEPT ![r] = got[r] + n] /\ UNCHANGED <<action, doc>>
  BY DEF ChunkOverflow
<1>2. got' \in [Responses -> Nat] /\ got'[r] = got[r] + n
  BY <1>0, <1>1 DEF Types
<1>3. CASE action = "block"
  <2>1. Close(r, "502") /\ UNCHANGED <<skip, sent, form, seen>>
    BY <1>3 DEF ChunkOverflow
  <2>2. Kept(r)'
    BY <1>1, <2>1, CloseKept
  <2>3. Types'
    BY <1>1, <1>2, <2>1, CloseTypes DEF Types
  <2> QED BY <2>2, <2>3
<1>4. CASE action # "block"
  <2>1. /\ used' = used - reserved[r] /\ reserved' = [reserved EXCEPT ![r] = 0]
        /\ skip' = [skip EXCEPT ![r] = TRUE]
        /\ sent' = [sent EXCEPT ![r] = buffer[r] + n]
        /\ form' = [form EXCEPT ![r] = "raw"]
        /\ buffer' = [buffer EXCEPT ![r] = 0]
        /\ seen' = seen \cup {r}
        /\ UNCHANGED <<phase, answer>>
    BY <1>4 DEF ChunkOverflow, Flushed, Release
  <2>2. /\ reserved' \in [Responses -> Nat] /\ skip' \in [Responses -> BOOLEAN]
        /\ sent' \in [Responses -> Nat] /\ form' \in [Responses -> Forms]
        /\ buffer' \in [Responses -> Nat] /\ seen' \subseteq Responses
    BY <1>0, <2>1 DEF Types, Forms
  <2>3. used' \in Int
    BY <2>1 DEF Types
  <2>4. Types'
    BY <1>1, <1>2, <2>1, <2>2, <2>3 DEF Types
  <2>5. /\ sent'[r] = buffer[r] + n /\ buffer'[r] = 0 /\ skip'[r]
        /\ form'[r] = "raw" /\ reserved'[r] = 0 /\ r \in seen'
    BY <2>1 DEF Types
  <2>6. got'[r] = sent'[r] + buffer'[r]
    BY <1>0, <1>1, <1>2, <2>5 DEF Kept, StreamKept
  <2>7. StreamKept(r)'
    BY <1>0, <1>1, <1>4, <2>1, <2>5, <2>6 DEF StreamKept, NoDoc
  <2>8. Begun(r)' /\ CommitKept(r)' /\ DoneKept(r)'
    BY <1>0, <1>1, <2>1 DEF Begun, CommitKept, DoneKept
  <2> QED BY <2>4, <2>7, <2>8 DEF Kept
<1> QED BY <1>3, <1>4

\* The ends of the streaming path.
LEMMA EndStep ==
  ASSUME Types, NEW r \in Responses, Kept(r), EndOfStream(r) \/ Broken(r) \/ CommitFails(r)
  PROVE  Types' /\ Kept(r)'
<1>1. CASE EndOfStream(r)
  <2>0. /\ phase[r] = "stream" /\ doc[r] # NoDoc /\ got[r] = BodyLen(doc[r])
        /\ UNCHANGED <<action, doc, got, skip>>
        /\ {got[r], sent[r], buffer[r]} \subseteq Nat
    BY <1>1 DEF EndOfStream, Streaming, Types
  <2>1. CASE skip[r]
    <3>1. Close(r, "ok") /\ UNCHANGED <<sent, form, seen>>
      BY <1>1, <2>1 DEF EndOfStream
    <3>2. sent[r] = BodyLen(doc[r]) /\ form[r] # "framed"
      BY <2>0, <2>1 DEF Kept, StreamKept
    <3>3. Kept(r)'
      BY <2>0, <3>1, <3>2, CloseKept
    <3> QED BY <2>0, <3>1, <3>3, CloseTypes DEF Types
  <2>2. CASE ~skip[r] /\ Rejects(Inspect(doc[r], buffer[r]))
    <3>1. Close(r, "502") /\ UNCHANGED <<sent, form, seen>>
      BY <1>1, <2>2 DEF EndOfStream
    <3>2. Kept(r)'
      BY <2>0, <3>1, CloseKept
    <3> QED BY <2>0, <3>1, <3>2, CloseTypes DEF Types
  <2>3. CASE ~skip[r] /\ ~Rejects(Inspect(doc[r], buffer[r]))
    <3>1. /\ Close(r, "ok")
          /\ sent' = [sent EXCEPT ![r] = buffer[r]]
          /\ form' = [form EXCEPT ![r] = Inspect(doc[r], buffer[r]).form]
          /\ seen' \in {seen, seen \cup {r}}
      BY <1>1, <2>3 DEF EndOfStream
    <3>2. Inspect(doc[r], buffer[r]).form \in {"raw", "masked"}
      BY DEF Inspect
    <3>3. /\ sent' \in [Responses -> Nat] /\ sent'[r] = buffer[r]
          /\ form' \in [Responses -> Forms] /\ form'[r] # "framed" /\ seen' \subseteq Responses
      BY <2>0, <3>1, <3>2 DEF Types, Forms
    <3>4. buffer[r] = BodyLen(doc[r])
      BY <2>0, <2>3 DEF Kept, StreamKept
    <3>5. Kept(r)'
      BY <2>0, <3>1, <3>3, <3>4, CloseKept
    <3> QED BY <2>0, <3>1, <3>3, <3>5, CloseTypes DEF Types
  <2> QED BY <2>1, <2>2, <2>3
<1>2. CASE Broken(r) \/ CommitFails(r)
  <2>1. PICK a \in {"lost", "503"} : Close(r, a)
    BY <1>2 DEF Broken, CommitFails
  <2>2. UNCHANGED <<action, doc, got, skip, sent, form, seen>>
    BY <1>2 DEF Broken, CommitFails
  <2>3. Kept(r)'
    BY <2>1, <2>2, CloseKept
  <2> QED BY <2>1, <2>2, <2>3, CloseTypes DEF Types
<1> QED BY <1>1, <1>2

\* The round trip of the committed path.
LEMMA ReadStep ==
  ASSUME Types, NEW r \in Responses, Kept(r), NEW d \in Documents, NEW wire \in 0 .. Wire(d),
         NEW after, CommitRead(r, d, wire, after)
  PROVE  Types' /\ Kept(r)'
<1>0. /\ phase[r] = "commit"
      /\ doc' = [doc EXCEPT ![r] = d] /\ got' = [got EXCEPT ![r] = wire]
      /\ UNCHANGED <<action, skip, sent, form, seen>>
  BY DEF CommitRead
<1>1. /\ doc' \in [Responses -> Documents \cup {NoDoc}] /\ got' \in [Responses -> Nat]
      /\ doc'[r] = d /\ got'[r] = wire
  BY <1>0, DocTypes DEF Types
<1>2. CASE ReadFails(d, wire, after)
  <2>1. Close(r, "503")
    BY <1>2 DEF CommitRead
  <2>2. Kept(r)'
    BY <1>0, <2>1, CloseKept
  <2> QED BY <1>0, <1>1, <2>1, <2>2, CloseTypes DEF Types
<1>3. CASE ~ReadFails(d, wire, after)
  <2>1. /\ phase' = [phase EXCEPT ![r] = "read"]
        /\ buffer' = [buffer EXCEPT ![r] = ReadBytes(d, wire)]
        /\ UNCHANGED <<answer, reserved, used>>
    BY <1>3 DEF CommitRead
  <2>2. /\ phase' \in [Responses -> Phases] /\ phase'[r] = "read"
        /\ buffer' \in [Responses -> Nat] /\ buffer'[r] = ReadBytes(d, wire)
    BY <2>1, DocTypes DEF Types, Phases
  <2>3. Types'
    BY <1>0, <1>1, <2>1, <2>2 DEF Types
  <2>4. ~(d.framing = "chunked" /\ wire < Wire(d) /\ wire < MaxResponse)
    BY <1>3 DEF ReadFails
  <2>5. Untouched(r)' /\ answer[r] = "none"
    BY <1>0, <2>1 DEF Kept, Begun, Untouched
  <2>6. CommitKept(r)'
    BY <1>1, <2>2, <2>4, <2>5 DEF CommitKept, ReadBytes, Wire, BodyLen, Wanted, Declared
  <2>7. Begun(r)' /\ StreamKept(r)' /\ DoneKept(r)'
    BY <2>1, <2>2, <2>5 DEF Begun, StreamKept, DoneKept
  <2> QED BY <2>3, <2>6, <2>7 DEF Kept
<1> QED BY <1>2, <1>3

\* The rest of commit_origin_response.
LEMMA AnswerStep ==
  ASSUME Types, NEW r \in Responses, Kept(r), CommitAnswer(r)
  PROVE  Types' /\ Kept(r)'
<1> DEFINE d == doc[r]
           n == buffer[r]
           result == Inspect(d, n)
           refused == \/ DecorateRefuses(d)
                      \/ action = "block" /\ Truncated(d, n)
                      \/ d.kind # "exempt" /\ Rejects(result)
<1>0. /\ phase[r] = "read" /\ UNCHANGED <<action, doc, got>>
      /\ skip' = [skip EXCEPT ![r] = d.kind = "exempt"]
      /\ seen' \in {seen, seen \cup {r}}
  BY DEF CommitAnswer
<1>1. skip' \in [Responses -> BOOLEAN] /\ seen' \subseteq Responses
  BY <1>0 DEF Types
<1>2. CASE refused
  <2>1. Close(r, "502") /\ UNCHANGED <<sent, form>>
    BY <1>2 DEF CommitAnswer
  <2>2. Kept(r)'
    BY <1>0, <2>1, CloseKept
  <2> QED BY <1>0, <1>1, <2>1, <2>2, CloseTypes DEF Types
<1>3. CASE ~refused
  <2>1. /\ Close(r, "ok") /\ sent' = [sent EXCEPT ![r] = n]
        /\ form' = [form EXCEPT ![r] = IF d.kind # "exempt" /\ result.form = "masked" THEN "masked"
                                       ELSE IF StillFramed(d) THEN "framed" ELSE "raw"]
    BY <1>3 DEF CommitAnswer
  <2>2. sent' \in [Responses -> Nat] /\ sent'[r] = n
    BY <2>1 DEF Types
  <2>3. form' \in [Responses -> Forms] /\ (form'[r] = "framed" => StillFramed(d))
    BY <2>1 DEF Types, Forms
  <2>4. action = "block" /\ d.framing # "close" => n = BodyLen(d) /\ ~StillFramed(d)
    <3> SUFFICES ASSUME action = "block", d.framing # "close" PROVE n = BodyLen(d) /\ ~StillFramed(d)
      OBVIOUS
    <3>1. /\ d \in Documents /\ got[r] \in 0 .. Wire(d) /\ n = ReadBytes(d, got[r])
          /\ ~(d.framing = "chunked" /\ got[r] < Wire(d) /\ got[r] < MaxResponse)
      BY <1>0 DEF Kept, CommitKept
    <3>2. ~Truncated(d, n)
      BY <1>3
    <3> HIDE DEF d, n
    <3> QED BY <3>1, <3>2, CommittedWhole
  <2>5. Kept(r)'
    BY <1>0, <2>1, <2>2, <2>3, <2>4, CloseKept
  <2> QED BY <1>0, <1>1, <2>1, <2>2, <2>3, <2>5, CloseTypes DEF Types
<1> QED BY <1>2, <1>3

\* Whatever step a response takes, the invariant holds for it and for the others.
LEMMA InvStep == DlpInv /\ [Next]_vars => DlpInv'
<1> SUFFICES ASSUME DlpInv, [Next]_vars PROVE DlpInv'
  OBVIOUS
<1>1. CASE UNCHANGED vars
  <2>1. Types'
    BY <1>1 DEF DlpInv, Types, vars
  <2>2. ASSUME NEW q \in Responses PROVE Kept(q)'
    BY <1>1, KeptFrame DEF DlpInv, Rests, vars
  <2> QED BY <2>1, <2>2 DEF DlpInv
<1>2. ASSUME NEW r \in Responses, Step(r) PROVE DlpInv'
  <2>0. Types /\ \A q \in Responses : Kept(q)
    BY DEF DlpInv
  <2>1. Types' /\ Kept(r)'
    <3>1. ASSUME NEW s \in BOOLEAN, NEW u \in BOOLEAN, Forward(r, s, u) PROVE Types' /\ Kept(r)'
      BY <2>0, <3>1, ForwardStep
    <3>2. ASSUME NEW d \in Documents, ResponseFilter(r, d) PROVE Types' /\ Kept(r)'
      BY <2>0, <3>2, FilterStep
    <3>3. ASSUME NEW n, ChunkPass(r, n) \/ ChunkBuffer(r, n) \/ ChunkOverflow(r, n)
          PROVE  Types' /\ Kept(r)'
      BY <2>0, <3>3, PassStep, BufferStep, OverflowStep
    <3>4. CASE EndOfStream(r) \/ Broken(r) \/ CommitFails(r)
      BY <2>0, <3>4, EndStep
    <3>5. ASSUME NEW d \in Documents, NEW wire \in 0 .. Wire(d), NEW after,
                 CommitRead(r, d, wire, after)
          PROVE  Types' /\ Kept(r)'
      BY <2>0, <3>5, ReadStep
    <3>6. CASE CommitAnswer(r)
      BY <2>0, <3>6, AnswerStep
    <3> QED BY <1>2, <3>1, <3>2, <3>3, <3>4, <3>5, <3>6 DEF Step
  <2>2. ASSUME NEW q \in Responses \ {r} PROVE Kept(q)'
    BY <1>2, <2>0, StepOwn, KeptFrame
  <2> QED BY <2>1, <2>2 DEF DlpInv
<1> QED BY <1>1, <1>2 DEF Next

\* No response has begun.
LEMMA InitInv == Init => DlpInv
<1> SUFFICES ASSUME Init PROVE DlpInv
  OBVIOUS
<1>1. Types
  BY DEF Init, Types, Phases, Forms
<1>2. ASSUME NEW r \in Responses PROVE Kept(r)
  BY DEF Init, Kept, Begun, StreamKept, CommitKept, DoneKept, Untouched
<1> QED BY <1>1, <1>2 DEF DlpInv

\* DlpInv holds in every reachable state.
THEOREM Invariance == Spec => []DlpInv
  BY InitInv, InvStep, PTL DEF Spec
-----------------------------------------------------------------------------
(* The shared budget. *)

\* A step moves the counter by what it adds to, or takes from, one reservation.
LEMMA StepReserves ==
  ASSUME DlpInv, NEW r \in Responses, Step(r)
  PROVE  /\ used' = used + reserved'[r] - reserved[r]
         /\ used' > used => used' <= MaxInFlight
<1>0. used \in Int /\ reserved \in [Responses -> Nat] /\ reserved[r] \in Nat
  BY DEF DlpInv, Types
<1>1. CASE UNCHANGED <<used, reserved>>
  BY <1>0, <1>1
<1>2. CASE Release(r)
  BY <1>0, <1>2 DEF Release
<1>3. CASE \E n : ChunkBuffer(r, n)
  <2>1. PICK n : ChunkBuffer(r, n)
    BY <1>3
  <2>2. n \in Nat \ {0}
    BY <2>1, ChunkArrives DEF DlpInv, ChunkBuffer
  <2>3. used' = used + n /\ reserved'[r] = reserved[r] + n /\ used + n <= MaxInFlight
    BY <1>0, <2>1 DEF ChunkBuffer, Fits
  <2> QED BY <1>0, <2>2, <2>3
<1>4. CASE ~\E n : ChunkBuffer(r, n)
  <2>1. Release(r) \/ UNCHANGED <<used, reserved>>
    <3>1. CASE (\E s, u \in BOOLEAN : Forward(r, s, u)) \/ \E n : ChunkPass(r, n)
      BY <3>1 DEF Forward, ChunkPass
    <3>2. CASE \/ \E d \in Documents : ResponseFilter(r, d)
               \/ \E d \in Documents, after \in {"close", "wait"} : \E wire \in 0 .. Wire(d) :
                    CommitRead(r, d, wire, after)
      BY <3>2 DEF ResponseFilter, CommitRead, Close
    <3>3. CASE \/ \E n : ChunkOverflow(r, n)
               \/ EndOfStream(r) \/ Broken(r) \/ CommitFails(r) \/ CommitAnswer(r)
      BY <3>3 DEF ChunkOverflow, EndOfStream, Broken, CommitFails, CommitAnswer, Close
    <3> QED BY <1>4, <3>1, <3>2, <3>3 DEF Step
  <2> QED BY <1>1, <1>2, <2>1
<1> QED BY <1>3, <1>4

\* Every step moves the shared budget as it moves what the streams reserved.
LEMMA BudgetStep == DlpInv /\ DlpInv' /\ Budget /\ [Next]_vars => Budget'
<1> SUFFICES ASSUME DlpInv, DlpInv', Budget, [Next]_vars PROVE Budget'
  OBVIOUS
<1>0. /\ reserved \in [Responses -> Nat] /\ reserved' \in [Responses -> Nat]
      /\ used \in Int /\ used' \in Int /\ MaxInFlight \in Nat /\ IsFiniteSet(Responses)
  BY DlpAssumption DEF DlpInv, Types
<1>1. CASE UNCHANGED vars
  BY <1>1 DEF Budget, vars
<1>2. ASSUME NEW r \in Responses, Step(r) PROVE Budget'
  <2>1. \A q \in Responses \ {r} : reserved'[q] = reserved[q]
    BY <1>2, StepOwn DEF DlpInv, Rests
  <2>2. Total(reserved') = Total(reserved) + reserved'[r] - reserved[r]
    BY <1>0, <2>1, TotalChange
  <2>3. /\ used' = used + reserved'[r] - reserved[r]
        /\ used' > used => used' <= MaxInFlight
    BY <1>2, StepReserves
  <2>4. used = Total(reserved) /\ used <= MaxInFlight
    BY DEF Budget
  <2>5. used' = Total(reserved')
    BY <2>2, <2>3, <2>4
  <2>6. used' <= MaxInFlight
    BY <1>0, <2>3, <2>4
  <2> QED BY <2>5, <2>6 DEF Budget
<1> QED BY <1>1, <1>2 DEF Next

\* dlp_budget.current is what the streams have buffered, for any number of them,
\* however they end, and never more than DLP_MAX_IN_FLIGHT_BYTES.
THEOREM BudgetIsHeld == Spec => []BudgetHeld
<1>1. Init => Budget
  <2> SUFFICES ASSUME Init PROVE Budget
    OBVIOUS
  <2>1. reserved \in [Responses -> Nat] /\ \A r \in Responses : reserved[r] = 0
    BY DEF Init
  <2>2. Total(reserved) = 0
    BY <2>1, TotalZero
  <2> QED BY <2>2, DlpAssumption DEF Init, Budget
<1>2. DlpInv /\ Budget => BudgetHeld
  BY DEF DlpInv, Kept, StreamKept, Budget, BudgetHeld
<1>3. DlpInv /\ DlpInv' /\ Budget /\ [Next]_vars => Budget'
  BY BudgetStep
<1> QED BY <1>1, <1>2, <1>3, Invariance, PTL DEF Spec

-----------------------------------------------------------------------------
(* What is delivered. *)

\* DLP_ACTION is read once.
LEMMA ActionFixed == ASSUME NEW r, Step(r) PROVE action' = action
<1>1. CASE (\E s, u \in BOOLEAN : Forward(r, s, u)) \/ \E d \in Documents : ResponseFilter(r, d)
  BY <1>1 DEF Forward, ResponseFilter
<1>2. CASE \E n : ChunkPass(r, n) \/ ChunkBuffer(r, n) \/ ChunkOverflow(r, n)
  BY <1>2 DEF ChunkPass, ChunkBuffer, ChunkOverflow
<1>3. CASE EndOfStream(r) \/ Broken(r) \/ CommitFails(r)
  BY <1>3 DEF EndOfStream, Broken, CommitFails
<1>4. CASE \E d, after, wire : CommitRead(r, d, wire, after)
  BY <1>4 DEF CommitRead
<1>5. CASE CommitAnswer(r)
  BY <1>5 DEF CommitAnswer
<1> QED BY <1>1, <1>2, <1>3, <1>4, <1>5 DEF Step

\* From a stream a client gets everything or a broken connection; under block a
\* body that was cut never passes for a whole one.
THEOREM WholeOrRefused == Spec => DeliveredWhole
<1> DEFINE W(r) ==
       /\ phase[r] = "stream" =>
            /\ phase'[r] = "stream" => got'[r] = sent'[r] + buffer'[r]
            /\ answer'[r] = "ok" => sent'[r] = BodyLen(doc[r])
       /\ action = "block" /\ answer'[r] = "ok" /\ doc'[r].framing # "close" =>
            sent'[r] = BodyLen(doc'[r]) /\ form'[r] # "framed"
<1>1. ASSUME DlpInv, DlpInv', [Next]_vars, NEW r \in Responses PROVE W(r)
  <2>1. action' = action
    <3>1. CASE UNCHANGED vars
      BY <3>1 DEF vars
    <3> QED BY <1>1, <3>1, ActionFixed DEF Next
  <2>2. /\ phase'[r] = "stream" => got'[r] = sent'[r] + buffer'[r]
        /\ action' = "block" /\ answer'[r] = "ok" /\ doc'[r].framing # "close" =>
             sent'[r] = BodyLen(doc'[r]) /\ form'[r] # "framed"
    BY <1>1 DEF DlpInv, Kept, StreamKept, DoneKept, BodyLen
  <2>3. ASSUME phase[r] = "stream", answer'[r] = "ok" PROVE sent'[r] = BodyLen(doc[r])
    <3>0. answer[r] = "none" /\ Types /\ Kept(r)
      BY <1>1, <2>3 DEF DlpInv, Kept, Begun
    <3>1. Step(r)
      <4>1. PICK q \in Responses : Step(q)
        BY <1>1, <2>3, <3>0 DEF Next, vars
      <4>2. q # r => answer'[r] = answer[r]
        BY <1>1, <4>1, StepOwn DEF DlpInv, Rests
      <4> QED BY <2>3, <3>0, <4>1, <4>2
    <3>2. EndOfStream(r)
      BY <2>3, <3>0, <3>1 DEF Step, Forward, ResponseFilter, ChunkPass, ChunkBuffer, ChunkOverflow,
                         Broken, CommitRead, CommitFails, CommitAnswer, Close, Types
    <3>3. got[r] = BodyLen(doc[r]) /\ {got[r], sent[r], buffer[r]} \subseteq Nat
      BY <3>0, <3>2 DEF EndOfStream, Types
    <3>4. CASE skip[r]
      BY <2>3, <3>0, <3>2, <3>3, <3>4 DEF EndOfStream, Kept, StreamKept
    <3>5. CASE ~skip[r]
      <4>1. sent' = [sent EXCEPT ![r] = buffer[r]]
        BY <2>3, <3>0, <3>2, <3>5 DEF EndOfStream, Close, Types
      <4>2. sent[r] = 0 /\ got[r] = sent[r] + buffer[r]
        BY <2>3, <3>0, <3>5 DEF Kept, StreamKept
      <4> QED BY <3>0, <3>3, <4>1, <4>2 DEF Types
    <3> QED BY <3>4, <3>5
  <2> QED BY <2>1, <2>2, <2>3
<1>2. DlpInv /\ DlpInv' /\ [Next]_vars => [\A r \in Responses : W(r)]_vars
  BY <1>1
<1> QED BY <1>2, Invariance, PTL DEF Spec, DeliveredWhole
-----------------------------------------------------------------------------
(* The refinement of DlpPromise: buffering and reading change no fate, and    *)
(* every other step of a response is one action of the promise.              *)

Exempts(r) == r \in seen /\ doc[r].kind = "exempt"
Fates == [r \in Responses |-> Fate(r)]

\* what a step of r may note: nothing, or an event and perhaps the exemption
SameNotes(r) == (r \in seen' <=> r \in seen) /\ (Exempts(r)' <=> Exempts(r))
MoreNotes(r) == r \in seen' /\ (Exempts(r) => Exempts(r)')

\* A step of one response is seen in the abstract state at that response only.
LEMMA PromiseLocal ==
  ASSUME DlpInv, NEW r \in Responses, Step(r)
  PROVE  /\ Fates' = [Fates EXCEPT ![r] = Fate(r)']
         /\ (r \in seen' <=> r \in seen) => seen' = seen
         /\ r \in seen' => seen' = seen \cup {r}
         /\ (Exempts(r)' <=> Exempts(r)) => ExemptNow' = ExemptNow
         /\ Exempts(r)' => ExemptNow' = ExemptNow \cup {r}
<1>0. seen \subseteq Responses /\ seen' \subseteq Responses
  BY InvStep DEF DlpInv, Types, Next
<1>1. ASSUME NEW q \in Responses \ {r}
      PROVE  Fate(q)' = Fate(q) /\ (q \in seen' <=> q \in seen) /\ (Exempts(q)' <=> Exempts(q))
  <2>1. Rests(q)
    BY StepOwn DEF DlpInv
  <2> QED BY <2>1 DEF Rests, Fate, Exposed, Exempts
<1>2. Fates' = [Fates EXCEPT ![r] = Fate(r)']
  BY <1>1 DEF Fates
<1>3. ((r \in seen' <=> r \in seen) => seen' = seen) /\ (r \in seen' => seen' = seen \cup {r})
  BY <1>0, <1>1
<1>4. \A q \in Responses : (q \in ExemptNow <=> Exempts(q)) /\ (q \in ExemptNow' <=> Exempts(q)')
  BY DEF ExemptNow, Exempts
<1>5. ExemptNow \subseteq Responses /\ ExemptNow' \subseteq Responses
  BY DEF ExemptNow
<1>6. /\ (Exempts(r)' <=> Exempts(r)) => ExemptNow' = ExemptNow
      /\ Exempts(r)' => ExemptNow' = ExemptNow \cup {r}
  BY <1>1, <1>4, <1>5
<1> QED BY <1>2, <1>3, <1>6

\* The actions of the promise, told apart by what becomes of one response.
LEMMA PromiseMove ==
  ASSUME DlpInv, NEW r \in Responses, Step(r), action' = action,
         \/ Fate(r)' = Fate(r) /\ SameNotes(r)
         \/ Fate(r) = "pending" /\ Fate(r)' = "pending" /\ r \in seen' /\ Exempts(r)'
         \/ /\ Fate(r) = "pending" /\ Fate(r)' = "passing"
            /\ Exempts(r) \/ action # "block"
            /\ r \in seen' /\ (Exempts(r)' <=> Exempts(r))
         \/ /\ Fate(r) \in {"pending", "passing"} /\ (SameNotes(r) \/ MoreNotes(r))
            /\ \/ Fate(r)' = "raw"
               \/ /\ Fate(r)' = "exposed"
                  /\ Exempts(r)' \/ action = "monitor" \/ (action = "redact" /\ r \in seen')
               \/ Fate(r)' = "masked" /\ action = "redact" /\ Fate(r) = "pending"
         \/ Fate(r) = "pending" /\ Fate(r)' = "refused" /\ (SameNotes(r) \/ MoreNotes(r))
         \/ Fate(r) \in {"pending", "passing"} /\ Fate(r)' = "lost" /\ SameNotes(r)
  PROVE  [Promise!Next]_(Promise!vars)
<1>0. /\ Fates' = [Fates EXCEPT ![r] = Fate(r)'] /\ Fates[r] = Fate(r)
      /\ (r \in seen' <=> r \in seen) => seen' = seen
      /\ r \in seen' => seen' = seen \cup {r}
      /\ (Exempts(r)' <=> Exempts(r)) => ExemptNow' = ExemptNow
      /\ Exempts(r)' => ExemptNow' = ExemptNow \cup {r}
  BY PromiseLocal DEF Fates
<1>1. CASE Fate(r)' = Fate(r) /\ SameNotes(r)
  <2>1. seen' = seen /\ ExemptNow' = ExemptNow
    BY <1>0, <1>1 DEF SameNotes
  <2>2. Fates' = Fates
    BY <1>0, <1>1 DEF Fates
  <2> QED BY <2>1, <2>2 DEF Promise!vars, Fates
<1>2. CASE Fate(r) = "pending" /\ Fate(r)' = "pending" /\ r \in seen' /\ Exempts(r)'
  <2>1. Fates' = Fates
    BY <1>0, <1>2 DEF Fates
  <2>2. Promise!Exempt(r)
    BY <1>0, <1>2, <2>1 DEF Promise!Exempt, Fates
  <2> QED BY <2>2 DEF Promise!Next
<1>3. CASE /\ Fate(r) = "pending" /\ Fate(r)' = "passing"
           /\ Exempts(r) \/ action # "block"
           /\ r \in seen' /\ (Exempts(r)' <=> Exempts(r))
  <2>1. Exempts(r) => r \in ExemptNow
    BY DEF Exempts, ExemptNow
  <2>2. Promise!Pass(r)
    BY <1>0, <1>3, <2>1 DEF Promise!Pass, Promise!Settle, Fates
  <2> QED BY <2>2 DEF Promise!Next
<1>4. ASSUME SameNotes(r) \/ MoreNotes(r) PROVE Promise!Notes(r)
  <2>1. CASE SameNotes(r)
    BY <1>0, <2>1 DEF SameNotes, Promise!Notes
  <2>2. CASE MoreNotes(r)
    <3>1. seen' = seen \cup {r}
      BY <1>0, <2>2 DEF MoreNotes
    <3>2. ExemptNow' \in {ExemptNow, ExemptNow \cup {r}}
      BY <1>0, <2>2 DEF MoreNotes
    <3> QED BY <3>1, <3>2 DEF Promise!Notes
  <2> QED BY <1>4, <2>1, <2>2
<1>5. CASE /\ Fate(r) \in {"pending", "passing"} /\ (SameNotes(r) \/ MoreNotes(r))
           /\ \/ Fate(r)' = "raw"
              \/ /\ Fate(r)' = "exposed"
                 /\ Exempts(r)' \/ action = "monitor" \/ (action = "redact" /\ r \in seen')
              \/ Fate(r)' = "masked" /\ action = "redact" /\ Fate(r) = "pending"
  <2>1. Exempts(r)' => r \in ExemptNow'
    BY DEF Exempts, ExemptNow
  <2>2. Promise!Deliver(r)
    BY <1>0, <1>4, <1>5, <2>1 DEF Promise!Deliver, Promise!Settle, Promise!MayExpose, Fates
  <2> QED BY <2>2 DEF Promise!Next
<1>6. CASE Fate(r) = "pending" /\ Fate(r)' = "refused" /\ (SameNotes(r) \/ MoreNotes(r))
  <2>1. Promise!Refuse(r)
    BY <1>0, <1>4, <1>6 DEF Promise!Refuse, Promise!Settle, Fates
  <2> QED BY <2>1 DEF Promise!Next
<1>7. CASE Fate(r) \in {"pending", "passing"} /\ Fate(r)' = "lost" /\ SameNotes(r)
  <2>1. Promise!Lose(r)
    BY <1>0, <1>7 DEF Promise!Lose, Promise!Settle, Fates, SameNotes
  <2> QED BY <2>1 DEF Promise!Next
<1> QED BY <1>1, <1>2, <1>3, <1>5, <1>6, <1>7
\* What the promise sees of a response that is not over.
LEMMA OpenFate ==
  ASSUME DlpInv, NEW r \in Responses, phase[r] # "done"
  PROVE  /\ answer[r] = "none"
         /\ Fate(r) = IF sent[r] > 0 THEN "passing" ELSE "pending"
         /\ phase[r] \in {"idle", "commit", "read"} => ~Exempts(r) /\ sent[r] = 0 /\ Fate(r) = "pending"
         /\ phase[r] = "stream" /\ ~skip[r] => ~Exempts(r) /\ sent[r] = 0 /\ Fate(r) = "pending"
<1>1. Kept(r) /\ phase[r] \in Phases /\ sent[r] \in Nat
  BY DEF DlpInv, Types
<1>2. answer[r] = "none"
  BY <1>1 DEF Kept, Begun
<1>3. Fate(r) = IF sent[r] > 0 THEN "passing" ELSE "pending"
  BY <1>2 DEF Fate
<1>4. phase[r] \in {"idle", "commit", "read"} => ~Exempts(r) /\ sent[r] = 0
  BY <1>1 DEF Kept, Begun, CommitKept, Untouched, Exempts
<1>5. phase[r] = "stream" /\ ~skip[r] => ~Exempts(r) /\ sent[r] = 0
  BY <1>1 DEF Kept, StreamKept, Exempts
<1> QED BY <1>2, <1>3, <1>4, <1>5

\* What an inspection that does not end in a refusal lets out.
LEMMA InspectedFate ==
  ASSUME NEW d \in Documents, NEW n \in Nat, ~Rejects(Inspect(d, n)),
         action \in {"monitor", "redact", "block"}
  PROVE  LET result == Inspect(d, n)
         IN  /\ result.form = "masked" => action = "redact"
             /\ result.form # "masked" /\ d.pii \in 1 .. n /\ d.kind # "opaque"
                  => action = "monitor" \/ (action = "redact" /\ ~result.complete)
<1>1. /\ Inspect(d, n).complete <=> Complete(d, n)
      /\ Inspect(d, n).found <=> Complete(d, n) /\ Found(d, n)
      /\ Inspect(d, n).form = IF action = "redact" /\ Complete(d, n) /\ Found(d, n)
                              THEN "masked" ELSE "raw"
  BY DEF Inspect
<1>2. d.pii \in 1 .. n /\ d.kind # "opaque" => Found(d, n)
  BY DEF Found
<1>3. action = "block" => Inspect(d, n).complete /\ ~Inspect(d, n).found
  BY DEF Rejects
<1> HIDE DEF Inspect
<1> QED BY <1>1, <1>2, <1>3

\* Every step of the gateway is a step of the promise or none of its business.
LEMMA PromiseStep == DlpInv /\ [Next]_vars => [Promise!Next]_(Promise!vars)
<1> SUFFICES ASSUME DlpInv, [Next]_vars PROVE [Promise!Next]_(Promise!vars)
  OBVIOUS
<1>1. CASE UNCHANGED vars
  BY <1>1 DEF vars, Promise!vars, Fate, Exposed, ExemptNow
<1>2. ASSUME NEW r \in Responses, Step(r) PROVE [Promise!Next]_(Promise!vars)
  <2>0. /\ Types /\ Kept(r) /\ action' = action /\ action \in {"monitor", "redact", "block"}
        /\ Types' /\ sent[r] \in Nat /\ buffer[r] \in Nat
    BY <1>2, ActionFixed, InvStep, DlpAssumption DEF DlpInv, Types, Next
  <2>1. CASE \E s, u \in BOOLEAN : Forward(r, s, u)
    <3>1. UNCHANGED <<doc, sent, form, answer, seen>>
      BY <2>1 DEF Forward
    <3>2. Fate(r)' = Fate(r) /\ SameNotes(r)
      BY <3>1 DEF Fate, Exposed, SameNotes, Exempts
    <3> QED BY <1>2, <2>0, <3>2, PromiseMove
  <2>2. ASSUME NEW d \in Documents, ResponseFilter(r, d) PROVE [Promise!Next]_(Promise!vars)
    <3>0. /\ phase[r] = "stream" /\ doc[r] = NoDoc /\ doc'[r] = d /\ UNCHANGED <<sent, form>>
      BY <2>0, <2>2 DEF ResponseFilter, Types
    <3>1. ~skip[r] /\ r \notin seen
      BY <2>0, <3>0 DEF Kept, StreamKept
    <3>2. Fate(r) = "pending" /\ ~Exempts(r) /\ sent[r] = 0 /\ answer[r] = "none"
      BY <3>0, <3>1, OpenFate
    <3>3. CASE DecorateRefuses(d)
      <4>1. Close(r, "502") /\ UNCHANGED seen /\ d.kind # "exempt"
        BY <2>2, <3>3 DEF ResponseFilter, DecorateRefuses
      <4>2. Fate(r)' = "refused"
        BY <2>0, <4>1 DEF Close, Types, Fate
      <4>3. SameNotes(r)
        BY <3>0, <3>2, <4>1 DEF SameNotes, Exempts
      <4> QED BY <1>2, <2>0, <3>2, <4>2, <4>3, PromiseMove
    <3>4. CASE ~DecorateRefuses(d)
      <4>1. UNCHANGED answer /\ seen' = IF d.kind = "exempt" THEN seen \cup {r} ELSE seen
        BY <2>2, <3>4 DEF ResponseFilter
      <4>2. Fate(r)' = "pending"
        BY <2>0, <3>0, <3>2, <4>1 DEF Fate
      <4>3. CASE d.kind = "exempt"
        BY <1>2, <2>0, <3>0, <3>2, <4>1, <4>2, <4>3, PromiseMove DEF Exempts
      <4>4. CASE d.kind # "exempt"
        <5>1. SameNotes(r)
          BY <3>0, <3>2, <4>1, <4>4 DEF SameNotes, Exempts
        <5> QED BY <1>2, <2>0, <3>2, <4>2, <5>1, PromiseMove
      <4> QED BY <4>3, <4>4
    <3> QED BY <3>3, <3>4
  <2>3. ASSUME NEW n, ChunkPass(r, n) PROVE [Promise!Next]_(Promise!vars)
    <3>0. /\ phase[r] = "stream" /\ skip[r] /\ n \in Nat \ {0} /\ doc[r] # NoDoc
          /\ UNCHANGED <<doc, answer, seen>> /\ sent'[r] = sent[r] + n
      BY <2>0, <2>3, ChunkArrives DEF ChunkPass, Types
    <3>1. r \in seen /\ (Exempts(r) \/ action # "block")
      BY <2>0, <3>0 DEF Kept, StreamKept, Exempts
    <3>2. SameNotes(r)
      BY <3>0 DEF SameNotes, Exempts
    <3>3. answer[r] = "none" /\ Fate(r) \in {"pending", "passing"}
      BY <3>0, OpenFate
    <3>4. sent'[r] > 0
      BY <2>0, <3>0
    <3>5. Fate(r)' = "passing"
      BY <3>0, <3>3, <3>4 DEF Fate
    <3> QED BY <1>2, <2>0, <3>0, <3>1, <3>2, <3>3, <3>5, PromiseMove DEF SameNotes
  <2>4. ASSUME NEW n, ChunkBuffer(r, n) PROVE [Promise!Next]_(Promise!vars)
    <3>1. UNCHANGED <<doc, sent, form, answer, seen>>
      BY <2>4 DEF ChunkBuffer
    <3>2. Fate(r)' = Fate(r) /\ SameNotes(r)
      BY <3>1 DEF Fate, Exposed, SameNotes, Exempts
    <3> QED BY <1>2, <2>0, <3>2, PromiseMove
  <2>5. ASSUME NEW n, ChunkOverflow(r, n) PROVE [Promise!Next]_(Promise!vars)
    <3>0. phase[r] = "stream" /\ ~skip[r] /\ n \in Nat \ {0} /\ UNCHANGED doc
      BY <2>0, <2>5, ChunkArrives DEF ChunkOverflow
    <3>1. /\ Fate(r) = "pending" /\ ~Exempts(r) /\ sent[r] = 0 /\ answer[r] = "none"
          /\ doc[r].kind # "exempt"
      BY <2>0, <3>0, OpenFate DEF Kept, StreamKept
    <3>2. CASE action = "block"
      <4>1. Close(r, "502") /\ UNCHANGED seen
        BY <2>5, <3>2 DEF ChunkOverflow
      <4>2. Fate(r)' = "refused"
        BY <2>0, <4>1 DEF Close, Types, Fate
      <4>3. SameNotes(r)
        BY <3>0, <4>1 DEF SameNotes, Exempts
      <4> QED BY <1>2, <2>0, <3>1, <4>2, <4>3, PromiseMove
    <3>3. CASE action # "block"
      <4>1. sent'[r] = buffer[r] + n /\ seen' = seen \cup {r} /\ UNCHANGED answer
        BY <2>0, <2>5, <3>3 DEF ChunkOverflow, Flushed, Types
      <4>2. sent'[r] > 0
        BY <2>0, <3>0, <4>1
      <4>3. Fate(r)' = "passing"
        BY <3>1, <4>1, <4>2 DEF Fate
      <4>4. r \in seen' /\ ~Exempts(r)'
        BY <3>0, <3>1, <4>1 DEF Exempts
      <4> QED BY <1>2, <2>0, <3>1, <3>3, <4>3, <4>4, PromiseMove
    <3> QED BY <3>2, <3>3
  <2>6. CASE EndOfStream(r)
    <3>0. phase[r] = "stream" /\ doc[r] \in Documents /\ UNCHANGED doc
      BY <2>0, <2>6 DEF EndOfStream, Streaming, Types
    <3>1. CASE skip[r]
      <4>1. Close(r, "ok") /\ UNCHANGED <<sent, form, seen>>
        BY <2>6, <3>1 DEF EndOfStream
      <4>2. SameNotes(r)
        BY <3>0, <4>1 DEF SameNotes, Exempts
      <4>3. r \in seen /\ (Exempts(r) \/ action # "block") /\ form[r] # "masked"
        BY <2>0, <3>0, <3>1 DEF Kept, StreamKept, Exempts
      <4>4. Fate(r)' \in {"raw", "exposed"}
        BY <2>0, <4>1, <4>3 DEF Close, Types, Fate
      <4>5. Fate(r) \in {"pending", "passing"}
        BY <3>0, OpenFate
      <4> QED BY <1>2, <2>0, <4>2, <4>3, <4>4, <4>5, PromiseMove DEF SameNotes
    <3>2. ASSUME ~skip[r] PROVE Fate(r) = "pending" /\ ~Exempts(r) /\ doc[r].kind # "exempt"
      BY <2>0, <3>0, <3>2, OpenFate DEF Kept, StreamKept
    <3>3. CASE ~skip[r] /\ Rejects(Inspect(doc[r], buffer[r]))
      <4>1. Close(r, "502") /\ UNCHANGED seen
        BY <2>6, <3>3 DEF EndOfStream
      <4>2. Fate(r)' = "refused"
        BY <2>0, <4>1 DEF Close, Types, Fate
      <4>3. SameNotes(r)
        BY <3>0, <4>1 DEF SameNotes, Exempts
      <4> QED BY <1>2, <2>0, <3>2, <3>3, <4>2, <4>3, PromiseMove
    <3>4. CASE ~skip[r] /\ ~Rejects(Inspect(doc[r], buffer[r]))
      <4> DEFINE result == Inspect(doc[r], buffer[r])
      <4>1. /\ Close(r, "ok") /\ sent'[r] = buffer[r] /\ form'[r] = result.form
            /\ seen' = IF result.complete THEN seen ELSE seen \cup {r}
        BY <2>0, <2>6, <3>4 DEF EndOfStream, Types
      <4>2. /\ result.form = "masked" => action = "redact"
            /\ result.form # "masked" /\ doc[r].pii \in 1 .. buffer[r] /\ doc[r].kind # "opaque"
                 => action = "monitor" \/ (action = "redact" /\ ~result.complete)
        BY <2>0, <3>0, <3>4, InspectedFate
      <4> HIDE DEF result
      <4>3. answer'[r] = "ok"
        BY <2>0, <4>1 DEF Close, Types
      <4>4. /\ Fate(r)' \in {"masked", "raw", "exposed"}
            /\ Fate(r)' = "masked" => result.form = "masked"
            /\ Fate(r)' = "exposed" => /\ result.form # "masked" /\ doc[r].pii \in 1 .. buffer[r]
                                       /\ doc[r].kind # "opaque"
        BY <3>0, <4>1, <4>3 DEF Fate, Exposed
      <4>5. SameNotes(r) \/ MoreNotes(r)
        BY <3>0, <3>2, <3>4, <4>1 DEF SameNotes, MoreNotes, Exempts
      <4>6. ~result.complete => r \in seen'
        BY <4>1
      <4> QED BY <1>2, <2>0, <3>2, <3>4, <4>2, <4>4, <4>5, <4>6, PromiseMove
    <3> QED BY <3>1, <3>3, <3>4
  <2>7. CASE Broken(r)
    <3>1. phase[r] = "stream" /\ Close(r, "lost") /\ UNCHANGED <<doc, seen>>
      BY <2>7 DEF Broken
    <3>2. Fate(r) \in {"pending", "passing"}
      BY <3>1, OpenFate
    <3>3. Fate(r)' = "lost" /\ SameNotes(r)
      BY <2>0, <3>1 DEF Close, Types, Fate, SameNotes, Exempts
    <3> QED BY <1>2, <2>0, <3>2, <3>3, PromiseMove
  <2>8. CASE CommitFails(r)
    <3>1. phase[r] = "commit" /\ Close(r, "503") /\ UNCHANGED <<doc, seen>>
      BY <2>8 DEF CommitFails
    <3>2. Fate(r) = "pending"
      BY <3>1, OpenFate
    <3>3. Fate(r)' = "refused" /\ SameNotes(r)
      BY <2>0, <3>1 DEF Close, Types, Fate, SameNotes, Exempts
    <3> QED BY <1>2, <2>0, <3>2, <3>3, PromiseMove
  <2>9. ASSUME NEW d \in Documents, NEW after, NEW wire, CommitRead(r, d, wire, after)
        PROVE [Promise!Next]_(Promise!vars)
    <3>1. phase[r] = "commit" /\ UNCHANGED <<sent, seen>> /\ r \notin seen
      BY <2>0, <2>9 DEF CommitRead, Kept, Begun, Untouched
    <3>2. Fate(r) = "pending" /\ sent[r] = 0 /\ answer[r] = "none"
      BY <3>1, OpenFate
    <3>3. SameNotes(r)
      BY <3>1 DEF SameNotes, Exempts
    <3>4. CASE ReadFails(d, wire, after)
      <4>1. Close(r, "503")
        BY <2>9, <3>4 DEF CommitRead
      <4>2. Fate(r)' = "refused"
        BY <2>0, <4>1 DEF Close, Types, Fate
      <4> QED BY <1>2, <2>0, <3>2, <3>3, <4>2, PromiseMove
    <3>5. CASE ~ReadFails(d, wire, after)
      <4>1. UNCHANGED answer
        BY <2>9, <3>5 DEF CommitRead
      <4>2. Fate(r)' = "pending"
        BY <3>1, <3>2, <4>1 DEF Fate
      <4> QED BY <1>2, <2>0, <3>2, <3>3, <4>2, PromiseMove
    <3> QED BY <3>4, <3>5
  <2>10. CASE CommitAnswer(r)
    <3> DEFINE d == doc[r]
               n == buffer[r]
               result == Inspect(d, n)
               refused == \/ DecorateRefuses(d)
                          \/ action = "block" /\ Truncated(d, n)
                          \/ d.kind # "exempt" /\ Rejects(result)
    <3>0. phase[r] = "read" /\ UNCHANGED doc /\ d \in Documents
      BY <2>0, <2>10 DEF CommitAnswer, Kept, CommitKept
    <3>1. Fate(r) = "pending" /\ ~Exempts(r)
      BY <3>0, OpenFate
    <3>2. /\ seen' \in {seen, seen \cup {r}}
          /\ d.kind = "exempt" => r \in seen'
          /\ ~DecorateRefuses(d) /\ action # "block" /\ ~result.complete => r \in seen'
      BY <2>10 DEF CommitAnswer
    <3>3. SameNotes(r) \/ MoreNotes(r)
      BY <3>0, <3>1, <3>2 DEF SameNotes, MoreNotes, Exempts
    <3>4. CASE refused
      <4>1. Close(r, "502")
        BY <2>10, <3>4 DEF CommitAnswer
      <4>2. Fate(r)' = "refused"
        BY <2>0, <4>1 DEF Close, Types, Fate
      <4> QED BY <1>2, <2>0, <3>1, <3>3, <4>2, PromiseMove
    <3>5. CASE ~refused
      <4>1. /\ Close(r, "ok") /\ sent'[r] = n
            /\ form'[r] = IF d.kind # "exempt" /\ result.form = "masked" THEN "masked"
                          ELSE IF StillFramed(d) THEN "framed" ELSE "raw"
        BY <2>0, <2>10, <3>5 DEF CommitAnswer, Types
      <4>2. answer'[r] = "ok"
        BY <2>0, <4>1 DEF Close, Types
      <4>3. d.kind # "exempt" =>
               /\ result.form = "masked" => action = "redact"
               /\ result.form # "masked" /\ d.pii \in 1 .. n /\ d.kind # "opaque"
                    => action = "monitor" \/ (action = "redact" /\ ~result.complete)
        BY <2>0, <3>0, <3>5, InspectedFate
      <4>4. ~DecorateRefuses(d)
        BY <3>5
      <4> HIDE DEF result
      <4>5. /\ Fate(r)' \in {"masked", "raw", "exposed"}
            /\ Fate(r)' = "masked" => d.kind # "exempt" /\ result.form = "masked"
            /\ Fate(r)' = "exposed" =>
                 /\ d.kind = "exempt" \/ result.form # "masked"
                 /\ d.pii \in 1 .. n /\ d.kind # "opaque"
        BY <3>0, <4>1, <4>2 DEF Fate, Exposed
      <4>6. d.kind = "exempt" => Exempts(r)'
        BY <3>0, <3>2 DEF Exempts
      <4> QED BY <1>2, <2>0, <3>1, <3>2, <3>3, <4>3, <4>4, <4>5, <4>6, PromiseMove
    <3> QED BY <3>4, <3>5
  <2> QED BY <1>2, <2>1, <2>2, <2>3, <2>4, <2>5, <2>6, <2>7, <2>8, <2>9, <2>10 DEF Step
<1> QED BY <1>1, <1>2 DEF Next

\* The gateway keeps the promise for any documents and any number of responses:
\* masked whole, passed whole or refused, and nothing sensitive in the clear that
\* was not exempt, monitored or recorded as skipped.
THEOREM PromiseKept == Spec => KeepsPromise
<1>1. Init => Promise!Init
  <2> SUFFICES ASSUME Init PROVE Promise!Init
    OBVIOUS
  <2>1. \A r \in Responses : Fate(r) = "pending"
    BY DEF Init, Fate
  <2>2. ExemptNow = {}
    BY DEF Init, ExemptNow
  <2> QED BY <2>1, <2>2 DEF Init, Promise!Init
<1> QED BY <1>1, PromiseStep, Invariance, PTL DEF Spec, KeepsPromise, Promise!Spec
=============================================================================
