---------------------------- MODULE MCResponseDlp ----------------------------
(* Instances of ResponseDlp for TLC. *)
EXTENDS ResponseDlp

\* Answers with and without sensitive data, whole and cut, over and under the cap.
Answer(kind, framing, len, pii) ==
  [kind |-> kind, framing |-> framing, len |-> len, pii |-> pii, partial |-> FALSE,
   bodyless |-> FALSE, keep |-> TRUE]
Answers ==
  {Answer("text", "length", 2, 2), Answer("text", "chunked", 3, 1),
   Answer("packed", "length", 2, 1), Answer("bomb", "length", 1, 1),
   Answer("opaque", "length", 1, 1), Answer("exempt", "length", 3, 3),
   [Answer("text", "chunked", 1, 0) EXCEPT !.keep = FALSE],
   [Answer("text", "close", 3, 3) EXCEPT !.keep = FALSE],
   [Answer("text", "length", 1, 0) EXCEPT !.partial = TRUE],
   [Answer("text", "length", 1, 0) EXCEPT !.bodyless = TRUE]}
EveryAction == {"monitor", "redact", "block"}
=============================================================================
