------------------------------ MODULE CardMask ------------------------------
(***************************************************************************)
(* mask_cards of dlp.rs: one pass over a text that masks the card numbers  *)
(* it meets.  A text is a sequence of characters: the digits 0..9, the     *)
(* separators space and hyphen, and one that stands for any other.         *)
(* MinDigits and MaxDigits are 13 and 19 in the code; the scan does not    *)
(* depend on their values.                                                 *)
(***************************************************************************)
EXTENDS Integers, Sequences, FiniteSetsExt

CONSTANTS Texts, MinDigits, MaxDigits

CardAssumption == MinDigits \in Nat \ {0} /\ MaxDigits \in Nat /\ MinDigits <= MaxDigits

VARIABLES text, i, masked, count

vars == <<text, i, masked, count>>

Space == -1
Hyphen == -2
Other == -3

Digit(c) == c >= 0
Separator(c) == c \in {Space, Hyphen}

Init == /\ text \in Texts
        /\ i = 1
        /\ masked = {}
        /\ count = 0

-----------------------------------------------------------------------------
\* luhn: from the right, every second digit is doubled and its digits added.
Doubled(n) == IF 2 * n > 9 THEN 2 * n - 9 ELSE 2 * n

Luhn(ds) ==
  MapThenSumSet(LAMBDA k : IF (Len(ds) - k) % 2 = 1 THEN Doubled(ds[k]) ELSE ds[k],
                1..Len(ds)) % 10 = 0

card_valid(ds) == /\ Len(ds) \in MinDigits..MaxDigits
                  /\ \E k \in 1..Len(ds) : ds[k] # ds[1]
                  /\ Luhn(ds)

\* card_run_end: digits, and separators that a digit follows.  Ends are
\* exclusive: a span is start..end-1.
InRun(t, k) == \/ Digit(t[k])
               \/ Separator(t[k]) /\ k < Len(t) /\ Digit(t[k + 1])

card_run_end(t, start) ==
  Min({k \in start..(Len(t) + 1) : k = Len(t) + 1 \/ ~InRun(t, k)})

Digits(t, start, end) == SelectSeq(SubSeq(t, start, end - 1), Digit)

\* best_card_end: the longest valid number from the start of the run whose
\* last digit ends a group.
\* mutant: a card may end anywhere
Boundary_Anywhere(t, end, runEnd) == TRUE
Boundary(t, end, runEnd) == end = runEnd \/ ~Digit(t[end])

CardEnds(t, start, runEnd) ==
  {end \in (start + 1)..runEnd : /\ Digit(t[end - 1])
                                 /\ card_valid(Digits(t, start, end))
                                 /\ Boundary(t, end, runEnd)}

best(ends) == Max(ends)

-----------------------------------------------------------------------------
Skip == /\ i <= Len(text) /\ ~Digit(text[i])
        /\ i' = i + 1
        /\ UNCHANGED <<text, masked, count>>

MaskCard == /\ i <= Len(text) /\ Digit(text[i])
            /\ LET ends == CardEnds(text, i, card_run_end(text, i))
               IN /\ ends # {}
                  /\ masked' = masked \cup {k \in i..(best(ends) - 1) : Digit(text[k])}
                  /\ count' = count + 1
                  /\ i' = best(ends)
            /\ UNCHANGED text

\* A run without a card is copied to its end.
CopyRun == /\ i <= Len(text) /\ Digit(text[i])
           /\ CardEnds(text, i, card_run_end(text, i)) = {}
           /\ i' = card_run_end(text, i)
           /\ UNCHANGED <<text, masked, count>>

Next == Skip \/ MaskCard \/ CopyRun

Spec == Init /\ [][Next]_vars

-----------------------------------------------------------------------------
\* A number is masked whole or not at all: no masked digit touches a digit
\* that stays readable, so a longer number (an order id, a hash) never loses a
\* part of itself to a card found inside it.
WholeNumbers ==
  \A k \in masked : \A n \in {k - 1, k + 1} \cap 1..Len(text) :
    Digit(text[n]) /\ n < i => n \in masked

\* A span is a card on its own: with nothing that could belong to a run beside
\* it, in one group or in several.
Isolated(t, start, end) ==
  /\ \A k \in start..(end - 1) : InRun(t, k)
  /\ Digit(t[start])
  /\ start = 1 \/ ~Digit(t[start - 1])
  /\ start <= 2 \/ ~(Separator(t[start - 1]) /\ Digit(t[start - 2]))
  /\ end = Len(t) + 1 \/ ~InRun(t, end)

\* At the end of the pass every isolated card is masked, whatever the text
\* before it made the scan do.
IsolatedCardsMasked ==
  i > Len(text) =>
    \A start \in 1..Len(text) : \A end \in (start + 1)..(Len(text) + 1) :
      Isolated(text, start, end) /\ card_valid(Digits(text, start, end)) =>
        {k \in start..(end - 1) : Digit(text[k])} \subseteq masked

\* dlp.rs masks every card that stands on its own, and never a part of a number.
CardsMasked == WholeNumbers /\ IsolatedCardsMasked
=============================================================================
