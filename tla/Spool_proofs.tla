----------------------------- MODULE Spool_proofs -----------------------------
(***************************************************************************)
(* The budgets of the spool and the files it leaves, for any number of     *)
(* bodies, any limits and any number of reloads.                           *)
(*                                                                         *)
(* BudgetsExact is not inductive: a reload resets the counters of the next *)
(* runtime, which is harmless only because no body is on it yet (Opened);  *)
(* a slot is given back at several places, once only because the handle's  *)
(* place tells whether it has one (Sound).  NoOrphans needs to know where  *)
(* the leftovers of a crash are while they are being wiped (Leftovers).    *)
(***************************************************************************)
EXTENDS Spool, Lemmas

Places == {"none", "open", "store", "spill", "create", "write", "drop_bytes", "drop_slot",
           "drop_file"}
Handle == [at : Places, rt : Runtimes, len : Nat, reserved : Nat, slot : BOOLEAN,
           file : BOOLEAN]
Types ==
  /\ runtime \in [Runtimes -> [on : BOOLEAN, bytes : Nat, files : Nat]]
  /\ live \in Runtimes
  /\ body \in [Bodies -> Handle]
  /\ dir \in SUBSET Bodies
  /\ wiper \in [at : {"boot", "idle", "reload"}, on : BOOLEAN, todo : SUBSET Bodies]

\* What a handle is at each of its places.
Sound(h) ==
  /\ h.at = "none" => h = NoHandle
  /\ h.at \in {"open", "store", "spill", "create", "write"}
       => h.len + (IF h.at = "open" THEN 0 ELSE 1) = h.reserved
  /\ ~h.file => h.len <= Ceiling
  /\ h.at \in {"open", "store"} => (h.slot <=> h.file)
  /\ h.at = "spill" => ~h.slot /\ ~h.file
  /\ h.at \in {"create", "write"} => h.slot /\ ~h.file
  /\ h.at \in {"drop_slot", "drop_file"} => h.reserved = 0
  /\ h.at = "drop_file" => ~h.slot

\* Bodies are on runtimes that have been live, and on none while the process boots.
Opened == \A b \in Bodies : /\ body[b].rt <= live
                            /\ wiper.at = "boot" => body[b].at = "none"
                            /\ Sound(body[b])

\* What handle h adds to the counters of runtime k.
BytesOn(h, k) == IF h.at # "none" /\ h.rt = k THEN h.reserved ELSE 0
SlotOn(h, k) == h.at # "none" /\ h.rt = k /\ h.slot
Slots(k) == {b \in On(k) : body[b].slot}

Counted ==
  \A k \in Runtimes :
    /\ runtime[k].bytes = Total(HeldOn(k)) /\ runtime[k].bytes <= ByteCap(runtime[k].on)
    /\ runtime[k].files = Cardinality(Slots(k)) /\ runtime[k].files <= MaxFiles

\* A file without an owner is on the wiper's list, unless the spool is off.
Leftovers ==
  /\ wiper.at = "boot" => wiper.todo = (IF wiper.on THEN dir ELSE {})
  /\ wiper.at = "reload" => live < MaxReloads
  /\ wiper.at = "reload" /\ wiper.on => \A b \in dir : Owns(b) \/ b \in wiper.todo

SpoolInv == Types /\ Opened /\ Counted /\ Leftovers /\ NoOrphans

-----------------------------------------------------------------------------
(* One body moves. *)

\* The bytes of a runtime follow what one handle takes or gives back.
LEMMA BytesFollow ==
  ASSUME SpoolInv, NEW b \in Bodies, NEW h \in Handle, body' = [body EXCEPT ![b] = h],
         NEW k \in Runtimes
  PROVE  /\ Total(HeldOn(k))' = Total(HeldOn(k)) + BytesOn(h, k) - BytesOn(body[b], k)
         /\ Total(HeldOn(k))' \in Nat
<1>1. body \in [Bodies -> Handle] /\ body' \in [Bodies -> Handle]
  BY DEF SpoolInv, Types
<1>2. HeldOn(k) \in [Bodies -> Nat]
  BY <1>1 DEF HeldOn, Handle
<1>3. HeldOn(k)' = [c \in Bodies |-> BytesOn(body'[c], k)]
      /\ HeldOn(k) = [c \in Bodies |-> BytesOn(body[c], k)]
  BY DEF HeldOn, On, BytesOn
<1>4. HeldOn(k)' \in [Bodies -> Nat]
  BY <1>1, <1>3 DEF BytesOn, Handle
<1>5. \A c \in Bodies \ {b} : (HeldOn(k)')[c] = HeldOn(k)[c]
  BY <1>1, <1>3
<1>6. (HeldOn(k)')[b] = BytesOn(h, k) /\ HeldOn(k)[b] = BytesOn(body[b], k)
  BY <1>1, <1>3
<1>7. Total(HeldOn(k)') = Total(HeldOn(k)) + (HeldOn(k)')[b] - HeldOn(k)[b]
  BY <1>2, <1>4, <1>5, TotalChange, SpoolAssumption
<1>8. Total(HeldOn(k)') \in Nat
  BY <1>4, TotalType, SpoolAssumption
<1>9. Total(HeldOn(k))' = Total(HeldOn(k)')
  BY DEF Total, Units
<1> QED BY <1>6, <1>7, <1>8, <1>9

\* So do its file slots.
LEMMA SlotsFollow ==
  ASSUME SpoolInv, NEW b \in Bodies, NEW h \in Handle, body' = [body EXCEPT ![b] = h],
         NEW k \in Runtimes
  PROVE  /\ Cardinality(Slots(k))' = Cardinality(Slots(k)) + (IF SlotOn(h, k) THEN 1 ELSE 0)
                                       - (IF SlotOn(body[b], k) THEN 1 ELSE 0)
         /\ Cardinality(Slots(k))' \in Nat
<1>1. body \in [Bodies -> Handle] /\ body' \in [Bodies -> Handle]
  BY DEF SpoolInv, Types
<1>2. /\ Slots(k) = {c \in Bodies : SlotOn(body[c], k)}
      /\ Slots(k)' = {c \in Bodies : SlotOn(body'[c], k)}
  BY DEF Slots, On, SlotOn
<1>3. IsFiniteSet(Slots(k)) /\ IsFiniteSet(Slots(k)')
  <2>1. Slots(k) \subseteq Bodies /\ Slots(k)' \subseteq Bodies
    BY <1>2
  <2> QED BY <2>1, FS_Subset, SpoolAssumption
<1>4. Cardinality(Slots(k)) \in Nat /\ Cardinality(Slots(k)') \in Nat
  BY <1>3, FS_CardinalityType
<1>5. CASE SlotOn(h, k) /\ ~SlotOn(body[b], k)
  <2>1. Slots(k)' = Slots(k) \cup {b} /\ b \notin Slots(k)
    BY <1>1, <1>2, <1>5
  <2>2. Cardinality(Slots(k) \cup {b}) = Cardinality(Slots(k)) + 1
    BY <1>3, <2>1, FS_AddElement
  <2> QED BY <1>4, <1>5, <2>1, <2>2
<1>6. CASE ~SlotOn(h, k) /\ SlotOn(body[b], k)
  <2>1. Slots(k)' = Slots(k) \ {b} /\ b \in Slots(k)
    BY <1>1, <1>2, <1>6
  <2>2. Cardinality(Slots(k) \ {b}) = Cardinality(Slots(k)) - 1
    BY <1>3, <2>1, FS_RemoveElement
  <2> QED BY <1>4, <1>6, <2>1, <2>2
<1>7. CASE SlotOn(h, k) <=> SlotOn(body[b], k)
  <2>1. Slots(k)' = Slots(k)
    BY <1>1, <1>2, <1>7
  <2> QED BY <1>4, <1>7, <2>1
<1> QED BY <1>5, <1>6, <1>7

\* A body's step keeps the invariant if it keeps its handle sound, moves its runtime's
\* counters by what the handle gains or loses, and leaves no file without an owner that
\* had one.
LEMMA BodyMoves ==
  ASSUME SpoolInv, NEW b \in Bodies, NEW h \in Handle, Sound(h), h.rt <= live,
         wiper.at # "boot",
         body' = [body EXCEPT ![b] = h], live' = live, wiper' = wiper,
         runtime' \in [Runtimes -> [on : BOOLEAN, bytes : Int, files : Int]],
         \A k \in Runtimes :
           /\ runtime'[k].on = runtime[k].on
           /\ runtime'[k].bytes = runtime[k].bytes + BytesOn(h, k) - BytesOn(body[b], k)
           /\ runtime'[k].bytes <= ByteCap(runtime'[k].on)
           /\ runtime'[k].files = runtime[k].files + (IF SlotOn(h, k) THEN 1 ELSE 0)
                                     - (IF SlotOn(body[b], k) THEN 1 ELSE 0)
           /\ runtime'[k].files <= MaxFiles,
         dir' \subseteq dir \cup {b},
         b \in dir' => h.file \/ h.at = "write" \/ (b \in dir /\ ~Owns(b))
  PROVE  SpoolInv'
<1>1. Types /\ body \in [Bodies -> Handle] /\ body' \in [Bodies -> Handle]
  BY DEF SpoolInv, Types
<1>2. Counted'
  <2> SUFFICES ASSUME NEW k \in Runtimes
               PROVE  /\ runtime'[k].bytes = Total(HeldOn(k))'
                      /\ runtime'[k].bytes <= ByteCap(runtime'[k].on)
                      /\ runtime'[k].files = Cardinality(Slots(k))'
                      /\ runtime'[k].files <= MaxFiles
    BY DEF Counted
  <2>1. runtime[k].bytes = Total(HeldOn(k)) /\ runtime[k].files = Cardinality(Slots(k))
    BY DEF SpoolInv, Counted
  <2> QED BY <2>1, BytesFollow, SlotsFollow
<1>3. runtime' \in [Runtimes -> [on : BOOLEAN, bytes : Nat, files : Nat]]
  <2>1. \A k \in Runtimes : runtime'[k].bytes \in Nat /\ runtime'[k].files \in Nat
    BY <1>2, BytesFollow, SlotsFollow DEF Counted
  <2> QED BY <2>1
<1>4. Types'
  BY <1>1, <1>3 DEF Types
<1>5. Opened'
  BY <1>1 DEF SpoolInv, Opened
<1>6. ASSUME NEW c \in dir' PROVE Owns(c)' \/ (c \in dir /\ ~Owns(c))
  <2>1. CASE c = b
    BY <1>1, <2>1 DEF Owns
  <2>2. CASE c # b
    <3>1. c \in dir /\ c \in Bodies /\ body'[c] = body[c]
      BY <1>1, <1>6, <2>2 DEF Types
    <3> QED BY <3>1 DEF Owns
  <2> QED BY <2>1, <2>2
<1>7. Leftovers'
  BY <1>6 DEF SpoolInv, Leftovers
<1>8. NoOrphans'
  <2>1. live \in Runtimes
    BY <1>1 DEF Types
  <2> QED BY <1>6, <2>1 DEF SpoolInv, NoOrphans
<1> QED BY <1>2, <1>4, <1>5, <1>7, <1>8 DEF SpoolInv

\* Either cap is a number.
LEMMA CapIsNat == \A on \in BOOLEAN : ByteCap(on) \in Nat /\ 0 <= ByteCap(on)
  BY SpoolAssumption DEF ByteCap

\* What is known of a body and of the constants whenever one of its steps is taken.
LEMMA BodyFacts ==
  ASSUME SpoolInv, NEW b \in Bodies
  PROVE  /\ body[b] \in Handle /\ Sound(body[b]) /\ body[b].rt \in Runtimes
         /\ body[b].rt <= live /\ body[b].len \in Nat /\ body[b].reserved \in Nat
         /\ body[b].slot \in BOOLEAN /\ body[b].file \in BOOLEAN
         /\ body[b].at # "none" => wiper.at # "boot"
         /\ runtime \in [Runtimes -> [on : BOOLEAN, bytes : Nat, files : Nat]]
         /\ live \in Runtimes /\ live \in Nat
         /\ \A k \in Runtimes : /\ k \in Nat
                                /\ runtime[k].bytes \in Nat
                                /\ runtime[k].bytes <= ByteCap(runtime[k].on)
                                /\ runtime[k].files \in Nat /\ runtime[k].files <= MaxFiles
         /\ \A k \in Runtimes : ByteCap(runtime[k].on) \in Nat
         /\ MaxFiles \in Nat /\ Ceiling \in Nat /\ MaxReloads \in Nat
<1>1. MaxFiles \in Nat /\ Ceiling \in Nat /\ MaxReloads \in Nat
  BY SpoolAssumption
<1>2. \A k \in Runtimes : k \in Nat
  BY <1>1 DEF Runtimes
<1>3. /\ body[b] \in Handle /\ live \in Runtimes
      /\ runtime \in [Runtimes -> [on : BOOLEAN, bytes : Nat, files : Nat]]
  BY DEF SpoolInv, Types
<1>4. Sound(body[b]) /\ body[b].rt <= live /\ (body[b].at # "none" => wiper.at # "boot")
  BY DEF SpoolInv, Opened
<1>5. \A k \in Runtimes : runtime[k].bytes <= ByteCap(runtime[k].on) /\ runtime[k].files <= MaxFiles
  BY DEF SpoolInv, Counted
<1>6. \A k \in Runtimes : ByteCap(runtime[k].on) \in Nat
  BY <1>3, CapIsNat
<1> QED BY <1>1, <1>2, <1>3, <1>4, <1>5, <1>6 DEF Handle

\* A step that takes and gives back nothing.
LEMMA QuietMoves ==
  ASSUME SpoolInv, NEW b \in Bodies, NEW h \in Handle, Sound(h), h.rt <= live,
         wiper.at # "boot", Set(b, h), UNCHANGED <<runtime, live, wiper>>,
         \A k \in Runtimes : /\ BytesOn(h, k) = BytesOn(body[b], k)
                             /\ SlotOn(h, k) <=> SlotOn(body[b], k),
         dir' \subseteq dir \cup {b},
         b \in dir' => h.file \/ h.at = "write" \/ (b \in dir /\ ~Owns(b))
  PROVE  SpoolInv'
<1>1. body' = [body EXCEPT ![b] = h] /\ live' = live /\ wiper' = wiper /\ runtime' = runtime
  BY DEF Set
<1>2. runtime' \in [Runtimes -> [on : BOOLEAN, bytes : Int, files : Int]]
  BY <1>1, BodyFacts
<1>3. ASSUME NEW k \in Runtimes
      PROVE  /\ runtime'[k].on = runtime[k].on
             /\ runtime'[k].bytes = runtime[k].bytes + BytesOn(h, k) - BytesOn(body[b], k)
             /\ runtime'[k].bytes <= ByteCap(runtime'[k].on)
             /\ runtime'[k].files = runtime[k].files + (IF SlotOn(h, k) THEN 1 ELSE 0)
                                       - (IF SlotOn(body[b], k) THEN 1 ELSE 0)
             /\ runtime'[k].files <= MaxFiles
  <2>1. BytesOn(body[b], k) \in Nat
    BY BodyFacts DEF BytesOn
  <2>2. /\ runtime[k].bytes \in Nat /\ runtime[k].bytes <= ByteCap(runtime[k].on)
        /\ runtime[k].files \in Nat /\ runtime[k].files <= MaxFiles
    BY BodyFacts
  <2> QED BY <1>1, <2>1, <2>2
<1> QED BY <1>1, <1>2, <1>3, BodyMoves

\* A refused or finished body keeps what it holds until it is dropped.
LEMMA RefuseKeeps ==
  ASSUME SpoolInv, NEW b \in Bodies, body[b].at \in {"open", "store", "spill"}, Refuse(b),
         UNCHANGED <<runtime, live, dir, wiper>>
  PROVE  SpoolInv'
<1> DEFINE h == [body[b] EXCEPT !.at = "drop_bytes"]
<1>1. /\ h \in Handle /\ h.at = "drop_bytes" /\ h.rt = body[b].rt /\ h.len = body[b].len
      /\ h.reserved = body[b].reserved /\ h.slot = body[b].slot /\ h.file = body[b].file
  BY BodyFacts DEF Handle, Places
<1>2. Set(b, h)
  BY DEF Refuse
<1> HIDE DEF h
<1>3. Sound(h)
  BY <1>1, BodyFacts DEF Sound
<1>4. \A k \in Runtimes : /\ BytesOn(h, k) = BytesOn(body[b], k)
                          /\ SlotOn(h, k) <=> SlotOn(body[b], k)
  BY <1>1 DEF BytesOn, SlotOn
<1>5. b \in dir' => h.file \/ h.at = "write" \/ (b \in dir /\ ~Owns(b))
  BY <1>1 DEF Owns
<1> QED BY <1>1, <1>2, <1>3, <1>4, <1>5, BodyFacts, QuietMoves

\* The slot given back when open or write_all fails.
LEMMA ReleaseKeeps ==
  ASSUME SpoolInv, NEW b \in Bodies, body[b].at \in {"create", "write"}, ReleaseSlot(b),
         UNCHANGED <<live, wiper>>, dir' \subseteq dir,
         b \in dir' => body[b].at = "create"
  PROVE  SpoolInv'
<1> DEFINE h == [body[b] EXCEPT !.at = "drop_bytes", !.slot = FALSE]
<1>1. /\ h \in Handle /\ h.at = "drop_bytes" /\ h.rt = body[b].rt /\ h.len = body[b].len
      /\ h.reserved = body[b].reserved /\ ~h.slot /\ h.file = body[b].file
  BY BodyFacts DEF Handle, Places
<1>2. /\ body' = [body EXCEPT ![b] = h]
      /\ runtime' = [runtime EXCEPT ![body[b].rt].files = @ - 1]
  BY DEF ReleaseSlot, Set
<1> HIDE DEF h
<1>3. Sound(h) /\ body[b].slot /\ ~body[b].file
  BY <1>1, BodyFacts DEF Sound
<1>4. runtime' \in [Runtimes -> [on : BOOLEAN, bytes : Int, files : Int]]
  BY <1>2, BodyFacts
<1>5. ASSUME NEW k \in Runtimes
      PROVE  /\ runtime'[k].on = runtime[k].on
             /\ runtime'[k].bytes = runtime[k].bytes + BytesOn(h, k) - BytesOn(body[b], k)
             /\ runtime'[k].bytes <= ByteCap(runtime'[k].on)
             /\ runtime'[k].files = runtime[k].files + (IF SlotOn(h, k) THEN 1 ELSE 0)
                                       - (IF SlotOn(body[b], k) THEN 1 ELSE 0)
             /\ runtime'[k].files <= MaxFiles
  BY <1>1, <1>2, <1>3, BodyFacts DEF BytesOn, SlotOn
<1>6. b \in dir' => h.file \/ h.at = "write" \/ (b \in dir /\ ~Owns(b))
  BY <1>3 DEF Owns
<1>7. h.rt <= live /\ wiper.at # "boot"
  BY <1>1, BodyFacts
<1> QED BY <1>1, <1>2, <1>3, <1>4, <1>5, <1>6, <1>7, BodyMoves

-----------------------------------------------------------------------------
(* The steps of push, spill_to_file and Drop. *)

\* A body opens on the live runtime, with nothing.
LEMMA NewKeeps ==
  ASSUME SpoolInv, NEW b \in Bodies, New(b)
  PROVE  SpoolInv'
<1> DEFINE h == [NoHandle EXCEPT !.at = "open", !.rt = live]
<1>1. body[b] = NoHandle /\ wiper.at # "boot"
  BY BodyFacts DEF New, Sound
<1>2. /\ h \in Handle /\ h.at = "open" /\ h.rt = live /\ h.len = 0 /\ h.reserved = 0
      /\ ~h.slot /\ ~h.file
  <2>1. live \in Runtimes /\ 0 \in Runtimes
    BY BodyFacts DEF Runtimes
  <2> QED BY <2>1 DEF NoHandle, Handle, Places
<1>3. Set(b, h) /\ UNCHANGED <<runtime, live, dir, wiper>>
  BY DEF New
<1> HIDE DEF h
<1>4. Sound(h)
  BY <1>2, BodyFacts DEF Sound
<1>5. \A k \in Runtimes : /\ BytesOn(h, k) = BytesOn(body[b], k)
                          /\ SlotOn(h, k) <=> SlotOn(body[b], k)
  BY <1>1, <1>2 DEF BytesOn, SlotOn, NoHandle
<1>6. b \in dir' => h.file \/ h.at = "write" \/ (b \in dir /\ ~Owns(b))
  BY <1>1, <1>3 DEF Owns, NoHandle
<1>7. h.rt <= live
  BY <1>2, BodyFacts
<1> QED BY <1>1, <1>2, <1>3, <1>4, <1>5, <1>6, <1>7, QuietMoves

\* A chunk is reserved on the body's own runtime before it is stored.
LEMMA PushKeeps ==
  ASSUME SpoolInv, NEW b \in Bodies, Push(b)
  PROVE  SpoolInv'
<1> DEFINE h == [body[b] EXCEPT !.at = "store", !.reserved = @ + 1]
<1>1. body[b].at = "open" /\ UNCHANGED <<live, dir, wiper>>
  BY DEF Push
<1>2. CASE Refuse(b) /\ UNCHANGED runtime
  BY <1>1, <1>2, RefuseKeeps
<1>3. CASE /\ runtime[body[b].rt].bytes + 1 <= ByteCap(runtime[body[b].rt].on)
           /\ runtime' = [runtime EXCEPT ![body[b].rt].bytes = @ + 1]
           /\ Set(b, h)
  <2>1. /\ h \in Handle /\ h.at = "store" /\ h.rt = body[b].rt /\ h.len = body[b].len
        /\ h.reserved = body[b].reserved + 1 /\ h.slot = body[b].slot
        /\ h.file = body[b].file
    <3>1. body[b].reserved + 1 \in Nat
      BY BodyFacts
    <3> QED BY <3>1, BodyFacts DEF Handle, Places
  <2>2. body' = [body EXCEPT ![b] = h]
    BY <1>3 DEF Set
  <2> HIDE DEF h
  <2>3. Sound(h)
    BY <1>1, <2>1, BodyFacts DEF Sound
  <2>4. runtime' \in [Runtimes -> [on : BOOLEAN, bytes : Int, files : Int]]
    BY <1>3, BodyFacts
  <2>5. ASSUME NEW k \in Runtimes
        PROVE  /\ runtime'[k].on = runtime[k].on
               /\ runtime'[k].bytes = runtime[k].bytes + BytesOn(h, k) - BytesOn(body[b], k)
               /\ runtime'[k].bytes <= ByteCap(runtime'[k].on)
               /\ runtime'[k].files = runtime[k].files + (IF SlotOn(h, k) THEN 1 ELSE 0)
                                         - (IF SlotOn(body[b], k) THEN 1 ELSE 0)
               /\ runtime'[k].files <= MaxFiles
    BY <1>1, <1>3, <2>1, BodyFacts DEF BytesOn, SlotOn
  <2>6. b \in dir' => h.file \/ h.at = "write" \/ (b \in dir /\ ~Owns(b))
    BY <1>1, <2>1 DEF Owns
  <2>7. h.rt <= live /\ wiper.at # "boot"
    BY <1>1, <2>1, BodyFacts
  <2> QED BY <1>1, <2>1, <2>2, <2>3, <2>4, <2>5, <2>6, <2>7, BodyMoves
<1> QED BY <1>2, <1>3, Zenon DEF Push

\* The chunk goes to memory below the ceiling, to the file, or makes the body spill.
LEMMA StoreKeeps ==
  ASSUME SpoolInv, NEW b \in Bodies, Store(b)
  PROVE  SpoolInv'
<1>1. body[b].at = "store" /\ UNCHANGED <<runtime, live, dir, wiper>>
  BY DEF Store
<1>2. CASE Refuse(b)
  BY <1>1, <1>2, RefuseKeeps
<1>3. ASSUME NEW h \in Handle, Set(b, h), Sound(h), h.at # "none", h.rt = body[b].rt,
             h.reserved = body[b].reserved, h.slot = body[b].slot, h.file = body[b].file
      PROVE  SpoolInv'
  <2>1. \A k \in Runtimes : /\ BytesOn(h, k) = BytesOn(body[b], k)
                            /\ SlotOn(h, k) <=> SlotOn(body[b], k)
    BY <1>1, <1>3 DEF BytesOn, SlotOn
  <2>2. b \in dir' => h.file \/ h.at = "write" \/ (b \in dir /\ ~Owns(b))
    BY <1>1, <1>3 DEF Owns
  <2>3. h.rt <= live /\ wiper.at # "boot"
    BY <1>1, <1>3, BodyFacts
  <2> QED BY <1>1, <1>3, <2>1, <2>2, <2>3, QuietMoves
<1>4. CASE ~body[b].file /\ Set(b, [body[b] EXCEPT !.at = "spill"])
  <2> DEFINE h == [body[b] EXCEPT !.at = "spill"]
  <2>1. /\ h \in Handle /\ h.at = "spill" /\ h.rt = body[b].rt /\ h.len = body[b].len
        /\ h.reserved = body[b].reserved /\ h.slot = body[b].slot /\ h.file = body[b].file
    BY BodyFacts DEF Handle, Places
  <2>2. Set(b, h)
    BY <1>4
  <2> HIDE DEF h
  <2>3. Sound(h)
    BY <1>1, <1>4, <2>1, BodyFacts DEF Sound
  <2> QED BY <1>3, <2>1, <2>2, <2>3
<1>5. CASE /\ ~(~body[b].file /\ body[b].len + 1 > Ceiling)
           /\ Set(b, [body[b] EXCEPT !.at = "open", !.len = @ + 1])
  <2> DEFINE h == [body[b] EXCEPT !.at = "open", !.len = @ + 1]
  <2>1. /\ h \in Handle /\ h.at = "open" /\ h.rt = body[b].rt /\ h.len = body[b].len + 1
        /\ h.reserved = body[b].reserved /\ h.slot = body[b].slot /\ h.file = body[b].file
    <3>1. body[b].len + 1 \in Nat
      BY BodyFacts
    <3> QED BY <3>1, BodyFacts DEF Handle, Places
  <2>2. Set(b, h)
    BY <1>5
  <2> HIDE DEF h
  <2>3. Sound(h)
    BY <1>1, <1>5, <2>1, BodyFacts DEF Sound
  <2> QED BY <1>3, <2>1, <2>2, <2>3
<1> QED BY <1>2, <1>4, <1>5, Zenon DEF Store

\* A spill needs the directory and a file slot of the body's own runtime.
LEMMA AcquireKeeps ==
  ASSUME SpoolInv, NEW b \in Bodies, SpillAcquire(b)
  PROVE  SpoolInv'
<1> DEFINE h == [body[b] EXCEPT !.at = "create", !.slot = TRUE]
<1>1. body[b].at = "spill" /\ UNCHANGED <<live, dir, wiper>>
  BY DEF SpillAcquire
<1>2. CASE Refuse(b) /\ UNCHANGED runtime
  BY <1>1, <1>2, RefuseKeeps
<1>3. CASE /\ runtime[body[b].rt].files < MaxFiles
           /\ runtime' = [runtime EXCEPT ![body[b].rt].files = @ + 1]
           /\ Set(b, h)
  <2>1. /\ h \in Handle /\ h.at = "create" /\ h.rt = body[b].rt /\ h.len = body[b].len
        /\ h.reserved = body[b].reserved /\ h.slot /\ h.file = body[b].file
    BY BodyFacts DEF Handle, Places
  <2>2. body' = [body EXCEPT ![b] = h]
    BY <1>3 DEF Set
  <2> HIDE DEF h
  <2>3. Sound(h) /\ ~body[b].slot
    BY <1>1, <2>1, BodyFacts DEF Sound
  <2>4. runtime' \in [Runtimes -> [on : BOOLEAN, bytes : Int, files : Int]]
    BY <1>3, BodyFacts
  <2>5. ASSUME NEW k \in Runtimes
        PROVE  /\ runtime'[k].on = runtime[k].on
               /\ runtime'[k].bytes = runtime[k].bytes + BytesOn(h, k) - BytesOn(body[b], k)
               /\ runtime'[k].bytes <= ByteCap(runtime'[k].on)
               /\ runtime'[k].files = runtime[k].files + (IF SlotOn(h, k) THEN 1 ELSE 0)
                                         - (IF SlotOn(body[b], k) THEN 1 ELSE 0)
               /\ runtime'[k].files <= MaxFiles
    BY <1>1, <1>3, <2>1, <2>3, BodyFacts DEF BytesOn, SlotOn
  <2>6. b \in dir' => h.file \/ h.at = "write" \/ (b \in dir /\ ~Owns(b))
    BY <1>1, <2>1 DEF Owns
  <2>7. h.rt <= live /\ wiper.at # "boot"
    BY <1>1, <2>1, BodyFacts
  <2> QED BY <1>1, <2>1, <2>2, <2>3, <2>4, <2>5, <2>6, <2>7, BodyMoves
<1> QED BY <1>2, <1>3, Zenon DEF SpillAcquire

\* The file is created and written, or the slot goes back and the file is removed.
LEMMA SpillKeeps ==
  ASSUME SpoolInv, NEW b \in Bodies, SpillCreate(b) \/ SpillWrite(b)
  PROVE  SpoolInv'
<1>0. UNCHANGED <<live, wiper>>
  BY Zenon DEF SpillCreate, SpillWrite
<1>1. ASSUME NEW h \in Handle, Set(b, h), Sound(h), h.at # "none", h.rt = body[b].rt,
             body[b].at # "none", h.reserved = body[b].reserved, h.slot = body[b].slot,
             UNCHANGED runtime, dir' \subseteq dir \cup {b}, h.file \/ h.at = "write"
      PROVE  SpoolInv'
  <2>1. \A k \in Runtimes : /\ BytesOn(h, k) = BytesOn(body[b], k)
                            /\ SlotOn(h, k) <=> SlotOn(body[b], k)
    BY <1>1 DEF BytesOn, SlotOn
  <2>2. h.rt <= live /\ wiper.at # "boot"
    BY <1>1, BodyFacts
  <2> QED BY <1>0, <1>1, <2>1, <2>2, QuietMoves
<1>2. CASE SpillCreate(b)
  <2>1. body[b].at = "create"
    BY <1>2 DEF SpillCreate
  <2>2. CASE ReleaseSlot(b) /\ UNCHANGED dir
    BY <1>0, <2>1, <2>2, ReleaseKeeps
  <2>3. CASE dir' = dir \cup {b} /\ Set(b, [body[b] EXCEPT !.at = "write"])
             /\ UNCHANGED runtime
    <3> DEFINE h == [body[b] EXCEPT !.at = "write"]
    <3>1. /\ h \in Handle /\ h.at = "write" /\ h.rt = body[b].rt /\ h.len = body[b].len
          /\ h.reserved = body[b].reserved /\ h.slot = body[b].slot
          /\ h.file = body[b].file
      BY BodyFacts DEF Handle, Places
    <3>2. Set(b, h)
      BY <2>3
    <3> HIDE DEF h
    <3>3. Sound(h)
      BY <2>1, <3>1, BodyFacts DEF Sound
    <3> QED BY <1>1, <2>1, <2>3, <3>1, <3>2, <3>3
  <2> QED BY <1>2, <2>2, <2>3, Zenon DEF SpillCreate
<1>3. CASE SpillWrite(b)
  <2>1. body[b].at = "write"
    BY <1>3 DEF SpillWrite
  <2>2. CASE ReleaseSlot(b) /\ dir' = dir \ {b}
    BY <1>0, <2>1, <2>2, ReleaseKeeps
  <2>3. CASE /\ Set(b, [body[b] EXCEPT !.at = "open", !.len = @ + 1, !.file = TRUE])
             /\ UNCHANGED <<runtime, dir>>
    <3> DEFINE h == [body[b] EXCEPT !.at = "open", !.len = @ + 1, !.file = TRUE]
    <3>1. /\ h \in Handle /\ h.at = "open" /\ h.rt = body[b].rt /\ h.len = body[b].len + 1
          /\ h.reserved = body[b].reserved /\ h.slot = body[b].slot /\ h.file
      <4>1. body[b].len + 1 \in Nat
        BY BodyFacts
      <4> QED BY <4>1, BodyFacts DEF Handle, Places
    <3>2. Set(b, h)
      BY <2>3
    <3> HIDE DEF h
    <3>3. Sound(h)
      BY <2>1, <3>1, BodyFacts DEF Sound
    <3> QED BY <1>1, <2>1, <2>3, <3>1, <3>2, <3>3
  <2> QED BY <1>3, <2>2, <2>3, Zenon DEF SpillWrite
<1> QED BY <1>2, <1>3

\* Drop gives the bytes back to the runtime they were taken from.
LEMMA DropBytesKeeps ==
  ASSUME SpoolInv, NEW b \in Bodies, DropBytes(b)
  PROVE  SpoolInv'
<1> DEFINE h == [body[b] EXCEPT !.at = "drop_slot", !.reserved = 0]
<1>1. body[b].at = "drop_bytes" /\ UNCHANGED <<live, dir, wiper>>
  BY DEF DropBytes
<1>2. /\ h \in Handle /\ h.at = "drop_slot" /\ h.rt = body[b].rt /\ h.len = body[b].len
      /\ h.reserved = 0 /\ h.slot = body[b].slot /\ h.file = body[b].file
  BY BodyFacts DEF Handle, Places
<1>3. /\ body' = [body EXCEPT ![b] = h]
      /\ runtime' = [runtime EXCEPT ![body[b].rt].bytes = @ - body[b].reserved]
  BY Zenon DEF DropBytes, Set
<1> HIDE DEF h
<1>4. Sound(h)
  BY <1>1, <1>2, BodyFacts DEF Sound
<1>5. runtime' \in [Runtimes -> [on : BOOLEAN, bytes : Int, files : Int]]
  BY <1>3, BodyFacts
<1>6. ASSUME NEW k \in Runtimes
      PROVE  /\ runtime'[k].on = runtime[k].on
             /\ runtime'[k].bytes = runtime[k].bytes + BytesOn(h, k) - BytesOn(body[b], k)
             /\ runtime'[k].bytes <= ByteCap(runtime'[k].on)
             /\ runtime'[k].files = runtime[k].files + (IF SlotOn(h, k) THEN 1 ELSE 0)
                                       - (IF SlotOn(body[b], k) THEN 1 ELSE 0)
             /\ runtime'[k].files <= MaxFiles
  BY <1>1, <1>2, <1>3, BodyFacts DEF BytesOn, SlotOn
<1>7. b \in dir' => h.file \/ h.at = "write" \/ (b \in dir /\ ~Owns(b))
  BY <1>1, <1>2 DEF Owns
<1>8. h.rt <= live /\ wiper.at # "boot"
  BY <1>1, <1>2, BodyFacts
<1> QED BY <1>1, <1>2, <1>3, <1>4, <1>5, <1>6, <1>7, <1>8, BodyMoves

\* And the slot, if the handle has one.
LEMMA DropSlotKeeps ==
  ASSUME SpoolInv, NEW b \in Bodies, DropSlot(b)
  PROVE  SpoolInv'
<1> DEFINE h == [body[b] EXCEPT !.at = "drop_file", !.slot = FALSE]
<1>1. body[b].at = "drop_slot" /\ UNCHANGED <<live, dir, wiper>>
  BY DEF DropSlot
<1>2. /\ h \in Handle /\ h.at = "drop_file" /\ h.rt = body[b].rt /\ h.len = body[b].len
      /\ h.reserved = body[b].reserved /\ ~h.slot /\ h.file = body[b].file
  BY BodyFacts DEF Handle, Places
<1>3. /\ body' = [body EXCEPT ![b] = h]
      /\ runtime' = IF body[b].slot THEN [runtime EXCEPT ![body[b].rt].files = @ - 1]
                    ELSE runtime
  BY Zenon DEF DropSlot, Set
<1> HIDE DEF h
<1>4. Sound(h)
  BY <1>1, <1>2, BodyFacts DEF Sound
<1>5. runtime' \in [Runtimes -> [on : BOOLEAN, bytes : Int, files : Int]]
  BY <1>3, BodyFacts
<1>6. ASSUME NEW k \in Runtimes
      PROVE  /\ runtime'[k].on = runtime[k].on
             /\ runtime'[k].bytes = runtime[k].bytes + BytesOn(h, k) - BytesOn(body[b], k)
             /\ runtime'[k].bytes <= ByteCap(runtime'[k].on)
             /\ runtime'[k].files = runtime[k].files + (IF SlotOn(h, k) THEN 1 ELSE 0)
                                       - (IF SlotOn(body[b], k) THEN 1 ELSE 0)
             /\ runtime'[k].files <= MaxFiles
  BY <1>1, <1>2, <1>3, BodyFacts DEF BytesOn, SlotOn
<1>7. b \in dir' => h.file \/ h.at = "write" \/ (b \in dir /\ ~Owns(b))
  BY <1>1, <1>2 DEF Owns
<1>8. h.rt <= live /\ wiper.at # "boot"
  BY <1>1, <1>2, BodyFacts
<1> QED BY <1>1, <1>2, <1>3, <1>4, <1>5, <1>6, <1>7, <1>8, BodyMoves

\* And last the file.
LEMMA DropFileKeeps ==
  ASSUME SpoolInv, NEW b \in Bodies, DropFile(b)
  PROVE  SpoolInv'
<1>1. /\ body[b].at = "drop_file" /\ UNCHANGED <<runtime, live, wiper>> /\ Set(b, NoHandle)
      /\ dir' = IF body[b].file THEN dir \ {b} ELSE dir
  BY DEF DropFile
<1>2. body[b].reserved = 0 /\ ~body[b].slot
  BY <1>1, BodyFacts DEF Sound
<1>3. NoHandle \in Handle /\ Sound(NoHandle) /\ NoHandle.rt = 0
  BY BodyFacts DEF NoHandle, Handle, Places, Sound, Runtimes
<1>4. \A k \in Runtimes : /\ BytesOn(NoHandle, k) = BytesOn(body[b], k)
                          /\ SlotOn(NoHandle, k) <=> SlotOn(body[b], k)
  BY <1>1, <1>2 DEF BytesOn, SlotOn, NoHandle
<1>5. b \in dir' => b \in dir /\ ~Owns(b)
  BY <1>1 DEF Owns
<1>6. NoHandle.rt <= live /\ wiper.at # "boot"
  BY <1>1, <1>3, BodyFacts
<1> QED BY <1>1, <1>3, <1>4, <1>5, <1>6, QuietMoves

-----------------------------------------------------------------------------
(* spool::boot and the crash before it. *)

\* A step of the wiper that touches no handle and no counter.
LEMMA WiperKeeps ==
  ASSUME SpoolInv, UNCHANGED <<runtime, live, body>>, dir' \subseteq dir,
         wiper' \in [at : {"boot", "idle", "reload"}, on : BOOLEAN, todo : SUBSET Bodies],
         wiper'.at = "boot" <=> wiper.at = "boot",
         Leftovers'
  PROVE  SpoolInv'
<1>1. Types'
  BY DEF SpoolInv, Types
<1>2. Opened'
  BY DEF SpoolInv, Opened
<1>3. \A k \in Runtimes : HeldOn(k)' = HeldOn(k) /\ Slots(k)' = Slots(k)
  BY DEF HeldOn, Slots, On
<1>4. Counted'
  BY <1>3 DEF SpoolInv, Counted, Total, Units
<1>5. NoOrphans'
  BY DEF SpoolInv, NoOrphans, Owns
<1> QED BY <1>1, <1>2, <1>4, <1>5 DEF SpoolInv

\* A reload lists what is there before it touches anything.
LEMMA BeginKeeps ==
  ASSUME SpoolInv, NEW on \in BOOLEAN, ReloadBegin(on)
  PROVE  SpoolInv'
<1>1. /\ wiper.at = "idle" /\ live < MaxReloads /\ UNCHANGED <<runtime, live, body, dir>>
      /\ wiper' = [at |-> "reload", on |-> on, todo |-> IF on THEN dir ELSE {}]
  BY DEF ReloadBegin
<1>2. dir \subseteq Bodies
  BY DEF SpoolInv, Types
<1>3. /\ wiper' \in [at : {"boot", "idle", "reload"}, on : BOOLEAN, todo : SUBSET Bodies]
      /\ wiper'.at = "reload"
  BY <1>1, <1>2
<1>4. Leftovers'
  BY <1>1 DEF Leftovers
<1> QED BY <1>1, <1>3, <1>4, WiperKeeps

\* One entry goes; at boot what is listed is what is there.
LEMMA WipeKeeps ==
  ASSUME SpoolInv, NEW f \in Bodies, Wipe(f)
  PROVE  SpoolInv'
<1>0. wiper \in [at : {"boot", "idle", "reload"}, on : BOOLEAN, todo : SUBSET Bodies]
      /\ dir \subseteq Bodies
  BY DEF SpoolInv, Types
<1>1. /\ wiper.at \in {"boot", "reload"} /\ wiper.on /\ f \in wiper.todo \cup dir
      /\ dir' = dir \ {f} /\ UNCHANGED <<runtime, live, body>>
      /\ wiper' = IF f \in dir THEN [wiper EXCEPT !.todo = @ \ {f}]
                               ELSE [at |-> "idle", on |-> FALSE, todo |-> {}]
  BY DEF Wipe
<1>2. wiper.at = "boot" => f \in dir
  BY <1>1 DEF SpoolInv, Leftovers
<1>3. CASE f \in dir
  <2>1. /\ wiper' \in [at : {"boot", "idle", "reload"}, on : BOOLEAN, todo : SUBSET Bodies]
        /\ wiper'.at = wiper.at /\ wiper'.on = wiper.on /\ wiper'.todo = wiper.todo \ {f}
    BY <1>0, <1>1, <1>3
  <2>2. \A b \in Bodies : Owns(b)' = Owns(b)
    BY <1>1 DEF Owns
  <2>3. Leftovers'
    BY <1>0, <1>1, <2>1, <2>2 DEF SpoolInv, Leftovers
  <2> QED BY <1>1, <2>1, <2>3, WiperKeeps
<1>4. CASE f \notin dir
  <2>1. wiper' = [at |-> "idle", on |-> FALSE, todo |-> {}] /\ wiper.at = "reload"
    BY <1>1, <1>2, <1>4
  <2>2. Leftovers'
    BY <2>1 DEF Leftovers
  <2> QED BY <1>1, <2>1, <2>2, WiperKeeps
<1> QED BY <1>3, <1>4

\* A refused reload leaves the old runtime live.
LEMMA RefusedKeeps ==
  ASSUME SpoolInv, WipeRefused
  PROVE  SpoolInv'
<1>1. /\ wiper.at = "reload" /\ UNCHANGED <<runtime, live, body, dir>>
      /\ wiper' = [at |-> "idle", on |-> FALSE, todo |-> {}]
  BY DEF WipeRefused
<1>2. Leftovers'
  BY <1>1 DEF Leftovers
<1> QED BY <1>1, <1>2, WiperKeeps

\* A runtime that no body is on holds nothing.
LEMMA NobodyOn ==
  ASSUME NEW k \in Runtimes, On(k) = {}
  PROVE  Total(HeldOn(k)) = 0 /\ Cardinality(Slots(k)) = 0
<1>1. HeldOn(k) \in [Bodies -> Nat] /\ \A b \in Bodies : HeldOn(k)[b] = 0
  BY DEF HeldOn
<1>2. Slots(k) = {}
  BY DEF Slots
<1> QED BY <1>1, <1>2, TotalZero, FS_EmptySet

\* The new runtime begins with empty budgets, and no body is on it.
LEMMA DoneKeeps ==
  ASSUME SpoolInv, WipeDone
  PROVE  SpoolInv'
<1> DEFINE next == IF wiper.at = "reload" THEN live + 1 ELSE live
<1>0. /\ runtime \in [Runtimes -> [on : BOOLEAN, bytes : Nat, files : Nat]]
      /\ live \in Runtimes /\ body \in [Bodies -> Handle] /\ wiper.on \in BOOLEAN
      /\ dir \in SUBSET Bodies
  BY DEF SpoolInv, Types
<1>1. /\ wiper.at \in {"boot", "reload"} /\ wiper.todo = {} /\ UNCHANGED <<body, dir>>
      /\ runtime' = [runtime EXCEPT ![next] = NewRuntime(wiper.on)] /\ live' = next
      /\ wiper' = [at |-> "idle", on |-> FALSE, todo |-> {}]
  BY DEF WipeDone
<1>2. next \in Runtimes /\ live <= next
  BY <1>0, <1>1, SpoolAssumption DEF SpoolInv, Leftovers, Runtimes
<1>3. On(next) = {}
  <2>1. ASSUME NEW b \in Bodies, body[b].at # "none" PROVE body[b].rt # next
    <3>1. body[b].rt <= live /\ wiper.at = "reload" /\ body[b].rt \in Runtimes
      BY <1>0, <1>1, <2>1 DEF SpoolInv, Opened, Handle
    <3> QED BY <1>0, <3>1, SpoolAssumption DEF Runtimes
  <2> QED BY <2>1 DEF On
<1> HIDE DEF next
<1>4. Types'
  BY <1>0, <1>1, <1>2 DEF Types, NewRuntime
<1>5. Opened'
  <2> SUFFICES ASSUME NEW b \in Bodies PROVE body[b].rt <= next /\ Sound(body[b])
    BY <1>1 DEF Opened
  <2>1. body[b].rt <= live /\ Sound(body[b]) /\ body[b].rt \in Runtimes
    BY <1>0 DEF SpoolInv, Opened, Handle
  <2> QED BY <1>0, <1>2, <2>1, SpoolAssumption DEF Runtimes
<1>6. Counted'
  <2> SUFFICES ASSUME NEW k \in Runtimes
               PROVE  /\ runtime'[k].bytes = Total(HeldOn(k))'
                      /\ runtime'[k].bytes <= ByteCap(runtime'[k].on)
                      /\ runtime'[k].files = Cardinality(Slots(k))'
                      /\ runtime'[k].files <= MaxFiles
    BY DEF Counted
  <2>1. HeldOn(k)' = HeldOn(k) /\ Slots(k)' = Slots(k)
    BY <1>1 DEF HeldOn, Slots, On
  <2>2. Total(HeldOn(k))' = Total(HeldOn(k))
    BY <2>1 DEF Total, Units
  <2>3. CASE k = next
    <3>1. runtime'[k].bytes = 0 /\ runtime'[k].files = 0
      BY <1>0, <1>1, <2>3 DEF NewRuntime
    <3>2. Total(HeldOn(k)) = 0 /\ Cardinality(Slots(k)) = 0
      BY <1>3, <2>3, NobodyOn
    <3>3. runtime'[k].on \in BOOLEAN /\ 0 <= MaxFiles
      BY <1>4, SpoolAssumption DEF Types
    <3>4. 0 <= ByteCap(runtime'[k].on)
      BY <3>3, CapIsNat
    <3> QED BY <2>1, <2>2, <3>1, <3>2, <3>3, <3>4
  <2>4. CASE k # next
    <3>1. runtime'[k] = runtime[k]
      BY <1>0, <1>1, <2>4
    <3> QED BY <2>1, <2>2, <3>1 DEF SpoolInv, Counted
  <2> QED BY <2>3, <2>4
<1>7. Leftovers'
  BY <1>1 DEF Leftovers
<1>8. NoOrphans'
  <2> SUFFICES ASSUME runtime'[live'].on, NEW b \in dir PROVE Owns(b)
    BY <1>1 DEF NoOrphans, Owns
  <2>1. wiper.on
    BY <1>0, <1>1, <1>2 DEF NewRuntime
  <2>2. CASE wiper.at = "boot"
    BY <1>1, <2>1, <2>2 DEF SpoolInv, Leftovers
  <2>3. CASE wiper.at = "reload"
    BY <1>1, <2>1, <2>3 DEF SpoolInv, Leftovers
  <2> QED BY <1>1, <2>2, <2>3
<1> QED BY <1>4, <1>5, <1>6, <1>7, <1>8 DEF SpoolInv

\* Nothing is held when a process begins.
LEMMA FreshProcess ==
  ASSUME runtime = [k \in Runtimes |-> NewRuntime(FALSE)], live = 0,
         body = [b \in Bodies |-> NoHandle], dir \in SUBSET Bodies,
         NEW on \in BOOLEAN,
         wiper = [at |-> "boot", on |-> on, todo |-> IF on THEN dir ELSE {}]
  PROVE  SpoolInv
<1>0. 0 \in Runtimes /\ MaxFiles \in Nat /\ Ceiling \in Nat
  BY SpoolAssumption DEF Runtimes
<1>1. NoHandle \in Handle /\ Sound(NoHandle) /\ NoHandle.rt = 0 /\ NoHandle.at = "none"
  BY <1>0 DEF NoHandle, Handle, Places, Sound
<1>2. Types
  BY <1>0, <1>1 DEF Types, NewRuntime
<1>3. Opened
  BY <1>0, <1>1 DEF Opened
<1>4. Counted
  <2> SUFFICES ASSUME NEW k \in Runtimes
               PROVE  /\ runtime[k].bytes = Total(HeldOn(k))
                      /\ runtime[k].bytes <= ByteCap(runtime[k].on)
                      /\ runtime[k].files = Cardinality(Slots(k))
                      /\ runtime[k].files <= MaxFiles
    BY DEF Counted
  <2>1. On(k) = {}
    BY <1>1 DEF On
  <2>2. runtime[k].bytes = 0 /\ runtime[k].files = 0
    BY DEF NewRuntime
  <2>3. Total(HeldOn(k)) = 0 /\ Cardinality(Slots(k)) = 0
    BY <2>1, NobodyOn
  <2>4. runtime[k].on \in BOOLEAN
    BY <1>2 DEF Types
  <2>5. 0 <= ByteCap(runtime[k].on)
    BY <2>4, CapIsNat
  <2>6. 0 <= MaxFiles
    BY <1>0
  <2> QED BY <2>2, <2>3, <2>5, <2>6
<1>5. Leftovers /\ NoOrphans
  BY DEF Leftovers, NoOrphans
<1> QED BY <1>2, <1>3, <1>4, <1>5 DEF SpoolInv

\* A crash forgets every handle and leaves every file.
LEMMA CrashKeeps ==
  ASSUME SpoolInv, NEW on \in BOOLEAN, Crash(on)
  PROVE  SpoolInv'
<1>1. /\ runtime' = [k \in Runtimes |-> NewRuntime(FALSE)] /\ live' = 0
      /\ body' = [b \in Bodies |-> NoHandle] /\ dir' = dir
      /\ wiper' = [at |-> "boot", on |-> on, todo |-> IF on THEN dir' ELSE {}]
  BY DEF Crash
<1>2. dir' \in SUBSET Bodies
  BY <1>1 DEF SpoolInv, Types
<1>3. 0 \in Runtimes /\ MaxFiles \in Nat /\ Ceiling \in Nat
  BY SpoolAssumption DEF Runtimes
<1>4. NoHandle \in Handle /\ Sound(NoHandle) /\ NoHandle.rt = 0 /\ NoHandle.at = "none"
  BY <1>3 DEF NoHandle, Handle, Places, Sound
<1>5. Types' /\ Opened' /\ Leftovers' /\ NoOrphans'
  BY <1>1, <1>2, <1>3, <1>4 DEF Types, Opened, Leftovers, NoOrphans, NewRuntime
<1>6. Counted'
  <2> SUFFICES ASSUME NEW k \in Runtimes
               PROVE  /\ runtime'[k].bytes = Total(HeldOn(k))'
                      /\ runtime'[k].bytes <= ByteCap(runtime'[k].on)
                      /\ runtime'[k].files = Cardinality(Slots(k))'
                      /\ runtime'[k].files <= MaxFiles
    BY DEF Counted
  <2>1. On(k)' = {}
    BY <1>1, <1>4 DEF On
  <2>2. runtime'[k].bytes = 0 /\ runtime'[k].files = 0
    BY <1>1 DEF NewRuntime
  <2>3. HeldOn(k)' \in [Bodies -> Nat] /\ (\A b \in Bodies : (HeldOn(k)')[b] = 0)
    BY <2>1 DEF HeldOn
  <2>4. Total(HeldOn(k)') = 0
    BY <2>3, TotalZero
  <2>5. Total(HeldOn(k))' = Total(HeldOn(k)')
    BY DEF Total, Units
  <2>6. Slots(k)' = {}
    BY <2>1 DEF Slots
  <2>7. runtime'[k].on \in BOOLEAN
    BY <1>5 DEF Types
  <2>8. 0 <= ByteCap(runtime'[k].on)
    BY <2>7, CapIsNat
  <2> QED BY <1>3, <2>2, <2>4, <2>5, <2>6, <2>8, FS_EmptySet
<1> QED BY <1>5, <1>6 DEF SpoolInv

-----------------------------------------------------------------------------
\* The first boot finds an empty directory.
LEMMA InitInv == SpoolInit => SpoolInv
<1> SUFFICES ASSUME SpoolInit PROVE SpoolInv
  OBVIOUS
<1>1. PICK w \in [at : {"boot"}, on : BOOLEAN, todo : {{}}] : wiper = w
  BY DEF SpoolInit
<1>2. /\ w.on \in BOOLEAN
      /\ wiper = [at |-> "boot", on |-> w.on, todo |-> IF w.on THEN dir ELSE {}]
  BY <1>1 DEF SpoolInit
<1>3. /\ runtime = [k \in Runtimes |-> NewRuntime(FALSE)] /\ live = 0
      /\ body = [b \in Bodies |-> NoHandle] /\ dir \in SUBSET Bodies
  BY DEF SpoolInit
<1> QED BY <1>2, <1>3, FreshProcess

\* Every step keeps the invariant.
LEMMA NextInv == SpoolInv /\ [SpoolNext]_spoolVars => SpoolInv'
<1> SUFFICES ASSUME SpoolInv, [SpoolNext]_spoolVars PROVE SpoolInv'
  OBVIOUS
<1>1. CASE UNCHANGED spoolVars
  <2>1. runtime' = runtime /\ live' = live /\ body' = body /\ dir' = dir /\ wiper' = wiper
    BY <1>1 DEF spoolVars
  <2>2. Leftovers' /\ wiper \in [at : {"boot", "idle", "reload"}, on : BOOLEAN,
                                todo : SUBSET Bodies]
    BY <2>1 DEF SpoolInv, Leftovers, Owns, Types
  <2> QED BY <2>1, <2>2, WiperKeeps
<1>2. ASSUME NEW b \in Bodies, Step(b) \/ Wipe(b) PROVE SpoolInv'
  <2>1. CASE New(b)
    BY <2>1, NewKeeps
  <2>2. CASE Push(b)
    BY <2>2, PushKeeps
  <2>3. CASE Store(b)
    BY <2>3, StoreKeeps
  <2>4. CASE SpillAcquire(b)
    BY <2>4, AcquireKeeps
  <2>5. CASE SpillCreate(b) \/ SpillWrite(b)
    BY <2>5, SpillKeeps
  <2>6. CASE End(b)
    BY <2>6, RefuseKeeps DEF End
  <2>7. CASE DropBytes(b)
    BY <2>7, DropBytesKeeps
  <2>8. CASE DropSlot(b)
    BY <2>8, DropSlotKeeps
  <2>9. CASE DropFile(b)
    BY <2>9, DropFileKeeps
  <2>10. CASE Wipe(b)
    BY <2>10, WipeKeeps
  <2> QED BY <1>2, <2>1, <2>2, <2>3, <2>4, <2>5, <2>6, <2>7, <2>8, <2>9, <2>10 DEF Step
<1>3. CASE WipeDone
  BY <1>3, DoneKeeps
<1>4. CASE WipeRefused
  BY <1>4, RefusedKeeps
<1>5. ASSUME NEW on \in BOOLEAN, ReloadBegin(on) \/ Crash(on) PROVE SpoolInv'
  BY <1>5, BeginKeeps, CrashKeeps
<1> QED BY <1>1, <1>2, <1>3, <1>4, <1>5 DEF SpoolNext

\* Types, handles, counters and leftovers, in every reachable state.
THEOREM Invariance == SpoolSpec => []SpoolInv
<1>1. SpoolInit => SpoolInv
  BY InitInv
<1>2. SpoolInv /\ [SpoolNext]_spoolVars => SpoolInv'
  BY NextInv
<1> QED BY <1>1, <1>2, PTL DEF SpoolSpec

\* The byte and file counters of every SpoolRuntime, the live one and those that older
\* bodies still hold on to, are what their bodies hold, and never above the limits,
\* whichever call of push, spill_to_file or Drop failed or raced with a reload.
THEOREM BudgetsAreExact == SpoolSpec => []BudgetsExact
<1>1. SpoolInv => BudgetsExact
  BY DEF SpoolInv, Counted, Slots, Opened, Sound, BudgetsExact, HeldIsReserved
<1> QED BY <1>1, Invariance, PTL

\* While the spool is on, every spool-* file belongs to a body that will remove it: a
\* crash leaves nothing behind that boot or the reload that turns the spool on does
\* not wipe.
THEOREM FilesAreOwned == SpoolSpec => []NoOrphans
<1>1. SpoolInv => NoOrphans
  BY DEF SpoolInv
<1> QED BY <1>1, Invariance, PTL
===============================================================================
