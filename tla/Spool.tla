-------------------------------- MODULE Spool --------------------------------
(***************************************************************************)
(* The request spool (src/src/spool.rs) and its runtime, which             *)
(* src/src/policy.rs replaces at every reload: the byte and file budgets,  *)
(* a body's way from memory to a spool-* file, Drop, and the wipe of the   *)
(* spool directory at boot and at reload.                                  *)
(*                                                                         *)
(* A step is one atomic operation on a budget or one call that touches the *)
(* directory: between them other bodies, and a reload, may run.            *)
(***************************************************************************)
EXTENDS Integers, FiniteSets, Budgets

CONSTANTS
  Bodies,      \* request bodies being spooled
  MaxBody,     \* max_decoded_body, in chunks
  Ceiling,     \* MEMORY_CEILING
  MaxBytes,    \* SPOOL_MAX_BYTES
  DefaultBytes,\* DEFAULT_MAX_BYTES, the cap of a runtime that is off
  MaxFiles,    \* SPOOL_MAX_FILES
  MaxReloads   \* bound: runtimes a process goes through after its first

ASSUME SpoolAssumption ==
  /\ IsFiniteSet(Bodies)
  /\ {MaxBody, MaxBytes, DefaultBytes, MaxFiles} \subseteq Nat \ {0}
  /\ Ceiling \in Nat /\ MaxReloads \in Nat

Runtimes == 0 .. MaxReloads

VARIABLES
  runtime,   \* the SpoolRuntimes: whether `dir` is set, and the two budgets
  live,      \* the one PolicyStore.spool() returns
  body,      \* the SpoolHandles
  dir,       \* spool-* files in SPOOL_DIR, by the body that created them
  wiper      \* spool::boot: its place, the entries read_dir gave, and for what

spoolVars == <<runtime, live, body, dir, wiper>>

NewRuntime(on) == [on |-> on, bytes |-> 0, files |-> 0]

\* from_config takes the cap from the environment only for a policy with spool routes
ByteCap(on) == IF on THEN MaxBytes ELSE DefaultBytes

NoHandle == [at |-> "none", rt |-> 0, len |-> 0, reserved |-> 0, slot |-> FALSE,
             file |-> FALSE]

Set(b, h) == body' = [body EXCEPT ![b] = h]
Refuse(b) == Set(b, [body[b] EXCEPT !.at = "drop_bytes"])

-----------------------------------------------------------------------------
(* push and spill_to_file. A refused body is dropped with its request. *)

\* SpoolHandle::new on the runtime that is live when the body is about to be read.
\* The request's own policy, the live one or one before it, has a spool route
New(b) ==
  /\ body[b].at = "none"
  /\ wiper.at # "boot"
  /\ \E k \in 0 .. live : runtime[k].on
  /\ Set(b, [NoHandle EXCEPT !.at = "open", !.rt = live])
  /\ UNCHANGED <<runtime, live, dir, wiper>>

\* push: a chunk over the limit is refused, and one the budget has no room for
Push(b) ==
  LET h == body[b]
      fits == runtime[h.rt].bytes + 1 <= ByteCap(runtime[h.rt].on)
  IN  /\ h.at = "open"
      /\ \/ /\ h.len + 1 > MaxBody \/ ~fits
            /\ Refuse(b)
            /\ UNCHANGED runtime
         \/ /\ h.len + 1 <= MaxBody /\ fits
            /\ runtime' = [runtime EXCEPT ![h.rt].bytes = @ + 1]
            /\ Set(b, [h EXCEPT !.at = "store", !.reserved = @ + 1])
      /\ UNCHANGED <<live, dir, wiper>>

\* push: into memory, or at the end of the file, which may fail
Store(b) ==
  LET h == body[b]
      spill == ~h.file /\ h.len + 1 > Ceiling
  IN  /\ h.at = "store"
      /\ \/ /\ spill
            /\ Set(b, [h EXCEPT !.at = "spill"])
         \/ /\ ~spill
            /\ Set(b, [h EXCEPT !.at = "open", !.len = @ + 1])
         \/ h.file /\ Refuse(b)
      /\ UNCHANGED <<runtime, live, dir, wiper>>

\* spill_to_file: a directory and a file slot
SpillAcquire(b) ==
  LET h == body[b]
      granted == runtime[h.rt].on /\ runtime[h.rt].files < MaxFiles
  IN  /\ h.at = "spill"
      /\ \/ /\ granted
            /\ runtime' = [runtime EXCEPT ![h.rt].files = @ + 1]
            /\ Set(b, [h EXCEPT !.at = "create", !.slot = TRUE])
         \/ /\ ~granted
            /\ Refuse(b)
            /\ UNCHANGED runtime
      /\ UNCHANGED <<live, dir, wiper>>

\* mutant: an error of open or write_all loses the slot
ReleaseSlot_Leaks(b) ==
  /\ Set(b, [body[b] EXCEPT !.at = "drop_bytes", !.slot = FALSE])
  /\ UNCHANGED runtime

\* the slot given back on an error of open or write_all
ReleaseSlot(b) ==
  /\ runtime' = [runtime EXCEPT ![body[b].rt].files = @ - 1]
  /\ Set(b, [body[b] EXCEPT !.at = "drop_bytes", !.slot = FALSE])

SpillCreate(b) ==
  /\ body[b].at = "create"
  /\ \/ /\ dir' = dir \cup {b}
        /\ Set(b, [body[b] EXCEPT !.at = "write"])
        /\ UNCHANGED runtime
     \/ /\ ReleaseSlot(b)
        /\ UNCHANGED dir
  /\ UNCHANGED <<live, wiper>>

\* mutant: a spill that fails leaves its file behind
SpillWrite_KeepsFile(b) ==
  /\ body[b].at = "write"
  /\ \/ /\ Set(b, [body[b] EXCEPT !.at = "open", !.len = @ + 1, !.file = TRUE])
        /\ UNCHANGED runtime
     \/ ReleaseSlot(b)
  /\ UNCHANGED <<live, dir, wiper>>

SpillWrite(b) ==
  /\ body[b].at = "write"
  /\ \/ /\ Set(b, [body[b] EXCEPT !.at = "open", !.len = @ + 1, !.file = TRUE])
        /\ UNCHANGED <<runtime, dir>>
     \/ /\ dir' = dir \ {b}
        /\ ReleaseSlot(b)
  /\ UNCHANGED <<live, wiper>>

-----------------------------------------------------------------------------
(* The request ends: Drop for SpoolHandle, in the code's order. *)

End(b) ==
  /\ body[b].at = "open"
  /\ Refuse(b)
  /\ UNCHANGED <<runtime, live, dir, wiper>>

DropBytes(b) ==
  LET h == body[b]
  IN  /\ h.at = "drop_bytes"
      /\ runtime' = [runtime EXCEPT ![h.rt].bytes = @ - h.reserved]
      /\ Set(b, [h EXCEPT !.at = "drop_slot", !.reserved = 0])
      /\ UNCHANGED <<live, dir, wiper>>

DropSlot(b) ==
  LET h == body[b]
  IN  /\ h.at = "drop_slot"
      /\ runtime' = IF h.slot THEN [runtime EXCEPT ![h.rt].files = @ - 1] ELSE runtime
      /\ Set(b, [h EXCEPT !.at = "drop_file", !.slot = FALSE])
      /\ UNCHANGED <<live, dir, wiper>>

DropFile(b) ==
  /\ body[b].at = "drop_file"
  /\ dir' = IF body[b].file THEN dir \ {b} ELSE dir
  /\ Set(b, NoHandle)
  /\ UNCHANGED <<runtime, live, wiper>>

-----------------------------------------------------------------------------
(* spool::boot, at start and in live_from_config at every reload. *)

\* a reload whose config has spool routes reads the directory, another skips it
ReloadBegin(on) ==
  /\ wiper.at = "idle"
  /\ live < MaxReloads
  /\ wiper' = [at |-> "reload", on |-> on, todo |-> IF on THEN dir ELSE {}]
  /\ UNCHANGED <<runtime, live, body, dir>>

\* prepare removes one entry, of those that were there or of those created since,
\* which read_dir may return too. It fails if Drop was faster: the reload is
\* refused, at boot nobody else is there
Wipe(f) ==
  /\ wiper.at \in {"boot", "reload"}
  /\ wiper.on
  /\ f \in wiper.todo \cup dir
  /\ dir' = dir \ {f}
  /\ wiper' = IF f \in dir THEN [wiper EXCEPT !.todo = @ \ {f}]
                           ELSE [at |-> "idle", on |-> FALSE, todo |-> {}]
  /\ UNCHANGED <<runtime, live, body>>

\* prepare finds the directory missing or not dedicated: the reload is refused
WipeRefused ==
  /\ wiper.at = "reload" /\ wiper.on
  /\ wiper' = [at |-> "idle", on |-> FALSE, todo |-> {}]
  /\ UNCHANGED <<runtime, live, body, dir>>

\* the new runtime is live; bodies that were there keep the old one
WipeDone ==
  LET next == IF wiper.at = "reload" THEN live + 1 ELSE live
  IN  /\ wiper.at \in {"boot", "reload"}
      /\ wiper.todo = {}
      /\ runtime' = [runtime EXCEPT ![next] = NewRuntime(wiper.on)]
      /\ live' = next
      /\ wiper' = [at |-> "idle", on |-> FALSE, todo |-> {}]
      /\ UNCHANGED <<body, dir>>

\* kill -9 or OOM: no Drop runs, the files stay, and the process boots again
Crash(on) ==
  /\ wiper' = [at |-> "boot", on |-> on, todo |-> IF on THEN dir ELSE {}]
  /\ runtime' = [k \in Runtimes |-> NewRuntime(FALSE)]
  /\ live' = 0
  /\ body' = [b \in Bodies |-> NoHandle]
  /\ UNCHANGED dir

-----------------------------------------------------------------------------
SpoolInit ==
  /\ runtime = [k \in Runtimes |-> NewRuntime(FALSE)]
  /\ live = 0
  /\ body = [b \in Bodies |-> NoHandle]
  /\ dir = {}
  /\ wiper \in [at : {"boot"}, on : BOOLEAN, todo : {{}}]

Step(b) ==
  \/ New(b) \/ Push(b) \/ Store(b) \/ SpillAcquire(b) \/ SpillCreate(b) \/ SpillWrite(b)
  \/ End(b) \/ DropBytes(b) \/ DropSlot(b) \/ DropFile(b)

SpoolNext ==
  \/ \E b \in Bodies : Step(b) \/ Wipe(b)
  \/ WipeDone \/ WipeRefused
  \/ \E on \in BOOLEAN : ReloadBegin(on) \/ Crash(on)

SpoolSpec == SpoolInit /\ [][SpoolNext]_spoolVars

-----------------------------------------------------------------------------
On(k) == {b \in Bodies : body[b].at # "none" /\ body[b].rt = k}
HeldOn(k) == [b \in Bodies |-> IF b \in On(k) THEN body[b].reserved ELSE 0]

\* Each runtime's counters are what the bodies opened on it hold, within its
\* limits, whichever step of push or spill_to_file failed and however many
\* reloads took place since; what was accepted is reserved, and what is in memory
\* stays under the ceiling.
HeldIsReserved ==
  \A b \in Bodies :
    /\ ~body[b].file => body[b].len <= Ceiling
    /\ body[b].at \in {"open", "store", "spill", "create", "write"}
         => body[b].len + (IF body[b].at = "open" THEN 0 ELSE 1) = body[b].reserved
BudgetsExact ==
  /\ \A k \in Runtimes :
       /\ runtime[k].bytes = Total(HeldOn(k))
       /\ runtime[k].bytes <= ByteCap(runtime[k].on)
       /\ runtime[k].files = Cardinality({b \in On(k) : body[b].slot})
       /\ runtime[k].files <= MaxFiles
  /\ HeldIsReserved

\* No file outlives its body while the spool is on: not after a failed spill, a
\* wipe that races with Drop, or a crash, whose leftovers go before the first
\* body comes.
Owns(b) == body[b].file \/ body[b].at = "write"
NoOrphans == wiper.at # "boot" /\ runtime[live].on => \A b \in dir : Owns(b)

\* README.md:523: SPOOL_MAX_BYTES is the "Aggregate cap on spool bytes".  Counted
\* are the bodies on runtimes that take their cap from it.
AggregateCap ==
  Total([b \in Bodies |-> IF runtime[body[b].rt].on THEN body[b].reserved ELSE 0]) <= MaxBytes
=============================================================================
