---------------------------- MODULE ConnectionRate ----------------------------
(***************************************************************************)
(* ConnectionRateFilter::check (src/src/connection.rs): how many           *)
(* connections a window accepts from one IP and altogether, and how many   *)
(* IPs are remembered. The whole of check runs under the lock of           *)
(* global_attempts, so it is one step.                                     *)
(*                                                                         *)
(* An attempt is kept as its age in ticks; at Window it has left the       *)
(* window. Ages do not grow beyond that. The clock is read just before the *)
(* lock is taken: the wait for it is less than a tick.                     *)
(***************************************************************************)
EXTENDS Windows, FiniteSets

CONSTANTS
  IPs,
  Window,        \* CONNECTION_WINDOW in ticks
  MaxAttempts,   \* per IP and window
  MaxGlobal,     \* altogether and per window
  MaxIPs,        \* IPs remembered
  EvictEvery     \* 256

ASSUME WindowAssumption ==
  {Window, MaxAttempts, MaxGlobal, MaxIPs, EvictEvery} \subseteq Nat \ {0}

VARIABLES
  attempts,         \* the attempts map: the queue of every IP that has an entry
  global_attempts,  \* the queue of all
  checks,           \* calls counted, modulo EvictEvery
  accepted,         \* history: the ages of all that was accepted within the window
  acceptedFrom      \* history: and of what came from each IP

windowVars == <<attempts, global_attempts, checks, accepted, acceptedFrom>>

Expired(age) == age >= Window

\* the `while front() ... pop_front()` loops
PopExpired(q) == LET live == {i \in 1 .. Len(q) : ~Expired(q[i])}
                 IN  IF live = {} THEN <<>>
                     ELSE SubSeq(q, CHOOSE i \in live : \A j \in live : i <= j, Len(q))

\* mutant: entries are dropped with what still counts
EvictExpired_All(m) == << >>

\* evict_expired: IPs whose queue becomes empty lose their entry
EvictExpired(m) ==
  LET kept == {ip \in DOMAIN m : PopExpired(m[ip]) # <<>>}
  IN  [ip \in kept |-> PopExpired(m[ip])]

\* one call of check for ip
Check(ip) ==
  LET global == PopExpired(global_attempts)
      m == IF checks = 0 THEN EvictExpired(attempts) ELSE attempts
      queue == IF ip \in DOMAIN m THEN PopExpired(m[ip]) ELSE <<>>
      touched == [i \in DOMAIN m \cup {ip} |-> IF i = ip THEN queue ELSE m[i]]
  IN  \/ /\ Len(global) >= MaxGlobal
         /\ global_attempts' = global
         /\ UNCHANGED <<attempts, checks, accepted, acceptedFrom>>
      \/ /\ Len(global) < MaxGlobal
         /\ checks' = (checks + 1) % EvictEvery
         /\ \/ /\ ip \notin DOMAIN m /\ Cardinality(DOMAIN m) >= MaxIPs
               /\ attempts' = m
               /\ global_attempts' = global
               /\ UNCHANGED <<accepted, acceptedFrom>>
            \/ /\ ip \in DOMAIN m \/ Cardinality(DOMAIN m) < MaxIPs
               /\ Len(queue) >= MaxAttempts
               /\ attempts' = touched
               /\ global_attempts' = global
               /\ UNCHANGED <<accepted, acceptedFrom>>
            \/ /\ ip \in DOMAIN m \/ Cardinality(DOMAIN m) < MaxIPs
               /\ Len(queue) < MaxAttempts
               /\ attempts' = [touched EXCEPT ![ip] = Append(queue, 0)]
               /\ global_attempts' = Append(global, 0)
               /\ accepted' = Append(accepted, 0)
               /\ acceptedFrom' = [acceptedFrom EXCEPT ![ip] = Append(@, 0)]

\* time passes for everything that is remembered
Tick ==
  /\ attempts' = [ip \in DOMAIN attempts |-> Aged(attempts[ip], Window)]
  /\ global_attempts' = Aged(global_attempts, Window)
  /\ accepted' = Retain(Aged(accepted, Window), Window)
  /\ acceptedFrom' = [ip \in IPs |-> Retain(Aged(acceptedFrom[ip], Window), Window)]
  /\ UNCHANGED checks

WindowInit ==
  /\ attempts = << >>
  /\ global_attempts = <<>>
  /\ checks = 0
  /\ accepted = <<>>
  /\ acceptedFrom = [ip \in IPs |-> <<>>]

WindowNext == Tick \/ \E ip \in IPs : Check(ip)
WindowSpec == WindowInit /\ [][WindowNext]_windowVars

-----------------------------------------------------------------------------
\* What the window really accepted stays within both limits: neither the eviction
\* of whole entries nor the lazily trimmed queues lose an attempt that counts. And
\* the filter's memory is bounded: its entries, what each of them holds, and no
\* entry is empty.
MemoryBounded ==
  /\ Cardinality(DOMAIN attempts) <= MaxIPs
  /\ \A ip \in DOMAIN attempts : Len(attempts[ip]) \in 1 .. MaxAttempts
  /\ Len(global_attempts) <= MaxGlobal
WindowLimits ==
  /\ Len(accepted) <= MaxGlobal
  /\ \A ip \in IPs : Len(acceptedFrom[ip]) <= MaxAttempts
  /\ MemoryBounded
=============================================================================
