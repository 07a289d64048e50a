------------------------------ MODULE Live_proofs ------------------------------
(***************************************************************************)
(* The listener and the live policy, for any instance: the slots of active *)
(* connections (ActiveConnections), the windows of connections             *)
(* (ConnectionRate), the live policy and its pools (PolicyReload).         *)
(*                                                                         *)
(* ActiveConnections: Accounting is inductive with the types of the state. *)
(*                                                                         *)
(* PolicyReload: LiveIsLatest says nothing while a reload is under way, so *)
(* it is carried through one by Lone: while no two overlapped, the one     *)
(* that runs has read the latest file.  PoolsWhole says nothing while      *)
(* pools are rebuilt; Half says what is there then, and Exclusive that one *)
(* request alone rebuilds, because it holds the mutex of `version`         *)
(* meanwhile.                                                              *)
(*                                                                         *)
(* ConnectionRate: what the window accepted is what Retain keeps of the    *)
(* queue of the IP, or nothing where it has none.  Its queues hold the     *)
(* oldest first, and on such a queue popping from the front is trimming    *)
(* (PopIsRetain).                                                          *)
(***************************************************************************)
EXTENDS ActiveConnections, PolicyReload, ConnectionRate, Lemmas

-----------------------------------------------------------------------------
(* ActiveConnections: no interleaving of should_accept, process_new, eviction and Drop
   loses a slot, counts one twice or exceeds the limit *)

Pc == {"idle", "reserve", "insert", "undo", "accepted", "activate", "acquire", "active"}
Holding == {"insert", "undo", "active"}

\* TypeOK but for `current`, whose sign follows from Accounting.
SlotsShape ==
  /\ pending \subseteq Addrs
  /\ expired \subseteq pending
  /\ pc \in [Conns -> Pc]
  /\ addr \in [Conns -> Addrs]
  /\ todo \in [Conns -> SUBSET Addrs]

SlotsInv == SlotsShape /\ Accounting /\ current <= Max

-----------------------------------------------------------------------------
\* The sets that Accounting counts are finite.
LEMMA SlotNumbers ==
  ASSUME SlotsShape
  PROVE  /\ IsFiniteSet(pending) /\ Cardinality(pending) \in Nat
         /\ IsFiniteSet(In(Holding)) /\ Cardinality(In(Holding)) \in Nat
<1>1. IsFiniteSet(pending)
  BY AddrsAssumption, FS_Subset DEF SlotsShape
<1>2. IsFiniteSet(In(Holding))
  BY ConnsAssumption, FS_Subset DEF In
<1> QED BY <1>1, <1>2, FS_CardinalityType

\* `current` is a natural number wherever Accounting holds.
LEMMA CurrentType == SlotsShape /\ Accounting => current \in Nat
<1> SUFFICES ASSUME SlotsShape, Accounting PROVE current \in Nat
  OBVIOUS
<1> QED BY SlotNumbers DEF Accounting, Holding

\* What a step of connection c does to the set of those that hold a slot.
LEMMA HoldingStep ==
  ASSUME SlotsShape, NEW c \in Conns, NEW s \in Pc, Goto(c, s)
  PROVE  In(Holding)' = IF s \in Holding THEN In(Holding) \cup {c} ELSE In(Holding) \ {c}
  BY DEF SlotsShape, In, Goto

\* ... and to their number.
LEMMA HoldingCount ==
  ASSUME SlotsShape, NEW c \in Conns, NEW s \in Pc, Goto(c, s)
  PROVE  /\ pc[c] \in Holding /\ s \in Holding
              => Cardinality(In(Holding)') = Cardinality(In(Holding))
         /\ pc[c] \notin Holding /\ s \notin Holding
              => Cardinality(In(Holding)') = Cardinality(In(Holding))
         /\ pc[c] \notin Holding /\ s \in Holding
              => Cardinality(In(Holding)') = Cardinality(In(Holding)) + 1
         /\ pc[c] \in Holding /\ s \notin Holding
              => Cardinality(In(Holding)') = Cardinality(In(Holding)) - 1
<1>1. c \in In(Holding) <=> pc[c] \in Holding
  BY DEF In
<1>2. IsFiniteSet(In(Holding))
  BY SlotNumbers
<1>3. /\ Cardinality(In(Holding) \cup {c})
           = IF c \in In(Holding) THEN Cardinality(In(Holding)) ELSE Cardinality(In(Holding)) + 1
      /\ Cardinality(In(Holding) \ {c})
           = IF c \in In(Holding) THEN Cardinality(In(Holding)) - 1 ELSE Cardinality(In(Holding))
  BY <1>2, FS_AddElement, FS_RemoveElement
<1> QED BY <1>1, <1>3, HoldingStep

\* Entering and leaving the pending map, entry by entry.
LEMMA PendingCount ==
  ASSUME SlotsShape, NEW a \in Addrs
  PROVE  /\ a \in pending => /\ Cardinality(pending \cup {a}) = Cardinality(pending)
                             /\ Cardinality(pending \ {a}) = Cardinality(pending) - 1
         /\ a \notin pending => /\ Cardinality(pending \cup {a}) = Cardinality(pending) + 1
                                /\ Cardinality(pending \ {a}) = Cardinality(pending)
  BY SlotNumbers, FS_AddElement, FS_RemoveElement

-----------------------------------------------------------------------------
\* No step leaves the types.
LEMMA SlotsShapeStep == SlotsShape /\ [Next]_vars => SlotsShape'
<1> SUFFICES ASSUME SlotsShape, [Next]_vars PROVE SlotsShape'
  OBVIOUS
<1> USE DEF SlotsShape, Pc, Goto
<1>1. ASSUME NEW c \in Conns, NEW a \in Addrs, EvictEntry(c, a) \/ ShouldAccept(c, a)
      PROVE  SlotsShape'
  BY <1>1 DEF EvictEntry, ShouldAccept, Evict
<1>2. ASSUME NEW c \in Conns, Reserve(c) \/ Undo(c) \/ Abandon(c) \/ ProcessNew(c)
      PROVE  SlotsShape'
  BY <1>2 DEF Reserve, Undo, Abandon, ProcessNew, Evict
<1>3. ASSUME NEW c \in Conns, Insert(c) \/ Activate(c) \/ Acquire(c) \/ DropGuard(c)
      PROVE  SlotsShape'
  BY <1>3 DEF Insert, Activate, Acquire, DropGuard
<1>4. ASSUME NEW a \in Addrs, Expire(a) PROVE SlotsShape'
  BY <1>4 DEF Expire
<1>5. CASE UNCHANGED vars
  BY <1>5 DEF vars
<1> QED BY <1>1, <1>2, <1>3, <1>4, <1>5 DEF Next, Step

\* Every step takes or gives back exactly what it adds to or removes from the
\* slots in use.
LEMMA SlotsStep == SlotsInv /\ [Next]_vars => SlotsInv'
<1> SUFFICES ASSUME SlotsInv, [Next]_vars PROVE Accounting' /\ (current <= Max)'
  BY SlotsShapeStep DEF SlotsInv
<1> DEFINE P == Cardinality(pending)
           H == Cardinality(In(Holding))
<1>0. SlotsShape /\ current = P + H /\ current <= Max /\ P \in Nat /\ H \in Nat
  BY SlotNumbers DEF SlotsInv, Accounting, Holding
<1> USE MaxAssumption
<1>a. ASSUME Cardinality(pending') = P, Cardinality(In(Holding)') = H, current' = current
      PROVE  Accounting' /\ (current <= Max)'
  BY <1>0, <1>a DEF Accounting, Holding
<1>1. ASSUME NEW c \in Conns, NEW a \in Addrs, EvictEntry(c, a)
      PROVE  Accounting' /\ (current <= Max)'
  <2>1. In(Holding)' = In(Holding)
    BY <1>1 DEF EvictEntry, In
  <2>2. CASE a \in expired
    <3>1. pending' = pending \ {a} /\ a \in pending /\ current' = current - 1
      BY <1>0, <1>1, <2>2 DEF EvictEntry, SlotsShape
    <3>2. Cardinality(pending') = P - 1
      BY <1>0, <3>1, PendingCount
    <3> QED BY <1>0, <2>1, <3>1, <3>2 DEF Accounting, Holding
  <2>3. CASE a \notin expired
    BY <1>1, <1>a, <2>1, <2>3 DEF EvictEntry
  <2> QED BY <2>2, <2>3
<1>2. ASSUME NEW c \in Conns, NEW a \in Addrs, ShouldAccept(c, a)
      PROVE  Accounting' /\ (current <= Max)'
  <2>1. Goto(c, "reserve") /\ pc[c] = "idle" /\ UNCHANGED <<current, pending>>
    BY <1>2 DEF ShouldAccept, Evict
  <2>2. Cardinality(In(Holding)') = H
    BY <1>0, <2>1, HoldingCount DEF Pc, Holding
  <2> QED BY <1>a, <2>1, <2>2
<1>3. ASSUME NEW c \in Conns, Reserve(c) \/ Acquire(c)
      PROVE  Accounting' /\ (current <= Max)'
  <2>1. pc[c] \notin Holding /\ pending' = pending
    BY <1>3 DEF Reserve, Acquire, Holding
  <2>2. CASE current < Max
    <3>1. /\ current' = current + 1
          /\ Goto(c, "insert") \/ Goto(c, "active")
      BY <1>0, <1>3, <2>2 DEF Reserve, Acquire
    <3>2. Cardinality(In(Holding)') = H + 1
      BY <1>0, <2>1, <3>1, HoldingCount DEF Pc, Holding
    <3> QED BY <1>0, <2>1, <2>2, <3>1, <3>2 DEF Accounting, Holding
  <2>3. CASE ~(current < Max)
    <3>1. current' = current /\ Goto(c, "idle")
      BY <1>3, <2>3 DEF Reserve, Acquire
    <3>2. Cardinality(In(Holding)') = H
      BY <1>0, <2>1, <3>1, HoldingCount DEF Pc, Holding
    <3> QED BY <1>a, <2>1, <3>1, <3>2
  <2> QED BY <2>2, <2>3
<1>4. ASSUME NEW c \in Conns, Insert(c)
      PROVE  Accounting' /\ (current <= Max)'
  <2>1. /\ pc[c] \in Holding
        /\ pending' = pending \cup {addr[c]}
        /\ Goto(c, IF addr[c] \in pending THEN "undo" ELSE "accepted")
        /\ current' = current
        /\ addr[c] \in Addrs
    BY <1>0, <1>4 DEF Insert, Holding, SlotsShape
  <2>2. CASE addr[c] \in pending
    <3>1. Cardinality(In(Holding)') = H
      BY <1>0, <2>1, <2>2, HoldingCount DEF Pc, Holding
    <3>2. Cardinality(pending') = P
      BY <1>0, <2>1, <2>2, PendingCount
    <3> QED BY <1>a, <2>1, <3>1, <3>2
  <2>3. CASE addr[c] \notin pending
    <3>1. Cardinality(In(Holding)') = H - 1
      BY <1>0, <2>1, <2>3, HoldingCount DEF Pc, Holding
    <3>2. Cardinality(pending') = P + 1
      BY <1>0, <2>1, <2>3, PendingCount
    <3> QED BY <1>0, <2>1, <3>1, <3>2 DEF Accounting, Holding
  <2> QED BY <2>2, <2>3
<1>5. ASSUME NEW c \in Conns, Undo(c) \/ DropGuard(c)
      PROVE  Accounting' /\ (current <= Max)'
  <2>1. /\ pc[c] \in Holding
        /\ Goto(c, "accepted") \/ Goto(c, "idle")
        /\ current' = current - 1
        /\ pending' = pending
    BY <1>5 DEF Undo, DropGuard, Holding
  <2>2. Cardinality(In(Holding)') = H - 1
    BY <1>0, <2>1, HoldingCount DEF Pc, Holding
  <2> QED BY <1>0, <2>1, <2>2 DEF Accounting, Holding
<1>6. ASSUME NEW c \in Conns, Abandon(c) \/ ProcessNew(c)
      PROVE  Accounting' /\ (current <= Max)'
  <2>1. /\ pc[c] \notin Holding
        /\ Goto(c, "idle") \/ Goto(c, "activate")
        /\ UNCHANGED <<current, pending>>
    BY <1>6 DEF Abandon, ProcessNew, Evict, Holding
  <2>2. Cardinality(In(Holding)') = H
    BY <1>0, <2>1, HoldingCount DEF Pc, Holding
  <2> QED BY <1>a, <2>1, <2>2
<1>7. ASSUME NEW c \in Conns, Activate(c)
      PROVE  Accounting' /\ (current <= Max)'
  <2>1. /\ pc[c] \notin Holding
        /\ pending' = pending \ {addr[c]}
        /\ Goto(c, IF addr[c] \in pending THEN "active" ELSE "acquire")
        /\ current' = current
        /\ addr[c] \in Addrs
    BY <1>0, <1>7 DEF Activate, Holding, SlotsShape
  <2>2. CASE addr[c] \in pending
    <3>1. Cardinality(In(Holding)') = H + 1
      BY <1>0, <2>1, <2>2, HoldingCount DEF Pc, Holding
    <3>2. Cardinality(pending') = P - 1
      BY <1>0, <2>1, <2>2, PendingCount
    <3> QED BY <1>0, <2>1, <3>1, <3>2 DEF Accounting, Holding
  <2>3. CASE addr[c] \notin pending
    <3>1. Cardinality(In(Holding)') = H
      BY <1>0, <2>1, <2>3, HoldingCount DEF Pc, Holding
    <3>2. Cardinality(pending') = P
      BY <1>0, <2>1, <2>3, PendingCount
    <3> QED BY <1>a, <2>1, <3>1, <3>2
  <2> QED BY <2>2, <2>3
<1>8. ASSUME NEW a \in Addrs, Expire(a)
      PROVE  Accounting' /\ (current <= Max)'
  BY <1>8, <1>a DEF Expire, In
<1>9. CASE UNCHANGED vars
  BY <1>9, <1>a DEF vars, In
<1> QED BY <1>1, <1>2, <1>3, <1>4, <1>5, <1>6, <1>7, <1>8, <1>9 DEF Next, Step

\* No slot is taken when the proxy starts.
LEMMA SlotsInitInv == Init => SlotsInv
<1> SUFFICES ASSUME Init PROVE SlotsInv
  OBVIOUS
<1>1. SlotsShape
  BY DEF Init, SlotsShape, Pc
<1>2. pending = {} /\ In(Holding) = {}
  BY DEF Init, In, Holding
<1>3. Accounting /\ current <= Max
  BY <1>2, FS_EmptySet, MaxAssumption DEF Accounting, Holding, Init
<1> QED BY <1>1, <1>3 DEF SlotsInv

-----------------------------------------------------------------------------
\* SlotsInv holds in every reachable state.
THEOREM SlotsInvariance == Spec => []SlotsInv
  BY SlotsInitInv, SlotsStep, PTL DEF Spec

\* Every variable keeps its type; in particular `current` never goes below zero,
\* where the code's AtomicUsize would wrap around.
THEOREM SlotsTyped == Spec => []TypeOK
<1>1. SlotsInv => TypeOK
  BY CurrentType DEF SlotsInv, SlotsShape, TypeOK, Pc
<1> QED BY <1>1, SlotsInvariance, PTL

\* `current` is always what the pending entries, the guards and the updates under
\* way account for.
THEOREM SlotsAccounted == Spec => []Accounting
  BY SlotsInvariance, PTL DEF SlotsInv

\* MAX_ACTIVE_CONNECTIONS bounds the slots and the connections being served.
THEOREM SlotsBounded == Spec => []Bounded
<1>1. SlotsInv => Bounded
  <2> SUFFICES ASSUME SlotsInv PROVE Cardinality(In({"active"})) <= Max
    BY DEF SlotsInv, Bounded
  <2>1. /\ Cardinality(In({"active"})) <= Cardinality(In(Holding))
        /\ Cardinality(In({"active"})) \in Nat
    <3>1. In({"active"}) \in SUBSET In(Holding)
      BY DEF In, Holding
    <3>2. IsFiniteSet(In(Holding))
      BY SlotNumbers DEF SlotsInv
    <3> QED BY <3>1, <3>2, FS_Subset, FS_CardinalityType
  <2> QED BY <2>1, SlotNumbers, MaxAssumption DEF SlotsInv, Accounting, Holding
<1> QED BY <1>1, SlotsInvariance, PTL

-----------------------------------------------------------------------------
(* PolicyReload *)

AnySite == CHOOSE s \in Sites : TRUE
Places == {"idle", "sync", "lock", "build", "clear", "insert", "route", "shed"}
Locking == {"build", "clear", "insert"}
Syncs == [at : Places, snap : Policies, next : Policies, config : Policies,
          site : Sites \cup {AnySite}]

ReloadTypes ==
  /\ file \in Policies /\ live \in Policies /\ exposed \in Policies /\ latest \in Policies
  /\ loading \in [Reloaders -> [at : {"idle", "loaded", "swapped"}, policy : Policies]]
  /\ raced \in BOOLEAN
  /\ tag \in Policies
  /\ req \in [Requests -> Syncs]

\* A reload that no other overlapped is the only one, and carries the latest policy.
Lone ==
  ~raced => \A w \in Reloaders : loading[w].at # "idle" =>
              /\ \A v \in Reloaders \ {w} : loading[v].at = "idle"
              /\ loading[w].policy = latest
              /\ loading[w].at = "swapped" => live = latest

\* Between its lock and its unlock a request has the mutex to itself.
Exclusive == \A q \in Requests : req[q].at \in Locking => lock = {q}

\* The pools while they are inserted: some of those of the policy being built.
Half(p) == DOMAIN sites \subseteq Balanced[p] /\ sites = [s \in DOMAIN sites |-> p]
Built == \A q \in Requests : req[q].at = "insert" => Half(req[q].config)

ReloadInv == ReloadTypes /\ Lone /\ LiveIsLatest /\ Exclusive /\ Built /\ PoolsWhole

-----------------------------------------------------------------------------
(* Initially *)

\* At boot nothing is under way and the pools are those of the first policy.
LEMMA ReloadInitInv == ReloadInit => ReloadInv
<1> SUFFICES ASSUME ReloadInit PROVE ReloadInv
  OBVIOUS
<1> USE ReloadAssumption
<1>1. ReloadTypes
  BY DEF ReloadInit, ReloadTypes, Syncs, Places, AnySite
<1>2. /\ \A w \in Reloaders : loading[w].at = "idle"
      /\ \A q \in Requests : req[q].at = "idle"
  BY DEF ReloadInit
<1>3. Lone
  BY <1>2 DEF Lone
<1>4. LiveIsLatest
  BY DEF ReloadInit, LiveIsLatest
<1>5. Exclusive /\ Built
  BY <1>2 DEF Exclusive, Built, Locking
<1>6. PoolsWhole
  BY DEF ReloadInit, PoolsWhole, PoolsOf
<1> QED
  BY <1>1, <1>3, <1>4, <1>5, <1>6 DEF ReloadInv

-----------------------------------------------------------------------------
(* The half a step leaves alone *)

\* The pools do not see a step of a reload.
LEMMA PoolsKept ==
  ASSUME Exclusive, Built, PoolsWhole, UNCHANGED <<poolVars, req>>
  PROVE  Exclusive' /\ Built' /\ PoolsWhole'
<1>1. req' = req /\ sites' = sites /\ lock' = lock
  BY DEF poolVars
<1> QED
  BY <1>1 DEF Exclusive, Built, Half, PoolsWhole, Rebuilding, At, PoolsOf

\* The reloads do not see a step of a request.
LEMMA PolicyKept ==
  ASSUME Lone, LiveIsLatest, UNCHANGED policyVars
  PROVE  Lone' /\ LiveIsLatest'
<1>1. live' = live /\ exposed' = exposed /\ loading' = loading /\ latest' = latest
      /\ raced' = raced
  BY DEF policyVars
<1> QED
  BY <1>1 DEF Lone, LiveIsLatest, ReloadersIdle

-----------------------------------------------------------------------------
(* The steps of a reload *)

\* An edit touches the file alone.
LEMMA EditInv == ASSUME ReloadInv, NEW p \in Policies, Edit(p) PROVE ReloadInv'
<1> USE DEF ReloadInv
<1>1. ReloadTypes'
  BY DEF Edit, ReloadTypes, poolVars
<1>2. Lone' /\ LiveIsLatest'
  BY DEF Edit, Lone, LiveIsLatest, ReloadersIdle
<1>3. Exclusive' /\ Built' /\ PoolsWhole'
  BY PoolsKept DEF Edit
<1> QED
  BY <1>1, <1>2, <1>3

\* A load that finds all the others idle is the lone one, and has read the latest.
LEMMA LoadInv == ASSUME ReloadInv, NEW w \in Reloaders, Load(w) PROVE ReloadInv'
<1> USE DEF ReloadInv
<1>1. /\ loading' = [loading EXCEPT ![w] = [at |-> "loaded", policy |-> file]]
      /\ latest' = file /\ (raced' <=> ~ReloadersIdle) /\ raced' \in BOOLEAN
      /\ file' = file /\ live' = live /\ exposed' = exposed /\ tag' = tag /\ req' = req
  BY DEF Load, poolVars, ReloadersIdle
<1>2. ReloadTypes'
  BY <1>1 DEF ReloadTypes
<1>3. loading'[w].at = "loaded" /\ loading'[w].policy = latest'
  BY <1>1 DEF ReloadTypes
<1>4. Lone'
  <2> SUFFICES ASSUME ~raced' PROVE \A v \in Reloaders \ {w} : loading'[v].at = "idle"
    BY <1>3 DEF Lone
  <2> QED
    BY <1>1 DEF ReloadersIdle, ReloadTypes
<1>5. LiveIsLatest'
  BY <1>3 DEF LiveIsLatest, ReloadersIdle
<1>6. Exclusive' /\ Built' /\ PoolsWhole'
  BY PoolsKept DEF Load
<1> QED
  BY <1>2, <1>4, <1>5, <1>6

\* The swap of the lone reload makes the latest policy the live one.
LEMMA SwapInv == ASSUME ReloadInv, NEW w \in Reloaders, Swap(w) PROVE ReloadInv'
<1> USE DEF ReloadInv
<1>1. /\ loading[w].at = "loaded" /\ loading' = [loading EXCEPT ![w].at = "swapped"]
      /\ live' = loading[w].policy /\ latest' = latest /\ raced' = raced
      /\ file' = file /\ exposed' = exposed /\ tag' = tag /\ req' = req
  BY DEF Swap, poolVars
<1>2. ReloadTypes'
  BY <1>1 DEF ReloadTypes
<1>3. /\ loading'[w].at = "swapped" /\ loading'[w].policy = loading[w].policy
      /\ \A v \in Reloaders \ {w} : loading'[v] = loading[v]
  BY <1>1 DEF ReloadTypes
<1>4. Lone'
  BY <1>1, <1>3 DEF Lone
<1>5. LiveIsLatest'
  BY <1>3 DEF LiveIsLatest, ReloadersIdle
<1>6. Exclusive' /\ Built' /\ PoolsWhole'
  BY PoolsKept DEF Swap
<1> QED
  BY <1>2, <1>4, <1>5, <1>6

\* When the lone reload reports, live, exposed and latest agree.
LEMMA ExposeInv == ASSUME ReloadInv, NEW w \in Reloaders, Expose(w) PROVE ReloadInv'
<1> USE DEF ReloadInv
<1>1. /\ loading[w].at = "swapped" /\ loading' = [loading EXCEPT ![w].at = "idle"]
      /\ exposed' = loading[w].policy /\ latest' = latest /\ raced' = raced
      /\ file' = file /\ live' = live /\ tag' = tag /\ req' = req
  BY DEF Expose, poolVars
<1>2. ReloadTypes'
  BY <1>1 DEF ReloadTypes
<1>3. /\ loading'[w].at = "idle"
      /\ \A v \in Reloaders \ {w} : loading'[v] = loading[v]
  BY <1>1 DEF ReloadTypes
<1>4. Lone'
  BY <1>1, <1>3 DEF Lone
<1>5. LiveIsLatest'
  BY <1>1 DEF Lone, LiveIsLatest
<1>6. Exclusive' /\ Built' /\ PoolsWhole'
  BY PoolsKept DEF Expose
<1> QED
  BY <1>2, <1>4, <1>5, <1>6

-----------------------------------------------------------------------------
(* The steps of a request *)

\* A request that neither enters nor leaves the inserting of pools, and that is
\* past the mutex only if it was, leaves the pools as they are.
LEMMA Moves ==
  ASSUME ReloadInv, NEW q \in Requests, NEW c \in Syncs,
         req' = [req EXCEPT ![q] = c], UNCHANGED <<policyVars, poolVars>>,
         req[q].at # "insert", c.at # "insert",
         c.at \in Locking => req[q].at \in Locking
  PROVE  ReloadInv'
<1> USE DEF ReloadInv
<1>1. /\ sites' = sites /\ lock' = lock /\ tag' = tag /\ file' = file /\ live' = live
      /\ exposed' = exposed /\ loading' = loading /\ latest' = latest /\ raced' = raced
  BY DEF policyVars, poolVars
<1>2. ReloadTypes'
  BY <1>1 DEF ReloadTypes, Syncs
<1>3. req'[q] = c /\ \A r \in Requests \ {q} : req'[r] = req[r]
  BY DEF ReloadTypes
<1>4. Lone' /\ LiveIsLatest'
  BY PolicyKept
<1>5. Exclusive'
  BY <1>1, <1>3 DEF Exclusive
<1>6. Built'
  BY <1>1, <1>3 DEF Built, Half
<1>7. PoolsWhole'
  BY <1>1, <1>3 DEF PoolsWhole, PoolsOf, Rebuilding, At
<1> QED
  BY <1>2, <1>4, <1>5, <1>6, <1>7

\* A request that takes a snapshot of the policy.
LEMMA ResolveInv ==
  ASSUME ReloadInv, NEW q \in Requests, NEW s \in Sites, Resolve(q, s) PROVE ReloadInv'
<1> DEFINE c == [req[q] EXCEPT !.at = "sync", !.snap = live, !.site = s]
<1>1. c \in Syncs /\ c.at = "sync"
  BY DEF ReloadInv, ReloadTypes, Syncs, Places
<1>2. req' = [req EXCEPT ![q] = c]
  BY DEF Resolve
<1> HIDE DEF c
<1> QED
  BY <1>1, <1>2, Moves DEF Resolve, At, Locking

\* A request that reads the version before it waits for the mutex.
LEMMA SyncReadInv == ASSUME ReloadInv, NEW q \in Requests, SyncRead(q) PROVE ReloadInv'
<1> DEFINE c == [req[q] EXCEPT !.at = "lock", !.next = live]
<1>1. c \in Syncs /\ c.at = "lock"
  BY DEF ReloadInv, ReloadTypes, Syncs, Places
<1>2. req' = [req EXCEPT ![q] = c]
  BY DEF SyncRead
<1> HIDE DEF c
<1> QED
  BY <1>1, <1>2, Moves DEF SyncRead, At, Locking

\* A request that reads the policy it will build the pools from.
LEMMA SyncBuildInv == ASSUME ReloadInv, NEW q \in Requests, SyncBuild(q) PROVE ReloadInv'
<1> DEFINE c == [req[q] EXCEPT !.at = "clear", !.config = live]
<1>1. c \in Syncs /\ c.at = "clear"
  BY DEF ReloadInv, ReloadTypes, Syncs, Places
<1>2. req' = [req EXCEPT ![q] = c]
  BY DEF SyncBuild
<1> HIDE DEF c
<1> QED
  BY <1>1, <1>2, Moves DEF SyncBuild, At, Locking

\* A request that changes its place and nothing else.
LEMMA PlaceIs ==
  ASSUME ReloadTypes, NEW q \in Requests, NEW s \in Places, Place(q, s)
  PROVE  \E c \in Syncs : /\ c.at = s /\ c.next = req[q].next /\ c.config = req[q].config
                             /\ req' = [req EXCEPT ![q] = c]
<1> DEFINE c == [req[q] EXCEPT !.at = s]
<1>1. c \in Syncs /\ c.at = s /\ c.next = req[q].next /\ c.config = req[q].config
  BY DEF ReloadTypes, Syncs
<1>2. req' = [req EXCEPT ![q] = c]
  BY DEF Place
<1> HIDE DEF c
<1> QED
  BY <1>1, <1>2

\* A request that finds its pool, or sheds.
LEMMA RouteInv == ASSUME ReloadInv, NEW q \in Requests, Route(q) PROVE ReloadInv'
<1> PICK s \in {"idle", "shed"} : Place(q, s)
  BY DEF Route
<1> PICK c \in Syncs : c.at = s /\ req' = [req EXCEPT ![q] = c]
  BY PlaceIs DEF ReloadInv, Places
<1> QED
  BY Moves DEF Route, At, Locking

\* A request that was shed is over.
LEMMA ShedInv == ASSUME ReloadInv, NEW q \in Requests, Shed(q) PROVE ReloadInv'
<1> PICK c \in Syncs : c.at = "idle" /\ req' = [req EXCEPT ![q] = c]
  BY PlaceIs DEF ReloadInv, Places, Shed
<1> QED
  BY Moves DEF Shed, At, Locking

\* Whoever takes the mutex finds nobody past it.
LEMMA SyncLockInv == ASSUME ReloadInv, NEW q \in Requests, SyncLock(q) PROVE ReloadInv'
<1>1. CASE Place(q, "route") /\ UNCHANGED lock
  <2> PICK c \in Syncs : c.at = "route" /\ req' = [req EXCEPT ![q] = c]
    BY <1>1, PlaceIs DEF ReloadInv, Places
  <2> QED
    BY <1>1, Moves DEF SyncLock, At, Locking, poolVars
<1>2. CASE lock' = {q} /\ Place(q, "build")
  <2> PICK c \in Syncs : c.at = "build" /\ req' = [req EXCEPT ![q] = c]
    BY <1>2, PlaceIs DEF ReloadInv, Places
  <2>1. /\ lock = {} /\ sites' = sites /\ tag' = tag /\ UNCHANGED policyVars
    BY DEF SyncLock
  <2>2. req'[q] = c /\ \A r \in Requests \ {q} : req'[r] = req[r]
    BY DEF ReloadInv, ReloadTypes
  <2>3. \A r \in Requests : req[r].at \notin Locking
    BY <2>1 DEF ReloadInv, Exclusive
  <2>4. ReloadTypes'
    BY <2>1 DEF ReloadInv, ReloadTypes, Syncs, policyVars
  <2>5. Lone' /\ LiveIsLatest'
    BY <2>1, PolicyKept DEF ReloadInv
  <2>6. Exclusive'
    BY <1>2, <2>2, <2>3 DEF Exclusive
  <2>7. Built'
    BY <2>2, <2>3 DEF Built, Locking
  <2>8. PoolsWhole'
    BY <2>1, <2>2, <2>3 DEF ReloadInv, PoolsWhole, PoolsOf, Rebuilding, At, Locking
  <2> QED
    BY <2>4, <2>5, <2>6, <2>7, <2>8 DEF ReloadInv
<1> QED
  BY <1>1, <1>2 DEF SyncLock

\* While a request has the mutex no other is past it.
LEMMA Alone ==
  ASSUME Exclusive, NEW q \in Requests, req[q].at \in Locking
  PROVE  \A r \in Requests \ {q} : req[r].at \notin Locking
BY DEF Exclusive

\* Once cleared, the pools are none: some of those of whatever is built.
LEMMA SyncClearInv == ASSUME ReloadInv, NEW q \in Requests, SyncClear(q) PROVE ReloadInv'
<1> USE DEF ReloadInv
<1> PICK c \in Syncs : /\ c.at = "insert" /\ c.config = req[q].config
                          /\ req' = [req EXCEPT ![q] = c]
  BY PlaceIs DEF Places, SyncClear
<1>1. /\ req[q].at = "clear" /\ sites' = NoPools /\ tag' = tag /\ lock' = lock
      /\ UNCHANGED policyVars
  BY DEF SyncClear, At
<1>2. req'[q] = c /\ \A r \in Requests \ {q} : req'[r] = req[r]
  BY DEF ReloadTypes
<1>3. lock = {q} /\ \A r \in Requests \ {q} : req[r].at \notin Locking
  BY <1>1, Alone DEF Exclusive, Locking
<1>4. ReloadTypes'
  BY <1>1 DEF ReloadTypes, Syncs, policyVars
<1>5. Lone' /\ LiveIsLatest'
  BY <1>1, PolicyKept
<1>6. Exclusive'
  BY <1>1, <1>2, <1>3 DEF Exclusive
<1>7. DOMAIN NoPools = {} /\ NoPools = [s \in DOMAIN NoPools |-> c.config]
  BY DEF NoPools
<1>8. Built'
  BY <1>1, <1>2, <1>3, <1>7 DEF Built, Half, Locking
<1>9. PoolsWhole'
  BY <1>2 DEF PoolsWhole, Rebuilding, At
<1> QED
  BY <1>4, <1>5, <1>6, <1>8, <1>9

\* Each pool inserted is of the policy that is built.
LEMMA SyncInsertInv ==
  ASSUME ReloadInv, NEW q \in Requests, NEW s \in Sites, SyncInsert(q, s) PROVE ReloadInv'
<1> USE DEF ReloadInv
<1> DEFINE p == req[q].config
<1>1. /\ req[q].at = "insert" /\ s \in Balanced[p]
      /\ sites' = [x \in DOMAIN sites \cup {s} |-> IF x = s THEN p ELSE sites[x]]
      /\ tag' = tag /\ lock' = lock /\ req' = req /\ UNCHANGED policyVars
  BY DEF SyncInsert, At
<1>2. Half(p)
  BY <1>1 DEF Built
<1>3. \A r \in Requests \ {q} : req[r].at # "insert"
  BY <1>1, Alone DEF Locking
<1>4. ReloadTypes'
  BY <1>1 DEF ReloadTypes, policyVars
<1>5. Lone' /\ LiveIsLatest'
  BY <1>1, PolicyKept
<1>6. Exclusive'
  BY <1>1 DEF Exclusive
<1>7. DOMAIN sites' \subseteq Balanced[p] /\ sites' = [x \in DOMAIN sites' |-> p]
  BY <1>1, <1>2 DEF Half
<1>8. Built'
  BY <1>1, <1>3, <1>7 DEF Built, Half
<1>9. PoolsWhole'
  BY <1>1 DEF PoolsWhole, Rebuilding, At
<1> QED
  BY <1>4, <1>5, <1>6, <1>8, <1>9

\* When the last pool is in, the pools are all those of the policy built.
LEMMA SyncDoneInv == ASSUME ReloadInv, NEW q \in Requests, SyncDone(q) PROVE ReloadInv'
<1> USE DEF ReloadInv
<1> PICK c \in Syncs : c.at = "route" /\ req' = [req EXCEPT ![q] = c]
  BY PlaceIs DEF Places, SyncDone
<1> DEFINE p == req[q].config
<1>1. /\ req[q].at = "insert" /\ Balanced[p] \subseteq DOMAIN sites
      /\ tag' = req[q].next /\ lock' = {} /\ sites' = sites /\ UNCHANGED policyVars
  BY DEF SyncDone, At
<1>2. req'[q] = c /\ \A r \in Requests \ {q} : req'[r] = req[r]
  BY DEF ReloadTypes
<1>3. \A r \in Requests \ {q} : req[r].at \notin Locking
  BY <1>1, Alone DEF Locking
<1>4. ReloadTypes'
  BY <1>1 DEF ReloadTypes, Syncs, policyVars
<1>5. Lone' /\ LiveIsLatest'
  BY <1>1, PolicyKept
<1>6. \A r \in Requests : req'[r].at \notin Locking
  BY <1>2, <1>3 DEF Locking
<1>7. Exclusive' /\ Built'
  BY <1>6 DEF Exclusive, Built, Locking
<1>8. p \in Policies /\ sites' = [s \in Balanced[p] |-> p]
  BY <1>1 DEF ReloadTypes, Syncs, Built, Half
<1>9. PoolsWhole'
  BY <1>8 DEF PoolsWhole, PoolsOf
<1> QED
  BY <1>4, <1>5, <1>7, <1>9

-----------------------------------------------------------------------------
(* The invariant *)

\* Every step keeps it.
LEMMA ReloadNextInv == ReloadInv /\ [ReloadNext]_reloadVars => ReloadInv'
<1> SUFFICES ASSUME ReloadInv, [ReloadNext]_reloadVars PROVE ReloadInv'
  OBVIOUS
<1>1. CASE UNCHANGED reloadVars
  <2>1. UNCHANGED <<policyVars, poolVars, req>>
    BY <1>1 DEF reloadVars
  <2>2. ReloadTypes'
    BY <2>1 DEF ReloadInv, ReloadTypes, policyVars, poolVars
  <2> QED
    BY <2>1, <2>2, PoolsKept, PolicyKept DEF ReloadInv
<1>2. ASSUME NEW p \in Policies, Edit(p) PROVE ReloadInv'
  BY <1>2, EditInv
<1>3. ASSUME NEW w \in Reloaders, Reload(w) PROVE ReloadInv'
  BY <1>3, LoadInv, SwapInv, ExposeInv DEF Reload
<1>4. ASSUME NEW q \in Requests, Request(q) PROVE ReloadInv'
  BY <1>4, SyncReadInv, SyncLockInv, SyncBuildInv, SyncClearInv, SyncInsertInv, SyncDoneInv,
     RouteInv, ShedInv DEF Request
<1>5. ASSUME NEW q \in Requests, NEW s \in Sites, Resolve(q, s) PROVE ReloadInv'
  BY <1>5, ResolveInv
<1> QED
  BY <1>1, <1>2, <1>3, <1>4, <1>5 DEF ReloadNext

\* ReloadInv holds in every state a reload or a request can reach.
THEOREM ReloadInvariance == ReloadSpec => []ReloadInv
<1>1. ReloadInit => ReloadInv
  BY ReloadInitInv
<1>2. ReloadInv /\ [ReloadNext]_reloadVars => ReloadInv'
  BY ReloadNextInv
<1> QED
  BY <1>1, <1>2, PTL DEF ReloadSpec

\* try_reload: unless two of them overlapped, the policy read last is the live one
\* and the one whose version is exposed, for any number of callers.
THEOREM LatestGoesLive == ReloadSpec => []LiveIsLatest
<1>1. ReloadInv => LiveIsLatest
  BY DEF ReloadInv
<1> QED
  BY <1>1, ReloadInvariance, PTL

\* OriginPools::sync: outside a rebuild the pools are those of one policy, all of
\* them, however requests and reloads interleave.
THEOREM PoolsOfOnePolicy == ReloadSpec => []PoolsWhole
<1>1. ReloadInv => PoolsWhole
  BY DEF ReloadInv
<1> QED
  BY <1>1, ReloadInvariance, PTL

-----------------------------------------------------------------------------
(* ConnectionRate: the windows of connections *)

\* A queue, oldest first.
OldestFirst(q) == \A i, j \in 1..Len(q) : i <= j => q[i] >= q[j]
Queue == {q \in Seq(Nat) : OldestFirst(q)}
QueueFrom(m, ip) == IF ip \in DOMAIN m THEN m[ip] ELSE <<>>

\* The map of the queues: within the limits, and with what counts of every IP.
Attempts(m) ==
  /\ DOMAIN m \subseteq IPs /\ IsFiniteSet(DOMAIN m) /\ Cardinality(DOMAIN m) <= MaxIPs
  /\ \A ip \in DOMAIN m : m[ip] \in Queue /\ Len(m[ip]) \in 1..MaxAttempts

Counts(m, from) ==
  /\ from \in [IPs -> Seq(Nat)]
  /\ \A ip \in IPs : from[ip] = Retain(QueueFrom(m, ip), Window)

WindowInv ==
  /\ Attempts(attempts) /\ Counts(attempts, acceptedFrom)
  /\ global_attempts \in Queue /\ Len(global_attempts) <= MaxGlobal
  /\ accepted = Retain(global_attempts, Window)

\* The constants are numbers.
LEMMA WindowNumbers ==
  /\ Window \in Nat \ {0} /\ MaxAttempts \in Nat \ {0} /\ MaxGlobal \in Nat \ {0}
  /\ MaxIPs \in Nat \ {0}
  BY WindowAssumption

\* A queue that got a younger one is a queue.
LEMMA QueueShorter ==
  ASSUME NEW q \in Seq(Nat), NEW a \in Nat, OldestFirst(Append(q, a))
  PROVE  OldestFirst(q) /\ \A i \in 1..Len(q) : q[i] >= a
<1> DEFINE t == Append(q, a)
<1>1. /\ Len(t) = Len(q) + 1 /\ t[Len(q) + 1] = a /\ Len(q) \in Nat
      /\ \A i \in 1..Len(q) : t[i] = q[i]
  OBVIOUS
<1>2. OldestFirst(t)
  OBVIOUS
<1> HIDE DEF t
<1>3. \A i \in 1..Len(q) : i \in 1..Len(t) /\ i <= Len(q) + 1 /\ Len(q) + 1 \in 1..Len(t)
  BY <1>1
<1>4. \A i \in 1..Len(q) : t[i] >= t[Len(q) + 1]
  BY <1>2, <1>3 DEF OldestFirst
<1>5. \A i, j \in 1..Len(q) : i <= j => t[i] >= t[j]
  BY <1>2, <1>3 DEF OldestFirst
<1> QED
  BY <1>1, <1>4, <1>5 DEF OldestFirst

\* The loop that pops from the front removes nothing when all expired, and otherwise
\* what comes before the first that counts.
LEMMA PopFacts ==
  ASSUME NEW q \in Seq(Nat)
  PROVE  /\ (\A i \in 1..Len(q) : q[i] >= Window) => PopExpired(q) = <<>>
         /\ \A m \in 1..Len(q) : q[m] < Window /\ (\A i \in 1..Len(q) : q[i] < Window => m <= i)
              => PopExpired(q) = SubSeq(q, m, Len(q))
<1> DEFINE young == {i \in 1..Len(q) : ~Expired(q[i])}
<1>0. Window \in Nat /\ \A i \in 1..Len(q) : q[i] \in Nat
  BY WindowNumbers
<1>1. \A i \in 1..Len(q) : i \in young <=> q[i] < Window
  BY <1>0 DEF Expired
<1>2. PopExpired(q) = IF young = {} THEN <<>>
                      ELSE SubSeq(q, CHOOSE i \in young : \A j \in young : i <= j, Len(q))
  BY DEF PopExpired
<1>3. young \subseteq 1..Len(q)
  OBVIOUS
<1> HIDE DEF young
<1>4. ASSUME \A i \in 1..Len(q) : q[i] >= Window
      PROVE  PopExpired(q) = <<>>
  <2>1. young = {}
    BY <1>0, <1>1, <1>3, <1>4
  <2> QED
    BY <1>2, <2>1
<1>5. ASSUME NEW m \in 1..Len(q), q[m] < Window, \A i \in 1..Len(q) : q[i] < Window => m <= i
      PROVE  PopExpired(q) = SubSeq(q, m, Len(q))
  <2>1. m \in young /\ \A j \in young : m <= j
    BY <1>1, <1>3, <1>5
  <2>2. \A i \in young : (\A j \in young : i <= j) => i = m
    BY <1>3, <2>1
  <2>3. (CHOOSE i \in young : \A j \in young : i <= j) = m
    BY <2>1, <2>2
  <2> QED
    BY <1>2, <2>1, <2>3
<1> QED
  BY <1>4, <1>5

\* On a queue, popping from the front is trimming.
LEMMA PopIsRetain ==
  ASSUME NEW q \in Queue
  PROVE  PopExpired(q) = Retain(q, Window)
<1> DEFINE P == {s \in Seq(Nat) : OldestFirst(s) => PopExpired(s) = Retain(s, Window)}
<1>0. Window \in Nat
  BY WindowNumbers
<1>1. <<>> \in P
  <2>1. <<>> \in Seq(Nat) /\ \A i \in 1..Len(<<>>) : <<>>[i] >= Window
    OBVIOUS
  <2>2. PopExpired(<<>>) = <<>>
    BY <2>1, PopFacts
  <2> QED
    BY <2>1, <2>2, RetainEmpty
<1>2. ASSUME NEW s \in P, NEW a \in Nat
      PROVE  Append(s, a) \in P
  <2> DEFINE t == Append(s, a)
             n == Len(s)
  <2>1. /\ s \in Seq(Nat) /\ t \in Seq(Nat) /\ Len(t) = n + 1 /\ t[n + 1] = a /\ n \in Nat
        /\ \A i \in 1..n : t[i] = s[i] /\ s[i] \in Nat
    OBVIOUS
  <2> SUFFICES ASSUME OldestFirst(t) PROVE PopExpired(t) = Retain(t, Window)
    BY <2>1
  <2>2. OldestFirst(s) /\ \A i \in 1..n : s[i] >= a
    BY <2>1, QueueShorter
  <2>3. PopExpired(s) = Retain(s, Window)
    BY <2>2
  <2>4. Retain(t, Window) = IF a < Window THEN Append(Retain(s, Window), a) ELSE Retain(s, Window)
    BY <2>1, RetainAppend
  <2>5. t = Append(s, a)
    OBVIOUS
  <2>9. n = Len(s)
    OBVIOUS
  <2> HIDE DEF t, n
  <2>6. CASE ~(a < Window)
    <3>1. \A i \in 1..n : s[i] >= Window
      BY <1>0, <2>1, <2>2, <2>6
    <3>2. \A i \in 1..(n + 1) : i \in 1..n \/ i = n + 1
      BY <2>1
    <3>3. a >= Window
      BY <1>0, <2>6
    <3>4. \A i \in 1..(n + 1) : t[i] >= Window
      BY <2>1, <3>1, <3>2, <3>3
    <3> QED
      BY <2>1, <2>3, <2>4, <2>6, <2>9, <3>1, <3>4, PopFacts
  <2>7. CASE a < Window /\ \A i \in 1..n : s[i] >= Window
    <3>1. PopExpired(s) = <<>>
      BY <2>1, <2>7, <2>9, PopFacts
    <3>2. /\ n + 1 \in 1..Len(t) /\ t[n + 1] < Window
          /\ \A i \in 1..Len(t) : t[i] < Window => n + 1 <= i
      BY <1>0, <2>1, <2>7
    <3>3. PopExpired(t) = SubSeq(t, n + 1, n + 1)
      BY <2>1, <3>2, PopFacts
    <3>4. SubSeq(t, n + 1, n + 1) = Append(<<>>, a)
      <4> DEFINE u == SubSeq(t, n + 1, n + 1)
      <4>1. u \in Seq(Nat) /\ Len(u) = 1 /\ u[1] = t[n + 1]
        BY <2>1
      <4> HIDE DEF u
      <4>3. u = [i \in 1..1 |-> u[i]]
        BY <4>1, SequenceIsFunction
      <4>4. \A i \in 1..1 : u[i] = a
        BY <2>1, <4>1
      <4>5. u = [i \in 1..1 |-> a]
        BY <4>3, <4>4
      <4>2. Append(<<>>, a) = [i \in 1..1 |-> a]
        OBVIOUS
      <4> QED
        BY <4>2, <4>5 DEF u
    <3> QED
      BY <2>3, <2>4, <2>7, <3>1, <3>3, <3>4
  <2>8. CASE a < Window /\ \E i \in 1..n : s[i] < Window
    <3> DEFINE L == {i \in 1..n : s[i] < Window}
    <3>1. L \in SUBSET Nat /\ \E i \in L : TRUE
      BY <2>1, <2>8
    <3>2. PICK m \in L : \A i \in L : m <= i
      BY <3>1, LeastNumber
    <3>3. m \in 1..n /\ s[m] < Window /\ \A i \in 1..n : s[i] < Window => m <= i
      BY <3>2
    <3>6. m \in 1..(n + 1) /\ t[m] < Window
      BY <2>1, <3>3
    <3>7. ASSUME NEW i \in 1..(n + 1), t[i] < Window
          PROVE  m <= i
      <4>1. i \in 1..n \/ i = n + 1
        BY <2>1
      <4> QED
        <5>1. CASE i \in 1..n
          BY <2>1, <3>3, <3>7, <5>1
        <5>2. CASE i = n + 1
          BY <2>1, <3>6, <5>2
        <5> QED
          BY <4>1, <5>1, <5>2
    <3>4. PopExpired(s) = SubSeq(s, m, n) /\ PopExpired(t) = SubSeq(t, m, n + 1)
      <4>1. PopExpired(s) = SubSeq(s, m, Len(s)) /\ PopExpired(t) = SubSeq(t, m, Len(t))
        BY <2>1, <2>9, <3>3, <3>6, <3>7, PopFacts
      <4> QED
        BY <2>1, <2>9, <4>1
    <3>5. SubSeq(t, m, n + 1) = Append(SubSeq(s, m, n), a)
      <4> DEFINE u == SubSeq(s, m, n)
                 v == SubSeq(t, m, n + 1)
      <4>0. m \in Nat /\ 1 <= m /\ m <= n /\ n - m + 1 \in Nat
        BY <2>1, <3>3
      <4>1. /\ u \in Seq(Nat) /\ Len(u) = n - m + 1 /\ \A i \in 1..(n - m + 1) : u[i] = s[m + i - 1]
        BY <2>1, <2>9, <4>0
      <4>2. /\ v \in Seq(Nat) /\ Len(v) = n - m + 2 /\ \A i \in 1..(n - m + 2) : v[i] = t[m + i - 1]
        BY <2>1, <4>0
      <4> HIDE DEF u, v
      <4>3. /\ Append(u, a) \in Seq(Nat) /\ Len(Append(u, a)) = n - m + 2
            /\ Append(u, a)[n - m + 2] = a
            /\ \A i \in 1..(n - m + 1) : Append(u, a)[i] = u[i]
        <5>1. Len(u) + 1 = n - m + 2
          BY <2>1, <4>0, <4>1
        <5>2. /\ Append(u, a) \in Seq(Nat) /\ Len(Append(u, a)) = Len(u) + 1
              /\ Append(u, a)[Len(u) + 1] = a
              /\ \A i \in 1..Len(u) : Append(u, a)[i] = u[i]
          BY <4>1
        <5> QED
          BY <4>1, <5>1, <5>2
      <4>4. \A i \in 1..(n - m + 2) : v[i] = Append(u, a)[i]
        <5> TAKE i \in 1..(n - m + 2)
        <5>1. CASE i = n - m + 2
          <6>1. m + i - 1 = n + 1
            BY <2>1, <4>0, <5>1
          <6> QED
            BY <2>1, <4>2, <4>3, <5>1, <6>1
        <5>2. CASE i \in 1..(n - m + 1)
          <6>1. m + i - 1 \in 1..n
            BY <2>1, <4>0, <5>2
          <6> QED
            BY <2>1, <4>1, <4>2, <4>3, <5>2, <6>1
        <5>3. i = n - m + 2 \/ i \in 1..(n - m + 1)
          BY <2>1, <4>0
        <5> QED
          BY <5>1, <5>2, <5>3
      <4>5. v = [i \in 1..(n - m + 2) |-> v[i]]
        BY <4>2, SequenceIsFunction
      <4>6. Append(u, a) = [i \in 1..(n - m + 2) |-> Append(u, a)[i]]
        BY <4>3, SequenceIsFunction
      <4> QED
        BY <4>4, <4>5, <4>6 DEF u, v
    <3> QED
      BY <2>3, <2>4, <2>8, <3>4, <3>5
  <2> QED
    BY <1>0, <2>1, <2>6, <2>7, <2>8
<1>3. P \in SUBSET Seq(Nat)
  OBVIOUS
<1> HIDE DEF P
<1>4. P = Seq(Nat)
  BY <1>1, <1>2, <1>3, SequenceInduction
<1> QED
  BY <1>4 DEF P, Queue

\* A queue stays one when it is trimmed, when a new one comes last and when time passes.
LEMMA QueueSteps ==
  ASSUME NEW q \in Queue
  PROVE  /\ PopExpired(q) \in Queue /\ Append(q, 0) \in Queue /\ Aged(q, Window) \in Queue
         /\ q \in Seq(Nat)
<1>0. q \in Seq(Nat) /\ OldestFirst(q) /\ Window \in Nat /\ Len(q) \in Nat
  BY WindowNumbers DEF Queue
<1>1. PopExpired(q) \in Queue
  <2>1. CASE \A i \in 1..Len(q) : q[i] >= Window
    <3>1. PopExpired(q) = <<>>
      BY <1>0, <2>1, PopFacts
    <3> QED
      BY <3>1 DEF Queue, OldestFirst
  <2>2. CASE \E i \in 1..Len(q) : q[i] < Window
    <3> DEFINE L == {i \in 1..Len(q) : q[i] < Window}
    <3>1. L \in SUBSET Nat /\ \E i \in L : TRUE
      BY <1>0, <2>2
    <3>2. PICK m \in L : \A i \in L : m <= i
      BY <3>1, LeastNumber
    <3>3. m \in 1..Len(q) /\ PopExpired(q) = SubSeq(q, m, Len(q))
      BY <1>0, <3>2, PopFacts
    <3> DEFINE u == SubSeq(q, m, Len(q))
               n == Len(q) - m + 1
    <3>4. m \in Nat /\ 1 <= m /\ m <= Len(q) /\ n \in Nat
      BY <1>0, <3>3
    <3>5. u \in Seq(Nat) /\ Len(u) = n /\ \A i \in 1..n : u[i] = q[m + i - 1]
      BY <1>0, <3>4
    <3>6. \A i, j \in 1..n : i <= j => q[m + i - 1] >= q[m + j - 1]
      <4> TAKE i, j \in 1..n
      <4> HAVE i <= j
      <4>1. m + i - 1 \in 1..Len(q) /\ m + j - 1 \in 1..Len(q) /\ m + i - 1 <= m + j - 1
        BY <1>0, <3>4
      <4> QED
        BY <1>0, <4>1 DEF OldestFirst
    <3> HIDE DEF u, n
    <3>7. OldestFirst(u)
      BY <3>5, <3>6 DEF OldestFirst
    <3> QED
      BY <3>3, <3>5, <3>7 DEF Queue, u
  <2>3. \A i \in 1..Len(q) : q[i] \in Nat
    BY <1>0
  <2> QED
    BY <1>0, <2>1, <2>2, <2>3
<1>2. Append(q, 0) \in Queue
  <2> DEFINE t == Append(q, 0)
             n == Len(q)
  <2>1. /\ t \in Seq(Nat) /\ Len(t) = n + 1 /\ t[n + 1] = 0 /\ n \in Nat
        /\ \A i \in 1..n : t[i] = q[i] /\ q[i] \in Nat
    BY <1>0
  <2>2. \A i, j \in 1..n : i <= j => q[i] >= q[j]
    BY <1>0 DEF OldestFirst
  <2> HIDE DEF t, n
  <2>3. ASSUME NEW i \in 1..(n + 1), NEW j \in 1..(n + 1), i <= j
        PROVE  t[i] >= t[j]
    <3>1. CASE j = n + 1
      <4>1. t[i] \in Nat
        BY <2>1
      <4> QED
        BY <2>1, <3>1, <4>1
    <3>2. CASE i \in 1..n /\ j \in 1..n
      BY <2>1, <2>2, <2>3, <3>2
    <3>3. j = n + 1 \/ (i \in 1..n /\ j \in 1..n)
      BY <2>1, <2>3
    <3> QED
      BY <3>1, <3>2, <3>3
  <2>4. OldestFirst(t)
    BY <2>1, <2>3 DEF OldestFirst
  <2> QED
    BY <2>1, <2>4 DEF Queue, t
<1>3. Aged(q, Window) \in Queue
  <2> DEFINE u == Aged(q, Window)
  <2>1. u \in Seq(Nat) /\ Len(u) = Len(q)
    BY <1>0, AgedType
  <2>2. \A i \in 1..Len(q) : u[i] = IF q[i] < Window THEN q[i] + 1 ELSE q[i]
    BY <1>0 DEF Aged
  <2>3. \A i \in 1..Len(q) : q[i] \in Nat
    BY <1>0
  <2> HIDE DEF u
  <2>4. ASSUME NEW i \in 1..Len(q), NEW j \in 1..Len(q), i <= j
        PROVE  u[i] >= u[j]
    <3>1. q[i] >= q[j]
      BY <1>0, <2>4 DEF OldestFirst
    <3> QED
      BY <1>0, <2>2, <2>3, <3>1
  <2>5. OldestFirst(u)
    BY <2>1, <2>4 DEF OldestFirst
  <2> QED
    BY <2>1, <2>5 DEF Queue, u
<1> QED
  BY <1>0, <1>1, <1>2, <1>3

\* What a queue holds once trimmed, and once time has passed.
LEMMA QueueCounts ==
  ASSUME NEW q \in Queue
  PROVE  /\ Retain(PopExpired(q), Window) = Retain(q, Window) /\ Len(PopExpired(q)) <= Len(q)
         /\ Retain(Append(PopExpired(q), 0), Window) = Append(Retain(q, Window), 0)
         /\ Retain(Aged(q, Window), Window) = Retain(Aged(Retain(q, Window), Window), Window)
         /\ Len(Aged(q, Window)) = Len(q)
         /\ Retain(q, Window) \in Seq(Nat) /\ Len(Retain(q, Window)) <= Len(q)
<1>1. q \in Seq(Nat) /\ Window \in Nat /\ 0 < Window /\ 0 \in Nat
  BY WindowNumbers, QueueSteps
<1>2. PopExpired(q) = Retain(q, Window)
  BY PopIsRetain
<1>3. Retain(q, Window) \in Seq(Nat) /\ Len(Retain(q, Window)) <= Len(q)
  BY <1>1, RetainFacts
<1>4. Retain(Retain(q, Window), Window) = Retain(q, Window)
  BY <1>1, RetainTwice
<1>5. Retain(Append(Retain(q, Window), 0), Window) = Append(Retain(q, Window), 0)
  <2> DEFINE r == Retain(q, Window)
  <2> HIDE DEF r
  <2>1. Retain(Append(r, 0), Window) = IF 0 < Window THEN Append(Retain(r, Window), 0)
                                       ELSE Retain(r, Window)
    BY <1>1, <1>3, RetainAppend DEF r
  <2> QED
    BY <1>1, <1>4, <2>1 DEF r
<1>6. /\ Retain(Aged(q, Window), Window) = Retain(Aged(Retain(q, Window), Window), Window)
      /\ Len(Aged(q, Window)) = Len(q)
  BY <1>1, RetainAged, AgedType
<1> QED
  BY <1>2, <1>3, <1>4, <1>5, <1>6

\* evict_expired loses nothing that counts.
LEMMA EvictExpiredInv ==
  ASSUME NEW m, NEW from, Attempts(m), Counts(m, from)
  PROVE  Attempts(EvictExpired(m)) /\ Counts(EvictExpired(m), from)
<1> DEFINE e == EvictExpired(m)
<1>1. /\ DOMAIN e = {ip \in DOMAIN m : PopExpired(m[ip]) # <<>>}
      /\ \A ip \in DOMAIN e : e[ip] = PopExpired(m[ip])
  BY DEF EvictExpired
<1> HIDE DEF e
<1>2. /\ DOMAIN m \subseteq IPs /\ IsFiniteSet(DOMAIN m) /\ Cardinality(DOMAIN m) <= MaxIPs
      /\ \A ip \in DOMAIN m : m[ip] \in Queue /\ Len(m[ip]) \in 1..MaxAttempts
  BY DEF Attempts
<1>3. /\ DOMAIN e \subseteq DOMAIN m /\ IsFiniteSet(DOMAIN e)
      /\ Cardinality(DOMAIN e) <= Cardinality(DOMAIN m)
  BY <1>1, <1>2, FS_Subset
<1>4. Cardinality(DOMAIN e) \in Nat /\ Cardinality(DOMAIN m) \in Nat
  BY <1>2, <1>3, FS_CardinalityType
<1>5. Cardinality(DOMAIN e) <= MaxIPs
  BY <1>2, <1>3, <1>4, WindowNumbers
<1>6. ASSUME NEW ip \in DOMAIN e
      PROVE  e[ip] \in Queue /\ Len(e[ip]) \in 1..MaxAttempts
  <2>1. m[ip] \in Queue /\ Len(m[ip]) \in 1..MaxAttempts /\ e[ip] = PopExpired(m[ip])
    BY <1>1, <1>2, <1>3
  <2>2. e[ip] \in Queue /\ Len(e[ip]) <= Len(m[ip])
    BY <2>1, QueueSteps, QueueCounts
  <2>3. e[ip] \in Seq(Nat) /\ e[ip] # <<>>
    BY <1>1, <2>1, <2>2 DEF Queue
  <2>4. Len(e[ip]) \in Nat /\ Len(e[ip]) # 0
    BY <2>3
  <2> QED
    BY <2>1, <2>2, <2>4, WindowNumbers
<1>7. ASSUME NEW ip \in IPs
      PROVE  Retain(QueueFrom(e, ip), Window) = Retain(QueueFrom(m, ip), Window)
  <2>1. CASE ip \in DOMAIN e
    BY <1>1, <1>2, <1>3, <2>1, QueueCounts DEF QueueFrom
  <2>2. CASE ip \in DOMAIN m /\ ip \notin DOMAIN e
    <3>1. PopExpired(m[ip]) = <<>> /\ m[ip] \in Queue
      BY <1>1, <1>2, <2>2
    <3>2. Retain(m[ip], Window) = <<>>
      BY <3>1, PopIsRetain
    <3> QED
      BY <2>2, <3>2, RetainEmpty DEF QueueFrom
  <2>3. CASE ip \notin DOMAIN m
    BY <1>3, <2>3 DEF QueueFrom
  <2> QED
    BY <1>3, <2>1, <2>2, <2>3
<1> QED
  BY <1>2, <1>3, <1>5, <1>6, <1>7 DEF Attempts, Counts, e

\* A map with one entry touched.
Touch(m, ip, q) == [i \in DOMAIN m \cup {ip} |-> IF i = ip THEN q ELSE m[i]]

\* It keeps the numbers that are recorded, and those of the other addresses.
LEMMA TouchInv ==
  ASSUME NEW m, NEW from, NEW ip \in IPs, NEW q \in Queue,
         Attempts(m), Counts(m, from), Len(q) \in 1..MaxAttempts,
         ip \in DOMAIN m \/ Cardinality(DOMAIN m) < MaxIPs
  PROVE  /\ Attempts(Touch(m, ip, q))
         /\ Counts(Touch(m, ip, q), [from EXCEPT ![ip] = Retain(q, Window)])
<1> DEFINE to == Touch(m, ip, q)
           h == Retain(q, Window)
<1>0. h \in Seq(Nat)
  BY QueueCounts
<1>1. /\ DOMAIN m \subseteq IPs /\ IsFiniteSet(DOMAIN m) /\ Cardinality(DOMAIN m) <= MaxIPs
      /\ \A i \in DOMAIN m : m[i] \in Queue /\ Len(m[i]) \in 1..MaxAttempts
  BY DEF Attempts
<1>2. DOMAIN to = DOMAIN m \cup {ip} /\ to[ip] = q /\ \A i \in DOMAIN m \ {ip} : to[i] = m[i]
  BY DEF Touch
<1> HIDE DEF to, h
<1>3. IsFiniteSet(DOMAIN to) /\ Cardinality(DOMAIN to) <= MaxIPs
  <2>1. CASE ip \in DOMAIN m
    <3>1. DOMAIN m \cup {ip} = DOMAIN m
      BY <2>1
    <3> QED
      BY <1>1, <1>2, <3>1
  <2>2. CASE ip \notin DOMAIN m
    <3>1. /\ IsFiniteSet(DOMAIN m \cup {ip}) /\ Cardinality(DOMAIN m) \in Nat
          /\ Cardinality(DOMAIN m \cup {ip}) = Cardinality(DOMAIN m) + 1
      BY <1>1, <2>2, FS_AddElement, FS_CardinalityType
    <3> QED
      BY <1>2, <2>2, <3>1, WindowNumbers
  <2> QED
    BY <2>1, <2>2
<1>4. Attempts(to)
  BY <1>1, <1>2, <1>3 DEF Attempts
<1>5. from \in [IPs -> Seq(Nat)] /\ \A i \in IPs : from[i] = Retain(QueueFrom(m, i), Window)
  BY DEF Counts
<1>6. Counts(to, [from EXCEPT ![ip] = h])
  <2>1. [from EXCEPT ![ip] = h] \in [IPs -> Seq(Nat)]
    BY <1>0, <1>5
  <2>2. ASSUME NEW i \in IPs
        PROVE  [from EXCEPT ![ip] = h][i] = Retain(QueueFrom(to, i), Window)
    <3>1. CASE i = ip
      BY <1>2, <1>5, <3>1 DEF QueueFrom, h
    <3>2. CASE i # ip
      BY <1>2, <1>5, <3>2 DEF QueueFrom
    <3> QED
      BY <3>1, <3>2
  <2> QED
    BY <2>1, <2>2 DEF Counts
<1> QED
  BY <1>4, <1>6 DEF to, h

\* A check.
LEMMA CheckInv ==
  ASSUME WindowInv, NEW ip \in IPs, Check(ip)
  PROVE  WindowInv'
<1> DEFINE global == PopExpired(global_attempts)
           m == IF checks = 0 THEN EvictExpired(attempts) ELSE attempts
           queue == IF ip \in DOMAIN m THEN PopExpired(m[ip]) ELSE <<>>
           touched == [i \in DOMAIN m \cup {ip} |-> IF i = ip THEN queue ELSE m[i]]
<1>0. /\ Attempts(attempts) /\ Counts(attempts, acceptedFrom) /\ global_attempts \in Queue
      /\ Len(global_attempts) <= MaxGlobal /\ accepted = Retain(global_attempts, Window)
  BY DEF WindowInv
<1>1. Attempts(m) /\ Counts(m, acceptedFrom)
  BY <1>0, EvictExpiredInv
<1>2. /\ global \in Queue /\ Append(global, 0) \in Queue /\ global \in Seq(Nat)
      /\ Len(global) <= Len(global_attempts) /\ Retain(global, Window) = accepted
      /\ Retain(Append(global, 0), Window) = Append(accepted, 0)
  BY <1>0, QueueSteps, QueueCounts
<1>3. Len(global) \in Nat /\ Len(global_attempts) \in Nat /\ Len(Append(global, 0)) = Len(global) + 1
  BY <1>0, <1>2 DEF Queue
<1>4. queue \in Queue /\ acceptedFrom[ip] = Retain(queue, Window)
  <2>1. CASE ip \in DOMAIN m
    <3>1. m[ip] \in Queue /\ acceptedFrom[ip] = Retain(m[ip], Window)
      BY <1>1, <2>1 DEF Attempts, Counts, QueueFrom
    <3> QED
      BY <2>1, <3>1, QueueSteps, QueueCounts
  <2>2. CASE ip \notin DOMAIN m
    <3>1. <<>> \in Queue
      BY DEF Queue, OldestFirst
    <3> QED
      BY <1>1, <2>2, <3>1 DEF Counts, QueueFrom
  <2> QED
    BY <2>1, <2>2
<1>5. Append(queue, 0) \in Queue /\ queue \in Seq(Nat) /\ Len(Append(queue, 0)) = Len(queue) + 1
  BY <1>4, QueueSteps
<1>6. Retain(Append(queue, 0), Window) = Append(acceptedFrom[ip], 0)
  <2>1. Retain(Append(queue, 0), Window)
          = IF 0 < Window THEN Append(Retain(queue, Window), 0) ELSE Retain(queue, Window)
    <3>1. 0 \in Nat
      OBVIOUS
    <3> HIDE DEF queue
    <3> QED
      BY <1>5, <3>1, RetainAppend
  <2>2. 0 < Window
    BY WindowNumbers
  <2> QED
    BY <1>4, <2>1, <2>2
<1>7. acceptedFrom \in [IPs -> Seq(Nat)]
  BY <1>0 DEF Counts
<1>8. CASE /\ Len(global) >= MaxGlobal /\ global_attempts' = global
           /\ UNCHANGED <<attempts, checks, accepted, acceptedFrom>>
  <2> HIDE DEF global
  <2>1. Len(global) <= MaxGlobal
    BY <1>0, <1>2, <1>3, WindowNumbers
  <2> QED
    BY <1>0, <1>2, <1>8, <2>1 DEF WindowInv
<1>9. CASE /\ Len(global) < MaxGlobal
           /\ ip \notin DOMAIN m /\ Cardinality(DOMAIN m) >= MaxIPs
           /\ attempts' = m /\ global_attempts' = global /\ UNCHANGED <<accepted, acceptedFrom>>
  <2> HIDE DEF global, m
  <2>1. Len(global) <= MaxGlobal
    BY <1>3, <1>9, WindowNumbers
  <2> QED
    BY <1>1, <1>2, <1>9, <2>1 DEF WindowInv
<1>10. CASE /\ Len(global) < MaxGlobal
            /\ ip \in DOMAIN m \/ Cardinality(DOMAIN m) < MaxIPs
            /\ Len(queue) >= MaxAttempts
            /\ attempts' = touched /\ global_attempts' = global /\ UNCHANGED <<accepted, acceptedFrom>>
  <2>1. ip \in DOMAIN m /\ Len(queue) \in 1..MaxAttempts
    <3>1. ip \in DOMAIN m
      BY <1>10, WindowNumbers
    <3>2. m[ip] \in Queue /\ Len(m[ip]) \in 1..MaxAttempts
      BY <1>1, <3>1 DEF Attempts
    <3>3. Len(queue) <= Len(m[ip])
      BY <3>1, <3>2, QueueCounts
    <3> HIDE DEF queue, m
    <3>4. Len(queue) \in Nat
      BY <1>5
    <3> QED
      BY <1>10, <3>1, <3>2, <3>3, <3>4, WindowNumbers
  <2>2. touched = Touch(m, ip, queue)
    BY DEF Touch
  <2>4. [acceptedFrom EXCEPT ![ip] = acceptedFrom[ip]] = acceptedFrom
    BY <1>7
  <2> HIDE DEF global, m, queue, touched
  <2>5. Attempts(touched) /\ Counts(touched, [acceptedFrom EXCEPT ![ip] = acceptedFrom[ip]])
    BY <1>1, <1>4, <2>1, <2>2, TouchInv
  <2>6. Len(global) <= MaxGlobal
    BY <1>3, <1>10, WindowNumbers
  <2> QED
    BY <1>2, <1>10, <2>4, <2>5, <2>6 DEF WindowInv
<1>11. CASE /\ Len(global) < MaxGlobal
            /\ ip \in DOMAIN m \/ Cardinality(DOMAIN m) < MaxIPs
            /\ Len(queue) < MaxAttempts
            /\ attempts' = [touched EXCEPT ![ip] = Append(queue, 0)]
            /\ global_attempts' = Append(global, 0)
            /\ accepted' = Append(accepted, 0)
            /\ acceptedFrom' = [acceptedFrom EXCEPT ![ip] = Append(@, 0)]
  <2>1. [touched EXCEPT ![ip] = Append(queue, 0)]
          = Touch(m, ip, Append(queue, 0))
    <3> HIDE DEF queue, m
    <3> QED
      BY DEF Touch
  <2> HIDE DEF global, m, queue, touched
  <2>3. Len(Append(queue, 0)) \in 1..MaxAttempts
    BY <1>5, <1>11, WindowNumbers
  <2>4. acceptedFrom' = [acceptedFrom EXCEPT ![ip] = Append(acceptedFrom[ip], 0)]
    BY <1>11
  <2>5. Attempts(attempts') /\ Counts(attempts', acceptedFrom')
    <3> DEFINE q == Append(queue, 0)
    <3>1. q \in Queue /\ Len(q) \in 1..MaxAttempts
      BY <1>5, <2>3
    <3>2. attempts' = Touch(m, ip, q) /\ acceptedFrom' = [acceptedFrom EXCEPT ![ip] = Retain(q, Window)]
      BY <1>6, <1>11, <2>1, <2>4
    <3> HIDE DEF q
    <3>3. ip \in DOMAIN m \/ Cardinality(DOMAIN m) < MaxIPs
      BY <1>11
    <3>4. /\ Attempts(Touch(m, ip, q))
          /\ Counts(Touch(m, ip, q), [acceptedFrom EXCEPT ![ip] = Retain(q, Window)])
      BY <1>1, <3>1, <3>3, TouchInv
    <3> QED
      BY <3>2, <3>4
  <2>6. Len(Append(global, 0)) <= MaxGlobal
    BY <1>3, <1>11, WindowNumbers
  <2> QED
    BY <1>2, <1>11, <2>5, <2>6 DEF WindowInv
<1> QED
  BY <1>8, <1>9, <1>10, <1>11 DEF Check

\* Time passes.
LEMMA WindowTickInv ==
  ASSUME WindowInv, Tick
  PROVE  WindowInv'
<1>0. /\ Attempts(attempts) /\ Counts(attempts, acceptedFrom) /\ global_attempts \in Queue
      /\ Len(global_attempts) <= MaxGlobal /\ accepted = Retain(global_attempts, Window)
  BY DEF WindowInv
<1>1. /\ DOMAIN attempts' = DOMAIN attempts
      /\ \A ip \in DOMAIN attempts : attempts'[ip] = Aged(attempts[ip], Window)
      /\ global_attempts' = Aged(global_attempts, Window)
      /\ accepted' = Retain(Aged(accepted, Window), Window)
      /\ acceptedFrom' = [ip \in IPs |-> Retain(Aged(acceptedFrom[ip], Window), Window)]
  BY DEF Tick
<1>2. /\ global_attempts' \in Queue /\ Len(global_attempts') <= MaxGlobal
      /\ accepted' = Retain(global_attempts', Window)
  BY <1>0, <1>1, QueueSteps, QueueCounts
<1>3. Attempts(attempts')
  <2>1. ASSUME NEW ip \in DOMAIN attempts
        PROVE  attempts'[ip] \in Queue /\ Len(attempts'[ip]) \in 1..MaxAttempts
    <3>1. attempts[ip] \in Queue /\ Len(attempts[ip]) \in 1..MaxAttempts
      BY <1>0 DEF Attempts
    <3>2. Aged(attempts[ip], Window) \in Queue /\ Len(Aged(attempts[ip], Window)) = Len(attempts[ip])
      BY <3>1, QueueSteps, QueueCounts
    <3> QED
      BY <1>1, <3>1, <3>2
  <2> QED
    BY <1>0, <1>1, <2>1 DEF Attempts
<1>4. Counts(attempts', acceptedFrom')
  <2>1. ASSUME NEW ip \in IPs
        PROVE  /\ acceptedFrom'[ip] \in Seq(Nat)
               /\ acceptedFrom'[ip] = Retain(QueueFrom(attempts', ip), Window)
    <3> DEFINE q == QueueFrom(attempts, ip)
    <3>1. q \in Queue /\ acceptedFrom[ip] = Retain(q, Window)
      <4>1. <<>> \in Queue
        BY DEF Queue, OldestFirst
      <4> QED
        BY <1>0, <4>1 DEF Attempts, Counts, QueueFrom
    <3>2. QueueFrom(attempts', ip) = Aged(q, Window)
      <4>1. Aged(<<>>, Window) = <<>>
        BY DEF Aged
      <4> QED
        BY <1>1, <4>1 DEF QueueFrom
    <3> HIDE DEF q
    <3>3. /\ Aged(q, Window) \in Queue
          /\ Retain(Aged(q, Window), Window) = Retain(Aged(Retain(q, Window), Window), Window)
      BY <3>1, QueueSteps, QueueCounts
    <3>4. Retain(Aged(q, Window), Window) \in Seq(Nat)
      BY <3>3, QueueCounts
    <3> QED
      BY <1>1, <3>1, <3>2, <3>3, <3>4
  <2>2. acceptedFrom' \in [IPs -> Seq(Nat)]
    BY <1>1, <2>1
  <2> QED
    BY <2>1, <2>2 DEF Counts
<1> QED
  BY <1>2, <1>3, <1>4 DEF WindowInv

\* The filter begins with nothing.
LEMMA WindowInitInv ==
  ASSUME WindowInit
  PROVE  WindowInv
<1>1. /\ DOMAIN attempts = {} /\ global_attempts = <<>> /\ accepted = <<>>
      /\ acceptedFrom = [ip \in IPs |-> <<>>]
  BY DEF WindowInit
<1>2. IsFiniteSet({}) /\ Cardinality({}) = 0
  BY FS_EmptySet
<1>3. <<>> \in Queue /\ <<>> \in Seq(Nat) /\ Len(<<>>) = 0
  BY DEF Queue, OldestFirst
<1>4. Attempts(attempts)
  BY <1>1, <1>2, WindowNumbers DEF Attempts
<1>5. Counts(attempts, acceptedFrom)
  BY <1>1, <1>3, RetainEmpty DEF Counts, QueueFrom
<1> QED
  BY <1>1, <1>3, <1>4, <1>5, RetainEmpty, WindowNumbers DEF WindowInv

\* The limits follow from the invariant.
LEMMA WindowInvLimits ==
  ASSUME WindowInv
  PROVE  WindowLimits
<1>0. /\ Attempts(attempts) /\ Counts(attempts, acceptedFrom) /\ global_attempts \in Queue
      /\ Len(global_attempts) <= MaxGlobal /\ accepted = Retain(global_attempts, Window)
  BY DEF WindowInv
<1>1. Len(accepted) <= MaxGlobal
  <2>1. Len(accepted) <= Len(global_attempts) /\ accepted \in Seq(Nat) /\ global_attempts \in Seq(Nat)
    BY <1>0, QueueCounts DEF Queue
  <2>2. Len(accepted) \in Nat /\ Len(global_attempts) \in Nat
    BY <2>1
  <2> QED
    BY <1>0, <2>1, <2>2, WindowNumbers
<1>2. ASSUME NEW ip \in IPs
      PROVE  Len(acceptedFrom[ip]) <= MaxAttempts
  <2>1. CASE ip \in DOMAIN attempts
    <3>1. /\ attempts[ip] \in Queue /\ Len(attempts[ip]) \in 1..MaxAttempts
          /\ acceptedFrom[ip] = Retain(attempts[ip], Window)
      BY <1>0, <2>1 DEF Attempts, Counts, QueueFrom
    <3>2. Len(acceptedFrom[ip]) <= Len(attempts[ip]) /\ acceptedFrom[ip] \in Seq(Nat)
      BY <3>1, QueueCounts
    <3>3. Len(acceptedFrom[ip]) \in Nat
      BY <3>2
    <3> QED
      BY <3>1, <3>2, <3>3, WindowNumbers
  <2>2. CASE ip \notin DOMAIN attempts
    <3>1. acceptedFrom[ip] = <<>>
      BY <1>0, <2>2, RetainEmpty DEF Counts, QueueFrom
    <3>2. Len(<<>>) = 0
      OBVIOUS
    <3> QED
      BY <3>1, <3>2, WindowNumbers
  <2> QED
    BY <2>1, <2>2
<1>3. MemoryBounded
  BY <1>0 DEF Attempts, MemoryBounded
<1> QED
  BY <1>1, <1>2, <1>3 DEF WindowLimits

\* What the window really accepted stays within both limits, and the memory of the
\* filter is bounded, for any limits and any number of addresses.
THEOREM WindowsHold == WindowSpec => []WindowLimits
<1>1. WindowInit => WindowInv
  BY WindowInitInv
<1>2. WindowInv /\ [WindowNext]_windowVars => WindowInv'
  <2> SUFFICES ASSUME WindowInv, [WindowNext]_windowVars PROVE WindowInv'
    OBVIOUS
  <2>1. CASE UNCHANGED windowVars
    BY <2>1 DEF windowVars, WindowInv, Attempts, Counts, QueueFrom, Queue, OldestFirst
  <2>2. CASE WindowNext
    BY <2>2, CheckInv, WindowTickInv DEF WindowNext
  <2> QED
    BY <2>1, <2>2
<1>3. WindowInv => WindowLimits
  BY WindowInvLimits
<1> QED
  BY <1>1, <1>2, <1>3, PTL DEF WindowSpec
================================================================================
