-------------------------- MODULE ActiveConnections --------------------------
(***************************************************************************)
(* ActiveConnectionState (src/src/connection.rs): the slots of the         *)
(* downstream connections. should_accept takes a slot and leaves it in     *)
(* `pending` under the TCP peer's address; process_new turns it into a     *)
(* guard once Pingora hands the stream over; what the handshake abandons   *)
(* is evicted after pending_ttl by whoever comes next.                     *)
(*                                                                         *)
(* A step is one atomic operation on `current` or one entry of the         *)
(* `pending` map. Connections of different listeners share the state and   *)
(* may come from one address and port.                                     *)
(***************************************************************************)
EXTENDS Integers, FiniteSets

CONSTANTS
  Conns,     \* connections being accepted or served
  Addrs,     \* TCP peers
  Max        \* MAX_ACTIVE_CONNECTIONS

ASSUME ConnsAssumption == IsFiniteSet(Conns)
ASSUME AddrsAssumption == IsFiniteSet(Addrs) /\ Addrs # {}
ASSUME MaxAssumption == Max \in Nat \ {0}

VARIABLES
  current,   \* ActiveConnectionState.current
  pending,   \* the keys of `pending`
  expired,   \* those older than pending_ttl
  pc,        \* where each connection is
  addr,      \* its TCP peer
  todo       \* evict_expired_pending: entries `retain` has still to drop

vars == <<current, pending, expired, pc, addr, todo>>

Goto(c, s) == pc' = [pc EXCEPT ![c] = s]

-----------------------------------------------------------------------------
\* mutant: nothing is ever evicted
Evict_Nothing(c, s) ==
  /\ Goto(c, s)
  /\ todo' = todo

\* evict_expired_pending reads the clock once: what is expired now is what goes
Evict(c, s) ==
  /\ Goto(c, s)
  /\ todo' = [todo EXCEPT ![c] = expired]

\* one entry of `retain`, under its shard's lock: somebody else may have dropped
\* or renewed it meanwhile
EvictEntry(c, a) ==
  /\ pc[c] \in {"reserve", "activate"}
  /\ a \in todo[c]
  /\ todo' = [todo EXCEPT ![c] = @ \ {a}]
  /\ \/ /\ a \in expired
        /\ pending' = pending \ {a}
        /\ expired' = expired \ {a}
        /\ current' = current - 1
     \/ /\ a \notin expired
        /\ UNCHANGED <<pending, expired, current>>
  /\ UNCHANGED <<pc, addr>>

\* should_accept, once the attempt is within the rate
ShouldAccept(c, a) ==
  /\ pc[c] = "idle"
  /\ addr' = [addr EXCEPT ![c] = a]
  /\ Evict(c, "reserve")
  /\ UNCHANGED <<current, pending, expired>>

\* reserve_pending: take a slot, or refuse the connection
Reserve(c) ==
  /\ pc[c] = "reserve"
  /\ todo[c] = {}
  /\ \/ /\ current < Max
        /\ current' = current + 1
        /\ Goto(c, "insert")
     \/ /\ current >= Max
        /\ Goto(c, "idle")
        /\ UNCHANGED current
  /\ UNCHANGED <<pending, expired, addr, todo>>

\* mutant: the second slot of a pending peer is kept
Insert_NoUndo(c) ==
  /\ pc[c] = "insert"
  /\ pending' = pending \cup {addr[c]}
  /\ expired' = expired \ {addr[c]}
  /\ Goto(c, "accepted")
  /\ UNCHANGED <<current, addr, todo>>

\* reserve_pending: a peer that is pending already holds a slot
Insert(c) ==
  /\ pc[c] = "insert"
  /\ pending' = pending \cup {addr[c]}
  /\ expired' = expired \ {addr[c]}
  /\ Goto(c, IF addr[c] \in pending THEN "undo" ELSE "accepted")
  /\ UNCHANGED <<current, addr, todo>>

Undo(c) ==
  /\ pc[c] = "undo"
  /\ current' = current - 1
  /\ Goto(c, "accepted")
  /\ UNCHANGED <<pending, expired, addr, todo>>

\* the peer goes away, or the handshake fails, before process_new
Abandon(c) ==
  /\ pc[c] = "accepted"
  /\ Goto(c, "idle")
  /\ UNCHANGED <<current, pending, expired, addr, todo>>

\* process_new calls activate
ProcessNew(c) ==
  /\ pc[c] = "accepted"
  /\ Evict(c, "activate")
  /\ UNCHANGED <<current, pending, expired, addr>>

\* activate: the pending slot becomes the guard's
Activate(c) ==
  /\ pc[c] = "activate"
  /\ todo[c] = {}
  /\ pending' = pending \ {addr[c]}
  /\ expired' = expired \ {addr[c]}
  /\ Goto(c, IF addr[c] \in pending THEN "active" ELSE "acquire")
  /\ UNCHANGED <<current, addr, todo>>

\* mutant: a slot is taken whether or not there is one
Acquire_NoLimit(c) ==
  /\ pc[c] = "acquire"
  /\ current' = current + 1
  /\ Goto(c, "active")
  /\ UNCHANGED <<pending, expired, addr, todo>>

\* activate without a pending entry: acquire, or the connection is dropped
Acquire(c) ==
  /\ pc[c] = "acquire"
  /\ \/ /\ current < Max
        /\ current' = current + 1
        /\ Goto(c, "active")
     \/ /\ current >= Max
        /\ Goto(c, "idle")
        /\ UNCHANGED current
  /\ UNCHANGED <<pending, expired, addr, todo>>

\* Drop of ActiveConnectionGuard, however process_new ends: PROXY header refused,
\* TLS handshake failed or timed out, or the connection served to its end
DropGuard(c) ==
  /\ pc[c] = "active"
  /\ current' = current - 1
  /\ Goto(c, "idle")
  /\ UNCHANGED <<pending, expired, addr, todo>>

\* time: an entry reaches pending_ttl
Expire(a) ==
  /\ a \in pending \ expired
  /\ expired' = expired \cup {a}
  /\ UNCHANGED <<current, pending, pc, addr, todo>>

-----------------------------------------------------------------------------
Init ==
  /\ current = 0
  /\ pending = {}
  /\ expired = {}
  /\ pc = [c \in Conns |-> "idle"]
  /\ addr \in [Conns -> Addrs]
  /\ todo = [c \in Conns |-> {}]

Step(c) ==
  \/ \E a \in Addrs : EvictEntry(c, a)
  \/ Reserve(c) \/ Insert(c) \/ Undo(c) \/ Abandon(c) \/ ProcessNew(c) \/ Activate(c)
  \/ Acquire(c)

Next ==
  \/ \E c \in Conns : Step(c) \/ DropGuard(c) \/ \E a \in Addrs : ShouldAccept(c, a)
  \/ \E a \in Addrs : Expire(a)

Spec == Init /\ [][Next]_vars

\* Time passes, and a connection's own code runs on: Pingora ends a handshake
\* within 60 seconds. An active connection may stay for ever.
FairSpec ==
  /\ Spec
  /\ \A c \in Conns : WF_vars(Step(c))
  /\ \A a \in Addrs : WF_vars(Expire(a))

-----------------------------------------------------------------------------
In(states) == {c \in Conns : pc[c] \in states}

\* Every variable has its type.
TypeOK ==
  /\ current \in Nat
  /\ pending \subseteq Addrs
  /\ expired \subseteq pending
  /\ pc \in [Conns -> {"idle", "reserve", "insert", "undo", "accepted", "activate",
                       "acquire", "active"}]
  /\ addr \in [Conns -> Addrs]
  /\ todo \in [Conns -> SUBSET Addrs]

\* `current` is the pending entries, the guards, and the slots taken and not yet
\* written down or given back: no slot is lost or counted twice when an eviction,
\* a second connection from the same peer and an activation meet.
Accounting ==
  current = Cardinality(pending) + Cardinality(In({"insert", "undo", "active"}))

\* Never more than Max slots are taken, and never more than Max connections are
\* served at once, though `current` is checked in one step and the pending map
\* changed in another.
Bounded == current <= Max /\ Cardinality(In({"active"})) <= Max

\* If clients keep coming, handshakes that were abandoned do not hold the gate
\* shut: again and again a slot is free, unless all are held by connections
\* that are being served.
GateReopens ==
  ([]<>(\E c \in Conns : pc[c] = "reserve"))
    => []<>(current < Max \/ Cardinality(In({"active"})) = Max)
=============================================================================
