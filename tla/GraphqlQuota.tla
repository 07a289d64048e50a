---------------------------- MODULE GraphqlQuota ----------------------------
(***************************************************************************)
(* consume_quota of graphql.rs: the cost of the queries of a subject or an *)
(* address is booked under its key, and refused once the sum within the    *)
(* window would pass the quota.  The overlays of a site share one book     *)
(* (GraphqlPolicy::overlay), each with its own quota and window.           *)
(*                                                                         *)
(* A stamp of the book is a time and a cost of at least 1; here an entry   *)
(* has one age for each unit of cost, so that a sum of costs is a length.  *)
(*                                                                         *)
(* A query reads the clock and takes the lock of its entry within          *)
(* microseconds, against windows of seconds: time does not pass between.   *)
(***************************************************************************)
EXTENDS Windows, FiniteSetsExt, Functions

CONSTANTS Queries,      \* requests that may be inside consume_quota at the same time
          QuotaKeys,    \* site and subject, or site and address
          Overlays,     \* the policies that share the book
          Quota, QuotaWindow,
          Costs,
          MaxBooked,    \* QUOTA_MAX_KEYS
          BookSweep,    \* SWEEP_EVERY
          QuotaAge      \* ages are not told apart beyond it

QuotaSettings ==
  /\ MaxBooked \in Nat /\ BookSweep \in Nat \ {0} /\ QuotaAge \in Nat
  /\ Costs \subseteq Nat \ {0}
  /\ Overlays # {}
  /\ \A p \in Overlays : Quota[p] \in Nat \ {0} /\ QuotaWindow[p] \in 1..QuotaAge
ASSUME QuotaAssumption == QuotaSettings

VARIABLES book,     \* key -> the stamps of its entry, for the keys it has
          bookings, \* the calls so far, modulo BookSweep
          query,    \* the queries inside consume_quota
          booked    \* history: key -> what was admitted within the shortest window

quotaVars == <<book, bookings, query, booked>>

Shortest == Min({QuotaWindow[p] : p \in Overlays})
NoQuery == [at |-> "idle"]

QuotaInit ==
  /\ book = <<>>
  /\ bookings = 0
  /\ query = [q \in Queries |-> NoQuery]
  /\ booked = [k \in QuotaKeys |-> <<>>]

\* The stamps of a query that costs this much.
Stamps(cost) == [i \in 1..cost |-> 0]

\* mutant: stamps leave the window one tick early
Entered_Short(k, window) == Retain(IF k \in DOMAIN book THEN book[k] ELSE <<>>, window - 1)

\* The entry of a key, once its expired stamps are gone.
Entered(k, window) == Retain(IF k \in DOMAIN book THEN book[k] ELSE <<>>, window)

-----------------------------------------------------------------------------
\* Every BookSweep calls the whole book is held to the window of the caller.
SweptBook(window) ==
  LET kept == [k \in DOMAIN book |-> Retain(book[k], window)]
  IN Restrict(kept, {k \in DOMAIN book : kept[k] # <<>>})

Call(q, k, p, cost) ==
  /\ query[q] = NoQuery
  /\ book' = IF bookings = 0 THEN SweptBook(QuotaWindow[p]) ELSE book
  /\ bookings' = (bookings + 1) % BookSweep
  /\ query' = [query EXCEPT ![q] = [at |-> "room", key |-> k, policy |-> p, cost |-> cost]]
  /\ UNCHANGED booked

\* A new key is refused when the book is full.
Room(q) ==
  /\ query[q].at = "room"
  /\ query' = [query EXCEPT ![q] =
                 IF query[q].key \notin DOMAIN book /\ Cardinality(DOMAIN book) >= MaxBooked
                 THEN NoQuery ELSE [@ EXCEPT !.at = "entry"]]
  /\ UNCHANGED <<book, bookings, booked>>

\* Under the lock of the entry; a refusal leaves the entry, even an empty one.
PutEntry(k, stamps) == book' = [x \in DOMAIN book \cup {k} |-> IF x = k THEN stamps ELSE book[x]]

BookQuery(q) ==
  LET k == query[q].key
      kept == Entered(k, QuotaWindow[query[q].policy])
      added == Stamps(query[q].cost)
  IN  /\ query[q].at = "entry"
      /\ Len(kept) + query[q].cost <= Quota[query[q].policy]
      /\ PutEntry(k, kept \o added)
      /\ booked' = [booked EXCEPT ![k] = @ \o added]
      /\ query' = [query EXCEPT ![q] = NoQuery]
      /\ UNCHANGED bookings

RefuseQuery(q) ==
  LET k == query[q].key
      kept == Entered(k, QuotaWindow[query[q].policy])
  IN  /\ query[q].at = "entry"
      /\ Len(kept) + query[q].cost > Quota[query[q].policy]
      /\ PutEntry(k, kept)
      /\ query' = [query EXCEPT ![q] = NoQuery]
      /\ UNCHANGED <<bookings, booked>>

QuotaTick ==
  /\ \A q \in Queries : query[q] = NoQuery
  /\ book' = [k \in DOMAIN book |-> Aged(book[k], QuotaAge)]
  /\ booked' = [k \in QuotaKeys |-> Retain(Aged(booked[k], QuotaAge), Shortest)]
  /\ UNCHANGED <<bookings, query>>

QuotaNext ==
  \/ QuotaTick
  \/ \E q \in Queries :
       \/ Room(q) \/ BookQuery(q) \/ RefuseQuery(q)
       \/ \E k \in QuotaKeys, p \in Overlays, c \in Costs : Call(q, k, p, c)

QuotaSpec == QuotaInit /\ [][QuotaNext]_quotaVars

-----------------------------------------------------------------------------
\* No admission passes its quota: what was admitted for a key within the
\* shortest window of the policies that share the book, up to and with an
\* admission, is within the quota of that admission's policy, whatever the
\* queries of the other policies sweep or drop meanwhile.  (Within its own
\* window it may not be: a policy with a shorter window drops the stamps that
\* a longer one still counts, graphql.rs:296 and graphql.rs:305.)
QuotaHeld ==
  [][\A q \in Queries : BookQuery(q) =>
       Len(booked'[query[q].key]) <= Quota[query[q].policy]]_quotaVars
=============================================================================
