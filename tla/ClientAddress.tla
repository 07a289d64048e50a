--------------------------- MODULE ClientAddress ---------------------------
(***************************************************************************)
(* Who the client is: process_new of connection.rs with the PROXY v2       *)
(* header of proxy_protocol.rs, and TrustedProxies::resolve_sources of     *)
(* client_ip.rs over the request's headers.  Every limit, score and audit  *)
(* entry of the gateway hangs on the address this comes to.                *)
(*                                                                         *)
(* A header is a sequence of entries, each an address or "bad" (unknown,   *)
(* obfuscated, or not an address); a header that is absent is empty, which *)
(* the code treats alike.                                                  *)
(***************************************************************************)
EXTENDS Integers, Sequences

CONSTANTS Addresses,    \* addresses a connection or an entry may have
          Trusted,      \* those in TRUSTED_PROXIES
          Orders,       \* CLIENT_IP_ORDER: sequences of sources, among them x-forwarded-for
          MaxHops       \* entries of a header

Sources == {"proxy_protocol", "x-forwarded-for", "forwarded", "header"}

AddressSettings ==
  /\ Trusted \subseteq Addresses
  /\ "bad" \notin Addresses
  /\ MaxHops \in Nat
  /\ Orders \subseteq Seq(Sources)
  /\ \A o \in Orders : \E k \in 1..Len(o) : o[k] = "x-forwarded-for"
ASSUME AddressAssumption == AddressSettings

Entries == Addresses \cup {"bad"}
Headers == UNION {[1..n -> Entries] : n \in 0..MaxHops}

VARIABLES
  phase,     \* "accepted", "resolving", "done", "refused"
  proxied,   \* PROXY_PROTOCOL
  accept,    \* FORWARDED_HEADER=accept
  order,     \* sources still to be consulted
  hops,      \* entries of the source being walked that are left
  xff, forwarded, extra,   \* the request's headers
  peer,      \* SocketDigest's peer address
  current    \* the client's address so far

addressVars == <<phase, proxied, accept, order, hops, xff, forwarded, extra, peer, current>>

AddressInit ==
  /\ phase = "accepted"
  /\ proxied \in BOOLEAN
  /\ accept \in BOOLEAN
  /\ order \in Orders
  /\ xff \in Headers /\ forwarded \in Headers
  /\ extra \in [1..1 -> Entries] \cup {<<>>}
  /\ peer \in Addresses
  /\ hops = <<>>
  /\ current = peer

contains(ip) == ip \in Trusted

-----------------------------------------------------------------------------
(* process_new: PROXY v2 before TLS and before the first request. *)

\* consume_v2 and parse_v2: a source address (INET, INET6), none (LOCAL,
\* UNSPEC, UNIX), or an error, the deadline of five seconds included.
ProxyHeader(result) ==
  /\ phase = "accepted" /\ proxied
  /\ \/ /\ result = "error"
        /\ phase' = "refused"
        /\ UNCHANGED <<peer, current>>
     \/ /\ result = "local"
        /\ phase' = "resolving"
        /\ UNCHANGED <<peer, current>>
     \/ /\ result \in Addresses
        /\ phase' = "resolving"
        /\ peer' = result
        /\ current' = result
  /\ UNCHANGED <<proxied, accept, order, hops, xff, forwarded, extra>>

NoProxyHeader ==
  /\ phase = "accepted" /\ ~proxied
  /\ phase' = "resolving"
  /\ UNCHANGED <<proxied, accept, order, hops, xff, forwarded, extra, peer, current>>

-----------------------------------------------------------------------------
(* resolve_sources, one turn of its loops at a time. *)

\* walk_xff and walk_forwarded start only from a trusted address.
Walkable(source) == CASE source = "x-forwarded-for" -> xff
                      [] source = "forwarded" -> IF accept THEN forwarded ELSE <<>>
                      [] OTHER -> <<>>

Consult == /\ phase = "resolving" /\ hops = <<>> /\ order # <<>>
           /\ order' = Tail(order)
           /\ Head(order) # "header"
           /\ hops' = IF contains(current) THEN Walkable(Head(order)) ELSE <<>>
           /\ UNCHANGED <<phase, proxied, accept, xff, forwarded, extra, peer, current>>

\* The rightmost entry left: the one `current` itself wrote.
\* mutant: an entry is taken whoever reported it
Takes_Any(entry) == entry # "bad"
Takes(entry) == contains(current) /\ entry # "bad"

Walk == /\ phase = "resolving" /\ hops # <<>>
        /\ LET entry == hops[Len(hops)]
           IN IF Takes(entry)
                THEN /\ current' = entry
                     /\ hops' = SubSeq(hops, 1, Len(hops) - 1)
                ELSE /\ hops' = <<>>
                     /\ UNCHANGED current
        /\ UNCHANGED <<phase, proxied, accept, order, xff, forwarded, extra, peer>>

\* ClientIpSource::Header, a single address.
UsesHeader == contains(current) /\ extra # <<>> /\ extra[1] # "bad"

ConsultHeader ==
  /\ phase = "resolving" /\ hops = <<>> /\ order # <<>>
  /\ Head(order) = "header"
  /\ order' = Tail(order)
  /\ current' = IF UsesHeader THEN extra[1] ELSE current
  /\ UNCHANGED <<phase, proxied, accept, hops, xff, forwarded, extra, peer>>

Resolved == /\ phase = "resolving" /\ hops = <<>> /\ order = <<>>
            /\ phase' = "done"
            /\ UNCHANGED <<proxied, accept, order, hops, xff, forwarded, extra, peer, current>>

AddressNext ==
  \/ \E result \in Addresses \cup {"local", "error"} : ProxyHeader(result)
  \/ NoProxyHeader
  \/ Consult
  \/ Walk
  \/ ConsultHeader
  \/ Resolved

AddressSpec == AddressInit /\ [][AddressNext]_addressVars

-----------------------------------------------------------------------------
(* Properties. *)

\* The hops of a request whose only walked header is X-Forwarded-For, nearest
\* first: the peer, then the entries from right to left.
Hop(k) == IF k = 0 THEN peer ELSE xff[Len(xff) + 1 - k]

\* The reference definition of the address a chain of proxies reports: the
\* nearest hop that is not a trusted proxy, or the last one that can be read.
Nearest(k) == /\ \A j \in 0..(k - 1) : Hop(j) \in Trusted
              /\ \A j \in 0..k : Hop(j) # "bad"
              /\ \/ Hop(k) \notin Trusted
                 \/ k = Len(xff)
                 \/ Hop(k + 1) = "bad"

\* While sources other than X-Forwarded-For have not moved it, the address the
\* gateway acts on is that of the nearest untrusted hop: nothing a client
\* writes to the left of the entry its proxy added changes who it is taken for.
NearestUntrusted ==
  phase = "done" /\ ~accept /\ extra = <<>> =>
    \E k \in 0..Len(xff) : Nearest(k) /\ current = Hop(k)
=============================================================================
