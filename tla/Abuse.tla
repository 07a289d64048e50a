-------------------------------- MODULE Abuse --------------------------------
(***************************************************************************)
(* AbuseEngine (src/src/abuse.rs): quotas for credential stuffing,         *)
(* enumeration, sign-up and password recovery, kept for every dimension    *)
(* of an identity, and the rotation of networks under one fingerprint.     *)
(*                                                                         *)
(* `over` and `hit` of one kind are one step each; between them other      *)
(* requests run. Hits are kept as ages in ticks; an inspection takes less  *)
(* than a tick. Which kind a path and method are (is_stuffing_path and so  *)
(* on), and what the headers say, are inputs.                              *)
(***************************************************************************)
EXTENDS Integers, Sequences, FiniteSets, Windows

CONSTANTS
  Visitors,
  Sites, Networks, Fingerprints,
  Sessions,        \* session and subject hashes, a dimension each
  Identities, Inputs,   \* of the requests: subsets of Identity and Input
  WindowOf,        \* AbusePolicy::window of every site, in ticks
  MaxOf,           \* stuffing_max, enumeration_max, signup_max, recover_max
  Challenge,       \* AbusePolicy::challenge: none, pow or external
  ChallengeScore,  \* challenge_score
  RotateNetworks,  \* IP_ROTATE_NETWORKS
  MaxNetworks,     \* how many networks note_rotation keeps of a fingerprint
  MaxKeys,         \* MAX_KEYS
  SweepEvery       \* SWEEP_EVERY

Kinds == {"stuffing", "enumeration", "signup", "recover"}
\* inspect reads the quotas in this order
ReadAt == [stuffing |-> 1, enumeration |-> 2, signup |-> 3, recover |-> 4]

VARIABLES
  counters,     \* ages of the hits of every QuotaKey <<site, kind, dimension>> that has an entry
  rotations,    \* networks seen with every RotateKey <<site, fingerprint>> that has an entry
  inspections,  \* calls of inspect, modulo SweepEvery
  inspected,    \* where each request is
  noted         \* history: ages of the hits of every QuotaKey since the map was last cleared

abuseVars == <<counters, rotations, inspections, inspected, noted>>

Dim == Fingerprints \cup Sessions \cup Networks
QuotaKey == Sites \X Kinds \X Dim
MaxWindow == CHOOSE w \in {WindowOf[s] : s \in Sites} : \A s \in Sites : WindowOf[s] <= w

\* fingerprint is preferred_fingerprint; session stands for session and subject
Identity == [site : Sites, network : Networks, fingerprint : Fingerprints \cup {"none"},
             session : Sessions \cup {"none"}]
\* the path's kind, a weak user agent, and whether the client takes an HTML page
\* (Accept names it, no JWT, no JSON)
Input == [path : Kinds \cup {"other"}, weak : BOOLEAN, html : BOOLEAN]
AbuseSettings ==
  /\ Identities \subseteq Identity /\ Inputs \subseteq Input
  /\ WindowOf \in [Sites -> Nat \ {0}]
  /\ MaxOf \in [Kinds -> Nat \ {0}]
  /\ Challenge \in {"none", "pow", "external"}
  /\ {ChallengeScore, RotateNetworks, MaxNetworks, MaxKeys, SweepEvery} \subseteq Nat
ASSUME AbuseAssumption == AbuseSettings

NotInspected == [at |-> "idle"]

IdentityDims(id) == {id.fingerprint, id.session, id.network} \ {"none"}
KeysFor(id, kind) == {<<id.site, kind, d>> : d \in IdentityDims(id)}
InspectionAt(r, where) == inspected[r].at = where

Points(reason) == CASE reason = "stuffing" -> 40 [] reason = "enumeration" -> 30
                    [] reason \in {"signup", "recover"} -> 25
                    [] reason = "ua_weak" -> 5 [] reason = "ip_rotate" -> 15
ScoreOf(reasons) ==
  LET Worth(reason) == IF reason \in reasons THEN Points(reason) ELSE 0
  IN  Worth("stuffing") + Worth("enumeration") + Worth("signup") + Worth("recover")
        + Worth("ua_weak") + Worth("ip_rotate")

OverIn(m, id, kind) ==
  \E k \in KeysFor(id, kind) \cap DOMAIN m : Len(Retain(m[k], WindowOf[id.site])) >= MaxOf[kind]
Add(m, keys) ==
  [k \in DOMAIN m \cup keys |-> IF k \notin keys THEN m[k]
                                ELSE Append(IF k \in DOMAIN m THEN m[k] ELSE <<>>, 0)]

-----------------------------------------------------------------------------
\* mutant: the sweep goes by a window one tick too short
Swept_Short(m, window) ==
  LET kept == {k \in DOMAIN m : Retain(m[k], window - 1) # <<>>}
  IN  [k \in kept |-> Retain(m[k], window - 1)]

\* maybe_sweep: every hit older than the window of the site that is asking goes,
\* whatever site it belongs to
Swept(m, window) ==
  LET kept == {k \in DOMAIN m : Retain(m[k], window) # <<>>}
  IN  [k \in kept |-> Retain(m[k], window)]

\* note_rotation
Noted(networks, network) ==
  IF Cardinality(networks) < MaxNetworks THEN networks \cup {network} ELSE networks

\* inspect: sweep and note_rotation
Inspect(r, id, input) ==
  LET swept == IF inspections = 0 THEN Swept(counters, WindowOf[id.site]) ELSE counters
      kept == IF inspections = 0 /\ Cardinality(DOMAIN rotations) > MaxKeys THEN << >> ELSE rotations
      cleared == inspections = 0 /\ Cardinality(DOMAIN swept) > MaxKeys
      charged == IF cleared THEN << >> ELSE noted
      key == <<id.site, id.fingerprint>>
  IN  /\ InspectionAt(r, "idle")
      /\ inspections' = (inspections + 1) % SweepEvery
      /\ counters' = IF cleared THEN << >> ELSE swept
      /\ rotations' = IF id.fingerprint = "none" THEN kept
                      ELSE [k \in DOMAIN kept \cup {key} |->
                              IF k # key THEN kept[k]
                              ELSE Noted(IF key \in DOMAIN kept THEN kept[key] ELSE {}, id.network)]
      /\ inspected' = [q \in Visitors |->
           IF q = r THEN [at |-> "over", id |-> id, input |-> input, next |-> 1,
                          reasons |-> {}, due |-> {k \in Kinds : OverIn(charged, id, k)}]
           ELSE IF cleared /\ ~InspectionAt(q, "idle") THEN [inspected[q] EXCEPT !.due = {}] ELSE inspected[q]]
      /\ noted' = charged

\* the quota that is read next, if any is left
Onward(n) == IF \E kind \in Kinds : ReadAt[kind] = n THEN "over" ELSE "judge"

\* one read; that of a sign-up or a recovery, where the quota is not used up, is
\* followed by a hit of its own
Over(r) ==
  /\ InspectionAt(r, "over")
  /\ \E kind \in Kinds :
       LET over == OverIn(counters, inspected[r].id, kind)
           counts == ~over /\ kind \in {"signup", "recover"} /\ inspected[r].input.path = kind
       IN  /\ ReadAt[kind] = inspected[r].next
           /\ inspected' = [inspected EXCEPT
                 ![r].at = IF counts THEN "hit" ELSE Onward(inspected[r].next + 1),
                 ![r].next = @ + 1,
                 ![r].reasons = IF over THEN @ \cup {kind} ELSE @]
  /\ UNCHANGED <<counters, rotations, inspections, noted>>

\* the attempt of a sign-up or recovery is counted before it is let through
Hit(r) ==
  /\ InspectionAt(r, "hit")
  /\ LET keys == KeysFor(inspected[r].id, inspected[r].input.path)
     IN  counters' = Add(counters, keys) /\ noted' = Add(noted, keys)
  /\ inspected' = [inspected EXCEPT ![r].at = Onward(inspected[r].next)]
  /\ UNCHANGED <<rotations, inspections>>

Rotated(id) ==
  /\ <<id.site, id.fingerprint>> \in DOMAIN rotations
  /\ Cardinality(rotations[<<id.site, id.fingerprint>>]) >= RotateNetworks

AllReasons(r) ==
  inspected[r].reasons \cup (IF inspected[r].input.weak THEN {"ua_weak"} ELSE {})
                 \cup (IF Rotated(inspected[r].id) THEN {"ip_rotate"} ELSE {})

\* the quota of the path's own kind blocks; a high score alone only sends an HTML
\* client to the challenge, and only where there is one
Refuses(r) ==
  LET overScore == ScoreOf(AllReasons(r)) >= ChallengeScore /\ ChallengeScore > 0
  IN  \/ inspected[r].input.path \in AllReasons(r)
      \/ overScore /\ inspected[r].input.html /\ Challenge # "none"

\* the verdict
Judge(r) ==
  /\ InspectionAt(r, "judge")
  /\ inspected' = [inspected EXCEPT ![r] = IF Refuses(r) THEN NotInspected
                               ELSE [@ EXCEPT !.at = "allowed", !.reasons = AllReasons(r)]]
  /\ UNCHANGED <<counters, rotations, inspections, noted>>

\* record_origin_status: a 401 on a login path, a 404 on an account path
RecordOriginStatus(r, status) ==
  /\ InspectionAt(r, "allowed")
  /\ LET path == inspected[r].input.path
         counted == (status = 401 /\ path = "stuffing") \/ (status = 404 /\ path = "enumeration")
         keys == IF counted THEN KeysFor(inspected[r].id, path) ELSE {}
     IN  counters' = Add(counters, keys) /\ noted' = Add(noted, keys)
  /\ inspected' = [inspected EXCEPT ![r] = NotInspected]
  /\ UNCHANGED <<rotations, inspections>>

\* the clock
AbuseTick ==
  /\ \A r \in Visitors : InspectionAt(r, "idle") \/ InspectionAt(r, "allowed")
  /\ counters' = [k \in DOMAIN counters |-> Aged(counters[k], MaxWindow)]
  /\ noted' = LET older == [k \in DOMAIN noted |-> Retain(Aged(noted[k], MaxWindow), WindowOf[k[1]])]
              IN  [k \in {x \in DOMAIN noted : older[x] # <<>>} |-> older[k]]
  /\ UNCHANGED <<rotations, inspections, inspected>>

AbuseInit ==
  /\ counters = << >>
  /\ rotations = << >>
  /\ inspections = 0
  /\ inspected = [r \in Visitors |-> NotInspected]
  /\ noted = << >>

InspectStep(r) ==
  \/ Over(r) \/ Hit(r) \/ Judge(r)
  \/ \E status \in {200, 401, 404} : RecordOriginStatus(r, status)
AbuseNext ==
  \/ AbuseTick
  \/ \E r \in Visitors : \/ InspectStep(r)
                        \/ \E id \in Identities, input \in Inputs : Inspect(r, id, input)
AbuseSpec == AbuseInit /\ [][AbuseNext]_abuseVars

-----------------------------------------------------------------------------
\* README.md:86: the same fingerprint across different IPs shares the cap. A request
\* is let through to a guarded path only if none of its dimensions had used up the
\* site's quota, within the site's window, when its inspection began; of the hits
\* only those are lost that a map beyond MAX_KEYS was cleared of.
SharedCap ==
  \A r \in Visitors :
    InspectionAt(r, "allowed") => inspected[r].input.path \notin inspected[r].due
=============================================================================
