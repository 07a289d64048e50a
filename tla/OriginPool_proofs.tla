-------------------------- MODULE OriginPool_proofs --------------------------
(***************************************************************************)
(* Theorems about OriginPool for any number of origins, any set of         *)
(* requests, any retry configuration and any failure threshold.            *)
(***************************************************************************)
EXTENDS OriginPool, TLAPS

\* The round robin and the health thread's turn stay inside the origin list.
LEMMA NextTargetType == \A o \in Origins : NextTarget(o) \in Origins
  BY NAssumption DEF NextTarget, Origins

\* A site has a first origin, where every loop over the origins starts.
LEMMA ZeroOrigin == 0 \in Origins
  BY NAssumption DEF Origins

\* The placeholder kind of an absent request is a kind.
LEMMA AnyKindType == AnyKind \in Kind
  BY KindsAssumption DEF AnyKind

\* The breaker's operations yield breakers.
LEMMA BreakerType ==
  /\ NewBreaker \in Breaker
  /\ \A c \in Breaker : /\ OnSuccess(c) \in Breaker
                        /\ OnFailure(c) \in Breaker
                        /\ AfterCanSend(c) \in Breaker
                        /\ c.opened = "fresh" => [c EXCEPT !.opened = "elapsed"] \in Breaker
<1>1. NewBreaker \in Breaker
  BY FailuresAssumption DEF NewBreaker, Breaker, Opened
<1>2. ASSUME NEW c \in Breaker PROVE OnFailure(c) \in Breaker
  BY FailuresAssumption DEF OnFailure, Breaker, Opened
<1>3. ASSUME NEW c \in Breaker PROVE AfterCanSend(c) \in Breaker
  BY DEF AfterCanSend, Breaker, Opened
<1>4. ASSUME NEW c \in Breaker PROVE [c EXCEPT !.opened = "elapsed"] \in Breaker
  BY DEF Breaker, Opened
<1> QED BY <1>1, <1>2, <1>3, <1>4 DEF OnSuccess

\* The pool starts well typed.
LEMMA InitType == Init => TypeOK
  BY NAssumption, ZeroOrigin, AnyKindType, BreakerType DEF Init, TypeOK, Pc

\* Recording an outcome keeps the circuits and their history well typed.
LEMMA SetCircuitType ==
  ASSUME TypeOK, NEW o \in Origins, NEW c \in Breaker, SetCircuit(o, c)
  PROVE  circuits' \in [Origins -> Breaker] /\ passed' \in [Origins -> Nat]
  BY DEF SetCircuit, TypeOK

\* Moving on to the next origin of a pick keeps the locals of the loop well typed.
LEMMA SkipType ==
  ASSUME TypeOK, NEW r \in Requests, Skip(r)
  PROVE  /\ pc' \in [Requests -> Pc]
         /\ left' \in [Requests -> 1 .. N]
         /\ cand' \in [Requests -> Origins]
<1>1. (IF left[r] = 1 THEN N ELSE left[r] - 1) \in 1 .. N
  BY NAssumption DEF TypeOK
<1>2. left' \in [Requests -> 1 .. N]
  BY <1>1 DEF Skip, TypeOK
<1>3. cand' \in [Requests -> Origins]
  BY NextTargetType DEF Skip, TypeOK
<1> QED BY <1>2, <1>3 DEF Skip, TypeOK, Pc

\* Selecting an origin keeps what was tried and attempted well typed.
LEMMA SelectedType ==
  ASSUME TypeOK, NEW r \in Requests, Selected(r)
  PROVE  /\ pc' \in [Requests -> Pc]
         /\ left' \in [Requests -> 1 .. N]
         /\ tried' \in [Requests -> Seq(Origins)]
         /\ attempts' \in [Requests -> Seq(Origins)]
<1>1. Append(tried[r], cand[r]) \in Seq(Origins) /\ Append(attempts[r], cand[r]) \in Seq(Origins)
  BY DEF TypeOK
<1> QED BY <1>1, NAssumption DEF Selected, TypeOK, Pc

\* Every step of a request, of the health thread and of time keeps the types.
LEMMA NextType == TypeOK /\ [Next]_vars => TypeOK'
<1> SUFFICES ASSUME TypeOK, [Next]_vars PROVE TypeOK'
  OBVIOUS
<1> USE NAssumption, ZeroOrigin, AnyKindType, NextTargetType DEF TypeOK, Pc
<1>1. CASE Health
  <2>1. CASE HealthProbe
    BY <2>1 DEF HealthProbe, reqVars
  <2>2. CASE HealthRemoveDown
    BY <2>2 DEF HealthRemoveDown, reqVars
  <2>3. CASE HealthCloseCircuit
    BY <2>3, BreakerType DEF HealthCloseCircuit, SetCircuit, reqVars
  <2>4. CASE HealthInsertDown
    BY <2>4 DEF HealthInsertDown, reqVars
  <2> QED BY <1>1, <2>1, <2>2, <2>3, <2>4 DEF Health
<1>2. CASE \E o \in Origins : Elapse(o)
  <2> PICK o \in Origins : Elapse(o)
    BY <1>2
  <2> [circuits[o] EXCEPT !.opened = "elapsed"] \in Breaker
    BY BreakerType DEF Elapse
  <2> QED BY DEF Elapse, reqVars
<1>3. ASSUME NEW r \in Requests, Request(r) \/ AttemptFails(r) \/ \E k \in Kinds : Arrive(r, k)
      PROVE TypeOK'
  <2>1. CASE \E k \in Kinds : Arrive(r, k)
    BY <2>1, KindsAssumption DEF Arrive
  <2>2. CASE Shed(r)
    <3>1. pc' \in [Requests -> Pc]
      BY <2>2 DEF Shed
    <3>2. pc'[r] = "shed" => left[r] - 1 \in 1 .. N
      BY <2>2 DEF Shed
    <3>3. left' \in [Requests -> 1 .. N]
      BY <2>2, <3>2 DEF Shed
    <3>4. cand' \in [Requests -> Origins]
      BY <2>2 DEF Shed
    <3> QED BY <2>2, <3>1, <3>3, <3>4 DEF Shed
  <2>3. CASE Pick(r)
    BY <2>3 DEF Pick
  <2>4. CASE Scan(r)
    <3>1. CASE Skip(r)
      BY <2>4, <3>1, SkipType DEF Scan
    <3>2. CASE pc' = [pc EXCEPT ![r] = "cansend"] /\ UNCHANGED <<left, cand>>
      BY <2>4, <3>2 DEF Scan
    <3> QED BY <2>4, <3>1, <3>2 DEF Scan
  <2>5. CASE CanSendStep(r)
    <3> DEFINE o == cand[r]
    <3>1. o \in Origins /\ AfterCanSend(circuits[o]) \in Breaker
      BY BreakerType
    <3>2. CASE /\ IsBalanced
               /\ ~CanSend(circuits[o])
               /\ Skip(r)
               /\ UNCHANGED <<circuits, passed, tried, attempts>>
      BY <2>5, <3>2, SkipType DEF CanSendStep
    <3>3. CASE Selected(r) /\ UNCHANGED <<circuits, passed, cand>>
      BY <2>5, <3>3, SelectedType DEF CanSendStep
    <3>4. CASE /\ circuits' = [circuits EXCEPT ![o] = AfterCanSend(@)]
               /\ passed' = [passed EXCEPT ![o] = IF circuits[o].opened = "none" THEN 0 ELSE @ + 1]
               /\ Selected(r)
               /\ UNCHANGED cand
      <4>1. circuits' \in [Origins -> Breaker] /\ passed' \in [Origins -> Nat]
        BY <3>1, <3>4
      <4> QED BY <2>5, <3>4, <4>1, SelectedType DEF CanSendStep
    <3> QED BY <2>5, <3>2, <3>3, <3>4 DEF CanSendStep
  <2>6. CASE RespondSuccess(r)
    <3>1. circuits' \in [Origins -> Breaker] /\ passed' \in [Origins -> Nat]
      <4>1. CASE SetCircuit(cand[r], OnSuccess(circuits[cand[r]]))
        BY <4>1, SetCircuitType, BreakerType
      <4>2. CASE UNCHANGED <<circuits, passed>>
        BY <4>2
      <4> QED BY <2>6, <4>1, <4>2 DEF RespondSuccess
    <3> QED BY <2>6, <3>1 DEF RespondSuccess
  <2>13. CASE RespondError(r) \/ RespondCommitted(r)
    BY <2>13 DEF RespondError, RespondCommitted
  <2>7. CASE Decorate(r)
    BY <2>7 DEF Decorate
  <2>8. CASE FailOpenCircuit(r)
    <3>1. circuits' \in [Origins -> Breaker] /\ passed' \in [Origins -> Nat]
      <4>1. CASE SetCircuit(cand[r], OnFailure(circuits[cand[r]]))
        BY <4>1, SetCircuitType, BreakerType
      <4>2. CASE UNCHANGED <<circuits, passed>>
        BY <4>2
      <4> QED BY <2>8, <4>1, <4>2 DEF FailOpenCircuit
    <3> QED BY <2>8, <3>1 DEF FailOpenCircuit
  <2>9. CASE FailInsertDown(r)
    <3>1. down' \subseteq Origins
      BY <2>9 DEF FailInsertDown
    <3>2. pc' \in [Requests -> Pc]
      BY <2>9 DEF FailInsertDown
    <3>3. retries' \in [Requests -> Nat]
      <4>1. retries' = retries \/ retries' = [retries EXCEPT ![r] = retries[r] + 1]
        BY <2>9 DEF FailInsertDown
      <4>2. retries[r] + 1 \in Nat
        OBVIOUS
      <4> HIDE DEF TypeOK
      <4> QED BY <4>1, <4>2 DEF TypeOK
    <3> QED BY <2>9, <3>1, <3>2, <3>3 DEF FailInsertDown
  <2>10. CASE Finish(r)
    BY <2>10 DEF Finish
  <2>11. CASE Leave(r)
    BY <2>11 DEF Leave
  <2>12. CASE AttemptFails(r)
    BY <2>12 DEF AttemptFails
  <2> QED BY <1>3, <2>1, <2>2, <2>3, <2>4, <2>5, <2>6, <2>7, <2>8, <2>9, <2>10,
             <2>11, <2>12, <2>13 DEF Request
<1>4. CASE UNCHANGED vars
  BY <1>4 DEF vars, reqVars
<1> QED BY <1>1, <1>2, <1>3, <1>4 DEF Next

\* TypeOK holds in every reachable state.
THEOREM TypeCorrect == Spec => []TypeOK
  BY InitType, NextType, PTL DEF Spec

-----------------------------------------------------------------------------
(* The two maps. OpenIsDown is inductive by itself: a writer that opens a    *)
(* circuit still owes the `down` entry, and the one that removes the entry   *)
(* still owes the closing.                                                   *)

NoPool == ~IsBalanced => \A o \in Origins : circuits[o].opened = "none"

\* A site with one origin has no pool: nothing ever touches a circuit.
LEMMA NextNoPool == NoPool /\ [Next]_vars => NoPool'
<1> SUFFICES ASSUME NoPool, [Next]_vars, ~IsBalanced
             PROVE  \A o \in Origins : circuits'[o].opened = "none"
  BY DEF NoPool, IsBalanced
<1>1. circuits' = circuits
  BY DEF Next, vars, reqVars, Health, Elapse, NoPool, Request, Arrive, Shed, Pick, Scan,
         CanSendStep, RespondSuccess, RespondError, RespondCommitted, Decorate,
         FailOpenCircuit, FailInsertDown, Finish, Leave, AttemptFails
<1> QED BY <1>1 DEF NoPool

\* No step of either writer, and no step of anybody else, sets the maps apart.
LEMMA NextOpenIsDown == TypeOK /\ NoPool /\ OpenIsDown /\ [Next]_vars => OpenIsDown'
<1> SUFFICES ASSUME TypeOK, NoPool, OpenIsDown, [Next]_vars,
                    NEW o \in Origins, circuits'[o].opened # "none", o \notin down'
             PROVE  RecordingFailure(o)' \/ ClosingCircuit(o)'
  BY DEF OpenIsDown
<1>0. circuits[o].opened # "none" /\ o \notin down => RecordingFailure(o) \/ ClosingCircuit(o)
  BY DEF OpenIsDown
<1>1. CASE Health
  <2>1. CASE HealthProbe \/ HealthInsertDown
    BY <1>0, <2>1 DEF HealthProbe, HealthInsertDown, reqVars, RecordingFailure, ClosingCircuit
  <2>2. CASE HealthRemoveDown
    BY <1>0, <2>2 DEF HealthRemoveDown, reqVars, RecordingFailure, ClosingCircuit, TypeOK
  <2>3. CASE HealthCloseCircuit
    <3>1. circuits' = [circuits EXCEPT ![health.target] = NewBreaker] /\ health.target \in Origins
      BY <2>3 DEF HealthCloseCircuit, SetCircuit, OnSuccess, TypeOK
    <3>2. o # health.target /\ circuits'[o] = circuits[o]
      BY <3>1 DEF NewBreaker, TypeOK
    <3>3. RecordingFailure(o)
      BY <1>0, <2>3, <3>2 DEF HealthCloseCircuit, ClosingCircuit
    <3> QED BY <2>3, <3>3 DEF HealthCloseCircuit, reqVars, RecordingFailure
  <2> QED BY <1>1, <2>1, <2>2, <2>3 DEF Health
<1>2. CASE \E p \in Origins : Elapse(p)
  <2>1. circuits[o].opened # "none"
    BY <1>2 DEF Elapse, TypeOK, Breaker
  <2> QED BY <1>0, <1>2, <2>1 DEF Elapse, reqVars, RecordingFailure, ClosingCircuit
<1>3. ASSUME NEW r \in Requests, Request(r) \/ AttemptFails(r) \/ \E k \in Kinds : Arrive(r, k)
      PROVE RecordingFailure(o)' \/ ClosingCircuit(o)'
  <2>0. cand[r] \in Origins
    BY DEF TypeOK
  <2>1. CASE FailOpenCircuit(r)
    <3>1. CASE cand[r] = o
      BY <2>1, <3>1 DEF FailOpenCircuit, RecordingFailure, TypeOK
    <3>2. CASE cand[r] # o
      <4>1. circuits'[o] = circuits[o]
        BY <2>0, <2>1, <3>2 DEF FailOpenCircuit, SetCircuit, TypeOK
      <4> QED BY <1>0, <2>1, <4>1 DEF FailOpenCircuit, RecordingFailure, ClosingCircuit, TypeOK
    <3> QED BY <3>1, <3>2
  <2>2. CASE FailInsertDown(r)
    <3>1. CASE IsBalanced
      BY <1>0, <2>2, <3>1 DEF FailInsertDown, RecordingFailure, ClosingCircuit, TypeOK
    <3>2. CASE ~IsBalanced
      BY <2>2, <3>2 DEF FailInsertDown, NoPool
    <3> QED BY <3>1, <3>2
  <2>3. CASE /\ circuits'[o].opened # "none" => circuits[o].opened # "none"
             /\ UNCHANGED <<down, health>>
             /\ pc[r] # "fail_down"
             /\ \A q \in Requests \ {r} : pc'[q] = pc[q] /\ cand'[q] = cand[q]
    BY <1>0, <2>3 DEF RecordingFailure, ClosingCircuit
  <2>4. CASE CanSendStep(r)
    <3>1. circuits'[o].opened # "none" => circuits[o].opened # "none"
      BY <2>0, <2>4 DEF CanSendStep, AfterCanSend, TypeOK, Breaker
    <3> QED BY <2>3, <2>4, <3>1 DEF CanSendStep, Skip, Selected, TypeOK
  <2>5. CASE RespondSuccess(r)
    <3>1. circuits'[o].opened # "none" => circuits[o].opened # "none"
      <4>1. circuits' = circuits \/ circuits' = [circuits EXCEPT ![cand[r]] = NewBreaker]
        BY <2>5 DEF RespondSuccess, SetCircuit, OnSuccess
      <4>2. circuits'[o] = circuits[o] \/ circuits'[o] = NewBreaker
        BY <2>0, <4>1 DEF TypeOK
      <4> QED BY <4>2 DEF NewBreaker
    <3> QED BY <2>3, <2>5, <3>1 DEF RespondSuccess, TypeOK
  <2>6. CASE \/ \E k \in Kinds : Arrive(r, k)
             \/ Shed(r) \/ Pick(r) \/ Scan(r) \/ RespondError(r) \/ RespondCommitted(r)
             \/ Decorate(r) \/ Finish(r) \/ Leave(r) \/ AttemptFails(r)
    <3>1. UNCHANGED <<circuits, down, health>> /\ pc[r] # "fail_down"
      BY <2>6 DEF Arrive, Shed, Pick, Scan, RespondError, RespondCommitted, Decorate, Finish,
                  Leave, AttemptFails
    <3>2. \A q \in Requests \ {r} : pc'[q] = pc[q] /\ cand'[q] = cand[q]
      BY <2>6 DEF Arrive, Shed, Pick, Scan, Skip, RespondError, RespondCommitted, Decorate,
                  Finish, Leave, AttemptFails, TypeOK
    <3> QED BY <2>3, <3>1, <3>2
  <2> QED BY <1>3, <2>1, <2>2, <2>4, <2>5, <2>6 DEF Request
<1>4. CASE UNCHANGED vars
  BY <1>0, <1>4 DEF vars, reqVars, RecordingFailure, ClosingCircuit
<1> QED BY <1>1, <1>2, <1>3, <1>4 DEF Next

\* Outside the two half-done updates an origin whose circuit is open is in
\* `down`: record_failure and TrackingHealth::check keep the two maps together
\* however they interleave, for any number of requests and origins.
THEOREM OpenOriginsAreDown == Spec => []OpenIsDown
<1>1. Init => OpenIsDown
  BY DEF Init, OpenIsDown, NewBreaker
<1>2. Init => NoPool
  BY DEF Init, NoPool, NewBreaker
<1> QED BY <1>1, <1>2, NextOpenIsDown, NextNoPool, TypeCorrect, PTL DEF Spec

-----------------------------------------------------------------------------
(* The half-open probe. `probing` is only ever set on an elapsed circuit, and *)
(* it counts exactly the requests let through since the last outcome.        *)

ProbeInv ==
  \A o \in Origins :
    /\ circuits[o].probing => circuits[o].opened = "elapsed"
    /\ circuits[o].opened # "none" /\ ~circuits[o].probing => passed[o] = 0
    /\ circuits[o].probing => passed[o] = 1

\* recording an outcome, of anyone, leaves nobody counted and nobody probing
LEMMA SetCircuitProbe ==
  ASSUME TypeOK, ProbeInv, NEW o \in Origins, NEW c \in Breaker, ~c.probing, SetCircuit(o, c)
  PROVE  ProbeInv'
  BY DEF SetCircuit, ProbeInv, TypeOK, Breaker

\* No step lets a second request through a half-open circuit.
LEMMA NextProbe == TypeOK /\ ProbeInv /\ [Next]_vars => ProbeInv'
<1> SUFFICES ASSUME TypeOK, ProbeInv, [Next]_vars PROVE ProbeInv'
  OBVIOUS
<1>0. ASSUME UNCHANGED <<circuits, passed>> PROVE ProbeInv'
  BY <1>0 DEF ProbeInv
<1>1. CASE Health
  <2>1. CASE HealthCloseCircuit
    <3>1. health.target \in Origins /\ OnSuccess(circuits[health.target]) \in Breaker
      BY BreakerType DEF TypeOK
    <3>2. ~OnSuccess(circuits[health.target]).probing
      BY DEF OnSuccess, NewBreaker
    <3> QED BY <2>1, <3>1, <3>2, SetCircuitProbe DEF HealthCloseCircuit
  <2>2. CASE HealthProbe \/ HealthRemoveDown \/ HealthInsertDown
    BY <1>0, <2>2 DEF HealthProbe, HealthRemoveDown, HealthInsertDown
  <2> QED BY <1>1, <2>1, <2>2 DEF Health
<1>2. CASE \E o \in Origins : Elapse(o)
  BY <1>2 DEF Elapse, ProbeInv, TypeOK, Breaker
<1>3. ASSUME NEW r \in Requests, Request(r) \/ AttemptFails(r) \/ \E k \in Kinds : Arrive(r, k)
      PROVE ProbeInv'
  <2>0. cand[r] \in Origins
    BY DEF TypeOK
  <2>1. CASE CanSendStep(r)
    <3>1. CASE UNCHANGED <<circuits, passed>>
      BY <1>0, <3>1
    <3>2. CASE /\ CanSend(circuits[cand[r]])
               /\ circuits' = [circuits EXCEPT ![cand[r]] = AfterCanSend(@)]
               /\ passed' = [passed EXCEPT ![cand[r]] =
                               IF circuits[cand[r]].opened = "none" THEN 0 ELSE @ + 1]
      BY <2>0, <3>2 DEF ProbeInv, CanSend, AfterCanSend, TypeOK, Breaker
    <3> QED BY <2>1, <3>1, <3>2 DEF CanSendStep
  <2>2. CASE RespondSuccess(r)
    <3>1. OnSuccess(circuits[cand[r]]) \in Breaker /\ ~OnSuccess(circuits[cand[r]]).probing
      BY <2>0, BreakerType DEF TypeOK, OnSuccess, NewBreaker
    <3> QED BY <1>0, <2>0, <2>2, <3>1, SetCircuitProbe DEF RespondSuccess
  <2>3. CASE FailOpenCircuit(r)
    <3>1. OnFailure(circuits[cand[r]]) \in Breaker /\ ~OnFailure(circuits[cand[r]]).probing
      BY <2>0, BreakerType DEF TypeOK, OnFailure
    <3> QED BY <1>0, <2>0, <2>3, <3>1, SetCircuitProbe DEF FailOpenCircuit
  <2>4. CASE \/ \E k \in Kinds : Arrive(r, k)
             \/ Shed(r) \/ Pick(r) \/ Scan(r) \/ RespondError(r) \/ RespondCommitted(r)
             \/ Decorate(r) \/ FailInsertDown(r) \/ Finish(r) \/ Leave(r) \/ AttemptFails(r)
    BY <1>0, <2>4 DEF Arrive, Shed, Pick, Scan, RespondError, RespondCommitted, Decorate,
                      FailInsertDown, Finish, Leave, AttemptFails
  <2> QED BY <1>3, <2>1, <2>2, <2>3, <2>4 DEF Request
<1>4. CASE UNCHANGED vars
  BY <1>0, <1>4 DEF vars
<1> QED BY <1>1, <1>2, <1>3, <1>4 DEF Next

\* At most one request is let through an open circuit between two recorded
\* outcomes: the half-open probe of CircuitBreaker::can_send is alone.
THEOREM OneProbe == Spec => []OneProbePerOpening
<1>1. Init => ProbeInv
  BY DEF Init, ProbeInv, NewBreaker
<1>2. TypeOK /\ ProbeInv => OneProbePerOpening
  <2> SUFFICES ASSUME TypeOK, ProbeInv, NEW o \in Origins, circuits[o].opened # "none"
               PROVE  passed[o] <= 1
    BY DEF OneProbePerOpening
  <2>1. passed[o] = 0 \/ passed[o] = 1
    BY DEF ProbeInv
  <2> QED BY <2>1
<1> QED BY <1>1, <1>2, NextProbe, TypeCorrect, PTL DEF Spec

-----------------------------------------------------------------------------
(* The retry loop. RetryDiscipline says nothing of tried_origins and         *)
(* upstream_retries, which are what the code decides by, so it is not        *)
(* inductive: RetryInv ties the history to both. A request has made one      *)
(* attempt more than its retries once an origin is selected, and as many     *)
(* while it looks for one; what was attempted is what was tried; and the     *)
(* origin between the scan and can_send is one that was not tried.           *)

Seeking == {"pick", "scan", "cansend", "none"}
Sending == {"sent", "decorate", "fail", "fail_down", "body", "answered", "failed"}

\* attempts and retries go together, within the budget
AttemptsCounted(r) ==
  /\ pc[r] \in {"idle", "shed"} => attempts[r] = <<>> /\ retries[r] = 0
  /\ pc[r] \in Seeking => Len(attempts[r]) = retries[r]
  /\ pc[r] \in Sending => Len(attempts[r]) = retries[r] + 1
  /\ retries[r] <= ExtraRetryBudget
  /\ retries[r] > 0 => kind[r].path = "stream" /\ kind[r].idem /\ ~kind[r].truncated

\* the tried origins of a balanced request are those it was sent to
TriedIsAttempted(r) ==
  IsBalanced =>
    /\ attempts[r] # <<>> /\ kind[r].path = "stream" => tried[r] = attempts[r]
    /\ attempts[r] = <<>> => tried[r] = <<>>
    /\ pc[r] = "cansend" => ~IsTried(r, cand[r])
    /\ \A i, j \in 1 .. Len(attempts[r]) : attempts[r][i] = attempts[r][j] => i = j

\* a response that was begun belongs to an attempt that is never made again
WrittenIsLast(r) ==
  written[r] => \/ pc[r] \in {"body", "answered", "failed"}
                \/ pc[r] \in {"fail", "fail_down"} /\ why[r] = "error"

Disciplined(r) == AttemptsCounted(r) /\ TriedIsAttempted(r) /\ WrittenIsLast(r)
RetryInv == \A r \in Requests : Disciplined(r)

\* A step of somebody else leaves a request's retry state as it was.
LEMMA RetryFrame ==
  ASSUME NEW q, Disciplined(q),
         UNCHANGED <<pc[q], kind[q], cand[q], tried[q], retries[q], why[q], written[q], attempts[q]>>
  PROVE  Disciplined(q)'
  BY DEF Disciplined, AttemptsCounted, TriedIsAttempted, WrittenIsLast, IsTried, IsBalanced,
         ExtraRetryBudget, Seeking, Sending

\* The budget is a number whatever MAX_UPSTREAM_RETRIES says.
LEMMA BudgetType == ExtraRetryBudget \in Nat
  BY RetriesAssumption DEF ExtraRetryBudget

\* Appending an origin that is not in a list of distinct ones keeps them distinct.
LEMMA AppendDistinct ==
  ASSUME NEW S, NEW s \in Seq(S), NEW x \in S,
         \A i, j \in 1 .. Len(s) : s[i] = s[j] => i = j,
         \A i \in 1 .. Len(s) : s[i] # x
  PROVE  \A i, j \in 1 .. Len(Append(s, x)) : Append(s, x)[i] = Append(s, x)[j] => i = j
<1>1. Len(Append(s, x)) = Len(s) + 1 /\ Len(s) \in Nat
  OBVIOUS
<1>2. \A i \in 1 .. Len(s) : Append(s, x)[i] = s[i]
  OBVIOUS
<1>3. Append(s, x)[Len(s) + 1] = x
  OBVIOUS
<1> QED
  <2> SUFFICES ASSUME NEW i \in 1 .. Len(s) + 1, NEW j \in 1 .. Len(s) + 1,
                      Append(s, x)[i] = Append(s, x)[j]
               PROVE  i = j
    BY <1>1
  <2>1. i \in 1 .. Len(s) \/ i = Len(s) + 1
    BY <1>1
  <2>2. j \in 1 .. Len(s) \/ j = Len(s) + 1
    BY <1>1
  <2> QED BY <1>2, <1>3, <2>1, <2>2

\* A selected origin is a new one, and it is the attempt the retry was for.
LEMMA SelectedRetry ==
  ASSUME TypeOK, NEW r \in Requests, Disciplined(r), pc[r] = "cansend", Selected(r),
         UNCHANGED <<kind, cand, retries, why, written>>
  PROVE  Disciplined(r)'
<1>1. pc'[r] = "sent" /\ attempts'[r] = Append(attempts[r], cand[r]) /\ attempts[r] \in Seq(Origins)
      /\ cand[r] \in Origins /\ retries[r] \in Nat /\ tried[r] \in Seq(Origins)
  BY DEF Selected, TypeOK
<1>2. Len(attempts'[r]) = Len(attempts[r]) + 1 /\ attempts'[r] # <<>>
  BY <1>1
<1>3. AttemptsCounted(r)'
  BY <1>1, <1>2 DEF Disciplined, AttemptsCounted, Seeking, Sending, ExtraRetryBudget, IsBalanced
<1>4. TriedIsAttempted(r)'
  <2> SUFFICES ASSUME IsBalanced
               PROVE  /\ kind[r].path = "stream" => tried'[r] = attempts'[r]
                      /\ \A i, j \in 1 .. Len(attempts'[r]) :
                            attempts'[r][i] = attempts'[r][j] => i = j
    BY <1>1, <1>2 DEF TriedIsAttempted, IsBalanced
  <2>0. ~IsTried(r, cand[r])
    BY DEF Disciplined, TriedIsAttempted
  <2>1. kind[r].path = "stream" => tried[r] = attempts[r]
    BY DEF Disciplined, TriedIsAttempted
  <2>2. kind[r].path = "stream" => tried'[r] = attempts'[r]
    BY <1>1, <2>0, <2>1 DEF Selected, TypeOK
  <2>3. kind[r].path # "stream" => attempts[r] = <<>>
    BY <1>1 DEF Disciplined, AttemptsCounted, Seeking, TypeOK
  <2>4. \A i \in 1 .. Len(attempts[r]) : attempts[r][i] # cand[r]
    BY <1>1, <2>0, <2>1, <2>3 DEF IsTried
  <2>5. \A i, j \in 1 .. Len(attempts[r]) : attempts[r][i] = attempts[r][j] => i = j
    BY DEF Disciplined, TriedIsAttempted
  <2>6. \A i, j \in 1 .. Len(attempts'[r]) : attempts'[r][i] = attempts'[r][j] => i = j
    BY <1>1, <2>4, <2>5, AppendDistinct
  <2> QED BY <2>2, <2>6
<1>5. WrittenIsLast(r)'
  BY DEF Disciplined, WrittenIsLast
<1> QED BY <1>3, <1>4, <1>5 DEF Disciplined

\* A request that moves on without an attempt, a retry or a write.
LEMMA MoveRetry ==
  ASSUME TypeOK, NEW r \in Requests, Disciplined(r),
         UNCHANGED <<kind[r], tried[r], retries[r], attempts[r], written[r]>>,
         \/ pc[r] = "shed" /\ pc'[r] \in {"shed", "pick", "none"}
         \/ pc[r] \in Seeking /\ pc'[r] \in Seeking
         \/ pc[r] \in Sending /\ pc'[r] \in Sending,
         pc'[r] = "cansend" => cand'[r] = cand[r] /\ (IsBalanced => ~IsTried(r, cand[r])),
         WrittenIsLast(r)'
  PROVE  Disciplined(r)'
<1>1. AttemptsCounted(r)'
  BY DEF Disciplined, AttemptsCounted, Seeking, Sending, TypeOK, ExtraRetryBudget, IsBalanced
<1>2. TriedIsAttempted(r)'
  BY DEF Disciplined, TriedIsAttempted, IsTried, IsBalanced
<1> QED BY <1>1, <1>2 DEF Disciplined

\* Every step of a request keeps its attempts, retries and tried origins together.
LEMMA NextRetry == TypeOK /\ RetryInv /\ [Next]_vars => RetryInv'
<1> SUFFICES ASSUME TypeOK, RetryInv, [Next]_vars, NEW q \in Requests PROVE Disciplined(q)'
  BY DEF RetryInv
<1>0. Disciplined(q)
  BY DEF RetryInv
<1>1. CASE Health \/ (\E o \in Origins : Elapse(o)) \/ UNCHANGED vars
  <2>1. UNCHANGED reqVars
    BY <1>1 DEF Health, HealthProbe, HealthRemoveDown, HealthCloseCircuit, HealthInsertDown,
                Elapse, vars
  <2> QED BY <1>0, <2>1, RetryFrame DEF reqVars
<1>2. ASSUME NEW r \in Requests, Request(r) \/ AttemptFails(r) \/ \E k \in Kinds : Arrive(r, k), r # q
      PROVE Disciplined(q)'
  <2>1. UNCHANGED <<pc[q], kind[q], cand[q], tried[q], retries[q], why[q], written[q], attempts[q]>>
    <3>1. CASE Request(r)
      <4> USE <1>2 DEF TypeOK
      <4>1. CASE Shed(r) \/ Pick(r)
        BY <4>1 DEF Shed, Pick
      <4>2. CASE Scan(r)
        BY <4>2 DEF Scan, Skip
      <4>3. CASE CanSendStep(r)
        BY <4>3 DEF CanSendStep, Skip, Selected
      <4>4. CASE RespondSuccess(r) \/ RespondError(r) \/ RespondCommitted(r) \/ Decorate(r)
        BY <4>4 DEF RespondSuccess, RespondError, RespondCommitted, Decorate
      <4>5. CASE FailOpenCircuit(r) \/ FailInsertDown(r) \/ Finish(r) \/ Leave(r)
        BY <4>5 DEF FailOpenCircuit, FailInsertDown, Finish, Leave
      <4> QED BY <3>1, <4>1, <4>2, <4>3, <4>4, <4>5 DEF Request
    <3>2. CASE AttemptFails(r)
      BY <1>2, <3>2 DEF AttemptFails, TypeOK
    <3>3. CASE \E k \in Kinds : Arrive(r, k)
      BY <1>2, <3>3 DEF Arrive, TypeOK
    <3> QED BY <1>2, <3>1, <3>2, <3>3
  <2> QED BY <1>0, <2>1, RetryFrame
<1>3. CASE Request(q) \/ AttemptFails(q) \/ \E k \in Kinds : Arrive(q, k)
  <2>0. WrittenIsLast(q) /\ retries[q] \in Nat /\ written[q] \in BOOLEAN
    BY <1>0 DEF Disciplined, TypeOK
  <2>1. CASE \E k \in Kinds : Arrive(q, k)
    <3>1. pc[q] = "idle" /\ pc'[q] = "shed" /\ UNCHANGED <<tried, retries, attempts, written>>
      BY <2>1 DEF Arrive, TypeOK
    <3>2. attempts[q] = <<>> /\ retries[q] = 0 /\ ~written[q]
      BY <1>0, <3>1 DEF Disciplined, AttemptsCounted, WrittenIsLast
    <3>3. AttemptsCounted(q)' /\ WrittenIsLast(q)'
      BY <3>1, <3>2, BudgetType DEF AttemptsCounted, WrittenIsLast, Seeking, Sending,
                                    ExtraRetryBudget, IsBalanced
    <3>4. TriedIsAttempted(q)'
      BY <1>0, <3>1, <3>2 DEF Disciplined, TriedIsAttempted, IsBalanced
    <3> QED BY <3>3, <3>4 DEF Disciplined
  <2>2. CASE Shed(q) \/ Pick(q)
    <3>1. /\ UNCHANGED <<kind, tried, retries, attempts, written>>
          /\ \/ pc[q] = "shed" /\ pc'[q] \in {"shed", "pick", "none"}
             \/ pc[q] = "pick" /\ pc'[q] = "scan"
      BY <2>2 DEF Shed, Pick, TypeOK
    <3>2. WrittenIsLast(q)'
      BY <2>0, <3>1 DEF WrittenIsLast
    <3> QED BY <1>0, <3>1, <3>2, MoveRetry DEF Seeking
  <2>3. CASE Scan(q)
    <3>1. /\ UNCHANGED <<kind, tried, retries, attempts, written>>
          /\ pc[q] = "scan"
          /\ \/ pc'[q] \in {"none", "scan"}
             \/ pc'[q] = "cansend" /\ cand' = cand /\ (IsBalanced => ~IsTried(q, cand[q]))
      BY <2>3 DEF Scan, Skip, TypeOK
    <3>2. WrittenIsLast(q)'
      BY <2>0, <3>1 DEF WrittenIsLast
    <3> QED BY <1>0, <3>1, <3>2, MoveRetry DEF Seeking
  <2>4. CASE CanSendStep(q)
    <3>1. CASE Selected(q) /\ UNCHANGED cand
      BY <1>0, <2>4, <3>1, SelectedRetry DEF CanSendStep
    <3>2. CASE Skip(q) /\ UNCHANGED <<tried, attempts>>
      <4>1. /\ UNCHANGED <<kind, tried, retries, attempts, written>>
            /\ pc[q] = "cansend" /\ pc'[q] \in {"none", "scan"}
        BY <2>4, <3>2 DEF CanSendStep, Skip, TypeOK
      <4>2. WrittenIsLast(q)'
        BY <2>0, <4>1 DEF WrittenIsLast
      <4> QED BY <1>0, <4>1, <4>2, MoveRetry DEF Seeking
    <3> QED BY <2>4, <3>1, <3>2 DEF CanSendStep
  <2>5. CASE \/ RespondSuccess(q) \/ RespondError(q) \/ RespondCommitted(q) \/ Finish(q)
             \/ FailOpenCircuit(q) \/ AttemptFails(q)
    <3>1. /\ UNCHANGED <<kind, tried, retries, attempts, written>>
          /\ \/ pc[q] = "sent" /\ pc'[q] \in {"decorate", "fail", "answered"}
             \/ pc[q] = "body" /\ pc'[q] = "answered"
             \/ pc[q] = "fail" /\ pc'[q] = "fail_down" /\ why' = why
             \/ pc[q] \in {"sent", "body"} /\ pc'[q] = "fail" /\ why'[q] = "error"
      BY <2>5 DEF RespondSuccess, RespondError, RespondCommitted, Finish, FailOpenCircuit,
                  AttemptFails, TypeOK
    <3>2. WrittenIsLast(q)'
      BY <2>0, <3>1 DEF WrittenIsLast
    <3> QED BY <1>0, <3>1, <3>2, MoveRetry DEF Sending
  <2>6. CASE Decorate(q)
    <3>1. /\ UNCHANGED <<kind, cand, tried, retries, attempts>>
          /\ pc[q] = "decorate" /\ pc'[q] \in {"body", "fail"}
          /\ pc'[q] = "fail" => why'[q] = "error"
      BY <2>6 DEF Decorate, TypeOK
    <3>2. WrittenIsLast(q)'
      BY <3>1 DEF WrittenIsLast
    <3>3. AttemptsCounted(q)' /\ TriedIsAttempted(q)'
      BY <1>0, <3>1 DEF Disciplined, AttemptsCounted, TriedIsAttempted, Seeking, Sending, IsBalanced,
                        ExtraRetryBudget
    <3> QED BY <3>2, <3>3 DEF Disciplined
  <2>7. CASE FailInsertDown(q)
    <3>0. pc[q] = "fail_down" /\ UNCHANGED <<kind, cand, tried, attempts, written>>
      BY <2>7 DEF FailInsertDown
    <3>1. CASE /\ pc'[q] \in {"decorate", "failed"} /\ UNCHANGED retries
               /\ pc'[q] = "decorate" => why[q] = "status"
      <4>1. WrittenIsLast(q)'
        BY <2>0, <3>0, <3>1 DEF WrittenIsLast
      <4> QED BY <1>0, <3>0, <3>1, <4>1, MoveRetry DEF Sending
    <3>2. CASE ShouldRetryUpstream(q) /\ pc'[q] = "pick" /\ retries'[q] = retries[q] + 1
      <4>1. WrittenIsLast(q)'
        BY <3>0, <3>2 DEF WrittenIsLast, ShouldRetryUpstream
      <4>2. AttemptsCounted(q)'
        BY <1>0, <2>0, <3>0, <3>2, BudgetType
           DEF Disciplined, AttemptsCounted, ShouldRetryUpstream, Seeking, Sending, ExtraRetryBudget, IsBalanced
      <4>3. TriedIsAttempted(q)'
        BY <1>0, <3>0, <3>2 DEF Disciplined, TriedIsAttempted, IsBalanced
      <4> QED BY <4>1, <4>2, <4>3 DEF Disciplined
    <3> QED BY <2>7, <3>1, <3>2 DEF FailInsertDown, TypeOK
  <2>8. CASE Leave(q)
    <3>1. pc'[q] = "idle" /\ tried'[q] = <<>> /\ attempts'[q] = <<>> /\ retries'[q] = 0
          /\ ~written'[q]
      BY <2>8 DEF Leave, TypeOK
    <3>2. AttemptsCounted(q)' /\ WrittenIsLast(q)'
      BY <3>1, BudgetType DEF AttemptsCounted, WrittenIsLast, Seeking, Sending, ExtraRetryBudget,
                              IsBalanced
    <3>3. TriedIsAttempted(q)'
      BY <3>1 DEF TriedIsAttempted
    <3> QED BY <3>2, <3>3 DEF Disciplined
  <2> QED BY <1>3, <2>1, <2>2, <2>3, <2>4, <2>5, <2>6, <2>7, <2>8 DEF Request
<1> QED BY <1>1, <1>2, <1>3 DEF Next

\* No request has been sent or retried when the pool is built.
LEMMA InitRetry == Init => RetryInv
  BY BudgetType DEF Init, RetryInv, Disciplined, AttemptsCounted, TriedIsAttempted,
                    WrittenIsLast, Seeking, Sending

\* A balanced request meets each origin at most once, stays within
\* extra_retry_budget, and is sent again only if should_retry_upstream may replay
\* it, for any number of origins and any MAX_UPSTREAM_RETRIES.
THEOREM RetriesDisciplined == Spec => []RetryDiscipline
<1>1. TypeOK /\ RetryInv => RetryDiscipline
  <2> SUFFICES ASSUME TypeOK, RetryInv, NEW r \in Requests
               PROVE  /\ IsBalanced => \A i, j \in 1 .. Len(attempts[r]) :
                                          attempts[r][i] = attempts[r][j] => i = j
                      /\ Len(attempts[r]) <= 1 + ExtraRetryBudget
                      /\ Len(attempts[r]) > 1 => /\ kind[r].idem
                                                 /\ ~kind[r].truncated
                                                 /\ kind[r].path = "stream"
    BY DEF RetryDiscipline
  <2>1. retries[r] \in Nat /\ (Len(attempts[r]) = retries[r] \/ Len(attempts[r]) = retries[r] + 1)
    BY DEF TypeOK, Pc, RetryInv, Disciplined, AttemptsCounted, Seeking, Sending
  <2>2. AttemptsCounted(r) /\ TriedIsAttempted(r)
    BY DEF RetryInv, Disciplined
  <2> QED BY <2>1, <2>2, BudgetType DEF AttemptsCounted, TriedIsAttempted
<1> QED BY <1>1, InitRetry, NextRetry, TypeCorrect, PTL DEF Spec

\* A request whose response was begun is never sent to an origin again: of the
\* steps that add an attempt none is enabled once response_written() holds.
THEOREM NoSplicedResponse == Spec => NoRetryAfterWrite
<1>1. ASSUME TypeOK, RetryInv, [Next]_vars, NEW r \in Requests, written[r], written'[r]
      PROVE  attempts'[r] = attempts[r]
  <2>1. pc[r] # "cansend"
    BY <1>1 DEF RetryInv, Disciplined, WrittenIsLast
  <2>2. CASE Health \/ (\E o \in Origins : Elapse(o)) \/ UNCHANGED vars
    BY <2>2 DEF Health, HealthProbe, HealthRemoveDown, HealthCloseCircuit, HealthInsertDown,
                Elapse, vars, reqVars
  <2>3. ASSUME NEW q \in Requests, Request(q) \/ AttemptFails(q) \/ \E k \in Kinds : Arrive(q, k)
        PROVE  attempts'[r] = attempts[r]
    <3>1. CASE CanSendStep(q)
      BY <1>1, <2>1, <3>1 DEF CanSendStep, Selected, TypeOK
    <3>2. CASE Leave(q)
      BY <1>1, <3>2 DEF Leave, TypeOK
    <3>3. CASE ~CanSendStep(q) /\ ~Leave(q)
      BY <2>3, <3>3 DEF Request, AttemptFails, Arrive, Shed, Pick, Scan, RespondSuccess,
                        RespondError, RespondCommitted, Decorate, FailOpenCircuit,
                        FailInsertDown, Finish
    <3> QED BY <3>1, <3>2, <3>3
  <2> QED BY <1>1, <2>2, <2>3 DEF Next
<1>2. TypeOK /\ RetryInv /\ [Next]_vars
        => [\A r \in Requests : written[r] /\ written'[r] => attempts'[r] = attempts[r]]_vars
  BY <1>1
<1> QED BY <1>2, InitRetry, NextRetry, TypeCorrect, PTL DEF Spec, NoRetryAfterWrite
=============================================================================
