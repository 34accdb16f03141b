-------------------------- MODULE Resilience_proofs --------------------------
(***************************************************************************)
(* Safety of the circuit breaker for every set of callers, threshold,      *)
(* cooldown, retry bound and number of candidates.  The invariants of      *)
(* Resilience are inductive together: who may record an outcome            *)
(* (BadUrlNeverTrips), what the breaker's fields say of one another        *)
(* (ProbingIffHalfOpen, ClosedBelowThreshold), who is still to record      *)
(* (HalfOpenHasProbe) and how many calls are out (ShedsLoad).              *)
(***************************************************************************)
EXTENDS Resilience, FiniteSetTheorems, TLAPS

IInv ==
  /\ TypeOK
  /\ ProbingIffHalfOpen
  /\ ClosedBelowThreshold
  /\ HalfOpenHasProbe
  /\ ShedsLoad
  /\ BadUrlNeverTrips

-----------------------------------------------------------------------------
(* Counting the calls in flight. *)

\* The calls in flight are finitely many, so their number is a natural.
LEMMA InFlightFinite == IsFiniteSet(InFlight) /\ Cardinality(InFlight) \in Nat
  <1>1. InFlight \subseteq Callers
    BY DEF InFlight
  <1>2. IsFiniteSet(InFlight)
    BY <1>1, ResilienceAssumption, FS_Subset
  <1> QED
    BY <1>2, FS_CardinalityType

\* A call that returns leaves one call fewer in flight.
LEMMA LeaveFlight ==
  ASSUME TypeOK, NEW c \in InFlight, Return(c)
  PROVE  /\ InFlight' = InFlight \ {c}
         /\ Cardinality(InFlight') = Cardinality(InFlight) - 1
         /\ Cardinality(InFlight') \in Nat
  <1>1. InFlight' = InFlight \ {c}
    BY DEF InFlight, Return, TypeOK
  <1>2. IsFiniteSet(InFlight \ {c}) /\ Cardinality(InFlight \ {c}) = Cardinality(InFlight) - 1
    BY InFlightFinite, FS_RemoveElement
  <1>3. Cardinality(InFlight \ {c}) \in Nat
    BY <1>2, FS_CardinalityType
  <1> QED
    BY <1>1, <1>2, <1>3

\* A call that is admitted is one call more in flight.
LEMMA EnterFlight ==
  ASSUME TypeOK, NEW c \in Callers, pc[c] = "allow", pc' = [pc EXCEPT ![c] = "build"]
  PROVE  /\ InFlight' = InFlight \cup {c}
         /\ Cardinality(InFlight') = Cardinality(InFlight) + 1
  <1>1. InFlight' = InFlight \cup {c} /\ c \notin InFlight
    BY DEF InFlight, TypeOK
  <1> QED
    BY <1>1, InFlightFinite, FS_AddElement

\* Zero is in the range of every counter.
LEMMA Zeros == 0 \in 0..FailureThreshold /\ 0 \in 0..Cooldown /\ 0 \in 0..MaxRetries /\ 0 \in 0..MaxN
  BY ResilienceAssumption

\* A call that returns keeps the callers' fields within their types.
LEMMA ReturnType ==
  ASSUME TypeOK, NEW c \in Callers, pc[c] # "idle", Return(c)
  PROVE  /\ pc' \in [Callers -> {"idle", "allow", "build", "wire", "sleep"}]
         /\ attempt' \in [Callers -> 0..MaxRetries]
         /\ todo' \in [Callers -> 0..MaxN]
         /\ \A d \in Callers : pc'[d] # "idle" => todo'[d] > 0
         /\ \A d \in Callers : pc'[d] = "sleep" => attempt'[d] < MaxRetries
  BY Zeros, ResilienceAssumption DEF Return, TypeOK

-----------------------------------------------------------------------------
(* Recording an outcome. *)

\* A call that fails for good leaves the breaker consistent: closed below the
\* threshold or open, never half-open, with one call fewer in flight.
LEMMA FailureKeeps ==
  ASSUME IInv, urlOk, NEW c \in InFlight,
         RecordFailure, Return(c), UNCHANGED <<cancelled, urlOk, up>>
  PROVE  IInv'
  <1>1. c \in Callers /\ pc[c] # "idle"
    BY DEF InFlight
  <1>2. TypeOK'
    <2>1. openLoad' \in Nat
      BY LeaveFlight DEF IInv, TypeOK, RecordFailure, Trip
    <2>2. state' \in {"closed", "open", "half_open"} /\ age' \in 0..Cooldown /\ probing' \in BOOLEAN
      BY Zeros DEF IInv, TypeOK, RecordFailure, Trip
    <2>3. failures' \in 0..FailureThreshold
      BY ResilienceAssumption DEF IInv, TypeOK, RecordFailure, AtMost
    <2>4. isProbe' = isProbe
      BY DEF RecordFailure
    <2> QED
      BY <1>1, <2>1, <2>2, <2>3, <2>4, ReturnType DEF IInv, TypeOK
  <1>3. state' # "half_open" /\ (state' = "closed" => state = "closed")
    BY DEF IInv, TypeOK, RecordFailure, Trip
  <1>4. ProbingIffHalfOpen'
    BY <1>3 DEF IInv, ProbingIffHalfOpen, RecordFailure, Trip
  <1>5. ClosedBelowThreshold'
    BY <1>3, ResilienceAssumption
    DEF IInv, TypeOK, ClosedBelowThreshold, RecordFailure, Trip, AtMost
  <1>6. ShedsLoad'
    <2>1. CASE state = "closed"
      BY <1>3, <2>1, LeaveFlight DEF IInv, TypeOK, ShedsLoad, RecordFailure, Trip
    <2>2. CASE state # "closed"
      <3>1. openLoad' = openLoad
        BY <2>2 DEF RecordFailure, Trip
      <3> QED
        BY <1>3, <2>2, <3>1, LeaveFlight, InFlightFinite DEF IInv, TypeOK, ShedsLoad
    <2> QED
      BY <2>1, <2>2
  <1> QED
    BY <1>2, <1>3, <1>4, <1>5, <1>6 DEF IInv, HalfOpenHasProbe, BadUrlNeverTrips

\* A call that succeeds closes the breaker.
LEMMA SuccessKeeps ==
  ASSUME IInv, urlOk, NEW c \in InFlight,
         RecordSuccess, Return(c), UNCHANGED <<cancelled, urlOk, up>>
  PROVE  IInv'
  <1>1. c \in Callers /\ pc[c] # "idle"
    BY DEF InFlight
  <1>2. TypeOK'
    BY <1>1, ReturnType, Zeros DEF IInv, TypeOK, RecordSuccess
  <1> QED
    BY <1>2, ResilienceAssumption
    DEF IInv, RecordSuccess, ProbingIffHalfOpen, ClosedBelowThreshold,
        HalfOpenHasProbe, ShedsLoad, BadUrlNeverTrips

-----------------------------------------------------------------------------
(* Every step keeps the invariant. *)

\* A client fresh from New satisfies the invariant.
THEOREM InitInv == Init => IInv
  <1> SUFFICES ASSUME Init PROVE IInv
    OBVIOUS
  <1>1. TypeOK
    BY Zeros DEF Init, TypeOK
  <1> QED
    BY <1>1, ResilienceAssumption
    DEF Init, IInv, ProbingIffHalfOpen, ClosedBelowThreshold, HalfOpenHasProbe,
        ShedsLoad, BadUrlNeverTrips

\* A step that leaves the breaker, its history and the set of calls in flight
\* alone.
LEMMA QuietStep ==
  ASSUME IInv, TypeOK', UNCHANGED <<breaker, history, urlOk>>, InFlight' = InFlight,
         urlOk \/ \A c \in Callers : pc'[c] \notin {"wire", "sleep"}
  PROVE  IInv'
  BY DEF IInv, breaker, history, ProbingIffHalfOpen, ClosedBelowThreshold,
         HalfOpenHasProbe, ShedsLoad, BadUrlNeverTrips

\* No step of a caller, of the backend or of the clock breaks it.
THEOREM StepInv == IInv /\ [Next]_vars => IInv'
  <1> SUFFICES ASSUME IInv, [Next]_vars PROVE IInv'
    OBVIOUS
  <1> USE DEF IInv
  <1>1. ASSUME NEW c \in Callers, NEW n \in 1..MaxN, Begin(c, n) PROVE IInv'
    <2>1. TypeOK'
      BY <1>1, ResilienceAssumption DEF TypeOK, Begin, breaker, history
    <2>2. InFlight' = InFlight
      BY <1>1 DEF TypeOK, Begin, InFlight
    <2> QED
      BY <1>1, <2>1, <2>2, QuietStep DEF Begin, TypeOK, BadUrlNeverTrips
  <1>2. ASSUME NEW c \in Callers, Admit(c) PROVE IInv'
    <2>1. TypeOK'
      BY <1>2, ResilienceAssumption DEF TypeOK, Admit, AllowEffect, breaker
    <2>2. state' \in {state, "half_open"} /\ (state' = "half_open" => state = "open")
      BY <1>2 DEF Admit, Allow, AllowEffect, breaker
    <2>3. ProbingIffHalfOpen'
      BY <1>2 DEF Admit, Allow, AllowEffect, breaker, ProbingIffHalfOpen
    <2>4. ClosedBelowThreshold'
      BY <1>2 DEF Admit, AllowEffect, breaker, ClosedBelowThreshold
    <2>5. HalfOpenHasProbe'
      BY <1>2 DEF Admit, Allow, AllowEffect, HalfOpenHasProbe, InFlight, TypeOK, breaker
    <2>6. ShedsLoad'
      <3>1. Cardinality(InFlight') = Cardinality(InFlight) + 1
        BY <1>2, EnterFlight DEF Admit
      <3> QED
        BY <1>2, <3>1, InFlightFinite DEF Admit, Allow, AllowEffect, ShedsLoad, TypeOK, breaker
    <2>7. BadUrlNeverTrips'
      BY <1>2 DEF Admit, AllowEffect, BadUrlNeverTrips, TypeOK, breaker
    <2> QED
      BY <2>1, <2>3, <2>4, <2>5, <2>6, <2>7
  <1>3. ASSUME NEW c \in Callers, FastFail(c) PROVE IInv'
    <2>1. TypeOK'
      BY <1>3, ReturnType DEF TypeOK, FastFail, breaker, history
    <2>2. InFlight' = InFlight
      BY <1>3 DEF TypeOK, FastFail, Return, InFlight
    <2> QED
      BY <1>3, <2>1, <2>2, QuietStep DEF FastFail, Return, TypeOK, BadUrlNeverTrips
  <1>4. ASSUME NEW c \in Callers, Build(c) PROVE IInv'
    <2>1. CASE urlOk
      <3>1. TypeOK' /\ InFlight' = InFlight
        BY <1>4, <2>1 DEF TypeOK, Build, InFlight, breaker, history
      <3> QED
        BY <1>4, <2>1, <3>1, QuietStep DEF Build
    <2>2. CASE ~urlOk
      <3>1. TypeOK'
        BY <1>4, <2>2, ReturnType DEF TypeOK, Build, breaker, history
      <3>2. state' = "closed" /\ failures' = 0 /\ probing' = probing /\ urlOk' = urlOk
        BY <1>4, <2>2 DEF Build, BadUrlNeverTrips, breaker
      <3>3. \A d \in Callers : pc'[d] \notin {"wire", "sleep"}
        BY <1>4, <2>2 DEF Build, Return, BadUrlNeverTrips, TypeOK
      <3> QED
        BY <2>2, <3>1, <3>2, <3>3, ResilienceAssumption
        DEF ProbingIffHalfOpen, ClosedBelowThreshold, HalfOpenHasProbe, ShedsLoad, BadUrlNeverTrips
    <2> QED
      BY <2>1, <2>2
  <1>5. ASSUME NEW c \in Callers, Respond200(c) PROVE IInv'
    <2>1. urlOk /\ c \in InFlight
      BY <1>5 DEF Respond200, BadUrlNeverTrips, InFlight
    <2> QED
      BY <1>5, <2>1, SuccessKeeps DEF Respond200
  <1>6. ASSUME NEW c \in Callers, pc[c] = "wire", NEW transient \in BOOLEAN,
               AttemptFailed(c, transient), UNCHANGED <<cancelled, urlOk, up>>
        PROVE  IInv'
    <2>1. urlOk /\ c \in InFlight
      BY <1>6 DEF BadUrlNeverTrips, InFlight
    <2>2. CASE /\ attempt[c] < MaxRetries
               /\ pc' = [pc EXCEPT ![c] = "sleep"]
               /\ UNCHANGED <<breaker, attempt, todo, history>>
      <3>1. TypeOK' /\ InFlight' = InFlight
        BY <1>6, <2>2 DEF TypeOK, InFlight, breaker, history
      <3> QED
        BY <1>6, <2>1, <2>2, <3>1, QuietStep
    <2>3. CASE RecordFailure /\ Return(c)
      BY <1>6, <2>1, <2>3, FailureKeeps
    <2> QED
      BY <1>6, <2>2, <2>3 DEF AttemptFailed
  <1>7. ASSUME NEW c \in Callers, RespondError(c) PROVE IInv'
    BY <1>6, <1>7 DEF RespondError
  <1>8. ASSUME NEW c \in Callers, RequestAborted(c) PROVE IInv'
    BY <1>6, <1>8 DEF RequestAborted
  <1>9. ASSUME NEW c \in Callers, BackoffOver(c) PROVE IInv'
    <2>1. TypeOK' /\ InFlight' = InFlight
      BY <1>9, ResilienceAssumption DEF TypeOK, BackoffOver, InFlight, breaker, history
    <2> QED
      BY <1>9, <2>1, QuietStep DEF BackoffOver, TypeOK, BadUrlNeverTrips
  <1>10. ASSUME NEW c \in Callers, BackoffAborted(c) PROVE IInv'
    <2>1. urlOk /\ c \in InFlight
      BY <1>10 DEF BackoffAborted, BadUrlNeverTrips, InFlight
    <2> QED
      BY <1>10, <2>1, FailureKeeps DEF BackoffAborted
  <1>11. ASSUME NEW c \in Callers, ClientGone(c) PROVE IInv'
    <2>1. TypeOK' /\ InFlight' = InFlight
      BY <1>11 DEF TypeOK, ClientGone, InFlight, breaker, history
    <2> QED
      BY <1>11, <2>1, QuietStep DEF ClientGone, BadUrlNeverTrips
  <1>12. CASE BackendFlips
    <2>1. TypeOK' /\ InFlight' = InFlight
      BY <1>12 DEF TypeOK, BackendFlips, InFlight, breaker, history
    <2> QED
      BY <1>12, <2>1, QuietStep DEF BackendFlips, BadUrlNeverTrips
  <1>13. CASE Tick
    <2>1. TypeOK' /\ InFlight' = InFlight
      BY <1>13, ResilienceAssumption DEF TypeOK, Tick, InFlight, history
    <2> QED
      BY <1>13, <2>1
      DEF Tick, history, ProbingIffHalfOpen, ClosedBelowThreshold, HalfOpenHasProbe,
          ShedsLoad, BadUrlNeverTrips
  <1>14. CASE UNCHANGED vars
    <2>1. TypeOK' /\ InFlight' = InFlight
      BY <1>14 DEF TypeOK, vars, InFlight, breaker, history
    <2> QED
      BY <1>14, <2>1, QuietStep DEF vars, BadUrlNeverTrips
  <1> QED
    BY <1>1, <1>2, <1>3, <1>4, <1>5, <1>7, <1>8, <1>9, <1>10, <1>11, <1>12, <1>13, <1>14
    DEF Next, CallStep

\* The breaker and its callers always satisfy the invariant.
THEOREM Invariance == Spec => []IInv
  BY InitInv, StepInv, PTL DEF Spec

\* Every field keeps its type, so no call makes more than 1 + MaxRetries
\* attempts and no backoff is slept that no attempt follows.
THEOREM TypeCorrect == Spec => []TypeOK
  BY Invariance, PTL DEF IInv

\* Whatever the order in which concurrent calls record their outcomes, a
\* half-open breaker has a probe that will end the window.
THEOREM HalfOpenIsWatched == Spec => []HalfOpenHasProbe
  BY Invariance, PTL DEF IInv

\* No order of outcomes leaves a stale probing flag behind, or a closed
\* breaker at its threshold.
THEOREM FieldsAgree == Spec => []BreakerAgrees
  BY Invariance, PTL DEF IInv, BreakerAgrees

\* From opening to closing, at most one call joins those that were in flight.
THEOREM LoadIsShed == Spec => []ShedsLoad
  BY Invariance, PTL DEF IInv

\* A base URL that does not parse never moves the breaker.
THEOREM BadUrlIsHarmless == Spec => []BadUrlNeverTrips
  BY Invariance, PTL DEF IInv
=============================================================================
