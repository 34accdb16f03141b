------------------------------ MODULE Resilience ------------------------------
(***************************************************************************)
(* The circuit breaker and the bounded retry shared by the HTTP clients of *)
(* one language-model backend: circuitBreaker and executeWithResilience    *)
(* (bridge/internal/llm/resilience.go), called once by Client.Complete and *)
(* AnthropicClient.Complete, and n times in a row by                       *)
(* Client.completeNSequential (client.go).                                 *)
(*                                                                         *)
(* A caller is a goroutine serving one correction request.  Each caller    *)
(* runs executeWithResilience under the context of its HTTP request, which *)
(* the user's client may abandon at any moment.  Breaker and retry are     *)
(* enabled, as in the default configuration.                               *)
(*                                                                         *)
(* Two exact data abstractions keep the state finite: time is kept only as *)
(* the age of openedAt up to Cooldown, and failures only up to             *)
(* FailureThreshold, since the code compares them with nothing else.       *)
(***************************************************************************)
EXTENDS Integers, FiniteSets

CONSTANTS
  Callers,            \* the goroutines sharing the client
  FailureThreshold,   \* BreakerConfig.FailureThreshold (zero or less acts as 1)
  Cooldown,           \* BreakerConfig.Cooldown, in clock ticks
  MaxRetries,         \* RetryConfig.MaxRetries
  MaxN                \* candidates one CompleteN may ask for (GF_LLM_NBEST)

ASSUME ResilienceAssumption ==
  /\ IsFiniteSet(Callers)
  /\ FailureThreshold \in Nat \ {0}
  /\ Cooldown \in Nat
  /\ MaxRetries \in Nat
  /\ MaxN \in Nat \ {0}

VARIABLES
  state,      \* circuitBreaker.state
  failures,   \* circuitBreaker.failures, up to FailureThreshold
  age,        \* time.Since(openedAt), up to Cooldown
  probing,    \* circuitBreaker.probing
  pc,         \* where each caller is
  attempt,    \* attempt number within executeWithResilience
  todo,       \* candidates the caller has still to request, this one included
  cancelled,  \* the caller's context is done
  urlOk,      \* whether the configured base URL parses: newReq fails always or never
  up,         \* whether the backend is answering 200
  isProbe,    \* history: this call was admitted as a half-open probe
  openLoad    \* history: calls in flight when the closed breaker opened

breaker == <<state, failures, age, probing>>
history == <<isProbe, openLoad>>
vars == <<breaker, pc, attempt, todo, cancelled, urlOk, up, history>>

InFlight == {c \in Callers : pc[c] \in {"build", "wire", "sleep"}}

AtMost(n, bound) == IF n > bound THEN bound ELSE n

TypeOK ==
  /\ state \in {"closed", "open", "half_open"}
  /\ failures \in 0..FailureThreshold
  /\ age \in 0..Cooldown
  /\ probing \in BOOLEAN
  /\ pc \in [Callers -> {"idle", "allow", "build", "wire", "sleep"}]
  /\ attempt \in [Callers -> 0..MaxRetries]
  /\ todo \in [Callers -> 0..MaxN]
  /\ \A c \in Callers : pc[c] # "idle" => todo[c] > 0
  /\ \A c \in Callers : pc[c] = "sleep" => attempt[c] < MaxRetries
  /\ cancelled \in [Callers -> BOOLEAN]
  /\ urlOk \in BOOLEAN
  /\ up \in BOOLEAN
  /\ isProbe \in [Callers -> BOOLEAN]
  /\ openLoad \in Nat

Init ==
  /\ state = "closed"
  /\ failures = 0
  /\ age = 0
  /\ probing = FALSE
  /\ pc = [c \in Callers |-> "idle"]
  /\ attempt = [c \in Callers |-> 0]
  /\ todo = [c \in Callers |-> 0]
  /\ cancelled = [c \in Callers |-> FALSE]
  /\ urlOk \in BOOLEAN
  /\ up \in BOOLEAN
  /\ isProbe = [c \in Callers |-> FALSE]
  /\ openLoad = 0

-----------------------------------------------------------------------------
(* The breaker's three methods, each one critical section of b.mu.         *)
(* A definition named Slip_... is a slip the next definition could have;   *)
(* nothing uses it: it is put in the place of that definition to see that  *)
(* a property notices.                                                     *)

Slip_AllowWhileHalfOpen ==
  \/ state # "open"
  \/ state = "open" /\ age >= Cooldown /\ ~probing

Allow ==
  \/ state = "closed"
  \/ state = "open" /\ age >= Cooldown /\ ~probing

AllowEffect(c) ==
  IF state = "open"
  THEN /\ state' = "half_open"
       /\ probing' = TRUE
       /\ isProbe' = [isProbe EXCEPT ![c] = TRUE]
       /\ UNCHANGED <<failures, age, openLoad>>
  ELSE /\ isProbe' = [isProbe EXCEPT ![c] = FALSE]
       /\ UNCHANGED <<breaker, openLoad>>

Slip_SuccessKeepsProbing ==
  /\ state' = "closed"
  /\ failures' = 0
  /\ UNCHANGED <<age, probing, isProbe, openLoad>>

RecordSuccess ==
  /\ state' = "closed"
  /\ failures' = 0
  /\ probing' = FALSE
  /\ UNCHANGED <<age, isProbe, openLoad>>

Slip_TripKeepsProbing ==
  /\ state' = "open"
  /\ age' = 0
  /\ openLoad' = IF state = "closed" THEN Cardinality(InFlight) - 1 ELSE openLoad
  /\ UNCHANGED probing

Trip ==
  /\ state' = "open"
  /\ age' = 0
  /\ probing' = FALSE
  /\ openLoad' = IF state = "closed" THEN Cardinality(InFlight) - 1 ELSE openLoad

Slip_OpensPastThreshold ==
  /\ UNCHANGED isProbe
  /\ \/ /\ state = "half_open"
        /\ Trip
        /\ UNCHANGED failures
     \/ /\ state # "half_open"
        /\ failures' = AtMost(failures + 1, FailureThreshold)
        /\ \/ failures >= FailureThreshold /\ Trip
           \/ failures < FailureThreshold /\ UNCHANGED <<state, age, probing, openLoad>>

RecordFailure ==
  /\ UNCHANGED isProbe
  /\ \/ /\ state = "half_open"
        /\ Trip
        /\ UNCHANGED failures
     \/ /\ state # "half_open"
        /\ failures' = AtMost(failures + 1, FailureThreshold)
        /\ \/ failures + 1 >= FailureThreshold /\ Trip
           \/ failures + 1 < FailureThreshold /\ UNCHANGED <<state, age, probing, openLoad>>

-----------------------------------------------------------------------------
(* executeWithResilience, and the loop of completeNSequential around it. *)

\* A handler calls Complete (n = 1) or CompleteN (n candidates).
Begin(c, n) ==
  /\ pc[c] = "idle"
  /\ pc' = [pc EXCEPT ![c] = "allow"]
  /\ todo' = [todo EXCEPT ![c] = n]
  /\ cancelled' = [cancelled EXCEPT ![c] = FALSE]
  /\ UNCHANGED <<breaker, attempt, urlOk, up, history>>

\* One executeWithResilience returned, with or without a response.  The loop
\* goes on to the next candidate either way, even when the context is done.
Return(c) ==
  /\ todo' = [todo EXCEPT ![c] = @ - 1]
  /\ pc' = [pc EXCEPT ![c] = IF todo[c] > 1 THEN "allow" ELSE "idle"]
  /\ attempt' = [attempt EXCEPT ![c] = 0]

Admit(c) ==
  /\ pc[c] = "allow"
  /\ Allow
  /\ AllowEffect(c)
  /\ pc' = [pc EXCEPT ![c] = "build"]
  /\ UNCHANGED <<attempt, todo, cancelled, urlOk, up>>

Slip_FastFailCounts(c) ==
  /\ pc[c] = "allow"
  /\ ~Allow
  /\ RecordFailure
  /\ Return(c)
  /\ UNCHANGED <<cancelled, urlOk, up>>

FastFail(c) ==
  /\ pc[c] = "allow"
  /\ ~Allow
  /\ Return(c)
  /\ UNCHANGED <<breaker, cancelled, urlOk, up, history>>

Slip_BuildFailureCounts(c) ==
  /\ pc[c] = "build"
  /\ \/ urlOk /\ pc' = [pc EXCEPT ![c] = "wire"] /\ UNCHANGED <<breaker, attempt, todo, history>>
     \/ ~urlOk /\ RecordFailure /\ Return(c)
  /\ UNCHANGED <<cancelled, urlOk, up>>

\* newReq: a request-build failure is returned without recording an outcome.
Build(c) ==
  /\ pc[c] = "build"
  /\ \/ urlOk /\ pc' = [pc EXCEPT ![c] = "wire"] /\ UNCHANGED <<attempt, todo>>
     \/ ~urlOk /\ Return(c)
  /\ UNCHANGED <<breaker, cancelled, urlOk, up, history>>

\* hc.Do answered 200.
Respond200(c) ==
  /\ pc[c] = "wire"
  /\ up
  /\ RecordSuccess
  /\ Return(c)
  /\ UNCHANGED <<cancelled, urlOk, up>>

Slip_OneRetryTooMany(c, transient) ==
  \/ /\ transient /\ attempt[c] <= MaxRetries
     /\ pc' = [pc EXCEPT ![c] = "sleep"]
     /\ UNCHANGED <<breaker, attempt, todo, history>>
  \/ /\ ~transient \/ attempt[c] > MaxRetries
     /\ RecordFailure
     /\ Return(c)

\* The attempt failed: retry a transient failure while attempts are left,
\* record the failure of the call otherwise.
AttemptFailed(c, transient) ==
  \/ /\ transient /\ attempt[c] < MaxRetries
     /\ pc' = [pc EXCEPT ![c] = "sleep"]
     /\ UNCHANGED <<breaker, attempt, todo, history>>
  \/ /\ ~transient \/ attempt[c] >= MaxRetries
     /\ RecordFailure
     /\ Return(c)

\* A backend in trouble: 429 or 5xx, another status, or no answer (the
\* 30 s client timeout included).
RespondError(c) ==
  /\ pc[c] = "wire"
  /\ ~up
  /\ \E transient \in BOOLEAN : AttemptFailed(c, transient)
  /\ UNCHANGED <<cancelled, urlOk, up>>

\* hc.Do returns the context's error, as a network-level (transient) failure.
RequestAborted(c) ==
  /\ pc[c] = "wire"
  /\ cancelled[c]
  /\ AttemptFailed(c, TRUE)
  /\ UNCHANGED <<cancelled, urlOk, up>>

\* jitterSleep ran to its end (select may choose the timer even when the
\* context is done as well).
BackoffOver(c) ==
  /\ pc[c] = "sleep"
  /\ pc' = [pc EXCEPT ![c] = "build"]
  /\ attempt' = [attempt EXCEPT ![c] = @ + 1]
  /\ UNCHANGED <<breaker, todo, cancelled, urlOk, up, history>>

Slip_AbortNotRecorded(c) ==
  /\ pc[c] = "sleep"
  /\ cancelled[c]
  /\ Return(c)
  /\ UNCHANGED <<breaker, cancelled, urlOk, up, history>>

\* jitterSleep returned ctx.Err(): recorded as a failure of the call.
BackoffAborted(c) ==
  /\ pc[c] = "sleep"
  /\ cancelled[c]
  /\ RecordFailure
  /\ Return(c)
  /\ UNCHANGED <<cancelled, urlOk, up>>

-----------------------------------------------------------------------------
(* The environment. *)

\* The user's client goes away (a newer keystroke aborts the request).
ClientGone(c) ==
  /\ pc[c] # "idle" /\ ~cancelled[c]
  /\ cancelled' = [cancelled EXCEPT ![c] = TRUE]
  /\ UNCHANGED <<breaker, pc, attempt, todo, urlOk, up, history>>

BackendFlips ==
  /\ up' = ~up
  /\ UNCHANGED <<breaker, pc, attempt, todo, cancelled, urlOk, history>>

Tick ==
  /\ state = "open" /\ age < Cooldown
  /\ age' = age + 1
  /\ UNCHANGED <<state, failures, probing, pc, attempt, todo, cancelled, urlOk, up, history>>

CallStep(c) ==
  \/ Admit(c) \/ FastFail(c) \/ Build(c)
  \/ Respond200(c) \/ RespondError(c) \/ RequestAborted(c)
  \/ BackoffOver(c) \/ BackoffAborted(c)

Next ==
  \/ \E c \in Callers : (\E n \in 1..MaxN : Begin(c, n)) \/ CallStep(c) \/ ClientGone(c)
  \/ BackendFlips
  \/ Tick

Spec == Init /\ [][Next]_vars

\* Every attempt ends (the HTTP client has a 30 s timeout), every backoff
\* timer fires and time passes.  Nothing makes users ask or go away.
FairSpec ==
  /\ Spec
  /\ WF_vars(Tick)
  /\ \A c \in Callers : WF_vars(CallStep(c))

-----------------------------------------------------------------------------
(* Safety. *)

\* probing repeats what state says: an open breaker is never left with a
\* stale probing flag, which would make Allow refuse every later probe
\* (the "probe is already in flight" return of the open case is never taken).
ProbingIffHalfOpen == probing <=> state = "half_open"

\* A closed breaker has always counted fewer failures than the threshold:
\* no order of RecordSuccess and RecordFailure lets it miss its opening.
ClosedBelowThreshold == state = "closed" => failures < FailureThreshold

\* The breaker's three fields agree, whatever order outcomes are recorded in.
BreakerAgrees == ProbingIffHalfOpen /\ ClosedBelowThreshold

\* A half-open breaker has its probe in flight, so somebody will move it on:
\* no early return of executeWithResilience (request build, aborted backoff,
\* exhausted retries) leaves it half-open with nobody to record an outcome.
HalfOpenHasProbe == state = "half_open" => \E c \in InFlight : isProbe[c]

\* From the moment it opens until it closes, the breaker adds at most one
\* call to those already in flight, whatever the stale calls among them do:
\* the stacked timeouts of a dead backend do not grow.
ShedsLoad ==
  state # "closed" =>
    Cardinality(InFlight) <= openLoad + (IF state = "half_open" THEN 1 ELSE 0)

\* A base URL that does not parse is a configuration error, not the backend's
\* fault: it never moves the breaker, and so never strands a half-open window
\* (resilience.go:255-257 returns without recording an outcome).
BadUrlNeverTrips ==
  ~urlOk => state = "closed" /\ failures = 0 /\ \A c \in Callers : pc[c] \notin {"wire", "sleep"}

-----------------------------------------------------------------------------
(* Liveness. *)

\* A half-open window always ends.
ProbeResolves == state = "half_open" ~> state # "half_open"

\* An open breaker comes to the end of its cooldown: calls still in flight
\* may push openedAt forward when they fail, but not for ever.
CooldownEnds == state = "open" ~> (state # "open" \/ age = Cooldown)

\* No window of the breaker lasts for ever.
WindowsEnd == ProbeResolves /\ CooldownEnds

\* Once the backend answers again and users wait for their answers, the
\* breaker closes for good, as long as calls keep coming.
BackendRecovers ==
  /\ <>[](urlOk /\ up /\ \A c \in Callers : pc[c] # "idle" => ~cancelled[c])
  /\ []<>(\E c \in Callers : pc[c] = "allow")
  => <>[](state = "closed")

-----------------------------------------------------------------------------
(* What the comments of resilience.go say, and the code does not keep. *)

\* resilience.go:89-91, "only one probe at a time": a call admitted before the
\* breaker opened may fail during the half-open window, which ends the window
\* and lets a second probe out beside the first.
OneProbeAtATime == Cardinality({c \in InFlight : isProbe[c]}) <= 1
=============================================================================
