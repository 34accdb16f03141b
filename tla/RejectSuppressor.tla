-------------------------- MODULE RejectSuppressor --------------------------
(***************************************************************************)
(* The stale-while-revalidate snapshot of RejectSuppressor                 *)
(* (bridge/internal/correction/suppression.go).  ConfidenceCalibrator      *)
(* (calibration.go) has the same fields and the same two methods, so this  *)
(* is its model as well.  A call never waits: it reads the snapshot there  *)
(* is, and starts at most one background refresh.                          *)
(*                                                                         *)
(* The snapshot is kept as the version of the history it was made from; 0  *)
(* is the empty set of a cold start.  A call that has nothing to start     *)
(* changes nothing and is no step.                                         *)
(***************************************************************************)
EXTENDS SignalHistory, FiniteSets

CONSTANTS
  TTL,     \* the snapshot's time to live, in ticks (0: every call refreshes)
  Jobs     \* identities for the refresh goroutines

ASSUME SuppressorAssumption == TTL \in Nat

VARIABLES
  pairs,      \* version the snapshot was made from
  age,        \* time.Since(builtAt), up to TTL
  built,      \* whether a refresh ever succeeded
  refreshing, \* whether a background refresh is out
  job,        \* where each refresh goroutine is
  got         \* the version its query returned

suppressor == <<pairs, age, built, refreshing, job, got>>

Alive == {j \in Jobs : job[j] # "none"}

SuppressorTypeOK ==
  /\ pairs \in 0..MaxVersion
  /\ age \in 0..TTL
  /\ built \in BOOLEAN
  /\ refreshing \in BOOLEAN
  /\ job \in [Jobs -> {"none", "query", "ok", "error"}]
  /\ got \in [Jobs -> 0..MaxVersion]

SuppressorInit ==
  /\ pairs = 0
  /\ age = TTL
  /\ built = FALSE
  /\ refreshing = FALSE
  /\ job = [j \in Jobs |-> "none"]
  /\ got = [j \in Jobs |-> 0]

Fresh == built /\ age < TTL

Slip_RefreshUnguarded ==
  /\ ~Fresh
  /\ refreshing' = TRUE
  /\ \E j \in Jobs \ Alive : job' = [job EXCEPT ![j] = "query"]
  /\ UNCHANGED <<pairs, age, built, got>>

\* Suppressed (and Calibrated), when it starts a refresh.
Suppressed ==
  /\ ~Fresh /\ ~refreshing
  /\ refreshing' = TRUE
  /\ \E j \in Jobs \ Alive : job' = [job EXCEPT ![j] = "query"]
  /\ UNCHANGED <<pairs, age, built, got>>

\* refresh: the detached query, before r.mu is taken.
Query(j) ==
  /\ job[j] = "query"
  /\ \/ /\ storeUp
        /\ job' = [job EXCEPT ![j] = "ok"]
        /\ got' = [got EXCEPT ![j] = version]
     \/ /\ ~storeUp
        /\ job' = [job EXCEPT ![j] = "error"]
        /\ UNCHANGED got
  /\ UNCHANGED <<pairs, age, built, refreshing>>

Slip_FailureKeepsRefreshing(j) ==
  /\ job[j] = "error"
  /\ age' = TTL
  /\ job' = [job EXCEPT ![j] = "none"]
  /\ UNCHANGED <<pairs, built, refreshing, got>>

\* refresh: the query failed.  The pairs stay, builtAt is zeroed.
KeepLastGood(j) ==
  /\ job[j] = "error"
  /\ refreshing' = FALSE
  /\ age' = TTL
  /\ job' = [job EXCEPT ![j] = "none"]
  /\ UNCHANGED <<pairs, built, got>>

\* refresh: the query succeeded and its pairs replace the snapshot.
Install(j) ==
  /\ job[j] = "ok"
  /\ refreshing' = FALSE
  /\ pairs' = got[j]
  /\ age' = 0
  /\ built' = TRUE
  /\ job' = [job EXCEPT ![j] = "none"]
  /\ UNCHANGED got

Refresh(j) == Query(j) \/ KeepLastGood(j) \/ Install(j)

SuppressorNext == Suppressed \/ \E j \in Jobs : Refresh(j)

SuppressorTick == age' = IF age < TTL THEN age + 1 ELSE age

SuppressorFairness == WF_suppressor(Suppressed) /\ \A j \in Jobs : WF_suppressor(Refresh(j))

-----------------------------------------------------------------------------

\* "at most one background refresh goroutine", and the flag never outlives
\* it: N calls in a cold window collapse to one query, and a finished or
\* failed refresh always lets the next one start.
OneRefresh == /\ \A i, j \in Alive : i = j
              /\ refreshing <=> Alive # {}

\* While the store answers and checks keep coming, what the user rejected
\* reaches the suppressor.
SuppressorCatchesUp ==
  \A v \in 1..MaxVersion : <>[](storeUp /\ version >= v) => <>(pairs >= v)

View == INSTANCE StoreView WITH version <- version, view <- pairs

\* The suppressor keeps the promise of a view of the history: an early query
\* that is late never puts back older pairs.
SuppressorIsView == View!Spec
=============================================================================
