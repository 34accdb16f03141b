---------------------------- MODULE SignalHistory ----------------------------
(***************************************************************************)
(* The store's accept and reject history, as the two caches read it        *)
(* through Store.PersonalizationExamples and Store.SignalRates: one number *)
(* that every recorded signal advances, and whether a query answers in     *)
(* time.                                                                   *)
(***************************************************************************)
EXTENDS Naturals

CONSTANT MaxVersion    \* bound on the signals recorded in a behaviour

ASSUME SignalHistoryAssumption == MaxVersion \in Nat

VARIABLES
  version,    \* signals recorded so far: what a query would aggregate now
  storeUp     \* whether queries answer before their deadline

store == <<version, storeUp>>

StoreTypeOK == version \in 0..MaxVersion /\ storeUp \in BOOLEAN

StoreInit == version = 0 /\ storeUp \in BOOLEAN

\* Service.Signal records one more reaction of the user.
RecordSignal ==
  /\ version < MaxVersion
  /\ version' = version + 1
  /\ UNCHANGED storeUp

StoreFlips ==
  /\ storeUp' = ~storeUp
  /\ UNCHANGED version
=============================================================================
