--------------------------- MODULE Personalization ---------------------------
(***************************************************************************)
(* The two caches of the signal history at work over one store, as main.go *)
(* wires them: the reject suppressor finalize asks and the block the       *)
(* prompts embed.                                                          *)
(***************************************************************************)
EXTENDS RejectSuppressor, PersonalizationCache

vars == <<store, suppressor, block>>

TypeOK == StoreTypeOK /\ SuppressorTypeOK /\ BlockTypeOK

Init == StoreInit /\ SuppressorInit /\ BlockInit

Tick ==
  /\ SuppressorTick /\ BlockTick
  /\ UNCHANGED <<store, pairs, built, refreshing, job, got>>
  /\ UNCHANGED <<snap, blockBuilt, builder, read>>

Next ==
  \/ RecordSignal /\ UNCHANGED <<suppressor, block>>
  \/ StoreFlips /\ UNCHANGED <<suppressor, block>>
  \/ SuppressorNext /\ UNCHANGED <<store, block>>
  \/ BlockNext /\ UNCHANGED <<store, suppressor>>
  \/ Tick

Spec == Init /\ [][Next]_vars

\* Checks keep coming, time passes, and every query ends (it has a deadline).
FairSpec == Spec /\ SuppressorFairness /\ BlockFairness /\ WF_vars(Tick)

\* What the user accepted and rejected reaches the suppressor and the prompts,
\* if the store answers and checks keep coming.
CachesCatchUp == SuppressorCatchesUp /\ BlockCatchesUp
=============================================================================
