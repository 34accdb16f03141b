------------------------ MODULE PersonalizationCache ------------------------
(***************************************************************************)
(* personalization.Cache.Snapshot (bridge/internal/personalization/        *)
(* cache.go), called by prompt.Builder.Build for every sentence checked in *)
(* chat mode: a synchronous cache whose mutex is held for the whole query, *)
(* so that the calls of a cold window wait for one query.                  *)
(***************************************************************************)
EXTENDS SignalHistory

CONSTANTS
  BlockTTL,   \* the block's time to live, in ticks
  Builders    \* the goroutines that build prompts

ASSUME PersonalizationCacheAssumption == BlockTTL \in Nat

VARIABLES
  snap,       \* version the block was rendered from
  blockAge,   \* time.Since(builtAt), up to BlockTTL
  blockBuilt, \* whether a query ever ended, well or not
  builder,    \* where each caller of Snapshot is
  read,       \* the version its query returned
  quiet       \* history: ticks since the last query ended, up to BlockTTL

block == <<snap, blockAge, blockBuilt, builder, read, quiet>>

Holding == {b \in Builders : builder[b] \in {"query", "ok", "error"}}

BlockTypeOK ==
  /\ snap \in 0..MaxVersion
  /\ blockAge \in 0..BlockTTL
  /\ blockBuilt \in BOOLEAN
  /\ builder \in [Builders -> {"idle", "lock", "query", "ok", "error"}]
  /\ read \in [Builders -> 0..MaxVersion]
  /\ quiet \in 0..BlockTTL
  /\ \A b, c \in Holding : b = c

BlockInit ==
  /\ snap = 0
  /\ blockAge = BlockTTL
  /\ blockBuilt = FALSE
  /\ builder = [b \in Builders |-> "idle"]
  /\ read = [b \in Builders |-> 0]
  /\ quiet = BlockTTL

BuildPrompt(b) ==
  /\ builder[b] = "idle"
  /\ builder' = [builder EXCEPT ![b] = "lock"]
  /\ UNCHANGED <<snap, blockAge, blockBuilt, read, quiet>>

Slip_NeverExpires == blockBuilt

Current == blockBuilt /\ blockAge < BlockTTL

Slip_QueryOutsideLock(b) ==
  /\ builder[b] = "lock"
  /\ builder' = [builder EXCEPT ![b] = IF Current THEN "idle" ELSE "query"]
  /\ UNCHANGED <<snap, blockAge, blockBuilt, read, quiet>>

\* c.mu is free: the snapshot is served, or a query started under the lock.
Snapshot(b) ==
  /\ builder[b] = "lock" /\ Holding = {}
  /\ builder' = [builder EXCEPT ![b] = IF Current THEN "idle" ELSE "query"]
  /\ UNCHANGED <<snap, blockAge, blockBuilt, read, quiet>>

Slip_NoDeadline(b) ==
  /\ builder[b] = "query" /\ storeUp
  /\ builder' = [builder EXCEPT ![b] = "ok"]
  /\ read' = [read EXCEPT ![b] = version]
  /\ UNCHANGED <<snap, blockAge, blockBuilt, quiet>>

\* The query's result, before builtAt is set.  It has a deadline of its own.
Examples(b) ==
  /\ builder[b] = "query"
  /\ \/ /\ storeUp
        /\ builder' = [builder EXCEPT ![b] = "ok"]
        /\ read' = [read EXCEPT ![b] = version]
     \/ /\ ~storeUp
        /\ builder' = [builder EXCEPT ![b] = "error"]
        /\ UNCHANGED read
  /\ UNCHANGED <<snap, blockAge, blockBuilt, quiet>>

Slip_FailureNotDated(b) ==
  /\ builder[b] = "error"
  /\ quiet' = 0
  /\ builder' = [builder EXCEPT ![b] = "idle"]
  /\ UNCHANGED <<snap, blockAge, blockBuilt, read>>

\* The query failed: builtAt advances all the same, the block stays.
ServeLastGood(b) ==
  /\ builder[b] = "error"
  /\ blockAge' = 0 /\ blockBuilt' = TRUE /\ quiet' = 0
  /\ builder' = [builder EXCEPT ![b] = "idle"]
  /\ UNCHANGED <<snap, read>>

Render(b) ==
  /\ builder[b] = "ok"
  /\ blockAge' = 0 /\ blockBuilt' = TRUE /\ quiet' = 0
  /\ snap' = read[b]
  /\ builder' = [builder EXCEPT ![b] = "idle"]
  /\ UNCHANGED read

Finish(b) == Examples(b) \/ ServeLastGood(b) \/ Render(b)

BlockNext == \E b \in Builders : BuildPrompt(b) \/ Snapshot(b) \/ Finish(b)

BlockTick ==
  /\ blockAge' = IF blockAge < BlockTTL THEN blockAge + 1 ELSE blockAge
  /\ quiet' = IF quiet < BlockTTL THEN quiet + 1 ELSE quiet

\* Go's mutex hands itself over to a goroutine that has waited for long.
BlockFairness ==
  \A b \in Builders :
    WF_block(BuildPrompt(b)) /\ SF_block(Snapshot(b)) /\ WF_block(Finish(b))

-----------------------------------------------------------------------------

\* "a persistent store error must NOT cause Snapshot to hammer the store":
\* from the end of one query to the start of the next a whole time to live
\* goes by, whatever the query's outcome and however many goroutines waited.
QueriesSpaced ==
  [][\A b \in Builders : builder[b] # "query" /\ builder'[b] = "query" => quiet = BlockTTL]_block

\* Every caller gets its block, however slow or broken the store is.
SnapshotReturns == \A b \in Builders : builder[b] = "lock" ~> builder[b] = "idle"

\* While the store answers, what the user accepted and rejected reaches the
\* prompts.
BlockCatchesUp ==
  \A v \in 1..MaxVersion : <>[](storeUp /\ version >= v) => <>(snap >= v)

BlockView == INSTANCE StoreView WITH version <- version, view <- snap

\* The block keeps the promise of a view of the history.
BlockIsView == BlockView!Spec
=============================================================================
