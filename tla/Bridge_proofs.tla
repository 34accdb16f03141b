--------------------------- MODULE Bridge_proofs ----------------------------
(***************************************************************************)
(* The bridge beside the check itself, and the way to it. Both caches of   *)
(* the signal history are views of it, for every time to live and number   *)
(* of signals, of refresh goroutines and of prompt builders; of what the   *)
(* browser asks through its worker nothing is lost track of; a streamed    *)
(* check ends once; what the services of the model answer was said of that *)
(* text, for every cache size and any requests; what is made of the        *)
(* model's candidates is apart and of most of them, however many they are; *)
(* and the log, for every retention, keeps what is learned from it.        *)
(***************************************************************************)
EXTENDS Personalization, BridgeParts, Integers, Sequences, FiniteSetTheorems, WellFoundedInduction, TLAPS

-----------------------------------------------------------------------------
(* The caches of the signal history.  A query's result is installed later  *)
(* than it was read; what keeps a late result from putting back an earlier *)
(* state is that nobody else installs meanwhile: the refreshing flag for   *)
(* the suppressor (OneRefresh), the mutex for the block (the last conjunct *)
(* of BlockTypeOK).  Behind says so of the results that are on their way.  *)

SuppressorBehind ==
  /\ pairs <= version
  /\ \A j \in Jobs : job[j] = "ok" => pairs <= got[j] /\ got[j] <= version

BlockBehind ==
  /\ snap <= version
  /\ \A b \in Builders : builder[b] = "ok" => snap <= read[b] /\ read[b] <= version

\* The block is as old as the end of the last query is long ago.
Dated == quiet = blockAge /\ (~blockBuilt => quiet = BlockTTL)

IInv == TypeOK /\ OneRefresh /\ SuppressorBehind /\ BlockBehind /\ Dated

-----------------------------------------------------------------------------
(* What the steps of each cache keep.  All but one variable of the store   *)
(* and the other cache stand still, so each is argued about by itself.     *)

Suppressor_ == StoreTypeOK /\ SuppressorTypeOK /\ OneRefresh /\ SuppressorBehind

Block_ == StoreTypeOK /\ BlockTypeOK /\ BlockBehind /\ Dated

\* A step of the suppressor keeps its part of the invariant.
LEMMA SuppressorStep ==
  ASSUME Suppressor_, SuppressorNext, UNCHANGED store
  PROVE  Suppressor_'
  <1> USE SignalHistoryAssumption, SuppressorAssumption
          DEF Suppressor_, StoreTypeOK, SuppressorTypeOK, SuppressorBehind, store
  <1>1. CASE Suppressed
    <2>1. Alive = {}
      BY <1>1 DEF Suppressed, OneRefresh
    <2>2. PICK i \in Jobs : job' = [job EXCEPT ![i] = "query"]
      BY <1>1 DEF Suppressed
    <2> QED
      BY <1>1, <2>1, <2>2 DEF Suppressed, OneRefresh, Alive
  <1>2. ASSUME NEW j \in Jobs, Query(j)
        PROVE  Suppressor_'
    BY <1>2 DEF Query, OneRefresh, Alive
  <1>3. ASSUME NEW j \in Jobs, KeepLastGood(j)
        PROVE  Suppressor_'
    <2>1. Alive = {j}
      BY <1>3 DEF KeepLastGood, OneRefresh, Alive
    <2>2. Alive' = {}
      BY <1>3, <2>1 DEF KeepLastGood, Alive
    <2>3. OneRefresh'
      <3>1. refreshing' = FALSE
        BY <1>3 DEF KeepLastGood
      <3>2. \A i, k \in Alive' : i = k
        BY <2>2
      <3>3. refreshing' <=> Alive' # {}
        BY <2>2, <3>1, Zenon
      <3> QED
        BY <3>2, <3>3, Zenon DEF OneRefresh
    <2>4. (StoreTypeOK /\ SuppressorTypeOK)'
      <3>1. refreshing' \in BOOLEAN /\ built' \in BOOLEAN
        BY <1>3, Zenon DEF KeepLastGood
      <3>2. 0 \in 0..TTL /\ TTL \in 0..TTL
        OBVIOUS
      <3> QED
        BY <1>3, <3>1, <3>2 DEF KeepLastGood
    <2>5. SuppressorBehind'
      BY <1>3, <2>1, <2>2 DEF KeepLastGood, Alive
    <2> QED
      BY <2>3, <2>4, <2>5
  <1>4. ASSUME NEW j \in Jobs, Install(j)
        PROVE  Suppressor_'
    <2>1. Alive = {j}
      BY <1>4 DEF Install, OneRefresh, Alive
    <2>2. Alive' = {}
      BY <1>4, <2>1 DEF Install, Alive
    <2>3. OneRefresh'
      <3>1. refreshing' = FALSE
        BY <1>4 DEF Install
      <3>2. \A i, k \in Alive' : i = k
        BY <2>2
      <3>3. refreshing' <=> Alive' # {}
        BY <2>2, <3>1, Zenon
      <3> QED
        BY <3>2, <3>3, Zenon DEF OneRefresh
    <2>4. (StoreTypeOK /\ SuppressorTypeOK)'
      <3>1. refreshing' \in BOOLEAN /\ built' \in BOOLEAN
        BY <1>4, Zenon DEF Install
      <3>2. 0 \in 0..TTL /\ TTL \in 0..TTL
        OBVIOUS
      <3> QED
        BY <1>4, <3>1, <3>2 DEF Install
    <2>5. SuppressorBehind'
      BY <1>4, <2>1, <2>2 DEF Install, Alive
    <2> QED
      BY <2>3, <2>4, <2>5
  <1> QED
    BY <1>1, <1>2, <1>3, <1>4 DEF SuppressorNext, Refresh

\* A step of the block's cache keeps its part of the invariant.
LEMMA BlockStep ==
  ASSUME Block_, BlockNext, UNCHANGED store
  PROVE  Block_'
  <1> USE SignalHistoryAssumption, PersonalizationCacheAssumption
          DEF Block_, StoreTypeOK, BlockTypeOK, BlockBehind, Dated, Holding, store
  <1>1. ASSUME NEW b \in Builders, BuildPrompt(b)
        PROVE  Block_'
    BY <1>1 DEF BuildPrompt
  <1>2. ASSUME NEW b \in Builders, Snapshot(b)
        PROVE  Block_'
    BY <1>2 DEF Snapshot
  <1>3. ASSUME NEW b \in Builders, Examples(b)
        PROVE  Block_'
    BY <1>3 DEF Examples
  <1>4. ASSUME NEW b \in Builders, ServeLastGood(b)
        PROVE  Block_'
    BY <1>4 DEF ServeLastGood
  <1>5. ASSUME NEW b \in Builders, Render(b)
        PROVE  Block_'
    <2>1. \A c \in Builders : builder[c] = "ok" => c = b
      BY <1>5 DEF Render
    <2>2. \A c \in Builders : builder'[c] # "ok"
      BY <1>5, <2>1 DEF Render
    <2> QED
      BY <1>5, <2>1, <2>2 DEF Render
  <1> QED
    BY <1>1, <1>2, <1>3, <1>4, <1>5 DEF BlockNext, Finish

-----------------------------------------------------------------------------

\* The invariant holds at the start.
THEOREM InitInv == Init => IInv
  <1> SUFFICES ASSUME Init PROVE IInv
    OBVIOUS
  <1> USE DEF Init, StoreInit, SuppressorInit, BlockInit
  <1>1. TypeOK
    <2>1. refreshing \in BOOLEAN /\ built \in BOOLEAN /\ blockBuilt \in BOOLEAN
      BY Zenon
    <2> QED
      BY <2>1, SignalHistoryAssumption, SuppressorAssumption, PersonalizationCacheAssumption
      DEF TypeOK, StoreTypeOK, SuppressorTypeOK, BlockTypeOK, Holding
  <1>2. OneRefresh
    <2>1. Alive = {}
      BY DEF Alive
    <2>2. refreshing = FALSE
      OBVIOUS
    <2>3. refreshing <=> Alive # {}
      BY <2>1, <2>2, Zenon
    <2>4. \A i, j \in Alive : i = j
      BY <2>1
    <2> QED
      BY <2>3, <2>4, Zenon DEF OneRefresh
  <1>3. SuppressorBehind /\ BlockBehind /\ Dated
    BY DEF SuppressorBehind, BlockBehind, Dated
  <1> QED
    BY <1>1, <1>2, <1>3 DEF IInv

\* Every step keeps it.
THEOREM StepInv == IInv /\ [Next]_vars => IInv'
  <1> SUFFICES ASSUME IInv, [Next]_vars PROVE IInv'
    OBVIOUS
  <1> USE DEF IInv, TypeOK
  <1>1. CASE RecordSignal /\ UNCHANGED <<suppressor, block>>
    BY <1>1, SignalHistoryAssumption
    DEF RecordSignal, suppressor, block, StoreTypeOK, SuppressorTypeOK, BlockTypeOK, OneRefresh,
        Alive, Holding, SuppressorBehind, BlockBehind, Dated
  <1>2. CASE StoreFlips /\ UNCHANGED <<suppressor, block>>
    BY <1>2
    DEF StoreFlips, suppressor, block, StoreTypeOK, SuppressorTypeOK, BlockTypeOK, OneRefresh,
        Alive, Holding, SuppressorBehind, BlockBehind, Dated
  <1>3. CASE SuppressorNext /\ UNCHANGED <<store, block>>
    <2>1. Suppressor_'
      BY <1>3, SuppressorStep DEF Suppressor_
    <2>2. Block_'
      BY <1>3 DEF Block_, store, block, StoreTypeOK, BlockTypeOK, Holding, BlockBehind, Dated
    <2> QED
      BY <2>1, <2>2 DEF Suppressor_, Block_
  <1>4. CASE BlockNext /\ UNCHANGED <<store, suppressor>>
    <2>1. Block_'
      BY <1>4, BlockStep DEF Block_
    <2>2. Suppressor_'
      BY <1>4 DEF Suppressor_, store, suppressor, StoreTypeOK, SuppressorTypeOK, OneRefresh, Alive,
                  SuppressorBehind
    <2> QED
      BY <2>1, <2>2 DEF Suppressor_, Block_
  <1>5. CASE Tick
    BY <1>5, SuppressorAssumption, PersonalizationCacheAssumption
    DEF Tick, SuppressorTick, BlockTick, store, StoreTypeOK, SuppressorTypeOK, BlockTypeOK,
        OneRefresh, Alive, Holding, SuppressorBehind, BlockBehind, Dated
  <1>6. CASE UNCHANGED vars
    BY <1>6 DEF vars, store, suppressor, block, StoreTypeOK, SuppressorTypeOK, BlockTypeOK,
                OneRefresh, Alive, Holding, SuppressorBehind, BlockBehind, Dated
  <1> QED
    BY <1>1, <1>2, <1>3, <1>4, <1>5, <1>6 DEF Next

\* The invariant holds throughout.
THEOREM Invariance == Spec => []IInv
  BY InitInv, StepInv, PTL DEF Spec

\* Every variable has its type, and one builder at a time holds the mutex.
THEOREM TypeCorrect == Spec => []TypeOK
  BY Invariance, PTL DEF IInv

\* At most one refresh is out, and the refreshing flag says whether one is.
THEOREM RefreshIsSingle == Spec => []OneRefresh
  BY Invariance, PTL DEF IInv

\* Cache.Snapshot sets builtAt whatever the query's outcome, and asks again
\* only a time to live later: nobody who waited for the mutex meanwhile
\* starts another query.
THEOREM QueriesAreSpaced == Spec => QueriesSpaced
  <1> DEFINE Spaced == \A b \in Builders : builder[b] # "query" /\ builder'[b] = "query" => quiet = BlockTTL
  <1>1. IInv /\ [Next]_vars => [Spaced]_block
    <2> SUFFICES ASSUME IInv, Next, NEW b \in Builders, builder[b] # "query", builder'[b] = "query"
                 PROVE  quiet = BlockTTL
      BY DEF vars, block
    <2>1. builder' # builder
      OBVIOUS
    <2>2. BlockNext
      BY <2>1 DEF Next, Tick, BlockTick, block
    <2>3. PICK c \in Builders : BuildPrompt(c) \/ Snapshot(c) \/ Finish(c)
      BY <2>2 DEF BlockNext
    <2>4. Snapshot(c) /\ ~Current
      BY <2>3 DEF IInv, TypeOK, BlockTypeOK, BuildPrompt, Snapshot, Finish, Examples, ServeLastGood, Render
    <2> QED
      BY <2>4, PersonalizationCacheAssumption DEF Current, IInv, Dated, TypeOK, BlockTypeOK
  <1> QED
    BY <1>1, Invariance, PTL DEF Spec, QueriesSpaced

-----------------------------------------------------------------------------
(* Refinement. *)

\* RejectSuppressor.Suppressed and ConfidenceCalibrator.Calibrated show a
\* state of the history and never an earlier one than before.
THEOREM SuppressorImplementsView == Spec => SuppressorIsView
  <1>1. Init => View!Init
    BY DEF Init, StoreInit, SuppressorInit, View!Init
  <1>2. IInv /\ [Next]_vars => [View!Next]_<<version, pairs>>
    <2> SUFFICES ASSUME IInv, [Next]_vars PROVE [View!Next]_<<version, pairs>>
      OBVIOUS
    <2>1. CASE RecordSignal /\ UNCHANGED <<suppressor, block>>
      BY <2>1 DEF RecordSignal, suppressor, View!Next, View!Record
    <2>2. ASSUME NEW j \in Jobs, Install(j), UNCHANGED store
          PROVE  [View!Next]_<<version, pairs>>
      BY <2>2 DEF Install, store, IInv, TypeOK, SuppressorTypeOK, StoreTypeOK, SuppressorBehind,
                  View!Next, View!CatchUp
    <2>3. CASE SuppressorNext /\ UNCHANGED <<store, block>>
      BY <2>2, <2>3 DEF SuppressorNext, Refresh, Suppressed, Query, KeepLastGood, store
    <2>4. CASE UNCHANGED <<version, pairs>>
      BY <2>4
    <2> QED
      BY <2>1, <2>3, <2>4 DEF Next, StoreFlips, Tick, store, suppressor, vars
  <1> QED
    BY <1>1, <1>2, Invariance, PTL DEF Spec, SuppressorIsView, View!Spec

\* personalization.Cache.Snapshot does, too.
THEOREM BlockImplementsView == Spec => BlockIsView
  <1>1. Init => BlockView!Init
    BY DEF Init, StoreInit, BlockInit, BlockView!Init
  <1>2. IInv /\ [Next]_vars => [BlockView!Next]_<<version, snap>>
    <2> SUFFICES ASSUME IInv, [Next]_vars PROVE [BlockView!Next]_<<version, snap>>
      OBVIOUS
    <2>1. CASE RecordSignal /\ UNCHANGED <<suppressor, block>>
      BY <2>1 DEF RecordSignal, block, BlockView!Next, BlockView!Record
    <2>2. ASSUME NEW b \in Builders, Render(b), UNCHANGED store
          PROVE  [BlockView!Next]_<<version, snap>>
      BY <2>2 DEF Render, store, IInv, TypeOK, BlockTypeOK, StoreTypeOK, BlockBehind,
                  BlockView!Next, BlockView!CatchUp
    <2>3. CASE BlockNext /\ UNCHANGED <<store, suppressor>>
      BY <2>2, <2>3 DEF BlockNext, Finish, BuildPrompt, Snapshot, Examples, ServeLastGood, store
    <2>4. CASE UNCHANGED <<version, snap>>
      BY <2>4
    <2> QED
      BY <2>1, <2>3, <2>4 DEF Next, StoreFlips, Tick, store, block, vars
  <1> QED
    BY <1>1, <1>2, Invariance, PTL DEF Spec, BlockIsView, BlockView!Spec

-----------------------------------------------------------------------------
(* The browser: requests through the background worker. *)

RelayNames == {"call", "sent", "inFlight", "job", "aborted", "replies", "deaths"}
Asking(id) == Relay!Message_("BRIDGE_REQUEST", id)
Cancelling(id) == Relay!Message_("BRIDGE_CANCEL", id)

RelayShape(r) ==
  /\ DOMAIN r = RelayNames
  /\ r.call \in [Fields -> {"idle", "waiting", "resolved", "rejected", "aborted"}]
  /\ r.sent \in Seq(Relay!Message)
  /\ r.inFlight \subseteq Fields /\ r.aborted \subseteq Fields
  /\ r.job \in [Fields -> {"none", "settings", "fetching"}]
  /\ r.replies \subseteq Relay!Reply

\* A request is sent once, before the worker knows of it, and a cancel comes after it.
SentOnce(r) ==
  \A id \in Fields : \A i \in 1..Len(r.sent) : r.sent[i] = Asking(id) =>
    /\ r.call[id] # "idle" /\ r.job[id] = "none" /\ id \notin r.aborted
    /\ \A k \in 1..Len(r.sent) : r.sent[k] = Asking(id) => k = i
    /\ r.call[id] = "aborted" => \E k \in (i + 1)..Len(r.sent) : r.sent[k] = Cancelling(id)

\* The worker works at what was sent; it can cancel what is in flight, and what is
\* not wanted is aborted or about to be.
Worked(r) ==
  \A id \in Fields :
    /\ id \in r.inFlight <=> r.job[id] # "none" /\ id \notin r.aborted
    /\ r.job[id] # "none" \/ id \in r.aborted => r.call[id] # "idle"
    /\ r.job[id] # "none" /\ r.call[id] = "aborted" =>
         id \in r.aborted \/ \E k \in 1..Len(r.sent) : r.sent[k] = Cancelling(id)

Awaited(r) ==
  \A id \in Fields : r.call[id] = "waiting" =>
    \/ \E k \in 1..Len(r.sent) : r.sent[k] = Asking(id)
    \/ r.job[id] # "none"
    \/ \E reply \in r.replies : reply.id = id

RelayInv(r) == RelayShape(r) /\ SentOnce(r) /\ Worked(r) /\ Awaited(r)

\* The two kinds of messages are told apart by their type, and by what they are of.
LEMMA MessagesApart ==
  ASSUME NEW id \in Fields
  PROVE  /\ Asking(id) \in Relay!Message /\ Cancelling(id) \in Relay!Message
         /\ \A other : Asking(id) # Cancelling(other) /\ Cancelling(id) # Asking(other)
         /\ \A other : Asking(id) = Asking(other) => id = other
         /\ \A other : Cancelling(id) = Cancelling(other) => id = other
         /\ Asking(id).type = "BRIDGE_REQUEST" /\ Cancelling(id).type = "BRIDGE_CANCEL"
         /\ Asking(id).id = id /\ Cancelling(id).id = id
  <1>1. \A other : /\ Asking(other).type = "BRIDGE_REQUEST" /\ Cancelling(other).type = "BRIDGE_CANCEL"
                   /\ Asking(other).id = other /\ Cancelling(other).id = other
    BY DEF Asking, Cancelling, Relay!Message_
  <1>2. Asking(id) \in Relay!Message /\ Cancelling(id) \in Relay!Message
    BY DEF Asking, Cancelling, Relay!Message_, Relay!Message
  <1> QED
    BY <1>1, <1>2

\* A message is a request or a cancel, of one id.
LEMMA MessageKinds ==
  ASSUME NEW m \in Relay!Message
  PROVE  m.id \in Fields /\ (m = Asking(m.id) \/ m = Cancelling(m.id))
  BY DEF Asking, Cancelling, Relay!Message_, Relay!Message

\* At first nothing was asked, and nothing is on its way.
LEMMA RelayInit == Relay!Init => RelayInv(state)
  <1> SUFFICES ASSUME Relay!Init PROVE RelayInv(state)
    OBVIOUS
  <1>1. RelayShape(state) /\ state.sent = <<>>
    BY DEF Relay!Init, RelayShape, RelayNames
  <1>2. \A id \in Fields : state.call[id] = "idle" /\ state.job[id] = "none" /\ id \notin state.aborted
                           /\ id \notin state.inFlight
    BY DEF Relay!Init
  <1> QED
    BY <1>1, <1>2 DEF RelayInv, SentOnce, Worked, Awaited

\* A call is begun.
LEMMA SendStep ==
  ASSUME RelayInv(state), NEW id \in Fields, Relay!Send(id)
  PROVE  RelayInv(state')
  <1> DEFINE r == state
             s == state'
             n == Len(r.sent)
  <1>1. RelayShape(r) /\ SentOnce(r) /\ Worked(r) /\ Awaited(r) /\ r.call[id] = "idle"
    BY DEF RelayInv, Relay!Send
  <1>2. /\ DOMAIN s = RelayNames
        /\ s.call = [r.call EXCEPT ![id] = "waiting"] /\ s.sent = Append(r.sent, Asking(id))
        /\ s.inFlight = r.inFlight /\ s.job = r.job /\ s.aborted = r.aborted /\ s.replies = r.replies
    BY <1>1 DEF Relay!Send, RelayShape, RelayNames, Asking
  <1>3. /\ Len(s.sent) = n + 1 /\ n \in Nat /\ s.sent[n + 1] = Asking(id)
        /\ \A k \in 1..n : s.sent[k] = r.sent[k]
    BY <1>1, <1>2 DEF RelayShape
  <1>4. RelayShape(s)
    BY <1>1, <1>2, MessagesApart DEF RelayShape
  <1>5. s.call[id] = "waiting" /\ \A other \in Fields \ {id} : s.call[other] = r.call[other]
    BY <1>1, <1>2 DEF RelayShape
  <1>6. r.job[id] = "none" /\ id \notin r.aborted /\ \A k \in 1..n : r.sent[k] # Asking(id)
    BY <1>1 DEF Worked, SentOnce
  <1>7. SentOnce(s)
    <2> SUFFICES ASSUME NEW o \in Fields, NEW i \in 1..Len(s.sent), s.sent[i] = Asking(o)
                 PROVE  /\ s.call[o] # "idle" /\ s.job[o] = "none" /\ o \notin s.aborted
                        /\ \A k \in 1..Len(s.sent) : s.sent[k] = Asking(o) => k = i
                        /\ s.call[o] = "aborted" =>
                             \E k \in (i + 1)..Len(s.sent) : s.sent[k] = Cancelling(o)
      BY DEF SentOnce
    <2>1. CASE o = id
      BY <2>1, <1>2, <1>3, <1>5, <1>6
    <2>2. CASE o # id
      <3>1. i \in 1..n /\ r.sent[i] = Asking(o)
        BY <2>2, <1>3, MessagesApart
      <3>2. r.call[o] # "idle" /\ r.job[o] = "none" /\ o \notin r.aborted
        BY <3>1, <1>1 DEF SentOnce
      <3>3. \A k \in 1..Len(s.sent) : s.sent[k] = Asking(o) => k = i
        BY <3>1, <2>2, <1>1, <1>3, MessagesApart DEF SentOnce
      <3>4. s.call[o] = "aborted" => \E k \in (i + 1)..Len(s.sent) : s.sent[k] = Cancelling(o)
        <4>1. r.call[o] = "aborted" => \E k \in (i + 1)..n : r.sent[k] = Cancelling(o)
          BY <3>1, <1>1 DEF SentOnce
        <4> QED
          BY <4>1, <1>3, <1>5, <2>2, <3>1
      <3> QED
        BY <3>2, <3>3, <3>4, <2>2, <1>2, <1>5
    <2> QED
      BY <2>1, <2>2
  <1>8. Worked(s)
    <2> SUFFICES ASSUME NEW o \in Fields
                 PROVE  /\ o \in s.inFlight <=> s.job[o] # "none" /\ o \notin s.aborted
                        /\ s.job[o] # "none" \/ o \in s.aborted => s.call[o] # "idle"
                        /\ s.job[o] # "none" /\ s.call[o] = "aborted" =>
                             o \in s.aborted \/ \E k \in 1..Len(s.sent) : s.sent[k] = Cancelling(o)
      BY DEF Worked
    <2>1. CASE o = id
      BY <2>1, <1>1, <1>2, <1>5, <1>6 DEF Worked
    <2>2. CASE o # id
      <3>1. r.job[o] # "none" /\ r.call[o] = "aborted" =>
              o \in r.aborted \/ \E k \in 1..n : r.sent[k] = Cancelling(o)
        BY <1>1 DEF Worked
      <3> QED
        BY <3>1, <2>2, <1>1, <1>2, <1>3, <1>5 DEF Worked
    <2> QED
      BY <2>1, <2>2
  <1>9. Awaited(s)
    <2> SUFFICES ASSUME NEW o \in Fields, s.call[o] = "waiting"
                 PROVE  \/ \E k \in 1..Len(s.sent) : s.sent[k] = Asking(o)
                        \/ s.job[o] # "none"
                        \/ \E reply \in s.replies : reply.id = o
      BY DEF Awaited
    <2>1. CASE o = id
      BY <2>1, <1>3
    <2>2. CASE o # id
      <3>1. \/ \E k \in 1..n : r.sent[k] = Asking(o)
            \/ r.job[o] # "none"
            \/ \E reply \in r.replies : reply.id = o
        BY <2>2, <1>1, <1>5 DEF Awaited
      <3> QED
        BY <3>1, <1>2, <1>3
    <2> QED
      BY <2>1, <2>2
  <1> QED
    BY <1>4, <1>7, <1>8, <1>9 DEF RelayInv

\* A caller gives up.
LEMMA AbortStep ==
  ASSUME RelayInv(state), NEW id \in Fields, Relay!Abort(id)
  PROVE  RelayInv(state')
  <1> DEFINE r == state
             s == state'
             n == Len(r.sent)
  <1>1. RelayShape(r) /\ SentOnce(r) /\ Worked(r) /\ Awaited(r) /\ r.call[id] = "waiting"
    BY DEF RelayInv, Relay!Abort
  <1>2. /\ DOMAIN s = RelayNames
        /\ s.call = [r.call EXCEPT ![id] = "aborted"] /\ s.sent = Append(r.sent, Cancelling(id))
        /\ s.inFlight = r.inFlight /\ s.job = r.job /\ s.aborted = r.aborted /\ s.replies = r.replies
    BY <1>1 DEF Relay!Abort, RelayShape, RelayNames, Cancelling
  <1>3. /\ Len(s.sent) = n + 1 /\ n \in Nat /\ s.sent[n + 1] = Cancelling(id)
        /\ \A k \in 1..n : s.sent[k] = r.sent[k]
    BY <1>1, <1>2 DEF RelayShape
  <1>4. RelayShape(s)
    BY <1>1, <1>2, MessagesApart DEF RelayShape
  <1>5. s.call[id] = "aborted" /\ \A other \in Fields \ {id} : s.call[other] = r.call[other]
    BY <1>1, <1>2 DEF RelayShape
  <1>7. SentOnce(s)
    <2> SUFFICES ASSUME NEW o \in Fields, NEW i \in 1..Len(s.sent), s.sent[i] = Asking(o)
                 PROVE  /\ s.call[o] # "idle" /\ s.job[o] = "none" /\ o \notin s.aborted
                        /\ \A k \in 1..Len(s.sent) : s.sent[k] = Asking(o) => k = i
                        /\ s.call[o] = "aborted" =>
                             \E k \in (i + 1)..Len(s.sent) : s.sent[k] = Cancelling(o)
      BY DEF SentOnce
    <2>1. i \in 1..n /\ r.sent[i] = Asking(o)
      BY <1>3, MessagesApart
    <2>2. r.call[o] # "idle" /\ r.job[o] = "none" /\ o \notin r.aborted
      BY <2>1, <1>1 DEF SentOnce
    <2>3. \A k \in 1..Len(s.sent) : s.sent[k] = Asking(o) => k = i
      BY <2>1, <1>1, <1>3, MessagesApart DEF SentOnce
    <2>4. s.call[o] = "aborted" => \E k \in (i + 1)..Len(s.sent) : s.sent[k] = Cancelling(o)
      <3>1. r.call[o] = "aborted" => \E k \in (i + 1)..n : r.sent[k] = Cancelling(o)
        BY <2>1, <1>1 DEF SentOnce
      <3>2. CASE o = id
        BY <3>2, <2>1, <1>3
      <3>3. CASE o # id
        BY <3>1, <3>3, <1>3, <1>5, <2>1
      <3> QED
        BY <3>2, <3>3
    <2> QED
      BY <2>2, <2>3, <2>4, <1>2, <1>5
  <1>8. Worked(s)
    <2> SUFFICES ASSUME NEW o \in Fields
                 PROVE  /\ o \in s.inFlight <=> s.job[o] # "none" /\ o \notin s.aborted
                        /\ s.job[o] # "none" \/ o \in s.aborted => s.call[o] # "idle"
                        /\ s.job[o] # "none" /\ s.call[o] = "aborted" =>
                             o \in s.aborted \/ \E k \in 1..Len(s.sent) : s.sent[k] = Cancelling(o)
      BY DEF Worked
    <2>1. CASE o = id
      BY <2>1, <1>1, <1>2, <1>3, <1>5 DEF Worked
    <2>2. CASE o # id
      <3>1. r.job[o] # "none" /\ r.call[o] = "aborted" =>
              o \in r.aborted \/ \E k \in 1..n : r.sent[k] = Cancelling(o)
        BY <1>1 DEF Worked
      <3>2. /\ o \in r.inFlight <=> r.job[o] # "none" /\ o \notin r.aborted
            /\ r.job[o] # "none" \/ o \in r.aborted => r.call[o] # "idle"
        BY <1>1 DEF Worked
      <3>3. s.call[o] = r.call[o] /\ s.job[o] = r.job[o] /\ s.inFlight = r.inFlight /\ s.aborted = r.aborted
        BY <2>2, <1>2, <1>5
      <3>4. (\E k \in 1..n : r.sent[k] = Cancelling(o)) => \E k \in 1..Len(s.sent) : s.sent[k] = Cancelling(o)
        BY <1>3
      <3> QED
        BY <3>1, <3>2, <3>3, <3>4
    <2> QED
      BY <2>1, <2>2
  <1>9. Awaited(s)
    <2> SUFFICES ASSUME NEW o \in Fields, s.call[o] = "waiting"
                 PROVE  \/ \E k \in 1..Len(s.sent) : s.sent[k] = Asking(o)
                        \/ s.job[o] # "none"
                        \/ \E reply \in s.replies : reply.id = o
      BY DEF Awaited
    <2>1. r.call[o] = "waiting"
      BY <1>5, <1>1
    <2>2. \/ \E k \in 1..n : r.sent[k] = Asking(o)
          \/ r.job[o] # "none"
          \/ \E reply \in r.replies : reply.id = o
      BY <2>1, <1>1 DEF Awaited
    <2> QED
      BY <2>2, <1>2, <1>3
  <1> QED
    BY <1>4, <1>7, <1>8, <1>9 DEF RelayInv

\* A message is taken: what was behind it moves up, and it changes only its own id.
LEMMA ListenStep ==
  ASSUME RelayInv(state), Relay!Listen
  PROVE  RelayInv(state')
  <1> DEFINE r == state
             s == state'
             n == Len(r.sent)
             m == Head(r.sent)
             id == m.id
  <1>1. RelayShape(r) /\ SentOnce(r) /\ Worked(r) /\ Awaited(r) /\ r.sent # <<>>
    BY DEF RelayInv, Relay!Listen
  <1>2. /\ n \in Nat \ {0} /\ m = r.sent[1] /\ m \in Relay!Message
        /\ Tail(r.sent) \in Seq(Relay!Message) /\ Len(Tail(r.sent)) = n - 1
        /\ \A k \in 1..(n - 1) : Tail(r.sent)[k] = r.sent[k + 1]
    BY <1>1 DEF RelayShape
  <1>3. id \in Fields /\ (m = Asking(id) \/ m = Cancelling(id))
    BY <1>2, MessageKinds
  <1>4. CASE m = Asking(id)
    <2>1. r.job[id] = "none" /\ id \notin r.aborted /\ id \notin r.inFlight /\ r.call[id] # "idle"
      BY <1>4, <1>1, <1>2, <1>3 DEF SentOnce, Worked
    <2>2. /\ DOMAIN s = RelayNames /\ s.sent = Tail(r.sent) /\ s.call = r.call
          /\ s.inFlight = r.inFlight \cup {id} /\ s.job = [r.job EXCEPT ![id] = "settings"]
          /\ s.aborted = r.aborted /\ s.replies = r.replies
      BY <1>4, <1>1, <1>3, <2>1, MessagesApart
      DEF Relay!Listen, Relay!Request, RelayShape, RelayNames
    <2>3. s.job[id] = "settings" /\ \A other \in Fields \ {id} : s.job[other] = r.job[other]
      BY <1>1, <1>3, <2>2 DEF RelayShape
    <2>4. RelayShape(s)
      BY <1>1, <1>2, <1>3, <2>2 DEF RelayShape
    <2>5. SentOnce(s)
      <3> SUFFICES ASSUME NEW o \in Fields, NEW i \in 1..Len(s.sent), s.sent[i] = Asking(o)
                   PROVE  /\ s.call[o] # "idle" /\ s.job[o] = "none" /\ o \notin s.aborted
                          /\ \A k \in 1..Len(s.sent) : s.sent[k] = Asking(o) => k = i
                          /\ s.call[o] = "aborted" =>
                               \E k \in (i + 1)..Len(s.sent) : s.sent[k] = Cancelling(o)
        BY DEF SentOnce
      <3>1. i + 1 \in 1..n /\ r.sent[i + 1] = Asking(o)
        BY <1>2, <2>2
      <3>2. /\ r.call[o] # "idle" /\ r.job[o] = "none" /\ o \notin r.aborted
            /\ \A k \in 1..n : r.sent[k] = Asking(o) => k = i + 1
            /\ r.call[o] = "aborted" => \E k \in (i + 2)..n : r.sent[k] = Cancelling(o)
        <4>1. (i + 1) + 1 = i + 2
          OBVIOUS
        <4> QED
          BY <3>1, <1>1, <4>1 DEF SentOnce
      <3>3. o # id
        BY <3>2, <1>4, <1>2
      <3>4. \A k \in 1..Len(s.sent) : s.sent[k] = Asking(o) => k = i
        BY <3>2, <1>2, <2>2
      <3>5. s.call[o] = "aborted" => \E k \in (i + 1)..Len(s.sent) : s.sent[k] = Cancelling(o)
        <4> SUFFICES ASSUME s.call[o] = "aborted"
                     PROVE  \E k \in (i + 1)..Len(s.sent) : s.sent[k] = Cancelling(o)
          OBVIOUS
        <4>1. PICK k \in (i + 2)..n : r.sent[k] = Cancelling(o)
          BY <3>2, <2>2
        <4>w. k - 1 \in (i + 1)..Len(s.sent) /\ s.sent[k - 1] = Cancelling(o)
          BY <4>1, <1>2, <2>2
        <4> QED
          BY <4>w
      <3> QED
        BY <3>2, <3>3, <3>4, <3>5, <2>2, <2>3
    <2>6. Worked(s)
      <3> SUFFICES ASSUME NEW o \in Fields
                   PROVE  /\ o \in s.inFlight <=> s.job[o] # "none" /\ o \notin s.aborted
                          /\ s.job[o] # "none" \/ o \in s.aborted => s.call[o] # "idle"
                          /\ s.job[o] # "none" /\ s.call[o] = "aborted" =>
                               o \in s.aborted \/ \E k \in 1..Len(s.sent) : s.sent[k] = Cancelling(o)
        BY DEF Worked
      <3>1. CASE o = id
        <4>1. s.call[id] = "aborted" => \E k \in 1..Len(s.sent) : s.sent[k] = Cancelling(id)
          <5> SUFFICES ASSUME s.call[id] = "aborted"
                       PROVE  \E k \in 1..Len(s.sent) : s.sent[k] = Cancelling(id)
            OBVIOUS
          <5>1. \E k \in (1 + 1)..n : r.sent[k] = Cancelling(id)
            BY <1>1, <1>2, <1>3, <1>4, <2>2 DEF SentOnce
          <5>2. PICK k \in 2..n : r.sent[k] = Cancelling(id)
            BY <5>1
          <5>w. k - 1 \in 1..Len(s.sent) /\ s.sent[k - 1] = Cancelling(id)
            BY <5>2, <1>2, <2>2
          <5> QED
            BY <5>w
        <4> QED
          BY <4>1, <3>1, <2>1, <2>2, <2>3
      <3>2. CASE o # id
        <4>1. r.job[o] # "none" /\ r.call[o] = "aborted" =>
                o \in r.aborted \/ \E k \in 1..Len(s.sent) : s.sent[k] = Cancelling(o)
          <5> SUFFICES ASSUME r.job[o] # "none", r.call[o] = "aborted", o \notin r.aborted
                       PROVE  \E k \in 1..Len(s.sent) : s.sent[k] = Cancelling(o)
            OBVIOUS
          <5>1. PICK k \in 1..n : r.sent[k] = Cancelling(o)
            BY <1>1 DEF Worked
          <5>2. k # 1
            BY <5>1, <1>2, <1>3, <1>4, MessagesApart
          <5>w. k - 1 \in 1..Len(s.sent) /\ s.sent[k - 1] = Cancelling(o)
            BY <5>1, <5>2, <1>2, <2>2
          <5> QED
            BY <5>w
        <4> QED
          BY <4>1, <3>2, <1>1, <2>2, <2>3 DEF Worked
      <3> QED
        BY <3>1, <3>2
    <2>7. Awaited(s)
      <3> SUFFICES ASSUME NEW o \in Fields, s.call[o] = "waiting", o # id
                   PROVE  \/ \E k \in 1..Len(s.sent) : s.sent[k] = Asking(o)
                          \/ s.job[o] # "none"
                          \/ \E reply \in s.replies : reply.id = o
        BY <2>3 DEF Awaited
      <3>1. CASE \E k \in 1..n : r.sent[k] = Asking(o)
        <4>1. PICK k \in 1..n : r.sent[k] = Asking(o)
          BY <3>1
        <4>2. k # 1
          BY <4>1, <1>2, <1>3, <1>4, MessagesApart
        <4>3. k - 1 \in 1..Len(s.sent) /\ s.sent[k - 1] = Asking(o)
          BY <4>1, <4>2, <1>2, <2>2
        <4> QED
          BY <4>3
      <3>2. CASE r.job[o] # "none" \/ \E reply \in r.replies : reply.id = o
        BY <3>2, <2>2, <2>3
      <3> QED
        BY <3>1, <3>2, <1>1, <2>2 DEF Awaited
    <2> QED
      BY <2>4, <2>5, <2>6, <2>7 DEF RelayInv
  <1>5. CASE m = Cancelling(id)
    <2>1. /\ DOMAIN s = RelayNames /\ s.sent = Tail(r.sent) /\ s.call = r.call
          /\ s.inFlight = r.inFlight \ {id} /\ s.job = r.job
          /\ s.aborted = (IF id \in r.inFlight THEN r.aborted \cup {id} ELSE r.aborted)
          /\ s.replies = r.replies
      BY <1>5, <1>1, <1>3, MessagesApart DEF Relay!Listen, Relay!Cancel, RelayShape, RelayNames
    <2>4. RelayShape(s)
      BY <1>1, <1>2, <1>3, <2>1 DEF RelayShape
    <2>5. SentOnce(s)
      <3> SUFFICES ASSUME NEW o \in Fields, NEW i \in 1..Len(s.sent), s.sent[i] = Asking(o)
                   PROVE  /\ s.call[o] # "idle" /\ s.job[o] = "none" /\ o \notin s.aborted
                          /\ \A k \in 1..Len(s.sent) : s.sent[k] = Asking(o) => k = i
                          /\ s.call[o] = "aborted" =>
                               \E k \in (i + 1)..Len(s.sent) : s.sent[k] = Cancelling(o)
        BY DEF SentOnce
      <3>1. i + 1 \in 1..n /\ r.sent[i + 1] = Asking(o)
        BY <1>2, <2>1
      <3>2. /\ r.call[o] # "idle" /\ r.job[o] = "none" /\ o \notin r.aborted
            /\ \A k \in 1..n : r.sent[k] = Asking(o) => k = i + 1
            /\ r.call[o] = "aborted" => \E k \in (i + 2)..n : r.sent[k] = Cancelling(o)
        <4>1. (i + 1) + 1 = i + 2
          OBVIOUS
        <4> QED
          BY <3>1, <1>1, <4>1 DEF SentOnce
      <3>3. o \notin s.aborted
        BY <3>2, <2>1, <1>1 DEF Worked
      <3>4. \A k \in 1..Len(s.sent) : s.sent[k] = Asking(o) => k = i
        <4> SUFFICES ASSUME NEW k \in 1..Len(s.sent), s.sent[k] = Asking(o) PROVE k = i
          OBVIOUS
        <4>1. k + 1 \in 1..n /\ r.sent[k + 1] = Asking(o)
          BY <1>2, <2>1
        <4>2. k + 1 = i + 1
          BY <3>2, <4>1
        <4> QED
          BY <4>2
      <3>5. s.call[o] = "aborted" => \E k \in (i + 1)..Len(s.sent) : s.sent[k] = Cancelling(o)
        <4> SUFFICES ASSUME s.call[o] = "aborted"
                     PROVE  \E k \in (i + 1)..Len(s.sent) : s.sent[k] = Cancelling(o)
          OBVIOUS
        <4>1. PICK k \in (i + 2)..n : r.sent[k] = Cancelling(o)
          BY <3>2, <2>1
        <4>w. k - 1 \in (i + 1)..Len(s.sent) /\ s.sent[k - 1] = Cancelling(o)
          BY <4>1, <1>2, <2>1
        <4> QED
          BY <4>w
      <3> QED
        BY <3>2, <3>3, <3>4, <3>5, <2>1
    <2>6. Worked(s)
      <3> SUFFICES ASSUME NEW o \in Fields
                   PROVE  /\ o \in s.inFlight <=> s.job[o] # "none" /\ o \notin s.aborted
                          /\ s.job[o] # "none" \/ o \in s.aborted => s.call[o] # "idle"
                          /\ s.job[o] # "none" /\ s.call[o] = "aborted" =>
                               o \in s.aborted \/ \E k \in 1..Len(s.sent) : s.sent[k] = Cancelling(o)
        BY DEF Worked
      <3>1. CASE o = id
        <4>1. r.job[id] # "none" => id \in s.aborted
          BY <2>1, <1>1, <1>3 DEF Worked
        <4>2. r.job[id] = "none" => id \notin r.inFlight
          BY <1>1, <1>3 DEF Worked
        <4>3. r.job[id] # "none" \/ id \in r.aborted => r.call[id] # "idle"
          BY <1>1, <1>3 DEF Worked
        <4> QED
          BY <4>1, <4>2, <4>3, <3>1, <2>1
      <3>2. CASE o # id
        <4>1. r.job[o] # "none" /\ r.call[o] = "aborted" =>
                o \in r.aborted \/ \E k \in 1..Len(s.sent) : s.sent[k] = Cancelling(o)
          <5> SUFFICES ASSUME r.job[o] # "none", r.call[o] = "aborted", o \notin r.aborted
                       PROVE  \E k \in 1..Len(s.sent) : s.sent[k] = Cancelling(o)
            OBVIOUS
          <5>1. PICK k \in 1..n : r.sent[k] = Cancelling(o)
            BY <1>1 DEF Worked
          <5>2. k # 1
            BY <5>1, <1>2, <1>3, <1>5, <3>2, MessagesApart
          <5>w. k - 1 \in 1..Len(s.sent) /\ s.sent[k - 1] = Cancelling(o)
            BY <5>1, <5>2, <1>2, <2>1
          <5> QED
            BY <5>w
        <4>2. (o \in s.aborted <=> o \in r.aborted) /\ (o \in s.inFlight <=> o \in r.inFlight)
          BY <3>2, <2>1
        <4> QED
          BY <4>1, <4>2, <1>1, <2>1 DEF Worked
      <3> QED
        BY <3>1, <3>2
    <2>7. Awaited(s)
      <3> SUFFICES ASSUME NEW o \in Fields, s.call[o] = "waiting"
                   PROVE  \/ \E k \in 1..Len(s.sent) : s.sent[k] = Asking(o)
                          \/ s.job[o] # "none"
                          \/ \E reply \in s.replies : reply.id = o
        BY DEF Awaited
      <3>1. CASE \E k \in 1..n : r.sent[k] = Asking(o)
        <4>1. PICK k \in 1..n : r.sent[k] = Asking(o)
          BY <3>1
        <4>2. k # 1
          BY <4>1, <1>2, <1>3, <1>5, MessagesApart
        <4>3. k - 1 \in 1..Len(s.sent) /\ s.sent[k - 1] = Asking(o)
          BY <4>1, <4>2, <1>2, <2>1
        <4> QED
          BY <4>3
      <3>2. CASE r.job[o] # "none" \/ \E reply \in r.replies : reply.id = o
        BY <3>2, <2>1
      <3> QED
        BY <3>1, <3>2, <1>1, <2>1 DEF Awaited
    <2> QED
      BY <2>4, <2>5, <2>6, <2>7 DEF RelayInv
  <1> QED
    BY <1>3, <1>4, <1>5

\* The worker's and the page's other steps take no message: an invariant of messages
\* needs only that what they say of calls and jobs stays so.
LEMMA WorkStep ==
  ASSUME RelayInv(state), NEW id \in Fields, Relay!SettingsRead(id) \/ Relay!Fetched(id)
  PROVE  RelayInv(state')
  <1> DEFINE r == state
             s == state'
  <1>1. RelayShape(r) /\ SentOnce(r) /\ Worked(r) /\ Awaited(r) /\ r.job[id] # "none"
    BY DEF RelayInv, Relay!SettingsRead, Relay!Fetched
  <1>2. CASE s = [r EXCEPT !.job[id] = "fetching"]
    <2>1. /\ DOMAIN s = RelayNames /\ s.sent = r.sent /\ s.call = r.call /\ s.inFlight = r.inFlight
          /\ s.job = [r.job EXCEPT ![id] = "fetching"] /\ s.aborted = r.aborted /\ s.replies = r.replies
      BY <1>2, <1>1 DEF RelayShape, RelayNames
    <2>2. RelayShape(s) /\ \A o \in Fields : (s.job[o] = "none") = (r.job[o] = "none")
      BY <1>1, <2>1 DEF RelayShape
    <2>3. SentOnce(s)
      BY <1>1, <2>1, <2>2 DEF SentOnce
    <2>4. Worked(s)
      BY <1>1, <2>1, <2>2 DEF Worked
    <2>5. Awaited(s)
      BY <1>1, <2>1, <2>2 DEF Awaited
    <2> QED
      BY <2>2, <2>3, <2>4, <2>5 DEF RelayInv
  <1>3. ASSUME NEW success \in BOOLEAN, s = Relay!End(r, id, success)
        PROVE  RelayInv(s)
    <2>1. /\ DOMAIN s = RelayNames /\ s.sent = r.sent /\ s.call = r.call
          /\ s.inFlight = r.inFlight \ {id} /\ s.job = [r.job EXCEPT ![id] = "none"]
          /\ s.aborted = r.aborted /\ s.replies = r.replies \cup {[id |-> id, success |-> success]}
      BY <1>3, <1>1 DEF Relay!End, Relay!Respond, RelayShape, RelayNames
    <2>2. s.job[id] = "none" /\ \A o \in Fields \ {id} : s.job[o] = r.job[o]
      BY <1>1, <2>1 DEF RelayShape
    <2>3. RelayShape(s)
      BY <1>1, <2>1 DEF RelayShape, Relay!Reply
    <2>4. \A o \in Fields : r.job[o] = "none" => s.job[o] = "none"
      BY <2>2
    <2>5. SentOnce(s)
      BY <1>1, <2>1, <2>4 DEF SentOnce
    <2>6. Worked(s)
      BY <1>1, <2>1, <2>2 DEF Worked
    <2>7. Awaited(s)
      <3> SUFFICES ASSUME NEW o \in Fields, s.call[o] = "waiting"
                   PROVE  \/ \E k \in 1..Len(s.sent) : s.sent[k] = Asking(o)
                          \/ s.job[o] # "none"
                          \/ \E reply \in s.replies : reply.id = o
        BY DEF Awaited
      <3>1. CASE o = id
        <4>1. [id |-> id, success |-> success].id = o
          BY <3>1
        <4> QED
          BY <4>1, <2>1
      <3>2. CASE o # id
        <4>1. \/ \E k \in 1..Len(r.sent) : r.sent[k] = Asking(o)
              \/ r.job[o] # "none"
              \/ \E reply \in r.replies : reply.id = o
          BY <1>1, <2>1 DEF Awaited
        <4> QED
          BY <4>1, <3>2, <2>1, <2>2
      <3> QED
        BY <3>1, <3>2
    <2> QED
      BY <2>3, <2>5, <2>6, <2>7 DEF RelayInv
  <1> QED
    BY <1>2, <1>3 DEF Relay!SettingsRead, Relay!Fetched

\* An answer reaches the page.
LEMMA SettleCallStep ==
  ASSUME RelayInv(state), NEW reply \in state.replies, Relay!Settle(reply)
  PROVE  RelayInv(state')
  <1> DEFINE r == state
             s == state'
             id == reply.id
  <1>1. RelayShape(r) /\ SentOnce(r) /\ Worked(r) /\ Awaited(r) /\ id \in Fields
    BY DEF RelayInv, RelayShape, Relay!Reply
  <1>2. /\ DOMAIN s = RelayNames /\ s.sent = r.sent /\ s.inFlight = r.inFlight /\ s.job = r.job
        /\ s.aborted = r.aborted /\ s.replies = r.replies \ {reply}
        /\ s.call = [r.call EXCEPT ![id] = IF r.call[id] # "waiting" THEN r.call[id]
                                           ELSE IF reply.success THEN "resolved" ELSE "rejected"]
    BY <1>1 DEF Relay!Settle, RelayShape, RelayNames
  <1>3. /\ RelayShape(s) /\ s.call[id] # "waiting"
        /\ \A o \in Fields \ {id} : s.call[o] = r.call[o]
        /\ \A o \in Fields : (s.call[o] = "idle") = (r.call[o] = "idle")
        /\ \A o \in Fields : (s.call[o] = "aborted") = (r.call[o] = "aborted")
    BY <1>1, <1>2 DEF RelayShape
  <1>4. SentOnce(s)
    BY <1>1, <1>2, <1>3 DEF SentOnce
  <1>5. Worked(s)
    BY <1>1, <1>2, <1>3 DEF Worked
  <1>6. Awaited(s)
    BY <1>1, <1>2, <1>3 DEF Awaited
  <1> QED
    BY <1>3, <1>4, <1>5, <1>6 DEF RelayInv

\* The worker ends: what it was at is answered by the closing of its channels.
LEMMA DiesStep ==
  ASSUME RelayInv(state), Relay!Dies
  PROVE  RelayInv(state')
  <1> DEFINE r == state
             s == state'
             failed == {[id |-> id, success |-> FALSE] : id \in {i \in Fields : r.job[i] # "none"}}
  <1>1. RelayShape(r) /\ SentOnce(r) /\ Worked(r) /\ Awaited(r)
    BY DEF RelayInv
  <1>2. /\ DOMAIN s = RelayNames /\ s.sent = r.sent /\ s.call = r.call /\ s.inFlight = {}
        /\ s.job = [id \in Fields |-> "none"] /\ s.aborted = {} /\ s.replies = r.replies \cup failed
    BY <1>1 DEF Relay!Dies, RelayShape, RelayNames
  <1>3. failed \subseteq Relay!Reply
    <2> SUFFICES ASSUME NEW id \in Fields PROVE [id |-> id, success |-> FALSE] \in Relay!Reply
      OBVIOUS
    <2> QED
      BY DEF Relay!Reply
  <1>4. s.job \in [Fields -> {"none", "settings", "fetching"}] /\ \A o \in Fields : s.job[o] = "none"
    BY <1>2
  <1>5. RelayShape(s)
    BY <1>1, <1>2, <1>3, <1>4 DEF RelayShape
  <1>6. SentOnce(s)
    BY <1>1, <1>2, <1>4 DEF SentOnce
  <1>7. Worked(s)
    BY <1>2, <1>4 DEF Worked
  <1>8. Awaited(s)
    <2> SUFFICES ASSUME NEW o \in Fields, s.call[o] = "waiting"
                 PROVE  \/ \E k \in 1..Len(s.sent) : s.sent[k] = Asking(o)
                        \/ \E reply \in s.replies : reply.id = o
      BY DEF Awaited
    <2>1. CASE r.job[o] # "none"
      <3>1. [id |-> o, success |-> FALSE] \in failed /\ [id |-> o, success |-> FALSE].id = o
        BY <2>1
      <3> QED
        BY <3>1, <1>2
    <2>2. CASE r.job[o] = "none"
      BY <2>2, <1>1, <1>2 DEF Awaited
    <2> QED
      BY <2>1, <2>2
  <1> QED
    BY <1>5, <1>6, <1>7, <1>8 DEF RelayInv

\* Every step of the relay keeps its invariant.
LEMMA RelayStep == RelayInv(state) /\ [Relay!Next]_state => RelayInv(state')
  <1> SUFFICES ASSUME RelayInv(state), [Relay!Next]_state PROVE RelayInv(state')
    OBVIOUS
  <1>1. CASE Relay!Next
    BY <1>1, SendStep, AbortStep, ListenStep, WorkStep, SettleCallStep, DiesStep DEF Relay!Next
  <1>2. CASE UNCHANGED state
    BY <1>2
  <1> QED
    BY <1>1, <1>2

\* The invariant says of calls and fetches what the properties say.
LEMMA RelayAccounts == RelayInv(state) => Relay!NoOrphanFetch /\ Relay!CallsAreHeard
  <1> SUFFICES ASSUME RelayInv(state) PROVE Relay!NoOrphanFetch /\ Relay!CallsAreHeard
    OBVIOUS
  <1>1. \A m : (\E k \in 1..Len(state.sent) : state.sent[k] = m) => m \in Relay!Range(state.sent)
    BY DEF RelayInv, RelayShape, Relay!Range
  <1>2. Relay!NoOrphanFetch
    BY <1>1 DEF RelayInv, Worked, Relay!NoOrphanFetch, Cancelling
  <1>3. Relay!CallsAreHeard
    BY <1>1 DEF RelayInv, Awaited, Relay!CallsAreHeard, Asking
  <1> QED
    BY <1>2, <1>3

-----------------------------------------------------------------------------
(* The bridge: a streamed check. *)

StagedNames == {"fast", "found", "known", "rejected", "mode", "pass", "ended", "taken", "gathered",
                "frames", "shown", "candidates"}

\* Previews alone until the answer or the error, which is the last frame.
StagedInv(s) ==
  /\ DOMAIN s = StagedNames
  /\ s.pass \in {"preview", "answer", "over"} /\ s.frames \in Seq({"fast", "final", "error"})
  /\ \A n \in DOMAIN s.frames : s.frames[n] # "fast" <=> n = Len(s.frames) /\ s.pass = "over"

\* No frame is written but by a preview,
LEMMA PreviewWrites ==
  ASSUME NEW s, StagedInv(s), s.pass # "over", NEW t, DOMAIN t = StagedNames,
         t.pass \in {"preview", "answer"}, t.frames \in {s.frames, Append(s.frames, "fast")}
  PROVE  StagedInv(t)
  <1>1. CASE t.frames = s.frames
    BY <1>1 DEF StagedInv
  <1>2. CASE t.frames = Append(s.frames, "fast")
    <2>1. /\ t.frames \in Seq({"fast", "final", "error"}) /\ DOMAIN t.frames = 1..(Len(s.frames) + 1)
          /\ t.frames[Len(s.frames) + 1] = "fast"
          /\ \A n \in DOMAIN s.frames : t.frames[n] = s.frames[n]
          /\ DOMAIN s.frames = 1..Len(s.frames) /\ Len(s.frames) \in Nat
      BY <1>2 DEF StagedInv
    <2>2. \A n \in DOMAIN t.frames : t.frames[n] = "fast"
      BY <2>1 DEF StagedInv
    <2> QED
      BY <2>1, <2>2 DEF StagedInv
  <1> QED
    BY <1>1, <1>2

\* or by the end.
LEMMA EndWrites ==
  ASSUME NEW s, StagedInv(s), s.pass # "over", NEW t, DOMAIN t = StagedNames, t.pass = "over",
         NEW event \in {"final", "error"}, t.frames = Append(s.frames, event)
  PROVE  StagedInv(t)
  <1>1. /\ t.frames \in Seq({"fast", "final", "error"}) /\ DOMAIN t.frames = 1..(Len(s.frames) + 1)
        /\ t.frames[Len(s.frames) + 1] = event /\ Len(t.frames) = Len(s.frames) + 1
        /\ \A n \in DOMAIN s.frames : t.frames[n] = s.frames[n]
        /\ DOMAIN s.frames = 1..Len(s.frames) /\ Len(s.frames) \in Nat
    BY DEF StagedInv
  <1>2. \A n \in DOMAIN s.frames : t.frames[n] = "fast"
    BY <1>1 DEF StagedInv
  <1> QED
    BY <1>1, <1>2 DEF StagedInv

\* At first no frame is written.
LEMMA StagedInit == Staged!Init => StagedInv(state)
  <1> SUFFICES ASSUME Staged!Init PROVE StagedInv(state)
    OBVIOUS
  <1>1. DOMAIN state = StagedNames /\ state.pass = "preview" /\ state.frames = <<>>
    BY DEF Staged!Init, StagedNames
  <1> QED
    BY <1>1 DEF StagedInv

\* Every step of a streamed check writes a preview, the end, or nothing.
LEMMA StagedStep == StagedInv(state) /\ [Staged!Next]_state => StagedInv(state')
  <1> SUFFICES ASSUME StagedInv(state), [Staged!Next]_state PROVE StagedInv(state')
    OBVIOUS
  <1> DEFINE s == state
             t == state'
  <1>1. CASE UNCHANGED state
    BY <1>1
  <1>2. ASSUME NEW i \in DOMAIN s.fast, Staged!Ends(i) PROVE StagedInv(t)
    <2>1. s.pass # "over" /\ DOMAIN t = StagedNames /\ t.pass = s.pass /\ t.frames = s.frames
      BY <1>2 DEF Staged!Ends, StagedInv, StagedNames
    <2> QED
      BY <2>1, PreviewWrites DEF StagedInv
  <1>3. ASSUME Staged!Take PROVE StagedInv(t)
    <2> DEFINE i == s.taken + 1
    <2>1. s.pass # "over" /\ Staged!Gather(i)
      BY <1>3 DEF Staged!Take, Staged!Gather
    <2>2. /\ DOMAIN t = StagedNames /\ t.pass = s.pass
          /\ t.frames \in {s.frames, Append(s.frames, "fast")}
      BY <2>1 DEF Staged!Gather, Staged!Write, StagedInv, StagedNames
    <2> QED
      BY <2>1, <2>2, PreviewWrites DEF StagedInv
  <1>4. ASSUME Staged!Again PROVE StagedInv(t)
    <2>1. /\ s.pass # "over" /\ DOMAIN t = StagedNames /\ t.pass = "answer"
          /\ t.frames \in {s.frames, Append(s.frames, "fast")}
      BY <1>4 DEF Staged!Again, Staged!Write, StagedInv, StagedNames
    <2> QED
      BY <2>1, PreviewWrites
  <1>5. ASSUME NEW event \in {"final", "error"}, NEW edits, NEW candidates,
               Staged!Over(event, edits, candidates), s.pass # "over"
        PROVE  StagedInv(t)
    <2>1. DOMAIN t = StagedNames /\ t.pass = "over" /\ t.frames = Append(s.frames, event)
      BY <1>5 DEF Staged!Over, Staged!Write, StagedInv, StagedNames
    <2> QED
      BY <2>1, <1>5, EndWrites
  <1>6. ASSUME Staged!Answer PROVE StagedInv(t)
    BY <1>6, <1>5 DEF Staged!Answer
  <1>7. ASSUME Staged!AnswerOfModel PROVE StagedInv(t)
    BY <1>7, <1>5 DEF Staged!AnswerOfModel
  <1> QED
    BY <1>1, <1>2, <1>3, <1>4, <1>6, <1>7 DEF Staged!Next

\* The invariant is what the property says, and that the frames are known.
LEMMA StagedAnswers == StagedInv(state) => Staged!OneAnswer
  BY DEF StagedInv, Staged!OneAnswer

-----------------------------------------------------------------------------
(* The bridge: the services of the model beside correcting. *)

ServicesNames == {"setup", "toneCache", "completeCache", "hits", "misses", "requests", "given"}

\* What the caches may hold: what was said.
ToneEntries(s) ==
  {[key |-> <<g.by.model, g.of>>, value |-> g.is] : g \in s.given["tone"]}
CompleteEntries(s) ==
  {[key |-> g.of, value |-> g.is] : g \in {g \in s.given["complete"] : g.is # ""}}

\* What a model of that name said of a text.
SaidBy(s, feature, model, text) ==
  {g.is : g \in {g \in s.given[feature] : g.by.model = model /\ g.of = text}}

Client(s, ask) == Services!ClientOf(s.setup, ask)
Saids(s, ask, text) == SaidBy(s, ask.feature, Client(s, ask).model, text)
UnitsOf(s, ask) == Services!Units(s.setup, ask)

\* A tone of a unit, as it was said, or none.
TonesOf(s, ask, tones) ==
  /\ tones \in Seq(Services!Tones) /\ Len(tones) <= Len(UnitsOf(s, ask))
  /\ \A i \in 1..Len(tones) : tones[i] \in {{}} \cup Saids(s, ask, UnitsOf(s, ask)[i])

Distinct(S, q) == q \in Seq(S) /\ \A i, j \in 1..Len(q) : q[i] = q[j] => i = j
VariantsOf(s, ask, variants) == Distinct(Saids(s, ask, ask.text) \ {""}, variants)

Rephrasing(s, req) ==
  /\ DOMAIN req = {"is", "ask", "client", "called", "variants"}
  /\ req.called \in Nat /\ req.called < Services!Calls(req.ask)
  /\ VariantsOf(s, req.ask, req.variants) /\ Len(req.variants) <= req.called

Toning(s, req) ==
  /\ DOMAIN req = {"is", "ask", "client", "left", "tones", "waits"}
  /\ TonesOf(s, req.ask, req.tones)
  /\ req.left \in Seq(Services!Range(UnitsOf(s, req.ask)))
  /\ Len(req.left) = Len(UnitsOf(s, req.ask)) - Len(req.tones)
  /\ \A i \in 1..Len(req.left) : req.left[i] = UnitsOf(s, req.ask)[Len(req.tones) + i]

Running(s, req) ==
  /\ req.is = "running" /\ req.ask \in Bridge.services.asks /\ req.client = Client(s, req.ask)
  /\ req.ask.feature = "rephrase" => Rephrasing(s, req)
  /\ req.ask.feature = "tone" => Toning(s, req)
  /\ req.ask.feature = "complete" => DOMAIN req = {"is", "ask", "client", "waits"}

\* An answer, by its handler.
Rephrasings(s, ask, answer) == VariantsOf(s, ask, answer) /\ Len(answer) \in 1..5
Continues(s, ask, answer) ==
  \E g \in s.given["complete"] : g.of = Services!CompleteKey(ask.source, ask.text) /\ g.is = answer
TonesAre(s, ask, answer) ==
  \E tones : /\ TonesOf(s, ask, tones) /\ Len(tones) = Len(UnitsOf(s, ask))
             /\ answer = [tags |-> Services!Aggregated(tones),
                          sentences |-> IF ask.granularity = "sentence" THEN tones ELSE <<>>]

Answered(s, req) ==
  /\ req.is = "done"
  /\ req.status = 200 =>
       /\ req.ask \in Bridge.services.asks
       /\ req.ask.feature = "rephrase" => Rephrasings(s, req.ask, req.answer)
       /\ req.ask.feature = "complete" => Continues(s, req.ask, req.answer)
       /\ req.ask.feature = "tone" => TonesAre(s, req.ask, req.answer)

RequestOK(s, req) == req = Services!Nothing \/ Running(s, req) \/ Answered(s, req)

Shared(s) ==
  /\ DOMAIN s = ServicesNames
  /\ s.toneCache \in Seq(ToneEntries(s)) /\ s.completeCache \in Seq(CompleteEntries(s))
  /\ DOMAIN s.given = Services!Features
  /\ \A g \in s.given["tone"] : g.is \in Services!Tones
  /\ DOMAIN s.requests = Bridge.services.requests

ServicesInv(s) == Shared(s) /\ \A r \in Bridge.services.requests : RequestOK(s, s.requests[r])

\* A step serves one request.
ServedTo(s, t, r, req) ==
  /\ DOMAIN t = ServicesNames /\ t.setup = s.setup
  /\ t.requests = [s.requests EXCEPT ![r] = req]

\* What the model said of a text, to a request.
Spoke(s, t, ask, of, what) ==
  t.given = [s.given EXCEPT ![ask.feature] = @ \cup {[by |-> Client(s, ask), of |-> of, is |-> what]}]

\* More was said, and nothing else changed of what answers are held against.
Grows(s, t) ==
  /\ t.setup = s.setup /\ DOMAIN t.given = DOMAIN s.given
  /\ \A f \in Services!Features : s.given[f] \subseteq t.given[f]

\* What holds of a sequence holds in a larger set.
LEMMA SeqGrows ==
  ASSUME NEW A, NEW B, A \subseteq B, NEW q \in Seq(A)
  PROVE  q \in Seq(B)
  OBVIOUS

\* Variants that differ still do when one that is new is added.
LEMMA DistinctGrows ==
  ASSUME NEW A, NEW B, A \subseteq B, NEW q, Distinct(A, q)
  PROVE  Distinct(B, q)
  BY SeqGrows DEF Distinct

\* What appending to a sequence comes to.
LEMMA Appends ==
  ASSUME NEW A, NEW q \in Seq(A), NEW v \in A
  PROVE  /\ Append(q, v) \in Seq(A) /\ Len(Append(q, v)) = Len(q) + 1
         /\ \A i \in 1..Len(q) : Append(q, v)[i] = q[i]
         /\ Append(q, v)[Len(q) + 1] = v
  OBVIOUS

\* A length is a natural, and more than zero but of the empty sequence.
LEMMA Lengths ==
  ASSUME NEW A, NEW q \in Seq(A)
  PROVE  Len(q) \in Nat /\ (q # <<>> => Len(q) > 0)
  <1>1. Len(q) \in Nat
    OBVIOUS
  <1>2. Len(q) = 0 => q = <<>>
    OBVIOUS
  <1> QED
    BY <1>1, <1>2

\* What is not there yet can be appended to a sequence whose elements differ.
LEMMA AppendsNew ==
  ASSUME NEW A, NEW q, Distinct(A, q), NEW v \in A, \A i \in 1..Len(q) : q[i] # v
  PROVE  Distinct(A, Append(q, v)) /\ Len(Append(q, v)) = Len(q) + 1
  <1>1. q \in Seq(A) /\ \A i, j \in 1..Len(q) : q[i] = q[j] => i = j
    BY DEF Distinct
  <1>2. Len(q) \in Nat
    BY <1>1
  <1>3. /\ Append(q, v) \in Seq(A) /\ Len(Append(q, v)) = Len(q) + 1
        /\ \A i \in 1..Len(q) : Append(q, v)[i] = q[i]
        /\ Append(q, v)[Len(q) + 1] = v
    BY <1>1, Appends
  <1>4. \A i \in 1..(Len(q) + 1) : i \in 1..Len(q) \/ i = Len(q) + 1
    BY <1>2
  <1>5. \A i, j \in 1..(Len(q) + 1) : Append(q, v)[i] = Append(q, v)[j] => i = j
    BY <1>1, <1>3, <1>4
  <1> QED
    BY <1>3, <1>5 DEF Distinct

\* So they have lengths.
LEMMA HasLength ==
  ASSUME NEW A, NEW q, Distinct(A, q)
  PROVE  Len(q) \in Nat /\ Len(q) <= Len(q) + 1 /\ (q # <<>> => Len(q) > 0)
  <1>1. q \in Seq(A)
    BY DEF Distinct
  <1>2. Len(q) \in Nat /\ (q # <<>> => Len(q) > 0)
    BY <1>1, Lengths
  <1>3. Len(q) <= Len(q) + 1
    BY <1>1
  <1> QED
    BY <1>2, <1>3

\* A variant is taken if it says something and is not there yet.
LEMMA Varies ==
  ASSUME NEW A, NEW q, Distinct(A, q), NEW v \in A \cup {""}
  PROVE  /\ Distinct(A, Services!Varied(q, v)) /\ Len(Services!Varied(q, v)) \in {Len(q), Len(q) + 1}
  <1>1. CASE v = "" \/ Services!Contains(q, v)
    <2>1. Services!Varied(q, v) = q
      BY <1>1 DEF Services!Varied
    <2> QED
      BY <2>1
  <1>2. CASE v # "" /\ ~Services!Contains(q, v)
    <2>1. Services!Varied(q, v) = Append(q, v) /\ v \in A
      BY <1>2 DEF Services!Varied
    <2>2. \A i \in 1..Len(q) : q[i] # v
      BY <1>2 DEF Services!Contains
    <2>3. Distinct(A, Append(q, v)) /\ Len(Append(q, v)) = Len(q) + 1
      BY <2>1, <2>2, AppendsNew
    <2> QED
      BY <2>1, <2>3
  <1> QED
    BY <1>1, <1>2

\* Numbers, where nothing else is at hand.
LEMMA AtMostFive == ASSUME NEW n \in Nat, n <= 5, n > 0 PROVE n \in 1..5
  OBVIOUS

\* A number that grew by at most one.
LEMMA OneMore ==
  ASSUME NEW m \in Nat, NEW n \in {m, m + 1}, NEW k \in Nat, m <= k
  PROVE  n <= k + 1
  OBVIOUS

\* The units of a text are a sequence.
LEMMA UnitsAreASeq ==
  ASSUME NEW s, NEW ask \in Bridge.services.asks
  PROVE  UnitsOf(s, ask) \in Seq(Services!Range(UnitsOf(s, ask)))
  <1> DEFINE units == UnitsOf(s, ask)
  <1>1. ask.text \in Seq(STRING)
    BY ServicesAssumption DEF Services!Constants
  <1>3. Len(ask.text) \in Nat /\ DOMAIN ask.text = 1..Len(ask.text)
    BY <1>1
  <1>2. \/ units = [i \in DOMAIN ask.text |-> <<ask.text[i]>>]
        \/ units = <<>> \/ units = <<ask.text>>
    BY DEF UnitsOf, Services!Units
  <1> HIDE DEF units
  <1>4. units = [i \in 1..Len(ask.text) |-> units[i]] \/ units = <<>> \/ units = <<ask.text>>
    BY <1>2, <1>3
  <1>5. PICK n \in Nat : DOMAIN units = 1..n /\ units = [i \in 1..n |-> units[i]]
    <2>1. CASE units = <<>>
      BY <2>1
    <2>2. CASE units = <<ask.text>>
      <3>1. DOMAIN units = 1..1 /\ units = [i \in 1..1 |-> units[i]]
        BY <2>2
      <3> QED
        BY <3>1
    <2>3. CASE units = [i \in 1..Len(ask.text) |-> units[i]]
      BY <1>3, <2>3
    <2> QED
      BY <1>4, <2>1, <2>2, <2>3
  <1>6. \A i \in 1..n : units[i] \in Services!Range(units)
    BY <1>5 DEF Services!Range
  <1>7. \A S : (\A i \in 1..n : units[i] \in S) => units \in Seq(S)
    BY <1>5
  <1> QED
    BY <1>6, <1>7 DEF units

\* What was said stays said,
LEMMA SaidGrows ==
  ASSUME NEW s, NEW t, Grows(s, t), NEW ask \in Bridge.services.asks
  PROVE  /\ Client(t, ask) = Client(s, ask) /\ UnitsOf(t, ask) = UnitsOf(s, ask)
         /\ \A text : Saids(s, ask, text) \subseteq Saids(t, ask, text)
  <1>1. Client(t, ask) = Client(s, ask) /\ UnitsOf(t, ask) = UnitsOf(s, ask)
    BY DEF Grows, Client, UnitsOf
  <1>2. ask.feature \in Services!Features
    BY ServicesAssumption DEF Services!Constants
  <1>3. \A text : Saids(s, ask, text) \subseteq Saids(t, ask, text)
    BY <1>1, <1>2 DEF Grows, Saids, SaidBy
  <1> QED
    BY <1>1, <1>3

\* and may be remembered.
LEMMA EntriesGrow ==
  ASSUME NEW s, NEW t, Grows(s, t)
  PROVE  ToneEntries(s) \subseteq ToneEntries(t) /\ CompleteEntries(s) \subseteq CompleteEntries(t)
  <1>1. "tone" \in Services!Features /\ "complete" \in Services!Features
    BY DEF Services!Features
  <1>2. ToneEntries(s) \subseteq ToneEntries(t)
    BY <1>1 DEF Grows, ToneEntries
  <1>3. CompleteEntries(s) \subseteq CompleteEntries(t)
    BY <1>1 DEF Grows, CompleteEntries
  <1> QED
    BY <1>2, <1>3

\* so that a request stays right while others are served.
LEMMA RequestGrows ==
  ASSUME NEW s, NEW t, Grows(s, t), NEW req, RequestOK(s, req)
  PROVE  RequestOK(t, req)
  <1>1. ASSUME NEW ask \in Bridge.services.asks, NEW tones, TonesOf(s, ask, tones)
        PROVE  TonesOf(t, ask, tones)
    BY <1>1, SaidGrows DEF TonesOf
  <1>2. ASSUME NEW ask \in Bridge.services.asks, NEW variants, VariantsOf(s, ask, variants)
        PROVE  VariantsOf(t, ask, variants)
    <2>1. Saids(s, ask, ask.text) \ {""} \subseteq Saids(t, ask, ask.text) \ {""}
      BY SaidGrows
    <2> QED
      BY <2>1, <1>2, DistinctGrows DEF VariantsOf
  <1>3. CASE req = Services!Nothing
    BY <1>3 DEF RequestOK
  <1>4. CASE Running(s, req)
    <2> DEFINE ask == req.ask
    <2>1. ask \in Bridge.services.asks
      BY <1>4 DEF Running
    <2>2. Client(t, ask) = Client(s, ask) /\ UnitsOf(t, ask) = UnitsOf(s, ask)
      BY <2>1, SaidGrows
    <2>3. Rephrasing(s, req) => Rephrasing(t, req)
      BY <1>2, <2>1 DEF Rephrasing
    <2>4. Toning(s, req) => Toning(t, req)
      BY <1>1, <2>1, <2>2 DEF Toning
    <2> QED
      BY <1>4, <2>2, <2>3, <2>4 DEF Running, RequestOK
  <1>5. CASE Answered(s, req)
    <2> DEFINE ask == req.ask
    <2> SUFFICES ASSUME req.status = 200
                 PROVE  /\ ask \in Bridge.services.asks
                        /\ ask.feature = "rephrase" => Rephrasings(t, ask, req.answer)
                        /\ ask.feature = "complete" => Continues(t, ask, req.answer)
                        /\ ask.feature = "tone" => TonesAre(t, ask, req.answer)
      BY <1>5 DEF Answered, RequestOK
    <2>1. ask \in Bridge.services.asks
      BY <1>5 DEF Answered
    <2>2. UnitsOf(t, ask) = UnitsOf(s, ask)
      BY <2>1, SaidGrows
    <2>3. Rephrasings(s, ask, req.answer) => Rephrasings(t, ask, req.answer)
      BY <1>2, <2>1 DEF Rephrasings
    <2>4. Continues(s, ask, req.answer) => Continues(t, ask, req.answer)
      BY DEF Continues, Grows, Services!Features
    <2>5. TonesAre(s, ask, req.answer) => TonesAre(t, ask, req.answer)
      BY <1>1, <2>1, <2>2 DEF TonesAre
    <2> QED
      BY <1>5, <2>1, <2>3, <2>4, <2>5 DEF Answered
  <1> QED
    BY <1>3, <1>4, <1>5 DEF RequestOK

\* A step serves one request, and what it says is kept.
LEMMA Serves ==
  ASSUME NEW s, ServicesInv(s), NEW r \in Bridge.services.requests, NEW t, NEW req, ServedTo(s, t, r, req),
         Grows(s, t), Shared(t), RequestOK(t, req)
  PROVE  ServicesInv(t)
  <1> SUFFICES ASSUME NEW q \in Bridge.services.requests PROVE RequestOK(t, t.requests[q])
    BY DEF ServicesInv
  <1>1. t.requests[q] = IF q = r THEN req ELSE s.requests[q]
    BY DEF ServicesInv, Shared, ServedTo
  <1>2. RequestOK(t, s.requests[q])
    BY RequestGrows DEF ServicesInv
  <1> QED
    BY <1>1, <1>2

\* The caches hold no more than they held, and what is added.
LEMMA CacheHolds ==
  ASSUME NEW E, NEW cache \in Seq(E), NEW key
  PROVE  /\ Services!Cached(cache, key) =>
              /\ Services!EntryOf(cache, key) \in E /\ Services!EntryOf(cache, key).key = key
              /\ Services!Used(cache, key) \in Seq(E)
         /\ \A value : [key |-> key, value |-> value] \in E => Services!Added(cache, key, value) \in Seq(E)
  <1> DEFINE p == Services!Place(cache, key)
  <1>1. Services!Cached(cache, key) => p \in 1..Len(cache) /\ cache[p].key = key
    BY DEF Services!Cached, Services!Place
  <1>2. Services!Without(cache, key) \in Seq(E)
    <2>1. CASE Services!Cached(cache, key)
      <3>1. SubSeq(cache, 1, p - 1) \in Seq(E) /\ SubSeq(cache, p + 1, Len(cache)) \in Seq(E)
        BY <2>1, <1>1
      <3>2. Services!RemoveAt(cache, p) \in Seq(E)
        BY <3>1 DEF Services!RemoveAt
      <3> QED
        BY <3>2, <2>1 DEF Services!Without
    <2>2. CASE ~Services!Cached(cache, key)
      BY <2>2 DEF Services!Without
    <2> QED
      BY <2>1, <2>2
  <1>3. Services!Cached(cache, key) =>
          Services!EntryOf(cache, key) \in E /\ Services!EntryOf(cache, key).key = key
    BY <1>1 DEF Services!EntryOf
  <1>4. Services!Cached(cache, key) => Services!Used(cache, key) \in Seq(E)
    BY <1>2, <1>3 DEF Services!Used
  <1>5. ASSUME NEW value, [key |-> key, value |-> value] \in E
        PROVE  Services!Added(cache, key, value) \in Seq(E)
    <2> DEFINE w == Services!Without(cache, key)
               e == [key |-> key, value |-> value]
    <2>1. w \in Seq(E) /\ e \in E
      BY <1>2, <1>5
    <2>2. Services!Added(cache, key, value) \in {<<>>, Append(w, e), Tail(Append(w, e))}
      BY DEF Services!Added
    <2> HIDE DEF w, e
    <2>3. Append(w, e) \in Seq(E) /\ Append(w, e) # <<>>
      BY <2>1
    <2>4. Tail(Append(w, e)) \in Seq(E)
      BY <2>3
    <2>5. <<>> \in Seq(E)
      OBVIOUS
    <2> QED
      BY <2>2, <2>3, <2>4, <2>5
  <1> QED
    BY <1>3, <1>4, <1>5

\* The surest tag of each kind: one, and it is there.
LEMMA Aggregates ==
  ASSUME NEW tones \in Seq(Services!Tones)
  PROVE  /\ \A t, u \in Services!Aggregated(tones) : t.tag = u.tag => t = u
         /\ \A i \in 1..Len(tones) : \A t \in tones[i] :
              \E u \in Services!Aggregated(tones) : u.tag = t.tag /\ u.confidence >= t.confidence
         /\ tones = <<>> => Services!Aggregated(tones) = {}
         /\ Len(tones) = 1 => Services!Aggregated(tones) = tones[1]
  <1> DEFINE a == Services!Aggregated(tones)
             all == UNION Services!ToSet(tones)
             p == [tag |-> "polite", confidence |-> 0]
             q == [tag |-> "polite", confidence |-> 2]
             d == [tag |-> "direct", confidence |-> 1]
  <1>1. /\ p.tag = "polite" /\ q.tag = "polite" /\ d.tag = "direct"
        /\ p.confidence = 0 /\ q.confidence = 2 /\ d.confidence = 1
    OBVIOUS
  <1>2. Services!Tones = {{}, {p}, {q, d}}
    BY DEF Services!Tones
  <1>3. Services!ToSet(tones) = {tones[i] : i \in 1..Len(tones)} /\ Services!ToSet(tones) \subseteq Services!Tones
    BY DEF Services!ToSet
  <1>4. all \subseteq {p, q, d}
    BY <1>2, <1>3
  <1>5. a = {t \in all : \A u \in all : u.tag = t.tag => u.confidence <= t.confidence}
    BY DEF Services!Aggregated
  <1> HIDE DEF p, q, d
  <1>6. \A t \in all : t \in a <=> t # p \/ q \notin all
    BY <1>1, <1>4, <1>5
  <1>7. \A t, u \in a : t.tag = u.tag => t = u
    BY <1>1, <1>4, <1>5, <1>6
  <1>8. \A t \in all : \E u \in a : u.tag = t.tag /\ u.confidence >= t.confidence
    BY <1>1, <1>4, <1>5, <1>6
  <1>9. tones = <<>> => a = {}
    BY <1>3, <1>5
  <1>10. Len(tones) = 1 => a = tones[1]
    <2> SUFFICES ASSUME Len(tones) = 1 PROVE a = tones[1]
      OBVIOUS
    <2>1. all = tones[1] /\ tones[1] \in Services!Tones
      BY <1>3
    <2>2. p # q /\ p # d
      BY <1>1
    <2>3. ~(p \in all /\ q \in all)
      BY <2>1, <2>2, <1>2
    <2>4. \A t \in all : t \in a
      BY <2>3, <1>6
    <2> QED
      BY <2>1, <2>4, <1>5
  <1> QED
    BY <1>3, <1>7, <1>8, <1>9, <1>10

\* At first nothing was said, asked or remembered.
LEMMA ServicesInit == Services!Init => ServicesInv(state)
  <1> SUFFICES ASSUME Services!Init PROVE ServicesInv(state)
    OBVIOUS
  <1>1. /\ DOMAIN state = ServicesNames /\ state.toneCache = <<>> /\ state.completeCache = <<>>
        /\ state.requests = [r \in Bridge.services.requests |-> Services!Nothing]
        /\ state.given = [feature \in Services!Features |-> {}]
    BY DEF Services!Init, ServicesNames
  <1>2. Shared(state)
    BY <1>1 DEF Shared, Services!Features
  <1> QED
    BY <1>1, <1>2 DEF ServicesInv, RequestOK
\* What a step may do to what requests share.
LEMMA SharedGrows ==
  ASSUME NEW s, Shared(s), NEW t, NEW r, NEW req, ServedTo(s, t, r, req), Grows(s, t),
         t.toneCache = s.toneCache \/ t.toneCache \in Seq(ToneEntries(t)),
         t.completeCache = s.completeCache \/ t.completeCache \in Seq(CompleteEntries(t)),
         \A g \in t.given["tone"] : g.is \in Services!Tones
  PROVE  Shared(t)
  <1>1. t.toneCache \in Seq(ToneEntries(t)) /\ t.completeCache \in Seq(CompleteEntries(t))
    BY EntriesGrow, SeqGrows DEF Shared
  <1>2. DOMAIN t.given = Services!Features
    BY DEF Shared, Grows
  <1>3. DOMAIN t.requests = Bridge.services.requests /\ DOMAIN t = ServicesNames
    BY DEF Shared, ServedTo
  <1> QED
    BY <1>1, <1>2, <1>3 DEF Shared

\* Nothing new was said.
LEMMA Quiet ==
  ASSUME NEW s, ServicesInv(s), NEW r \in Bridge.services.requests, NEW t, NEW req, ServedTo(s, t, r, req),
         t.given = s.given, RequestOK(s, req),
         t.toneCache = s.toneCache \/ t.toneCache \in Seq(ToneEntries(s)),
         t.completeCache = s.completeCache \/ t.completeCache \in Seq(CompleteEntries(s))
  PROVE  ServicesInv(t)
  <1>1. Grows(s, t)
    BY DEF Grows, ServedTo
  <1>2. ToneEntries(t) = ToneEntries(s) /\ CompleteEntries(t) = CompleteEntries(s)
    BY DEF ToneEntries, CompleteEntries
  <1>3. \A g \in t.given["tone"] : g.is \in Services!Tones
    BY DEF ServicesInv, Shared
  <1>5. Shared(t)
    BY <1>1, <1>2, <1>3, SharedGrows DEF ServicesInv
  <1>6. RequestOK(t, req)
    BY <1>1, RequestGrows
  <1> QED
    BY <1>1, <1>5, <1>6, Serves

\* The model said something of a text, to a request.
LEMMA Speaks ==
  ASSUME NEW s, ServicesInv(s), NEW ask \in Bridge.services.asks,
         NEW of, NEW what, ask.feature = "tone" => what \in Services!Tones,
         NEW t, t.setup = s.setup, Spoke(s, t, ask, of, what)
  PROVE  /\ Grows(s, t) /\ \A g \in t.given["tone"] : g.is \in Services!Tones
         /\ what \in Saids(t, ask, of)
         /\ ask.feature = "tone" => [key |-> <<Client(s, ask).model, of>>, value |-> what] \in ToneEntries(t)
         /\ ask.feature = "complete" => (what # "" => [key |-> of, value |-> what] \in CompleteEntries(t))
         /\ ask.feature = "complete" => \E g \in t.given["complete"] : g.of = of /\ g.is = what
  <1> DEFINE new == [by |-> Client(s, ask), of |-> of, is |-> what]
  <1>1. DOMAIN s.given = Services!Features /\ ask.feature \in Services!Features
    BY ServicesAssumption DEF Services!Constants, ServicesInv, Shared
  <1>2. new.by = Client(s, ask) /\ new.of = of /\ new.is = what
    OBVIOUS
  <1>3. /\ DOMAIN t.given = Services!Features /\ t.given[ask.feature] = s.given[ask.feature] \cup {new}
        /\ \A f \in Services!Features \ {ask.feature} : t.given[f] = s.given[f]
    BY <1>1 DEF Spoke
  <1> HIDE DEF new
  <1>4. Grows(s, t)
    BY <1>1, <1>3 DEF Grows
  <1>5. "tone" \in Services!Features
    BY DEF Services!Features
  <1>6. \A g \in t.given["tone"] : g.is \in Services!Tones
    BY <1>2, <1>3, <1>5 DEF ServicesInv, Shared
  <1>7. Client(t, ask) = Client(s, ask)
    BY <1>4, SaidGrows
  <1>8. new \in t.given[ask.feature]
    BY <1>3
  <1>9. what \in Saids(t, ask, of)
    BY <1>2, <1>7, <1>8 DEF Saids, SaidBy
  <1>10. ask.feature = "tone" => [key |-> <<Client(s, ask).model, of>>, value |-> what] \in ToneEntries(t)
    BY <1>2, <1>8 DEF ToneEntries
  <1>11. ask.feature = "complete" /\ what # "" => [key |-> of, value |-> what] \in CompleteEntries(t)
    BY <1>2, <1>8 DEF CompleteEntries
  <1>12. ask.feature = "complete" => \E g \in t.given["complete"] : g.of = of /\ g.is = what
    BY <1>2, <1>8
  <1> QED
    BY <1>4, <1>6, <1>9, <1>10, <1>11, <1>12

\* A request is begun, or refused.
LEMMA AskServes ==
  ASSUME ServicesInv(state), NEW r \in Bridge.services.requests, Services!Ask(r)
  PROVE  ServicesInv(state')
  <1> DEFINE s == state
             t == state'
  <1>1. PICK ask \in Bridge.services.asks, fails \in BOOLEAN :
          t = [s EXCEPT !.requests[r] =
                 IF ~Services!Enabled(s.setup, ask.feature) THEN Services!Refused(404)
                 ELSE IF ask.text = <<>> THEN Services!Refused(400)
                 ELSE IF fails THEN Services!Refused(502)
                 ELSE Services!Began(s.setup, ask)]
    BY DEF Services!Ask
  <1> DEFINE req == IF ~Services!Enabled(s.setup, ask.feature) THEN Services!Refused(404)
                    ELSE IF ask.text = <<>> THEN Services!Refused(400)
                    ELSE IF fails THEN Services!Refused(502)
                    ELSE Services!Began(s.setup, ask)
  <1>2. /\ ServedTo(s, t, r, req) /\ t.given = s.given
        /\ t.toneCache = s.toneCache /\ t.completeCache = s.completeCache
    BY <1>1 DEF ServicesInv, Shared, ServicesNames, ServedTo
  <1>3. \A status \in {400, 404, 502} : RequestOK(s, Services!Refused(status))
    BY DEF RequestOK, Answered, Services!Refused
  <1>4. RequestOK(s, Services!Began(s.setup, ask))
    <2> DEFINE client == Client(s, ask)
               b == Services!Began(s.setup, ask)
    <2>1. ask.feature \in Services!Features /\ ask.text \in Seq(STRING)
      BY ServicesAssumption DEF Services!Constants
    <2>2. client = Services!Nothing => b = Services!Refused(502)
      BY DEF Services!Began, Client
    <2>3. CASE ask.feature = "rephrase" /\ client # Services!Nothing
      <3>1. b = [is |-> "running", ask |-> ask, client |-> client, called |-> 0, variants |-> <<>>]
        BY <2>3 DEF Services!Began, Client
      <3>2. Services!Calls(ask) \in Int /\ Services!Calls(ask) > 0
        BY ServicesAssumption DEF Services!Constants, Services!Calls
      <3>3. VariantsOf(s, ask, <<>>)
        BY DEF VariantsOf, Distinct
      <3>4. Rephrasing(s, b)
        BY <3>1, <3>2, <3>3 DEF Rephrasing
      <3> QED
        BY <3>1, <3>4, <2>3 DEF Running, RequestOK
    <2>4. CASE ask.feature = "tone" /\ client # Services!Nothing
      <3> DEFINE units == UnitsOf(s, ask)
      <3>1. b = [is |-> "running", ask |-> ask, client |-> client, left |-> units,
                 tones |-> <<>>, waits |-> FALSE]
        BY <2>4 DEF Services!Began, Client, UnitsOf
      <3>2. units \in Seq(Services!Range(units))
        BY UnitsAreASeq
      <3>3. TonesOf(s, ask, <<>>)
        BY <3>2 DEF TonesOf
      <3>4. Toning(s, b)
        BY <3>1, <3>2, <3>3 DEF Toning
      <3> QED
        BY <3>1, <3>4, <2>4 DEF Running, RequestOK
    <2>5. CASE ask.feature = "complete" /\ client # Services!Nothing
      <3>1. b = [is |-> "running", ask |-> ask, client |-> client, waits |-> FALSE]
        BY <2>5 DEF Services!Began, Client
      <3> QED
        BY <3>1, <2>5 DEF Running, RequestOK
    <2> QED
      BY <2>1, <2>2, <2>3, <2>4, <2>5, <1>3 DEF Services!Features
  <1>5. RequestOK(s, req)
    BY <1>3, <1>4
  <1> QED
    BY <1>2, <1>5, Quiet

\* A rephrasing ends with what it has.
LEMMA RephrasedIsOK ==
  ASSUME NEW s, NEW req, req.ask \in Bridge.services.asks, req.ask.feature = "rephrase",
         NEW variants, VariantsOf(s, req.ask, variants), Len(variants) <= 5
  PROVE  RequestOK(s, Services!Rephrased(req, variants))
  <1>1. CASE variants = <<>>
    <2>1. Services!Rephrased(req, variants) = Services!Done(req, 502, Services!Nothing)
      BY <1>1 DEF Services!Rephrased
    <2> QED
      BY <2>1 DEF RequestOK, Answered, Services!Done
  <1>2. CASE variants # <<>>
    <2>1. Services!Rephrased(req, variants) = Services!Done(req, 200, variants)
      BY <1>2 DEF Services!Rephrased
    <2>2. PICK done : done = Services!Done(req, 200, variants)
      OBVIOUS
    <2>3. done.is = "done" /\ done.status = 200 /\ done.ask = req.ask /\ done.answer = variants
      BY <2>2 DEF Services!Done
    <2>a. variants \in Seq(Saids(s, req.ask, req.ask.text) \ {""})
      BY DEF VariantsOf, Distinct
    <2>4. Len(variants) \in Nat /\ Len(variants) > 0
      BY <1>2, <2>a, Lengths
    <2>b. Len(variants) \in 1..5
      BY <2>4, AtMostFive
    <2>5. Rephrasings(s, req.ask, variants)
      BY <2>b DEF Rephrasings
    <2>6. Answered(s, done)
      BY <2>3, <2>5 DEF Answered
    <2> QED
      BY <2>1, <2>2, <2>6 DEF RequestOK
  <1> QED
    BY <1>1, <1>2

\* A request that is served is one that runs.
LEMMA ServedRuns ==
  ASSUME NEW s, NEW req, RequestOK(s, req), req.is = "running"
  PROVE  /\ Running(s, req) /\ req.ask \in Bridge.services.asks /\ req.client = Client(s, req.ask)
         /\ Services!Calls(req.ask) \in 1..5
  <1>1. Services!Nothing.is # "running"
    BY DEF Services!Nothing
  <1>2. Running(s, req)
    BY <1>1 DEF RequestOK, Answered
  <1>3. req.ask \in Bridge.services.asks /\ req.client = Client(s, req.ask)
    BY <1>2 DEF Running
  <1>4. req.ask.alternatives \in Int
    BY <1>3, ServicesAssumption DEF Services!Constants
  <1>5. Services!Calls(req.ask) \in 1..5
    BY <1>4 DEF Services!Calls
  <1> QED
    BY <1>2, <1>3, <1>5

\* A call to rephrase that fails ends the loop,
LEMMA FailedCallServes ==
  ASSUME NEW s, ServicesInv(s), NEW r \in Bridge.services.requests, NEW req, req = s.requests[r],
         req.is = "running", req.ask.feature = "rephrase",
         NEW t, t = [s EXCEPT !.requests[r] = Services!Rephrased(req, req.variants)]
  PROVE  ServicesInv(t)
  <1>1. RequestOK(s, req)
    BY DEF ServicesInv
  <1>2. Running(s, req) /\ req.ask \in Bridge.services.asks /\ Services!Calls(req.ask) \in 1..5
    BY <1>1, ServedRuns
  <1>3. Rephrasing(s, req)
    BY <1>2 DEF Running
  <1>4. VariantsOf(s, req.ask, req.variants) /\ Len(req.variants) \in Nat
    BY <1>3, HasLength DEF Rephrasing, VariantsOf
  <1>5. req.called \in Nat /\ req.called < Services!Calls(req.ask) /\ Len(req.variants) <= req.called
    BY <1>3 DEF Rephrasing
  <1>6. Len(req.variants) <= 5
    BY <1>2, <1>4, <1>5
  <1>7. RequestOK(s, Services!Rephrased(req, req.variants))
    BY <1>2, <1>4, <1>6, RephrasedIsOK
  <1>8. /\ ServedTo(s, t, r, Services!Rephrased(req, req.variants)) /\ t.given = s.given
        /\ t.toneCache = s.toneCache /\ t.completeCache = s.completeCache
    BY DEF ServicesInv, Shared, ServicesNames, ServedTo
  <1> QED
    BY <1>7, <1>8, Quiet

\* and one that is answered may be the last.
CallAnswered(s, t, r, req, v, variants, next, last) ==
  /\ req = s.requests[r] /\ req.is = "running" /\ req.ask.feature = "rephrase"
  /\ variants = Services!Varied(req.variants, v)
  /\ next = [req EXCEPT !.called = @ + 1, !.variants = variants]
  /\ last = IF next.called = Services!Calls(req.ask) THEN Services!Rephrased(next, variants) ELSE next
  /\ t = [Services!Said(s, req, req.ask.text, v) EXCEPT !.requests[r] = last]

\* An answer to a call for a rephrasing is one of the variants, and the request goes on or ends.
LEMMA CallServes ==
  ASSUME NEW s, ServicesInv(s), NEW r \in Bridge.services.requests, NEW t, NEW req, NEW v, NEW variants,
         NEW next, NEW last, CallAnswered(s, t, r, req, v, variants, next, last)
  PROVE  ServicesInv(t)
  <1>1. RequestOK(s, req) /\ req.is = "running"
    BY DEF ServicesInv, CallAnswered
  <1>2. PICK ask \in Bridge.services.asks : ask = req.ask /\ ask.feature = "rephrase"
    BY <1>1, ServedRuns DEF CallAnswered
  <1>3. Running(s, req) /\ req.client = Client(s, ask) /\ Services!Calls(ask) \in 1..5
    BY <1>1, <1>2, ServedRuns
  <1>4. Rephrasing(s, req)
    BY <1>2, <1>3 DEF Running
  <1>5. VariantsOf(s, ask, req.variants) /\ Len(req.variants) \in Nat
    BY <1>2, <1>4, HasLength DEF Rephrasing, VariantsOf
  <1>6. req.called \in Nat /\ req.called < Services!Calls(ask) /\ Len(req.variants) <= req.called
    BY <1>2, <1>4 DEF Rephrasing
  <1>7. /\ ServedTo(s, t, r, last) /\ Spoke(s, t, ask, ask.text, v)
        /\ t.toneCache = s.toneCache /\ t.completeCache = s.completeCache
    BY <1>2, <1>3 DEF CallAnswered, Services!Said, ServicesInv, Shared, ServicesNames, ServedTo, Spoke
  <1>8. /\ Grows(s, t) /\ (\A g \in t.given["tone"] : g.is \in Services!Tones)
        /\ v \in Saids(t, ask, ask.text)
    <2>1. ask.feature # "tone"
      BY <1>2
    <2>2. t.setup = s.setup
      BY <1>7 DEF ServedTo
    <2> QED
      BY <1>7, <2>1, <2>2, Speaks
  <1>9. Shared(t)
    BY <1>7, <1>8, SharedGrows DEF ServicesInv
  <1>10. Distinct(Saids(t, ask, ask.text) \ {""}, req.variants)
    <2>1. Saids(s, ask, ask.text) \subseteq Saids(t, ask, ask.text)
      BY <1>8, SaidGrows
    <2>2. PICK A, B : A = Saids(s, ask, ask.text) \ {""} /\ B = Saids(t, ask, ask.text) \ {""}
      OBVIOUS
    <2>3. A \subseteq B
      BY <2>1, <2>2
    <2>4. Distinct(A, req.variants)
      BY <2>2, <1>5 DEF VariantsOf
    <2>5. Distinct(B, req.variants)
      BY <2>3, <2>4, DistinctGrows
    <2> QED
      BY <2>2, <2>5
  <1>11. VariantsOf(t, ask, variants) /\ Len(variants) \in {Len(req.variants), Len(req.variants) + 1}
    <2>1. v \in (Saids(t, ask, ask.text) \ {""}) \cup {""}
      BY <1>8
    <2> QED
      BY <1>10, <2>1, Varies DEF VariantsOf, CallAnswered
  <1>12. Len(variants) <= req.called + 1
    BY <1>5, <1>6, <1>11, OneMore
  <1>13. /\ next.ask = ask /\ next.is = "running" /\ next.client = Client(s, ask)
         /\ next.called = req.called + 1 /\ next.variants = variants
         /\ DOMAIN next = {"is", "ask", "client", "called", "variants"}
    BY <1>2, <1>3, <1>4 DEF Rephrasing, CallAnswered, Running
  <1>14. next.called \in Nat /\ next.called <= Services!Calls(ask)
    BY <1>3, <1>6, <1>13
  <1>15. CASE next.called = Services!Calls(ask)
    <2>1. Len(variants) \in Nat
      BY <1>11, HasLength DEF VariantsOf
    <2>2. Len(variants) <= 5
      BY <1>3, <1>12, <1>13, <1>15, <2>1
    <2>3. next.ask.feature = "rephrase"
      BY <1>2, <1>13
    <2>4. RequestOK(t, Services!Rephrased(next, variants))
      BY <1>11, <1>13, <2>2, <2>3, RephrasedIsOK
    <2>5. last = Services!Rephrased(next, variants)
      BY <1>2, <1>15 DEF CallAnswered
    <2>6. RequestOK(t, last)
      BY <2>4, <2>5
    <2> QED
      BY <1>7, <1>8, <1>9, <2>6, Serves
  <1>16. CASE next.called # Services!Calls(ask)
    <2>1. next.called < Services!Calls(ask)
      BY <1>3, <1>14, <1>16
    <2>2. next.client = Client(t, ask)
      BY <1>8, <1>13, SaidGrows
    <2>3. Len(next.variants) <= next.called /\ VariantsOf(t, next.ask, next.variants)
      BY <1>11, <1>12, <1>13
    <2>4. Rephrasing(t, next)
      BY <1>13, <1>14, <2>1, <2>3 DEF Rephrasing
    <2>5. Running(t, next)
      BY <1>2, <1>13, <2>2, <2>4 DEF Running
    <2>6. RequestOK(t, last)
      BY <1>2, <1>16, <2>5 DEF RequestOK, CallAnswered
    <2> QED
      BY <1>7, <1>8, <1>9, <2>6, Serves
  <1> QED
    BY <1>15, <1>16

\* So do all steps of a rephrasing.
LEMMA RephraseServes ==
  ASSUME ServicesInv(state), NEW r \in Bridge.services.requests, Services!CallToRephrase(r)
  PROVE  ServicesInv(state')
  <1>1. PICK req : req = state.requests[r]
    OBVIOUS
  <1>2. req.is = "running" /\ req.ask.feature = "rephrase"
    BY <1>1 DEF Services!CallToRephrase
  <1>3. CASE state' = [state EXCEPT !.requests[r] = Services!Rephrased(req, req.variants)]
    BY <1>1, <1>2, <1>3, FailedCallServes
  <1>4. ASSUME NEW v,
               state' = [Services!Said(state, req, req.ask.text, v) EXCEPT !.requests[r] =
                 IF [req EXCEPT !.called = @ + 1, !.variants = Services!Varied(req.variants, v)].called
                      = Services!Calls(req.ask)
                 THEN Services!Rephrased([req EXCEPT !.called = @ + 1,
                                          !.variants = Services!Varied(req.variants, v)],
                                         Services!Varied(req.variants, v))
                 ELSE [req EXCEPT !.called = @ + 1, !.variants = Services!Varied(req.variants, v)]]
        PROVE  ServicesInv(state')
    <2>1. PICK variants : variants = Services!Varied(req.variants, v)
      OBVIOUS
    <2>2. PICK next : next = [req EXCEPT !.called = @ + 1, !.variants = variants]
      OBVIOUS
    <2>3. PICK last : last = IF next.called = Services!Calls(req.ask)
                             THEN Services!Rephrased(next, variants) ELSE next
      OBVIOUS
    <2>4. state' = [Services!Said(state, req, req.ask.text, v) EXCEPT !.requests[r] = last]
      BY <1>4, <2>1, <2>2, <2>3
    <2>5. CallAnswered(state, state', r, req, v, variants, next, last)
      BY <1>1, <1>2, <2>1, <2>2, <2>3, <2>4 DEF CallAnswered
    <2> QED
      BY <2>5, CallServes
  <1> QED
    BY <1>1, <1>3, <1>4 DEF Services!CallToRephrase

\* The next unit has its tone.
LeftOf(U, units, T, tones, left) ==
  /\ units \in Seq(U) /\ tones \in Seq(T) /\ left \in Seq(U)
  /\ Len(left) = Len(units) - Len(tones)
  /\ \A i \in 1..Len(left) : left[i] = units[Len(tones) + i]

NextOf(units, T, tones, left, t) ==
  /\ Append(tones, t) \in Seq(T)
  /\ Len(tones) + 1 \in 1..Len(units) /\ Head(left) = units[Len(tones) + 1]
  /\ Len(Append(tones, t)) = Len(tones) + 1 /\ Append(tones, t)[Len(tones) + 1] = t
  /\ \A i \in 1..Len(tones) : Append(tones, t)[i] = tones[i]

\* Taking the tones of the next sentence takes it from those that are left.
LEMMA TakesOne ==
  ASSUME NEW U, NEW units, NEW T, NEW tones, NEW left, LeftOf(U, units, T, tones, left), left # <<>>,
         NEW t \in T
  PROVE  /\ LeftOf(U, units, T, Append(tones, t), Tail(left))
         /\ NextOf(units, T, tones, left, t)
  <1>a. /\ units \in Seq(U) /\ tones \in Seq(T) /\ left \in Seq(U)
        /\ Len(left) = Len(units) - Len(tones)
        /\ \A i \in 1..Len(left) : left[i] = units[Len(tones) + i]
    BY DEF LeftOf
  <1>1. Len(left) \in Nat /\ Len(left) > 0 /\ Len(tones) \in Nat /\ Len(units) \in Nat
    BY <1>a, Lengths
  <1>2. /\ Append(tones, t) \in Seq(T) /\ Len(Append(tones, t)) = Len(tones) + 1
        /\ Append(tones, t)[Len(tones) + 1] = t
        /\ \A i \in 1..Len(tones) : Append(tones, t)[i] = tones[i]
    BY <1>a, Appends
  <1>3. /\ Tail(left) \in Seq(U) /\ Len(Tail(left)) = Len(left) - 1 /\ Head(left) = left[1]
        /\ \A i \in 1..Len(Tail(left)) : Tail(left)[i] = left[i + 1]
    BY <1>a, <1>1
  <1>4. Len(tones) + 1 \in 1..Len(units) /\ Head(left) = units[Len(tones) + 1]
    BY <1>a, <1>1, <1>3
  <1>5. ASSUME NEW i \in 1..Len(Tail(left))
        PROVE  Tail(left)[i] = units[Len(Append(tones, t)) + i]
    <2>1. i + 1 \in 1..Len(left) /\ Len(tones) + (i + 1) = Len(Append(tones, t)) + i
      BY <1>a, <1>1, <1>2, <1>3
    <2> QED
      BY <1>a, <1>3, <2>1
  <1>6. Len(Tail(left)) = Len(units) - Len(Append(tones, t))
    BY <1>a, <1>1, <1>2, <1>3
  <1> QED
    BY <1>a, <1>2, <1>3, <1>4, <1>5, <1>6 DEF LeftOf, NextOf

\* The next is one more.
LEMMA UpToNext == ASSUME NEW n \in Nat, NEW i \in 1..(n + 1) PROVE i \in 1..n \/ i = n + 1
  OBVIOUS

\* A request that has the tones of its next sentence is in order.
LEMMA TonedIsOK ==
  ASSUME NEW s, NEW req, Running(s, req), req.ask.feature = "tone", req.left # <<>>,
         NEW tones \in Services!Tones, tones \in {{}} \cup Saids(s, req.ask, Head(req.left)),
         NEW next, next = Services!Toned(req, tones)
  PROVE  RequestOK(s, next)
  <1>1. PICK ask, units, before, left : ask \in Bridge.services.asks /\
          ask = req.ask /\ units = UnitsOf(s, ask) /\ before = req.tones /\ left = req.left
    BY DEF Running
  <1>2. Toning(s, req)
    BY DEF Running
  <1>3. /\ before \in Seq(Services!Tones) /\ Len(before) <= Len(units)
        /\ \A i \in 1..Len(before) : before[i] \in {{}} \cup Saids(s, ask, units[i])
    BY <1>1, <1>2 DEF Toning, TonesOf
  <1>4. /\ left \in Seq(Services!Range(units)) /\ Len(left) = Len(units) - Len(before)
        /\ \A i \in 1..Len(left) : left[i] = units[Len(before) + i]
    BY <1>1, <1>2 DEF Toning
  <1>5. units \in Seq(Services!Range(units))
    BY <1>1, UnitsAreASeq
  <1>6. /\ next.is = "running" /\ next.ask = ask /\ next.client = Client(s, ask)
        /\ next.left = Tail(left) /\ next.tones = Append(before, tones)
        /\ DOMAIN next = {"is", "ask", "client", "left", "tones", "waits"}
    BY <1>1, <1>2 DEF Services!Toned, Running, Toning
  <1>7. left # <<>>
    BY <1>1
  <1>a. LeftOf(Services!Range(units), units, Services!Tones, before, left)
    BY <1>3, <1>4, <1>5 DEF LeftOf
  <1>b. /\ LeftOf(Services!Range(units), units, Services!Tones, Append(before, tones), Tail(left))
        /\ NextOf(units, Services!Tones, before, left, tones)
    BY <1>7, <1>a, TakesOne
  <1>8. /\ Tail(left) \in Seq(Services!Range(units)) /\ Append(before, tones) \in Seq(Services!Tones)
        /\ Len(before) + 1 \in 1..Len(units) /\ Head(left) = units[Len(before) + 1]
        /\ Len(Tail(left)) = Len(units) - Len(Append(before, tones))
        /\ \A i \in 1..Len(Tail(left)) : Tail(left)[i] = units[Len(Append(before, tones)) + i]
        /\ Len(Append(before, tones)) = Len(before) + 1 /\ Append(before, tones)[Len(before) + 1] = tones
        /\ \A i \in 1..Len(before) : Append(before, tones)[i] = before[i]
    BY <1>b DEF LeftOf, NextOf
  <1>9. ASSUME NEW i \in 1..Len(Append(before, tones))
        PROVE  Append(before, tones)[i] \in {{}} \cup Saids(s, ask, units[i])
    <2>1. i \in 1..Len(before) \/ i = Len(before) + 1
      BY <1>3, <1>8, UpToNext, Lengths
    <2>2. tones \in {{}} \cup Saids(s, ask, units[Len(before) + 1])
      BY <1>1, <1>8
    <2>3. CASE i \in 1..Len(before)
      <3>1. Append(before, tones)[i] = before[i]
        BY <1>8, <2>3
      <3> QED
        BY <1>3, <2>3, <3>1
    <2>4. CASE i = Len(before) + 1
      <3>1. Append(before, tones)[i] = tones
        BY <1>8, <2>4
      <3> QED
        BY <2>2, <2>4, <3>1
    <2> QED
      BY <2>1, <2>3, <2>4
  <1>10. Len(Append(before, tones)) <= Len(units)
    BY <1>8
  <1>11. TonesOf(s, ask, next.tones)
    BY <1>1, <1>6, <1>8, <1>9, <1>10 DEF TonesOf
  <1>12. Toning(s, next)
    <2>1. next.tones = Append(before, tones) /\ next.left = Tail(left) /\ next.ask = ask
      BY <1>6
    <2>2. /\ next.left \in Seq(Services!Range(units)) /\ Len(next.left) = Len(units) - Len(next.tones)
          /\ \A i \in 1..Len(next.left) : next.left[i] = units[Len(next.tones) + i]
      BY <1>8, <2>1
    <2>3. UnitsOf(s, next.ask) = units
      BY <1>1, <2>1
    <2>4. TonesOf(s, next.ask, next.tones)
      BY <1>11, <2>1
    <2> QED
      BY <1>6, <2>2, <2>3, <2>4 DEF Toning
  <1>13. next.ask.feature = "tone"
    BY <1>1, <1>6
  <1> QED
    BY <1>1, <1>6, <1>12, <1>13 DEF Running, RequestOK

\* A text that has all its tones is answered with them.
TonesFinished(s, t, r, req) ==
  /\ req = s.requests[r] /\ req.is = "running" /\ req.ask.feature = "tone" /\ req.left = <<>>
  /\ t = [s EXCEPT !.requests[r] =
       Services!Done(req, 200, [tags |-> Services!Aggregated(req.tones),
                                sentences |-> IF req.ask.granularity = "sentence" THEN req.tones ELSE <<>>])]

\* A request whose sentences all have their tones is answered with them.
LEMMA FinishServes ==
  ASSUME NEW s, ServicesInv(s), NEW r \in Bridge.services.requests, NEW t, NEW req, TonesFinished(s, t, r, req)
  PROVE  ServicesInv(t)
  <1>1. RequestOK(s, req) /\ req.is = "running"
    BY DEF ServicesInv, TonesFinished
  <1>2. PICK ask \in Bridge.services.asks : ask = req.ask /\ ask.feature = "tone"
    BY <1>1, ServedRuns DEF TonesFinished
  <1>3. Toning(s, req)
    BY <1>1, <1>2, ServedRuns DEF Running
  <1>4. TonesOf(s, ask, req.tones) /\ req.left = <<>>
    BY <1>2, <1>3 DEF Toning, TonesFinished
  <1>5. Len(req.tones) = Len(UnitsOf(s, ask))
    <2>1. Len(req.left) = 0 /\ Len(req.left) = Len(UnitsOf(s, ask)) - Len(req.tones)
      BY <1>2, <1>3, <1>4 DEF Toning
    <2>2. Len(UnitsOf(s, ask)) \in Nat /\ Len(req.tones) \in Nat
      BY <1>4, UnitsAreASeq, Lengths DEF TonesOf
    <2> QED
      BY <2>1, <2>2
  <1>6. PICK answer : answer = [tags |-> Services!Aggregated(req.tones),
                                sentences |-> IF ask.granularity = "sentence" THEN req.tones ELSE <<>>]
    OBVIOUS
  <1>7. TonesAre(s, ask, answer)
    BY <1>4, <1>5, <1>6 DEF TonesAre
  <1>8. PICK done : done = Services!Done(req, 200, answer)
    OBVIOUS
  <1>9. done.is = "done" /\ done.ask = ask /\ done.answer = answer
    BY <1>2, <1>8 DEF Services!Done
  <1>10. RequestOK(s, done)
    <2>1. ask.feature # "rephrase" /\ ask.feature # "complete"
      BY <1>2
    <2> QED
      BY <1>7, <1>9, <2>1 DEF RequestOK, Answered
  <1>11. /\ ServedTo(s, t, r, done) /\ t.given = s.given
         /\ t.toneCache = s.toneCache /\ t.completeCache = s.completeCache
    BY <1>2, <1>6, <1>8 DEF TonesFinished, ServicesInv, Shared, ServicesNames, ServedTo
  <1> QED
    BY <1>10, <1>11, Quiet

\* A unit is looked for: it is blank, its tones are cached, or they are asked for.
TonesLookedFor(s, t, r, req, unit, key) ==
  /\ req = s.requests[r] /\ req.is = "running" /\ req.ask.feature = "tone" /\ req.left # <<>>
  /\ unit = Head(req.left) /\ key = Services!ToneKey(req.client.model, unit)
  /\ t = IF unit = Services!Blank THEN [s EXCEPT !.requests[r] = Services!Toned(req, {})]
         ELSE IF Services!Cached(s.toneCache, key)
         THEN [s EXCEPT !.toneCache = Services!Used(@, key), !.hits = @ + 1,
                        !.requests[r] = Services!Toned(req, Services!EntryOf(s.toneCache, key).value)]
         ELSE [s EXCEPT !.requests[r].waits = TRUE,
                        !.misses = @ + (IF Bridge.services.cacheSize > 0 THEN 1 ELSE 0)]

\* What is cached of a key was said of it.
LEMMA CachedWasSaid ==
  ASSUME NEW s, Shared(s), NEW model, NEW text,
         Services!Cached(s.toneCache, Services!ToneKey(model, text))
  PROVE  LET key == Services!ToneKey(model, text)
             tones == Services!EntryOf(s.toneCache, key).value
         IN  /\ tones \in Services!Tones /\ tones \in SaidBy(s, "tone", model, text)
             /\ Services!Used(s.toneCache, key) \in Seq(ToneEntries(s))
  <1>1. PICK key, e : key = Services!ToneKey(model, text) /\ e = Services!EntryOf(s.toneCache, key)
    OBVIOUS
  <1>2. s.toneCache \in Seq(ToneEntries(s)) /\ Services!Cached(s.toneCache, key)
    BY <1>1 DEF Shared
  <1>3. e \in ToneEntries(s) /\ e.key = key /\ Services!Used(s.toneCache, key) \in Seq(ToneEntries(s))
    BY <1>1, <1>2, CacheHolds
  <1>4. PICK g \in s.given["tone"] : e.key = <<g.by.model, g.of>> /\ e.value = g.is
    BY <1>3 DEF ToneEntries
  <1>5. g.by.model = model /\ g.of = text
    BY <1>1, <1>3, <1>4 DEF Services!ToneKey
  <1>6. e.value \in Services!Tones
    BY <1>4 DEF Shared
  <1>7. e.value \in SaidBy(s, "tone", model, text)
    BY <1>4, <1>5 DEF SaidBy
  <1> QED
    BY <1>1, <1>3, <1>6, <1>7

\* None is a set of tones.
LEMMA NoTones == {} \in Services!Tones
  BY DEF Services!Tones

\* A sentence is looked up in the cache: found, or asked for.
LEMMA LookServes ==
  ASSUME NEW s, ServicesInv(s), NEW r \in Bridge.services.requests, NEW t, NEW req, NEW unit, NEW key,
         TonesLookedFor(s, t, r, req, unit, key)
  PROVE  ServicesInv(t)
  <1>1. /\ RequestOK(s, req) /\ req.is = "running" /\ req.ask.feature = "tone" /\ req.left # <<>>
        /\ unit = Head(req.left) /\ key = Services!ToneKey(req.client.model, unit)
    BY DEF ServicesInv, TonesLookedFor
  <1>2. Running(s, req) /\ req.ask \in Bridge.services.asks /\ req.client = Client(s, req.ask)
    BY <1>1, ServedRuns
  <1>3. CASE unit = Services!Blank
    <2>1. PICK next : next = Services!Toned(req, {})
      OBVIOUS
    <2>2. RequestOK(s, next)
      BY <1>1, <1>2, <2>1, NoTones, TonedIsOK
    <2>3. /\ ServedTo(s, t, r, next) /\ t.given = s.given
          /\ t.toneCache = s.toneCache /\ t.completeCache = s.completeCache
      BY <1>3, <2>1 DEF TonesLookedFor, ServicesInv, Shared, ServicesNames, ServedTo
    <2> QED
      BY <2>2, <2>3, Quiet
  <1>4. CASE unit # Services!Blank /\ Services!Cached(s.toneCache, key)
    <2>1. PICK tones : tones = Services!EntryOf(s.toneCache, key).value
      OBVIOUS
    <2>2. /\ tones \in Services!Tones /\ tones \in SaidBy(s, "tone", req.client.model, unit)
          /\ Services!Used(s.toneCache, key) \in Seq(ToneEntries(s))
      BY <1>1, <1>4, <2>1, CachedWasSaid DEF ServicesInv
    <2>3. tones \in Saids(s, req.ask, Head(req.left))
      BY <1>1, <1>2, <2>2 DEF Saids
    <2>4. PICK next : next = Services!Toned(req, tones)
      OBVIOUS
    <2>5. RequestOK(s, next)
      BY <1>1, <1>2, <2>2, <2>3, <2>4, TonedIsOK
    <2>6. /\ ServedTo(s, t, r, next) /\ t.given = s.given
          /\ t.toneCache = Services!Used(s.toneCache, key) /\ t.completeCache = s.completeCache
      BY <1>4, <2>1, <2>4 DEF TonesLookedFor, ServicesInv, Shared, ServicesNames, ServedTo
    <2>7. t.toneCache \in Seq(ToneEntries(s))
      BY <2>2, <2>6
    <2> QED
      BY <2>5, <2>6, <2>7, Quiet
  <1>5. CASE unit # Services!Blank /\ ~Services!Cached(s.toneCache, key)
    <2>1. PICK next : next = [req EXCEPT !.waits = TRUE]
      OBVIOUS
    <2>2. Toning(s, req)
      BY <1>1, <1>2 DEF Running
    <2>3. /\ DOMAIN next = DOMAIN req /\ next.is = req.is /\ next.ask = req.ask /\ next.client = req.client
          /\ next.left = req.left /\ next.tones = req.tones
      BY <2>1, <2>2 DEF Toning
    <2>4. Toning(s, next)
      BY <2>2, <2>3 DEF Toning
    <2>5. RequestOK(s, next)
      BY <1>1, <1>2, <2>3, <2>4 DEF Running, RequestOK
    <2>6. /\ ServedTo(s, t, r, next) /\ t.given = s.given
          /\ t.toneCache = s.toneCache /\ t.completeCache = s.completeCache
      BY <1>1, <1>5, <2>1 DEF TonesLookedFor, ServicesInv, Shared, ServicesNames, ServedTo
    <2> QED
      BY <2>5, <2>6, Quiet
  <1> QED
    BY <1>3, <1>4, <1>5

\* The model that was asked for tones fails,
TonesUnheard(s, t, r, req) ==
  /\ req = s.requests[r] /\ req.is = "running" /\ req.ask.feature = "tone" /\ req.left # <<>>
  /\ t = [s EXCEPT !.requests[r] = Services!Toned(req, {})]

\* The model fails to say the tones, and the request with it or not.
LEMMA UnheardServes ==
  ASSUME NEW s, ServicesInv(s), NEW r \in Bridge.services.requests, NEW t, NEW req, TonesUnheard(s, t, r, req)
  PROVE  ServicesInv(t)
  <1>1. RequestOK(s, req) /\ req.is = "running" /\ req.ask.feature = "tone" /\ req.left # <<>>
    BY DEF ServicesInv, TonesUnheard
  <1>2. Running(s, req)
    BY <1>1, ServedRuns
  <1>3. PICK next : next = Services!Toned(req, {})
    OBVIOUS
  <1>4. RequestOK(s, next)
    BY <1>1, <1>2, <1>3, NoTones, TonedIsOK
  <1>5. /\ ServedTo(s, t, r, next) /\ t.given = s.given
        /\ t.toneCache = s.toneCache /\ t.completeCache = s.completeCache
    BY <1>3 DEF TonesUnheard, ServicesInv, Shared, ServicesNames, ServedTo
  <1> QED
    BY <1>4, <1>5, Quiet

\* or says what they are, and they are kept.
TonesHeard(s, t, r, req, unit, tones) ==
  /\ req = s.requests[r] /\ req.is = "running" /\ req.ask.feature = "tone" /\ req.left # <<>>
  /\ unit = Head(req.left) /\ tones \in Services!Tones
  /\ t = [Services!Said(s, req, unit, tones) EXCEPT
            !.requests[r] = Services!Toned(req, tones),
            !.toneCache = Services!Added(@, Services!ToneKey(req.client.model, unit), tones)]

\* The model says the tones of a sentence, and they are remembered.
LEMMA HearServes ==
  ASSUME NEW s, ServicesInv(s), NEW r \in Bridge.services.requests, NEW t, NEW req, NEW unit, NEW tones,
         TonesHeard(s, t, r, req, unit, tones)
  PROVE  ServicesInv(t)
  <1>1. /\ RequestOK(s, req) /\ req.is = "running" /\ req.left # <<>>
        /\ unit = Head(req.left) /\ tones \in Services!Tones
    BY DEF ServicesInv, TonesHeard
  <1>2. PICK ask \in Bridge.services.asks : ask = req.ask /\ ask.feature = "tone"
    BY <1>1, ServedRuns DEF TonesHeard
  <1>3. Running(s, req) /\ req.client = Client(s, ask)
    BY <1>1, <1>2, ServedRuns
  <1>4. PICK next, key : next = Services!Toned(req, tones) /\ key = Services!ToneKey(req.client.model, unit)
    OBVIOUS
  <1>5. /\ ServedTo(s, t, r, next) /\ Spoke(s, t, ask, unit, tones)
        /\ t.toneCache = Services!Added(s.toneCache, key, tones) /\ t.completeCache = s.completeCache
    BY <1>2, <1>3, <1>4 DEF TonesHeard, Services!Said, ServicesInv, Shared, ServicesNames, ServedTo, Spoke
  <1>6. t.setup = s.setup
    BY <1>5 DEF ServedTo
  <1>7. /\ Grows(s, t) /\ (\A g \in t.given["tone"] : g.is \in Services!Tones)
        /\ tones \in Saids(t, ask, unit)
        /\ [key |-> <<Client(s, ask).model, unit>>, value |-> tones] \in ToneEntries(t)
    BY <1>1, <1>2, <1>5, <1>6, Speaks
  <1>8. t.toneCache \in Seq(ToneEntries(t))
    <2>1. s.toneCache \in Seq(ToneEntries(t))
      BY <1>7, EntriesGrow, SeqGrows DEF ServicesInv, Shared
    <2>2. [key |-> key, value |-> tones] \in ToneEntries(t)
      BY <1>3, <1>4, <1>7 DEF Services!ToneKey
    <2>3. Services!Added(s.toneCache, key, tones) \in Seq(ToneEntries(t))
      BY <2>1, <2>2, CacheHolds
    <2> QED
      BY <1>5, <2>3
  <1>9. Shared(t)
    BY <1>5, <1>7, <1>8, SharedGrows DEF ServicesInv
  <1>10. Running(t, req)
    <2>1. RequestOK(t, req)
      BY <1>1, <1>7, RequestGrows
    <2> QED
      BY <1>1, <2>1, ServedRuns
  <1>11. RequestOK(t, next)
    BY <1>1, <1>2, <1>4, <1>7, <1>10, TonedIsOK
  <1> QED
    BY <1>5, <1>7, <1>9, <1>11, Serves

-----------------------------------------------------------------------------
(* Continuations. *)

CompletionLookedFor(s, t, r, req, key) ==
  /\ req = s.requests[r] /\ req.is = "running" /\ req.ask.feature = "complete"
  /\ key = Services!CompleteKey(req.ask.source, req.ask.text)
  /\ t = IF Services!Cached(s.completeCache, key)
         THEN [s EXCEPT !.completeCache = Services!Used(@, key),
                !.requests[r] = Services!Done(req, 200, Services!EntryOf(s.completeCache, key).value)]
         ELSE [s EXCEPT !.requests[r].waits = TRUE]

\* A continuation that was said of the text is an answer.
LEMMA ContinuedIsOK ==
  ASSUME NEW s, NEW req, req.ask \in Bridge.services.asks, req.ask.feature = "complete", NEW answer,
         \E g \in s.given["complete"] :
           g.of = Services!CompleteKey(req.ask.source, req.ask.text) /\ g.is = answer,
         NEW done, done = Services!Done(req, 200, answer)
  PROVE  RequestOK(s, done)
  <1>1. done.is = "done" /\ done.ask = req.ask /\ done.answer = answer
    BY DEF Services!Done
  <1>2. Continues(s, done.ask, done.answer)
    BY <1>1 DEF Continues
  <1>3. done.ask.feature # "rephrase" /\ done.ask.feature # "tone"
    BY <1>1
  <1> QED
    BY <1>1, <1>2, <1>3 DEF RequestOK, Answered

\* A continuation is looked up in the cache: found, or asked for.
LEMMA LookCompletionServes ==
  ASSUME NEW s, ServicesInv(s), NEW r \in Bridge.services.requests, NEW t, NEW req, NEW key,
         CompletionLookedFor(s, t, r, req, key)
  PROVE  ServicesInv(t)
  <1>1. /\ RequestOK(s, req) /\ req.is = "running" /\ req.ask.feature = "complete"
        /\ key = Services!CompleteKey(req.ask.source, req.ask.text)
    BY DEF ServicesInv, CompletionLookedFor
  <1>2. Running(s, req) /\ req.ask \in Bridge.services.asks
    BY <1>1, ServedRuns
  <1>3. CASE Services!Cached(s.completeCache, key)
    <2>1. PICK e : e = Services!EntryOf(s.completeCache, key)
      OBVIOUS
    <2>2. s.completeCache \in Seq(CompleteEntries(s))
      BY DEF ServicesInv, Shared
    <2>3. e \in CompleteEntries(s) /\ e.key = key
          /\ Services!Used(s.completeCache, key) \in Seq(CompleteEntries(s))
      BY <1>3, <2>1, <2>2, CacheHolds
    <2>4. \E g \in s.given["complete"] : g.of = key /\ g.is = e.value
      <3>1. PICK g \in s.given["complete"] : e = [key |-> g.of, value |-> g.is]
        BY <2>3 DEF CompleteEntries
      <3>2. e.key = g.of /\ e.value = g.is
        BY <3>1
      <3> QED
        BY <2>3, <3>2
    <2>5. PICK done : done = Services!Done(req, 200, e.value)
      OBVIOUS
    <2>6. RequestOK(s, done)
      BY <1>1, <1>2, <2>4, <2>5, ContinuedIsOK
    <2>7. /\ ServedTo(s, t, r, done) /\ t.given = s.given /\ t.toneCache = s.toneCache
          /\ t.completeCache = Services!Used(s.completeCache, key)
      BY <1>3, <2>1, <2>5 DEF CompletionLookedFor, ServicesInv, Shared, ServicesNames, ServedTo
    <2>8. t.completeCache \in Seq(CompleteEntries(s))
      BY <2>3, <2>7
    <2> QED
      BY <2>6, <2>7, <2>8, Quiet
  <1>4. CASE ~Services!Cached(s.completeCache, key)
    <2>1. PICK next : next = [req EXCEPT !.waits = TRUE]
      OBVIOUS
    <2>2. DOMAIN req = {"is", "ask", "client", "waits"}
      BY <1>1, <1>2 DEF Running
    <2>3. DOMAIN next = DOMAIN req /\ next.is = req.is /\ next.ask = req.ask /\ next.client = req.client
      BY <2>1, <2>2
    <2>4. next.ask.feature # "rephrase" /\ next.ask.feature # "tone"
      BY <1>1, <2>3
    <2>5. RequestOK(s, next)
      BY <1>1, <1>2, <2>2, <2>3, <2>4 DEF Running, RequestOK
    <2>6. /\ ServedTo(s, t, r, next) /\ t.given = s.given
          /\ t.toneCache = s.toneCache /\ t.completeCache = s.completeCache
      BY <1>1, <1>4, <2>1 DEF CompletionLookedFor, ServicesInv, Shared, ServicesNames, ServedTo
    <2> QED
      BY <2>5, <2>6, Quiet
  <1> QED
    BY <1>3, <1>4

CompletionUnheard(s, t, r, req) ==
  /\ req = s.requests[r] /\ req.is = "running" /\ req.ask.feature = "complete"
  /\ t = [s EXCEPT !.requests[r] = Services!Done(req, 502, Services!Nothing)]

\* The model fails to continue, and the request with it.
LEMMA UnheardCompletionServes ==
  ASSUME NEW s, ServicesInv(s), NEW r \in Bridge.services.requests, NEW t, NEW req,
         CompletionUnheard(s, t, r, req)
  PROVE  ServicesInv(t)
  <1>1. PICK done : done = Services!Done(req, 502, Services!Nothing)
    OBVIOUS
  <1>2. done.is = "done" /\ done.status = 502
    BY <1>1 DEF Services!Done
  <1>3. RequestOK(s, done)
    BY <1>2 DEF RequestOK, Answered
  <1>4. /\ ServedTo(s, t, r, done) /\ t.given = s.given
        /\ t.toneCache = s.toneCache /\ t.completeCache = s.completeCache
    BY <1>1 DEF CompletionUnheard, ServicesInv, Shared, ServicesNames, ServedTo
  <1> QED
    BY <1>3, <1>4, Quiet

CompletionHeard(s, t, r, req, key, v) ==
  /\ req = s.requests[r] /\ req.is = "running" /\ req.ask.feature = "complete"
  /\ key = Services!CompleteKey(req.ask.source, req.ask.text)
  /\ t = [Services!Said(s, req, key, v) EXCEPT
            !.requests[r] = Services!Done(req, 200, v),
            !.completeCache = Services!Completed(@, key, v)]

\* The model continues, and that is remembered if it says something.
LEMMA HearCompletionServes ==
  ASSUME NEW s, ServicesInv(s), NEW r \in Bridge.services.requests, NEW t, NEW req, NEW key, NEW v,
         CompletionHeard(s, t, r, req, key, v)
  PROVE  ServicesInv(t)
  <1>1. RequestOK(s, req) /\ req.is = "running" /\ key = Services!CompleteKey(req.ask.source, req.ask.text)
    BY DEF ServicesInv, CompletionHeard
  <1>2. PICK ask \in Bridge.services.asks : ask = req.ask /\ ask.feature = "complete"
    BY <1>1, ServedRuns DEF CompletionHeard
  <1>3. req.client = Client(s, ask)
    BY <1>1, <1>2, ServedRuns
  <1>4. PICK done : done = Services!Done(req, 200, v)
    OBVIOUS
  <1>5. /\ ServedTo(s, t, r, done) /\ Spoke(s, t, ask, key, v) /\ t.toneCache = s.toneCache
        /\ t.completeCache = Services!Completed(s.completeCache, key, v)
    BY <1>2, <1>3, <1>4
       DEF CompletionHeard, Services!Said, ServicesInv, Shared, ServicesNames, ServedTo, Spoke
  <1>6. t.setup = s.setup /\ ask.feature # "tone"
    BY <1>2, <1>5 DEF ServedTo
  <1>7. /\ Grows(s, t) /\ (\A g \in t.given["tone"] : g.is \in Services!Tones)
        /\ (v # "" => [key |-> key, value |-> v] \in CompleteEntries(t))
        /\ \E g \in t.given["complete"] : g.of = key /\ g.is = v
    <2>1. ask.feature = "tone" => v \in Services!Tones
      BY <1>6
    <2>2. Grows(s, t) /\ \A g \in t.given["tone"] : g.is \in Services!Tones
      BY <1>5, <1>6, <2>1, Speaks
    <2>3. v # "" => [key |-> key, value |-> v] \in CompleteEntries(t)
      BY <1>2, <1>5, <1>6, <2>1, Speaks
    <2>4. PICK new : new = [by |-> Client(s, ask), of |-> key, is |-> v]
      OBVIOUS
    <2>5. new \in t.given["complete"]
      <3>1. "complete" \in DOMAIN s.given
        BY DEF ServicesInv, Shared, Services!Features
      <3> QED
        BY <1>2, <1>5, <2>4, <3>1 DEF Spoke
    <2>6. \E g \in t.given["complete"] : g.of = key /\ g.is = v
      BY <2>4, <2>5
    <2> QED
      BY <2>2, <2>3, <2>6
  <1>8. t.completeCache \in Seq(CompleteEntries(t))
    <2>1. s.completeCache \in Seq(CompleteEntries(t))
      BY <1>7, EntriesGrow, SeqGrows DEF ServicesInv, Shared
    <2>2. CASE v = ""
      BY <1>5, <2>1, <2>2 DEF Services!Completed
    <2>3. CASE v # ""
      <3>1. Services!Added(s.completeCache, key, v) \in Seq(CompleteEntries(t))
        BY <1>7, <2>1, <2>3, CacheHolds
      <3> QED
        BY <1>5, <2>3, <3>1 DEF Services!Completed
    <2> QED
      BY <2>2, <2>3
  <1>9. Shared(t)
    BY <1>5, <1>7, <1>8, SharedGrows DEF ServicesInv
  <1>10. RequestOK(t, done)
    BY <1>1, <1>2, <1>4, <1>7, ContinuedIsOK
  <1> QED
    BY <1>5, <1>7, <1>9, <1>10, Serves

\* Whatever serves a request keeps the invariant,
LEMMA ServicesStep ==
  ASSUME ServicesInv(state), [Services!Next]_state
  PROVE  ServicesInv(state')
  <1>1. CASE UNCHANGED state
    BY <1>1
  <1>2. ASSUME NEW r \in Bridge.services.requests, Services!Ask(r)
        PROVE  ServicesInv(state')
    BY <1>2, AskServes
  <1>3. ASSUME NEW r \in Bridge.services.requests, Services!CallToRephrase(r)
        PROVE  ServicesInv(state')
    BY <1>3, RephraseServes
  <1>4. ASSUME NEW r \in Bridge.services.requests, Services!FinishTone(r)
        PROVE  ServicesInv(state')
    <2>1. TonesFinished(state, state', r, state.requests[r])
      BY <1>4 DEF Services!FinishTone, TonesFinished
    <2> QED
      BY <2>1, FinishServes
  <1>5. ASSUME NEW r \in Bridge.services.requests, Services!LookForTone(r)
        PROVE  ServicesInv(state')
    <2>1. PICK req, unit, key : req = state.requests[r] /\ unit = Head(req.left)
                                /\ key = Services!ToneKey(req.client.model, unit)
      OBVIOUS
    <2>2. TonesLookedFor(state, state', r, req, unit, key)
      BY <1>5, <2>1 DEF Services!LookForTone, TonesLookedFor
    <2> QED
      BY <2>2, LookServes
  <1>6. ASSUME NEW r \in Bridge.services.requests, Services!HearTone(r)
        PROVE  ServicesInv(state')
    <2>1. \/ TonesUnheard(state, state', r, state.requests[r])
          \/ \E tones \in Services!Tones :
               TonesHeard(state, state', r, state.requests[r], Head(state.requests[r].left), tones)
      BY <1>6 DEF Services!HearTone, TonesUnheard, TonesHeard
    <2> QED
      BY <2>1, UnheardServes, HearServes
  <1>7. ASSUME NEW r \in Bridge.services.requests, Services!LookForCompletion(r)
        PROVE  ServicesInv(state')
    <2>1. PICK req, key : req = state.requests[r] /\ key = Services!CompleteKey(req.ask.source, req.ask.text)
      OBVIOUS
    <2>2. CompletionLookedFor(state, state', r, req, key)
      BY <1>7, <2>1 DEF Services!LookForCompletion, CompletionLookedFor
    <2> QED
      BY <2>2, LookCompletionServes
  <1>8. ASSUME NEW r \in Bridge.services.requests, Services!HearCompletion(r)
        PROVE  ServicesInv(state')
    <2> DEFINE req == state.requests[r]
               key == Services!CompleteKey(req.ask.source, req.ask.text)
               unheard == state' = [state EXCEPT !.requests[r] = Services!Done(req, 502, Services!Nothing)]
               heard(v) == state' = [Services!Said(state, req, key, v) EXCEPT
                             !.requests[r] = Services!Done(req, 200, v),
                             !.completeCache = Services!Completed(@, key, v)]
    <2>2. req.is = "running" /\ req.ask.feature = "complete"
      BY <1>8, Zenon DEF Services!HearCompletion
    <2>3. unheard \/ \E v \in Services!Wordings : heard(v)
      BY <1>8, Zenon DEF Services!HearCompletion
    <2>4. CASE unheard
      <3>1. CompletionUnheard(state, state', r, req)
        BY <2>2, <2>4, Zenon DEF CompletionUnheard
      <3> QED
        BY <3>1, UnheardCompletionServes
    <2>5. CASE \E v \in Services!Wordings : heard(v)
      <3>1. PICK v \in Services!Wordings : heard(v)
        BY <2>5
      <3>2. CompletionHeard(state, state', r, req, key, v)
        BY <2>2, <3>1, Zenon DEF CompletionHeard
      <3> QED
        BY <3>2, HearCompletionServes
    <2> QED
      BY <2>3, <2>4, <2>5
  <1> QED
    BY <1>1, <1>2, <1>3, <1>4, <1>5, <1>6, <1>7, <1>8 DEF Services!Next

\* and what is remembered was said,
LEMMA ServicesRemember ==
  ASSUME ServicesInv(state)
  PROVE  Services!RememberedWasSaid
  <1>1. state.toneCache \in Seq(ToneEntries(state)) /\ state.completeCache \in Seq(CompleteEntries(state))
    BY DEF ServicesInv, Shared
  <1>2. ASSUME NEW e \in Services!ToSet(state.toneCache)
        PROVE  \E g \in state.given["tone"] : <<g.by.model, g.of>> = e.key /\ g.is = e.value
    <2>1. e \in ToneEntries(state)
      BY <1>1 DEF Services!ToSet
    <2>2. PICK g \in state.given["tone"] : e = [key |-> <<g.by.model, g.of>>, value |-> g.is]
      BY <2>1 DEF ToneEntries
    <2>3. e.key = <<g.by.model, g.of>> /\ e.value = g.is
      BY <2>2
    <2> QED
      BY <2>3
  <1>3. ASSUME NEW e \in Services!ToSet(state.completeCache)
        PROVE  e.value # "" /\ \E g \in state.given["complete"] : g.of = e.key /\ g.is = e.value
    <2>1. e \in CompleteEntries(state)
      BY <1>1 DEF Services!ToSet
    <2>2. PICK g \in state.given["complete"] : g.is # "" /\ e = [key |-> g.of, value |-> g.is]
      BY <2>1 DEF CompleteEntries
    <2>3. e.key = g.of /\ e.value = g.is
      BY <2>2
    <2> QED
      BY <2>2, <2>3
  <1> QED
    BY <1>2, <1>3 DEF Services!RememberedWasSaid

\* The model an answer is held against is the one the request was to have.
LEMMA WantedIsHad ==
  ASSUME NEW s, NEW ask \in Bridge.services.asks, ask.feature # "complete"
  PROVE  (IF s.setup.factory /\ ask.override # Services!Nothing THEN ask.override.model
          ELSE Services!ClientOf(s.setup, ask).model) = Client(s, ask).model
  <1>1. CASE s.setup.factory /\ ask.override # Services!Nothing
    <2>1. Client(s, ask) = ask.override
      BY <1>1 DEF Client, Services!ClientOf
    <2> QED
      BY <1>1, <2>1
  <1>2. CASE ~(s.setup.factory /\ ask.override # Services!Nothing)
    BY <1>2 DEF Client
  <1> QED
    BY <1>1, <1>2

\* What was said, of whom the request was to have it of, is what the property asks for.
LEMMA SaidIs ==
  ASSUME NEW ask \in Bridge.services.asks, ask.feature # "complete", NEW text
  PROVE  \A what \in Saids(state, ask, text) : Services!WasSaid(ask, text, what)
  <1>1. ASSUME NEW what \in Saids(state, ask, text) PROVE Services!WasSaid(ask, text, what)
    <2>1. PICK g \in state.given[ask.feature] : g.by.model = Client(state, ask).model /\ g.of = text /\ g.is = what
      BY DEF Saids, SaidBy
    <2> QED
      BY <2>1, WantedIsHad DEF Services!WasSaid
  <1> QED
    BY <1>1

\* Variants differ, and each was said.
LEMMA DistinctIs ==
  ASSUME NEW S, NEW q, Distinct(S, q)
  PROVE  Services!IsInjective(q) /\ \A v \in Services!ToSet(q) : v \in S
  <1>1. q \in Seq(S) /\ \A i, j \in 1..Len(q) : q[i] = q[j] => i = j
    BY DEF Distinct
  <1>2. DOMAIN q = 1..Len(q)
    BY <1>1
  <1>3. \A v \in Services!ToSet(q) : v \in S
    BY <1>1, <1>2 DEF Services!ToSet
  <1>4. Services!IsInjective(q)
    BY <1>1, <1>2 DEF Services!IsInjective
  <1> QED
    BY <1>3, <1>4

\* as what is answered was: a rephrasing,
LEMMA ToFive == ASSUME NEW n \in 1..5 PROVE n # 0 /\ n <= 5
  OBVIOUS

\* One to five are some.
LEMMA NotEmpty == ASSUME NEW q, Len(q) \in 1..5 PROVE q # <<>> /\ Len(q) <= 5
  <1>1. q = <<>> => Len(q) = 0
    OBVIOUS
  <1> QED
    BY <1>1, ToFive

\* An answer to a request for a rephrasing is what the property asks for.
LEMMA RephrasingWasSaid ==
  ASSUME NEW ask \in Bridge.services.asks, ask.feature = "rephrase",
         NEW answer, Rephrasings(state, ask, answer)
  PROVE  Services!RephrasingWasSaid(ask, answer)
  <1>1. PICK S : S = Saids(state, ask, ask.text) \ {""}
    OBVIOUS
  <1>2. Distinct(S, answer) /\ Len(answer) \in 1..5
    BY <1>1 DEF Rephrasings, VariantsOf
  <1>3. Services!IsInjective(answer)
    BY <1>2, DistinctIs
  <1>4. \A v \in Services!ToSet(answer) : v \in S
    BY <1>2, DistinctIs
  <1>5. "" \notin Services!ToSet(answer)
    BY <1>1, <1>4
  <1>6. ask.feature # "complete"
    OBVIOUS
  <1>7. ASSUME NEW v \in Services!ToSet(answer) PROVE Services!WasSaid(ask, ask.text, v)
    <2>1. v \in Saids(state, ask, ask.text)
      BY <1>1, <1>4
    <2> QED
      BY <1>6, <2>1, SaidIs
  <1>8. answer # <<>> /\ Len(answer) <= 5
    BY <1>2, NotEmpty
  <1> QED
    BY <1>3, <1>5, <1>7, <1>8 DEF Services!RephrasingWasSaid

\* and tones, of a text or of its sentences.
LEMMA TonesWereSaid ==
  ASSUME NEW ask \in Bridge.services.asks, ask.feature = "tone",
         NEW answer, TonesAre(state, ask, answer)
  PROVE  Services!TonesWereSaid(ask, answer)
  <1>1. PICK tones :
          /\ TonesOf(state, ask, tones) /\ Len(tones) = Len(UnitsOf(state, ask))
          /\ answer = [tags |-> Services!Aggregated(tones),
                       sentences |-> IF ask.granularity = "sentence" THEN tones ELSE <<>>]
    BY DEF TonesAre
  <1>2. /\ answer.tags = Services!Aggregated(tones)
        /\ ask.granularity = "sentence" => answer.sentences = tones
    BY <1>1
  <1>3. /\ tones \in Seq(Services!Tones)
        /\ \A i \in 1..Len(tones) : tones[i] \in {{}} \cup Saids(state, ask, UnitsOf(state, ask)[i])
    BY <1>1 DEF TonesOf
  <1>4. /\ \A t, u \in answer.tags : t.tag = u.tag => t = u
        /\ \A i \in 1..Len(tones) : \A t \in tones[i] :
             \E u \in answer.tags : u.tag = t.tag /\ u.confidence >= t.confidence
        /\ tones = <<>> => answer.tags = {}
        /\ Len(tones) = 1 => answer.tags = tones[1]
    BY <1>2, <1>3, Aggregates
  <1>5. ask.text \in Seq(STRING)
    BY ServicesAssumption DEF Services!Constants
  <1>6. Len(ask.text) \in Nat /\ DOMAIN ask.text = 1..Len(ask.text)
    BY <1>5
  <1>9. ask.feature # "complete"
    OBVIOUS
  <1>7. ASSUME ask.granularity = "field"
        PROVE  answer.tags = {} \/ Services!WasSaid(ask, ask.text, answer.tags)
    <2>1. UnitsOf(state, ask) = <<>> \/ UnitsOf(state, ask) = <<ask.text>>
      BY <1>7 DEF UnitsOf, Services!Units
    <2>2. CASE UnitsOf(state, ask) = <<>>
      <3>1. Len(tones) = 0
        BY <1>1, <2>2
      <3>2. tones = <<>>
        BY <1>3, <3>1
      <3> QED
        BY <1>4, <3>2
    <2>3. CASE UnitsOf(state, ask) = <<ask.text>>
      <3>1. Len(tones) = 1 /\ UnitsOf(state, ask)[1] = ask.text
        BY <1>1, <2>3
      <3>2. tones[1] \in {{}} \cup Saids(state, ask, ask.text)
        BY <1>3, <3>1
      <3>3. tones[1] = {} \/ Services!WasSaid(ask, ask.text, tones[1])
        BY <1>9, <3>2, SaidIs
      <3> QED
        BY <1>4, <3>1, <3>3
    <2> QED
      BY <2>1, <2>2, <2>3
  <1>8. ASSUME ask.granularity = "sentence"
        PROVE  /\ Len(answer.sentences) = Len(ask.text)
               /\ \A i \in DOMAIN ask.text :
                    answer.sentences[i] = {} \/ Services!WasSaid(ask, <<ask.text[i]>>, answer.sentences[i])
               /\ \A i \in DOMAIN ask.text : \A t \in answer.sentences[i] :
                    \E u \in answer.tags : u.tag = t.tag /\ u.confidence >= t.confidence
    <2>1. UnitsOf(state, ask) = [i \in DOMAIN ask.text |-> <<ask.text[i]>>]
      BY <1>8 DEF UnitsOf, Services!Units
    <2>2. /\ \A i \in 1..Len(ask.text) : UnitsOf(state, ask)[i] = <<ask.text[i]>>
          /\ Len(UnitsOf(state, ask)) = Len(ask.text)
      BY <1>6, <2>1
    <2>3. Len(tones) = Len(ask.text) /\ answer.sentences = tones
      BY <1>1, <1>2, <1>8, <2>2
    <2>4. \A i \in 1..Len(ask.text) :
            answer.sentences[i] = {} \/ Services!WasSaid(ask, <<ask.text[i]>>, answer.sentences[i])
      <3> SUFFICES ASSUME NEW i \in 1..Len(ask.text)
                   PROVE  tones[i] = {} \/ Services!WasSaid(ask, <<ask.text[i]>>, tones[i])
        BY <2>3
      <3>1. tones[i] \in {{}} \cup Saids(state, ask, <<ask.text[i]>>)
        BY <1>3, <2>2, <2>3
      <3> QED
        BY <1>9, <3>1, SaidIs
    <2> QED
      BY <1>4, <1>6, <2>3, <2>4
  <1> QED
    BY <1>4, <1>7, <1>8 DEF Services!TonesWereSaid

\* Every answer was said, whichever handler gave it.
LEMMA ServicesAnswer ==
  ASSUME ServicesInv(state)
  PROVE  Services!AnswersWereSaid
  <1> SUFFICES ASSUME NEW r \in Bridge.services.requests, NEW req, req = state.requests[r],
                      req.is = "done", req.status = 200
               PROVE  /\ req.ask.feature = "rephrase" => Services!RephrasingWasSaid(req.ask, req.answer)
                      /\ req.ask.feature = "complete" => Services!ContinuationWasSaid(req.ask, req.answer)
                      /\ req.ask.feature = "tone" => Services!TonesWereSaid(req.ask, req.answer)
    BY DEF Services!AnswersWereSaid
  <1>1. RequestOK(state, req)
    BY DEF ServicesInv
  <1>2. Answered(state, req)
    BY <1>1 DEF RequestOK, Running, Services!Nothing
  <1>3. /\ req.ask \in Bridge.services.asks
        /\ req.ask.feature = "rephrase" => Rephrasings(state, req.ask, req.answer)
        /\ req.ask.feature = "complete" => Continues(state, req.ask, req.answer)
        /\ req.ask.feature = "tone" => TonesAre(state, req.ask, req.answer)
    BY <1>2 DEF Answered
  <1>4. req.ask.feature = "complete" => Services!ContinuationWasSaid(req.ask, req.answer)
    BY <1>3 DEF Continues, Services!ContinuationWasSaid
  <1> QED
    BY <1>3, <1>4, RephrasingWasSaid, TonesWereSaid

-----------------------------------------------------------------------------
(* The bridge: its log. *)

LogNames == {"corrections", "edits", "mode", "day", "logs", "recorded", "stops", "offered",
               "reacted", "deleted", "failed", "strayed"}
EditNames == {"id", "parent", "log", "pair", "signal", "at"}

Pruning == Bridge.store.retention > 0

\* An edit's parents, and whether its own correction is among them.
ParentsIn(s, e) == {c \in s.corrections : c.id = e.parent}
OwnIn(s, e) == \E c \in s.corrections : c.id = e.parent /\ c.log = e.log

\* The last reactions, as the rows of the edits have them.
ReactedIn(s) ==
  {[id |-> e.id, log |-> e.log, signal |-> e.signal, at |-> e.at] :
     e \in {e \in s.edits : e.signal # "none"}}

Numbered(rows) == (\A r \in rows : r.id \in Nat) /\ \E n \in Nat : \A r \in rows : r.id <= n

LogInv(s) ==
  /\ DOMAIN s = LogNames /\ s.recorded \in Nat
  /\ s.failed \in BOOLEAN /\ s.deleted \in BOOLEAN /\ s.strayed \in BOOLEAN
  /\ Numbered(s.corrections) /\ Numbered(s.edits)
  /\ \A c, d \in s.corrections : c.id = d.id => c = d
  /\ \A e \in s.edits : DOMAIN e = EditNames
  /\ s.mode = "pruned" => Pruning
  /\ ~s.failed => \A e \in s.edits :
       OwnIn(s, e) \/ (Pruning /\ s.mode # "serving" /\ ParentsIn(s, e) = {})
  /\ ~s.strayed => \A e \in s.edits : e.signal # "none" => OwnIn(s, e)
  /\ ~s.deleted =>
       /\ \A e \in s.edits : OwnIn(s, e)
       /\ \A o \in s.offered : \E e \in s.edits : e.id = o.id
       /\ \A o \in s.offered, e \in s.edits : e.id = o.id => e.log = o.log
  /\ s.strayed => s.deleted
  /\ ~s.strayed => ReactedIn(s) = s.reacted

\* A set of numbers with a bound has a largest one.
LEMMA Largest ==
  ASSUME NEW S, S \subseteq Nat, S # {}, NEW n \in Nat, \A k \in S : k <= n
  PROVE  Store!Max(S) \in S /\ \A k \in S : k <= Store!Max(S)
  <1> DEFINE B == {b \in Nat : \A k \in S : k <= b}
  <1>1. B \subseteq Nat /\ n \in B
    OBVIOUS
  <1>2. \A b : b \in B <=> b \in Nat /\ \A k \in S : k <= b
    OBVIOUS
  <1> HIDE DEF B
  <1>3. PICK b \in B : \A c \in B : ~(<<c, b>> \in OpToRel(<, Nat))
    BY <1>1, WFMin, NatLessThanWellFounded
  <1>4. \A c \in B : ~(c < b)
    BY <1>1, <1>3 DEF OpToRel
  <1>5. b \in Nat /\ \A k \in S : k <= b
    BY <1>2
  <1>6. b \in S
    <2> SUFFICES ASSUME b \notin S PROVE FALSE
      OBVIOUS
    <2>1. \A k \in S : k \in Nat /\ k <= b /\ k # b
      BY <1>5
    <2>2. \A k \in S : k <= b - 1
      BY <1>5, <2>1
    <2>3. b - 1 \in Nat
      <3>1. PICK k \in S : TRUE
        OBVIOUS
      <3>2. k \in Nat /\ k <= b - 1
        BY <2>1, <2>2
      <3> QED
        BY <1>5, <3>2
    <2>4. b - 1 \in B
      BY <1>2, <2>2, <2>3
    <2>5. b - 1 < b
      BY <1>5
    <2> QED
      BY <1>4, <2>4, <2>5
  <1>7. \E x \in S : \A k \in S : x >= k
    BY <1>5, <1>6
  <1>8. Store!Max(S) \in S /\ \A k \in S : Store!Max(S) >= k
    BY <1>7 DEF Store!Max
  <1>9. \A k \in S : k \in Nat
    OBVIOUS
  <1> QED
    BY <1>8, <1>9

\* The next id is a number above all that rows have.
LEMMA FreshId ==
  ASSUME NEW rows, Numbered(rows)
  PROVE  Store!NextId(rows) \in Nat /\ \A r \in rows : r.id < Store!NextId(rows)
  <1> DEFINE S == {0} \cup {r.id : r \in rows}
  <1>1. PICK n \in Nat : \A r \in rows : r.id <= n
    BY DEF Numbered
  <1>2. S \subseteq Nat /\ 0 \in S /\ \A k \in S : k <= n
    BY <1>1 DEF Numbered
  <1> HIDE DEF S
  <1> DEFINE m == Store!Max(S)
  <1>3. m \in S /\ \A k \in S : k <= m
    BY <1>1, <1>2, Largest
  <1>4. Store!NextId(rows) = m + 1
    BY DEF Store!NextId, S
  <1>5. m \in Nat
    BY <1>2, <1>3
  <1> HIDE DEF m
  <1> SUFFICES ASSUME NEW r \in rows PROVE m + 1 \in Nat /\ r.id < m + 1
    BY <1>4, <1>5
  <1>6. r.id \in S
    BY DEF S
  <1>7. r.id \in Nat /\ r.id <= m
    BY <1>2, <1>3, <1>6
  <1> QED
    BY <1>5, <1>7

\* Rows stay numbered with more that are,
LEMMA MoreRows ==
  ASSUME NEW rows, Numbered(rows), NEW more, NEW k \in Nat, \A r \in more : r.id \in Nat /\ r.id <= k
  PROVE  Numbered(rows \cup more)
  <1>1. PICK n \in Nat : \A r \in rows : r.id <= n
    BY DEF Numbered
  <1>2. \A r \in rows \cup more : r.id \in Nat /\ r.id <= n + k
    BY <1>1 DEF Numbered
  <1>3. n + k \in Nat
    BY <1>1
  <1> QED
    BY <1>2, <1>3 DEF Numbered

\* and with fewer.
LEMMA FewerRows ==
  ASSUME NEW rows, Numbered(rows), NEW less, \A r \in less : \E p \in rows : p.id = r.id
  PROVE  Numbered(less)
  <1>1. PICK n \in Nat : \A r \in rows : r.id <= n
    BY DEF Numbered
  <1> QED
    BY <1>1 DEF Numbered

\* The last reactions stay what they are while the edits reacted to do.
LEMMA SameReactions ==
  ASSUME NEW s, NEW t, t.reacted = s.reacted, ~s.strayed => ReactedIn(s) = s.reacted,
         t.strayed = s.strayed,
         ~s.strayed => {e \in t.edits : e.signal # "none"} = {e \in s.edits : e.signal # "none"}
  PROVE  ~t.strayed => ReactedIn(t) = t.reacted
  BY DEF ReactedIn

\* At first there are no rows.
LEMMA LogInit ==
  ASSUME Store!Init
  PROVE  LogInv(state)
  <1>1. Numbered({})
    BY DEF Numbered
  <1>2. ReactedIn(state) = {} /\ state.reacted = {}
    BY DEF Store!Init, ReactedIn
  <1> QED
    BY <1>1, <1>2 DEF Store!Init, LogInv, LogNames

\* A correction is logged: it is the one its edits are of, and no id is given twice.
LEMMA LogGrows ==
  ASSUME LogInv(state), Store!LogCorrection
  PROVE  /\ LogInv(state')
         /\ state'.strayed = state.strayed
         /\ {e \in state'.edits : e.signal # "none"} = {e \in state.edits : e.signal # "none"}
  <1> DEFINE log == state.logs + 1
             id == Store!NextId(state.corrections)
             first == Store!NextId(state.edits)
             row == [id |-> id, day |-> state.day, log |-> log]
             New(ps) == {[id |-> first + i - 1, parent |-> id, log |-> log, pair |-> ps[i],
                             signal |-> "none", at |-> 0] : i \in DOMAIN ps}
  <1>1. PICK ps \in UNION {[1..n -> Fields] : n \in 1..2} :
          state' = [state EXCEPT !.corrections = @ \cup {row}, !.edits = @ \cup New(ps),
                                 !.logs = log,
                                 !.offered = @ \cup {[id |-> e.id, log |-> log] : e \in New(ps)}]
    BY Zenon DEF Store!LogCorrection
  <1>2. PICK n \in 1..2 : ps \in [1..n -> Fields]
    OBVIOUS
  <1> DEFINE new == New(ps)
  <1>3. id \in Nat /\ (\A c \in state.corrections : c.id < id)
    BY FreshId DEF LogInv
  <1>4. first \in Nat /\ (\A e \in state.edits : e.id < first)
    BY FreshId DEF LogInv
  <1> HIDE DEF id, first
  <1>5. \A e \in new : /\ DOMAIN e = EditNames
                       /\ e.parent = id /\ e.log = log /\ e.signal = "none"
    BY DEF EditNames
  <1>6. \A e \in new : e.id \in Nat /\ first <= e.id /\ e.id <= first + 1
    <2> SUFFICES ASSUME NEW i \in 1..n
                 PROVE  first + i - 1 \in Nat /\ first <= first + i - 1 /\ first + i - 1 <= first + 1
      BY <1>2
    <2> QED
      BY <1>2, <1>4
  <1>7. row.id = id /\ row.log = log
    OBVIOUS
  <1> HIDE DEF row, log, New, new
  <1>8. /\ DOMAIN state' = LogNames /\ state'.recorded = state.recorded
        /\ state'.failed = state.failed /\ state'.deleted = state.deleted
        /\ state'.strayed = state.strayed /\ state'.mode = "serving"
        /\ state'.reacted = state.reacted
        /\ state'.corrections = state.corrections \cup {row}
        /\ state'.edits = state.edits \cup new
        /\ state'.offered = state.offered \cup {[id |-> e.id, log |-> log] : e \in new}
    BY <1>1 DEF LogInv, LogNames, Store!LogCorrection, new
  <1>9. Numbered(state'.corrections)
    <2>1. \A r \in {row} : r.id \in Nat /\ r.id <= id
      BY <1>3, <1>7
    <2>2. Numbered(state.corrections)
      BY DEF LogInv
    <2>3. Numbered(state.corrections \cup {row})
      BY <1>3, <2>1, <2>2, MoreRows
    <2> QED
      BY <1>8, <2>3
  <1>10. Numbered(state'.edits)
    <2>1. first + 1 \in Nat
      BY <1>4
    <2>2. Numbered(state.edits)
      BY DEF LogInv
    <2>3. Numbered(state.edits \cup new)
      BY <1>6, <2>1, <2>2, MoreRows
    <2> QED
      BY <1>8, <2>3
  <1>11. \A c, d \in state'.corrections : c.id = d.id => c = d
    BY <1>3, <1>7, <1>8 DEF LogInv, Numbered
  <1>12. \A e \in state.edits : OwnIn(state, e) => OwnIn(state', e)
    BY <1>8 DEF OwnIn
  <1>13. \A e \in new : OwnIn(state', e)
    BY <1>5, <1>7, <1>8 DEF OwnIn
  <1>14. \A e \in state.edits, d \in new : e.id # d.id
    BY <1>4, <1>6 DEF LogInv, Numbered
  <1>15. state.mode = "serving"
    BY DEF Store!LogCorrection
  <1>16. ~state.failed => \A e \in state'.edits : OwnIn(state', e)
    BY <1>8, <1>12, <1>13, <1>15 DEF LogInv
  <1>17. ~state.strayed => \A e \in state'.edits : e.signal # "none" => OwnIn(state', e)
    BY <1>8, <1>12, <1>13 DEF LogInv
  <1>18. ASSUME ~state.deleted
         PROVE  /\ \A e \in state'.edits : OwnIn(state', e)
                /\ \A o \in state'.offered : \E e \in state'.edits : e.id = o.id
                /\ \A o \in state'.offered, e \in state'.edits : e.id = o.id => e.log = o.log
    <2>1. \A e \in state'.edits : OwnIn(state', e)
      BY <1>8, <1>12, <1>13, <1>18 DEF LogInv
    <2>2. \A o \in state'.offered : \/ o \in state.offered
                                    \/ \E e \in new : o.id = e.id /\ o.log = log
      BY <1>8
    <2>3. \A o \in state.offered : \E e \in state.edits : e.id = o.id
      BY <1>18 DEF LogInv
    <2>4. \A o \in state'.offered : \E e \in state'.edits : e.id = o.id
      BY <1>8, <2>2, <2>3
    <2>5. \A o \in state.offered, e \in state.edits : e.id = o.id => e.log = o.log
      BY <1>18 DEF LogInv
    <2>6. \A o \in state'.offered, e \in state'.edits : e.id = o.id => e.log = o.log
      BY <1>5, <1>8, <1>14, <2>2, <2>3, <2>5
    <2> QED
      BY <2>1, <2>4, <2>6
  <1>19. \A e \in state'.edits : DOMAIN e = EditNames
    BY <1>5, <1>8 DEF LogInv
  <1>r. ~state'.strayed => ReactedIn(state') = state'.reacted
    <2>1. {e \in state'.edits : e.signal # "none"} = {e \in state.edits : e.signal # "none"}
      BY <1>5, <1>8
    <2>2. ~state.strayed => ReactedIn(state) = state.reacted
      BY DEF LogInv
    <2> QED
      BY <1>8, <2>1, <2>2, SameReactions
  <1>20. LogInv(state')
    BY <1>r, <1>8, <1>9, <1>10, <1>11, <1>16, <1>17, <1>18, <1>19 DEF LogInv
  <1> QED
    BY <1>5, <1>8, <1>20

\* A reaction is recorded, at the row that has its id.
LEMMA LogReacts ==
  ASSUME LogInv(state), Store!LogSignal
  PROVE  LogInv(state') /\ state'.recorded # state.recorded
  <1>1. PICK edit \in state.offered, signal \in Store!Signals :
          LET hit == Store!Hit(edit.id)
          IN  hit # {} /\ state' = [state EXCEPT
                !.edits = (@ \ hit)
                            \cup {[e EXCEPT !.signal = signal, !.at = state.recorded + 1] : e \in hit},
                !.recorded = @ + 1, !.reacted = Store!WithReaction(edit, signal, state.recorded + 1),
                !.strayed = @ \/ \E e \in hit : e.log # edit.log \/ ~Store!Own(e)]
    BY DEF Store!LogSignal
  <1> DEFINE hit == Store!Hit(edit.id)
             at == state.recorded + 1
             After(e) == [e EXCEPT !.signal = signal, !.at = at]
  <1>2. hit = {e \in state.edits : e.id = edit.id}
    BY DEF Store!Hit
  <1>3. \A e : Store!Own(e) <=> OwnIn(state, e)
    BY DEF Store!Own, Store!Parents, OwnIn
  <1>4. at \in Nat /\ at # state.recorded
    BY DEF LogInv
  <1> HIDE DEF hit, at
  <1>5. \A e \in hit : /\ DOMAIN After(e) = EditNames
                       /\ After(e).id = e.id /\ After(e).parent = e.parent /\ After(e).log = e.log
                       /\ After(e).signal = signal /\ After(e).at = at
    BY <1>2 DEF LogInv, EditNames
  <1>6. /\ DOMAIN state' = LogNames /\ state'.recorded = at
        /\ state'.failed = state.failed /\ state'.deleted = state.deleted
        /\ state'.mode = state.mode /\ state'.offered = state.offered
        /\ state'.corrections = state.corrections
        /\ state'.edits = (state.edits \ hit) \cup {After(e) : e \in hit}
        /\ state'.strayed = (state.strayed \/ \E e \in hit : e.log # edit.log \/ ~Store!Own(e))
        /\ state'.reacted = Store!WithReaction(edit, signal, at)
    BY <1>1 DEF LogInv, LogNames, hit, at
  <1> HIDE DEF After
  <1>7. \A e \in state'.edits :
          \/ e \in state.edits /\ e \notin hit
          \/ \E d \in hit : /\ d \in state.edits /\ e = After(d)
                            /\ e.id = d.id /\ e.parent = d.parent /\ e.log = d.log
    BY <1>2, <1>5, <1>6
  <1>8. \A d, e : d.parent = e.parent /\ d.log = e.log /\ OwnIn(state, d) => OwnIn(state', e)
    BY <1>6 DEF OwnIn
  <1>9. \A d, e : d.parent = e.parent /\ ParentsIn(state, d) = {} => ParentsIn(state', e) = {}
    BY <1>6 DEF ParentsIn
  <1>10. Numbered(state'.corrections) /\ Numbered(state'.edits)
    <2>1. \A e \in state'.edits : \E d \in state.edits : d.id = e.id
      BY <1>7
    <2> QED
      BY <1>6, <2>1, FewerRows DEF LogInv
  <1>11. \A e \in state'.edits : DOMAIN e = EditNames
    BY <1>5, <1>7 DEF LogInv
  <1>12. ~state.failed => \A e \in state'.edits :
           OwnIn(state', e) \/ (Pruning /\ state'.mode # "serving" /\ ParentsIn(state', e) = {})
    <2> SUFFICES ASSUME ~state.failed, NEW e \in state'.edits
                 PROVE  \/ OwnIn(state', e)
                        \/ Pruning /\ state'.mode # "serving" /\ ParentsIn(state', e) = {}
      OBVIOUS
    <2>1. PICK d \in state.edits : d.parent = e.parent /\ d.log = e.log
      BY <1>7
    <2>2. OwnIn(state, d) \/ (Pruning /\ state.mode # "serving" /\ ParentsIn(state, d) = {})
      BY DEF LogInv
    <2> QED
      BY <1>6, <1>8, <1>9, <2>1, <2>2
  <1>13. ~state'.strayed => \A e \in state'.edits : e.signal # "none" => OwnIn(state', e)
    <2> SUFFICES ASSUME ~state'.strayed, NEW e \in state'.edits, e.signal # "none"
                 PROVE  OwnIn(state', e)
      OBVIOUS
    <2>1. ~state.strayed /\ \A d \in hit : OwnIn(state, d)
      BY <1>3, <1>6
    <2>2. CASE e \in state.edits
      BY <1>8, <2>1, <2>2 DEF LogInv
    <2>3. CASE \E d \in hit : e.parent = d.parent /\ e.log = d.log
      BY <1>8, <2>1, <2>3
    <2> QED
      BY <1>7, <2>2, <2>3
  <1>14. ASSUME ~state.deleted
         PROVE  /\ \A e \in state'.edits : OwnIn(state', e)
                /\ \A o \in state'.offered : \E e \in state'.edits : e.id = o.id
                /\ \A o \in state'.offered, e \in state'.edits : e.id = o.id => e.log = o.log
    <2>1. /\ \A e \in state.edits : OwnIn(state, e)
          /\ \A o \in state.offered : \E e \in state.edits : e.id = o.id
          /\ \A o \in state.offered, e \in state.edits : e.id = o.id => e.log = o.log
      BY <1>14 DEF LogInv
    <2>2. \A e \in state'.edits : \E d \in state.edits :
            e.id = d.id /\ e.parent = d.parent /\ e.log = d.log
      BY <1>7
    <2>3. \A d \in state.edits : \E e \in state'.edits : e.id = d.id
      BY <1>5, <1>6
    <2>4. \A e \in state'.edits : OwnIn(state', e)
      BY <1>8, <2>1, <2>2
    <2>5. \A o \in state'.offered : \E e \in state'.edits : e.id = o.id
      BY <1>6, <2>1, <2>3
    <2>6. \A o \in state'.offered, e \in state'.edits : e.id = o.id => e.log = o.log
      BY <1>6, <2>1, <2>2
    <2> QED
      BY <2>4, <2>5, <2>6
  <1>15. state'.strayed => state'.deleted
    <2> SUFFICES ASSUME ~state.deleted PROVE ~state'.strayed
      BY <1>6
    <2>1. ~state.strayed
      BY DEF LogInv
    <2>2. \A e \in hit : e.log = edit.log /\ OwnIn(state, e)
      BY <1>1, <1>2 DEF LogInv
    <2> QED
      BY <1>3, <1>6, <2>1, <2>2
  <1>r. ~state'.strayed => ReactedIn(state') = state'.reacted
    <2> SUFFICES ASSUME ~state'.strayed PROVE ReactedIn(state') = state'.reacted
      OBVIOUS
    <2> DEFINE new == [id |-> edit.id, log |-> edit.log, signal |-> signal, at |-> at]
               Row(e) == [id |-> e.id, log |-> e.log, signal |-> e.signal, at |-> e.at]
    <2>1. ~state.strayed /\ \A e \in hit : e.log = edit.log
      BY <1>6
    <2>2. state.reacted = ReactedIn(state)
      BY <2>1 DEF LogInv
    <2>3. signal # "none" /\ new.id = edit.id /\ new.log = edit.log
      BY DEF Store!Signals
    <2>4. \A e \in hit : After(e).signal # "none" /\ Row(After(e)) = new
      BY <1>2, <1>5, <2>1, <2>3
    <2>5. \A s, x : x \in ReactedIn(s) <=> \E e \in s.edits : e.signal # "none" /\ x = Row(e)
      BY DEF ReactedIn
    <2>6. \A x : x \in state'.reacted <=>
                   (x \in state.reacted /\ (x.id # edit.id \/ x.log # edit.log)) \/ x = new
      BY <1>6 DEF Store!WithReaction
    <2>7. \A e : Row(e).id = e.id /\ Row(e).log = e.log
      OBVIOUS
    <2> HIDE DEF new, Row
    <2>8. \E e \in hit : TRUE
      BY <1>1 DEF hit
    <2>9. ASSUME NEW x \in ReactedIn(state') PROVE x \in state'.reacted
      <3>1. PICK e \in state'.edits : e.signal # "none" /\ x = Row(e)
        BY <2>5
      <3>2. CASE e \in state.edits /\ e \notin hit
        <4>1. x \in state.reacted /\ x.id # edit.id
          BY <1>2, <2>2, <2>5, <2>7, <3>1, <3>2
        <4> QED
          BY <2>6, <4>1
      <3>3. CASE \E d \in hit : e = After(d)
        BY <2>4, <2>6, <3>1, <3>3
      <3> QED
        BY <1>7, <3>2, <3>3
    <2>10. ASSUME NEW x \in state'.reacted PROVE x \in ReactedIn(state')
      <3>1. CASE x = new
        <4>1. PICK e \in hit : TRUE
          BY <2>8
        <4>2. After(e) \in state'.edits
          BY <1>6
        <4> QED
          BY <2>4, <2>5, <3>1, <4>1, <4>2
      <3>2. CASE x \in state.reacted /\ (x.id # edit.id \/ x.log # edit.log)
        <4>1. PICK e \in state.edits : e.signal # "none" /\ x = Row(e)
          BY <2>2, <2>5, <3>2
        <4>2. e \notin hit
          BY <1>2, <2>1, <2>7, <3>2, <4>1
        <4>3. e \in state'.edits
          BY <1>6, <4>2
        <4> QED
          BY <2>5, <4>1, <4>3
      <3> QED
        BY <2>6, <3>1, <3>2
    <2> QED
      BY <2>9, <2>10
  <1>16. state'.strayed \in BOOLEAN
    BY <1>6 DEF LogInv
  <1>17. LogInv(state')
    <2>1. /\ DOMAIN state' = LogNames /\ state'.recorded \in Nat
          /\ state'.failed \in BOOLEAN /\ state'.deleted \in BOOLEAN
          /\ \A c, d \in state'.corrections : c.id = d.id => c = d
          /\ state'.mode = "pruned" => Pruning
      BY <1>4, <1>6 DEF LogInv
    <2> QED
      BY <1>r, <1>6, <1>10, <1>11, <1>12, <1>13, <1>14, <1>15, <1>16, <2>1 DEF LogInv
  <1> QED
    BY <1>4, <1>6, <1>17

\* Steps that change no row.
LEMMA LogTurns ==
  ASSUME LogInv(state), Store!DayPasses \/ Store!Stop \/ Store!Open \/ Store!PruneFails
  PROVE  /\ LogInv(state')
         /\ state'.strayed = state.strayed
         /\ {e \in state'.edits : e.signal # "none"} = {e \in state.edits : e.signal # "none"}
  <1>1. /\ DOMAIN state' = LogNames /\ state'.recorded = state.recorded
        /\ state'.deleted = state.deleted /\ state'.strayed = state.strayed
        /\ state'.offered = state.offered /\ state'.reacted = state.reacted
        /\ state'.corrections = state.corrections /\ state'.edits = state.edits
    BY DEF LogInv, LogNames, Store!DayPasses, Store!Stop, Store!Open, Store!PruneFails, Store!Serve
  <1>2. \/ /\ state'.failed = state.failed
           /\ \/ state'.mode = state.mode
              \/ state'.mode = "down"
              \/ state.mode = "down" /\ state'.mode = "opened"
        \/ /\ state'.failed = (state.failed \/ Pruning) /\ state'.mode = "serving"
    BY DEF LogInv, LogNames, Store!DayPasses, Store!Stop, Store!Open, Store!PruneFails, Store!Serve,
           Pruning
  <1>3. \A e : /\ OwnIn(state', e) <=> OwnIn(state, e)
               /\ ParentsIn(state', e) = ParentsIn(state, e)
    BY <1>1 DEF OwnIn, ParentsIn
  <1>4. state'.failed \in BOOLEAN
    BY <1>2 DEF LogInv
  <1>5. state'.mode = "pruned" => Pruning
    BY <1>2 DEF LogInv
  <1>6. ~state'.failed => \A e \in state'.edits :
          OwnIn(state', e) \/ (Pruning /\ state'.mode # "serving" /\ ParentsIn(state', e) = {})
    <2> SUFFICES ASSUME ~state'.failed, NEW e \in state.edits
                 PROVE  \/ OwnIn(state, e)
                        \/ Pruning /\ state'.mode # "serving" /\ ParentsIn(state, e) = {}
      BY <1>1, <1>3
    <2>1. ~state.failed
      BY <1>2
    <2>2. OwnIn(state, e) \/ (Pruning /\ state.mode # "serving" /\ ParentsIn(state, e) = {})
      BY <2>1 DEF LogInv
    <2> QED
      BY <1>2, <2>2
  <1>r. ~state'.strayed => ReactedIn(state') = state'.reacted
    BY <1>1, SameReactions DEF LogInv
  <1>7. LogInv(state')
    BY <1>1, <1>3, <1>4, <1>5, <1>6, <1>r DEF LogInv
  <1> QED
    BY <1>1, <1>7

\* Corrections are pruned, and their edits, which nobody reacted to, are yet to go.
LEMMA LogPrunes ==
  ASSUME LogInv(state), Store!PruneCorrections
  PROVE  /\ LogInv(state')
         /\ state'.strayed = state.strayed
         /\ {e \in state'.edits : e.signal # "none"} = {e \in state.edits : e.signal # "none"}
  <1> DEFINE expired == Store!Expired
  <1>1. /\ expired \subseteq state.corrections
        /\ \A c \in expired, e \in state.edits : e.parent = c.id => e.signal = "none"
    BY DEF Store!Expired
  <1> HIDE DEF expired
  <1>2. /\ DOMAIN state' = LogNames /\ state'.recorded = state.recorded
        /\ state'.failed = state.failed /\ state'.strayed = state.strayed
        /\ state'.offered = state.offered /\ state'.edits = state.edits
        /\ state'.reacted = state.reacted
        /\ state'.mode = "pruned" /\ Pruning
        /\ state'.corrections = state.corrections \ expired
        /\ state'.deleted = (state.deleted \/ expired # {})
    BY DEF LogInv, LogNames, Store!PruneCorrections, Pruning, expired
  <1>3. \A e : ParentsIn(state, e) = {} => ParentsIn(state', e) = {}
    BY <1>2 DEF ParentsIn
  <1>4. \A e : OwnIn(state, e) => OwnIn(state', e) \/ ParentsIn(state', e) = {}
    BY <1>2 DEF LogInv, OwnIn, ParentsIn
  <1>5. \A e \in state.edits : e.signal # "none" /\ OwnIn(state, e) => OwnIn(state', e)
    BY <1>1, <1>2 DEF OwnIn
  <1>6. state'.deleted \in BOOLEAN
    BY <1>2 DEF LogInv
  <1>7. Numbered(state'.corrections)
    BY <1>2, FewerRows DEF LogInv
  <1>8. ~state'.failed => \A e \in state'.edits :
          OwnIn(state', e) \/ (Pruning /\ state'.mode # "serving" /\ ParentsIn(state', e) = {})
    BY <1>2, <1>3, <1>4 DEF LogInv
  <1>9. ~state'.strayed => \A e \in state'.edits : e.signal # "none" => OwnIn(state', e)
    BY <1>2, <1>5 DEF LogInv
  <1>10. ASSUME ~state'.deleted
         PROVE  /\ \A e \in state'.edits : OwnIn(state', e)
                /\ \A o \in state'.offered : \E e \in state'.edits : e.id = o.id
                /\ \A o \in state'.offered, e \in state'.edits : e.id = o.id => e.log = o.log
    <2>1. ~state.deleted /\ state'.corrections = state.corrections
      BY <1>2, <1>10
    <2> QED
      BY <1>2, <2>1 DEF LogInv, OwnIn
  <1>11. state'.strayed => state'.deleted
    BY <1>2 DEF LogInv
  <1>12. \A c, d \in state'.corrections : c.id = d.id => c = d
    BY <1>2 DEF LogInv
  <1>r. ~state'.strayed => ReactedIn(state') = state'.reacted
    BY <1>2, SameReactions DEF LogInv
  <1>13. LogInv(state')
    BY <1>2, <1>6, <1>7, <1>8, <1>9, <1>10, <1>11, <1>12, <1>r DEF LogInv
  <1> QED
    BY <1>2, <1>13

\* The edits without a correction go.
LEMMA LogSweeps ==
  ASSUME LogInv(state), Store!PruneEdits
  PROVE  /\ LogInv(state')
         /\ state'.strayed = state.strayed
         /\ ~state.strayed =>
              {e \in state'.edits : e.signal # "none"} = {e \in state.edits : e.signal # "none"}
  <1>1. /\ DOMAIN state' = LogNames /\ state'.recorded = state.recorded
        /\ state'.failed = state.failed /\ state'.strayed = state.strayed
        /\ state'.deleted = state.deleted /\ state'.reacted = state.reacted
        /\ state'.offered = state.offered /\ state'.corrections = state.corrections
        /\ state'.mode = "serving"
        /\ state'.edits = {e \in state.edits : ParentsIn(state, e) # {}}
    BY DEF LogInv, LogNames, Store!PruneEdits, Store!Serve, Store!Parents, ParentsIn
  <1>2. \A e : OwnIn(state', e) <=> OwnIn(state, e)
    BY <1>1 DEF OwnIn
  <1>3. \A e : OwnIn(state, e) => ParentsIn(state, e) # {}
    BY DEF OwnIn, ParentsIn
  <1>4. Numbered(state'.edits)
    BY <1>1, FewerRows DEF LogInv
  <1>5. ~state'.failed => \A e \in state'.edits : OwnIn(state', e)
    BY <1>1, <1>2 DEF LogInv
  <1>6. ~state'.strayed => \A e \in state'.edits : e.signal # "none" => OwnIn(state', e)
    BY <1>1, <1>2 DEF LogInv
  <1>7. ASSUME ~state'.deleted
        PROVE  /\ \A e \in state'.edits : OwnIn(state', e)
               /\ \A o \in state'.offered : \E e \in state'.edits : e.id = o.id
               /\ \A o \in state'.offered, e \in state'.edits : e.id = o.id => e.log = o.log
    <2>1. \A e \in state.edits : OwnIn(state, e)
      BY <1>1, <1>7 DEF LogInv
    <2>2. state'.edits = state.edits
      BY <1>1, <1>3, <2>1
    <2> QED
      BY <1>1, <1>2, <1>7, <2>2 DEF LogInv
  <1>8. /\ \A e \in state'.edits : DOMAIN e = EditNames
        /\ Numbered(state'.corrections) /\ \A c, d \in state'.corrections : c.id = d.id => c = d
        /\ state'.strayed => state'.deleted
        /\ state'.recorded \in Nat /\ state'.failed \in BOOLEAN
        /\ state'.deleted \in BOOLEAN /\ state'.strayed \in BOOLEAN
    BY <1>1 DEF LogInv
  <1>9. ASSUME ~state.strayed
        PROVE  {e \in state'.edits : e.signal # "none"} = {e \in state.edits : e.signal # "none"}
    BY <1>1, <1>3, <1>9 DEF LogInv
  <1>10. ~state'.strayed => ReactedIn(state') = state'.reacted
    BY <1>1, <1>9, SameReactions DEF LogInv
  <1>11. LogInv(state')
    BY <1>1, <1>4, <1>5, <1>6, <1>7, <1>8, <1>10 DEF LogInv
  <1> QED
    BY <1>1, <1>9, <1>11

\* What is learned: of edits of the text their own correction is of.
LearnedIn(s, signals) ==
  {[id |-> e.id, pair |-> IF OwnIn(s, e) THEN e.pair ELSE None, at |-> e.at] :
     e \in {e \in s.edits : e.signal \in signals /\ ParentsIn(s, e) # {}}}

\* Where every edit that was reacted to has its own correction, all of those.
LEMMA LearnedFrom ==
  ASSUME NEW s, LogInv(s), ~s.strayed, NEW signals, "none" \notin signals
  PROVE  LearnedIn(s, signals) =
           {[id |-> e.id, pair |-> e.pair, at |-> e.at] :
              e \in {e \in {e \in s.edits : e.signal # "none"} : e.signal \in signals}}
  <1>1. \A e \in s.edits : e.signal \in signals => OwnIn(s, e) /\ ParentsIn(s, e) # {}
    BY DEF LogInv, OwnIn, ParentsIn
  <1>2. {e \in s.edits : e.signal \in signals /\ ParentsIn(s, e) # {}}
          = {e \in {e \in s.edits : e.signal # "none"} : e.signal \in signals}
    BY <1>1
  <1>3. \A e \in {e \in {e \in s.edits : e.signal # "none"} : e.signal \in signals} :
          OwnIn(s, e)
    BY <1>1
  <1> QED
    BY <1>2, <1>3 DEF LearnedIn

\* The same is learned from the same reactions.
LEMMA KeptLearned ==
  ASSUME LogInv(state), LogInv(state'), ~state.strayed, state'.strayed = state.strayed,
         {e \in state'.edits : e.signal # "none"} = {e \in state.edits : e.signal # "none"}
  PROVE  Store!LearnedIsKept
  <1>1. ASSUME NEW signals, "none" \notin signals
        PROVE  LearnedIn(state', signals) = LearnedIn(state, signals)
    BY <1>1, LearnedFrom
  <1>2. /\ Store!Learned({"accepted"}) = LearnedIn(state, {"accepted"})
        /\ Store!Learned({"accepted"})' = LearnedIn(state', {"accepted"})
        /\ Store!Learned({"rejected", "ignored"}) = LearnedIn(state, {"rejected", "ignored"})
        /\ Store!Learned({"rejected", "ignored"})' = LearnedIn(state', {"rejected", "ignored"})
    BY DEF Store!Learned, Store!PairOf, Store!Own, Store!Parents, LearnedIn, OwnIn, ParentsIn
  <1>3. /\ LearnedIn(state', {"accepted"}) = LearnedIn(state, {"accepted"})
        /\ LearnedIn(state', {"rejected", "ignored"}) = LearnedIn(state, {"rejected", "ignored"})
    BY <1>1
  <1>4. Store!PersonalizationExamples' = Store!PersonalizationExamples
    BY <1>2, <1>3 DEF Store!PersonalizationExamples
  <1>5. /\ {e \in state'.edits : e.signal = "accepted"} = {e \in state.edits : e.signal = "accepted"}
        /\ {e \in state'.edits : e.signal = "rejected"} = {e \in state.edits : e.signal = "rejected"}
    OBVIOUS
  <1>6. Store!SignalRates' = Store!SignalRates
    BY <1>5 DEF Store!SignalRates, Store!Rate
  <1> QED
    BY <1>4, <1>6 DEF Store!LearnedIsKept

\* A step that changes nothing takes nothing away.
LEMMA LogStands ==
  ASSUME UNCHANGED state
  PROVE  Store!LearnedIsKept
  BY DEF Store!LearnedIsKept, Store!SignalRates, Store!Rate, Store!PersonalizationExamples,
         Store!Learned, Store!PairOf, Store!Own, Store!Parents

\* Every step keeps the log in order, and what is learned from it.
LEMMA LogStep ==
  ASSUME LogInv(state), [Store!Next]_state
  PROVE  LogInv(state') /\ Store!LearnedIsKept
  <1>1. CASE Store!LogCorrection
    BY <1>1, LogGrows, KeptLearned DEF Store!LearnedIsKept
  <1>2. CASE Store!LogSignal
    BY <1>2, LogReacts DEF Store!LearnedIsKept
  <1>3. CASE Store!DayPasses \/ Store!Stop \/ Store!Open \/ Store!PruneFails
    BY <1>3, LogTurns, KeptLearned DEF Store!LearnedIsKept
  <1>4. CASE Store!PruneCorrections
    BY <1>4, LogPrunes, KeptLearned DEF Store!LearnedIsKept
  <1>5. CASE Store!PruneEdits
    BY <1>5, LogSweeps, KeptLearned DEF Store!LearnedIsKept
  <1>6. CASE UNCHANGED state
    BY <1>6, LogStands
  <1> QED
    BY <1>1, <1>2, <1>3, <1>4, <1>5, <1>6 DEF Store!Next

\* What the invariant says of edits and their corrections.
LEMMA LogHolds ==
  ASSUME LogInv(state)
  PROVE  Store!EditsHaveTheirs /\ Store!ReactionsArrive /\ Store!LastReactionCounts
  <1>1. \A e : Store!Own(e) <=> OwnIn(state, e)
    BY DEF Store!Own, Store!Parents, OwnIn
  <1>2. Store!LastReactionCounts
    BY DEF LogInv, ReactedIn, Store!LastReactionCounts
  <1> QED
    BY <1>1, <1>2 DEF LogInv, Store!EditsHaveTheirs, Store!ReactionsArrive

-----------------------------------------------------------------------------
(* What is made of the model's candidates. *)

Letters == Len(Bridge.answers.text)

\* Edits of a text, apart, as the diff makes them of a candidate.
Spanned(e) == e.start \in 0..Letters /\ e.end \in 0..Letters /\ e.start <= e.end
Diffed(edits) ==
  /\ Answers!Apart(edits)
  /\ \A e \in edits : Spanned(e) /\ e.model = "llm"

\* Edits that agree on their span and what they put there.
Same(d, e) == d.start = e.start /\ d.end = e.end /\ d.by = e.by

\* The constants, in the words of the proof.
LEMMA AnswersConstants ==
  /\ Letters \in Nat
  /\ \A n \in Bridge.answers.ns : n \in Nat
  /\ \A diff \in Bridge.answers.diffs : Diffed(diff)
  /\ \A fast \in Bridge.answers.finds :
       Answers!Apart(fast) /\ \A e \in fast : Spanned(e) /\ e.model # "llm"
  <1>1. Bridge.answers.text \in Seq(STRING) /\ Bridge.answers.ns \subseteq Nat
    BY AnswersAssumption DEF Answers!Constants
  <1>2. ASSUME NEW edits \in Bridge.answers.diffs \cup Bridge.answers.finds
        PROVE  Answers!Apart(edits) /\ \A e \in edits : Spanned(e)
    <2>1. edits \subseteq Answers!Edit /\ Answers!Apart(edits) /\ \A e \in edits : e.start <= e.end
      BY AnswersAssumption DEF Answers!Constants
    <2> QED
      BY <2>1 DEF Answers!Edit, Spanned, Letters
  <1>3. /\ \A diff \in Bridge.answers.diffs : \A e \in diff : e.model = "llm"
        /\ \A fast \in Bridge.answers.finds : \A e \in fast : e.model # "llm"
    BY AnswersAssumption DEF Answers!Constants
  <1>4. Letters \in Nat
    BY <1>1 DEF Letters
  <1> QED
    BY <1>1, <1>2, <1>3, <1>4 DEF Diffed

\* Two edits of candidates are one if they agree.
LEMMA SameIsOne ==
  ASSUME NEW c \in Bridge.answers.diffs, NEW d \in Bridge.answers.diffs, NEW x \in c, NEW y \in d, Same(x, y)
  PROVE  x = y
  <1>1. x \in Answers!Edit /\ y \in Answers!Edit
    BY AnswersAssumption DEF Answers!Constants
  <1>2. x.model = y.model /\ x.category = y.category /\ x.score = y.score
    BY AnswersAssumption DEF Answers!Constants
  <1> QED
    BY <1>1, <1>2 DEF Same, Answers!Edit

\* Of positions in a text there is a last, and a first.
LEMMA FirstAndLast ==
  ASSUME NEW S, S \subseteq Nat, S # {}, NEW n \in Nat, \A k \in S : k <= n
  PROVE  /\ Answers!Max(S) \in S /\ \A k \in S : k <= Answers!Max(S)
         /\ Answers!Min(S) \in S /\ \A k \in S : Answers!Min(S) <= k
  <1>1. PICK m \in S : \A k \in S : m >= k
    BY Largest
  <1>2. Answers!Max(S) \in S /\ \A k \in S : Answers!Max(S) >= k
    BY <1>1 DEF Answers!Max
  <1>3. PICK b \in S : \A c \in S : ~(<<c, b>> \in OpToRel(<, Nat))
    BY WFMin, NatLessThanWellFounded
  <1>4. \A c \in S : b <= c
    <2>1. \A c \in S : c \in Nat /\ b \in Nat
      OBVIOUS
    <2>2. \A c \in S : ~(c < b)
      BY <1>3, <2>1 DEF OpToRel
    <2> QED
      BY <2>1, <2>2
  <1>5. Answers!Min(S) \in S /\ \A k \in S : Answers!Min(S) <= k
    BY <1>4 DEF Answers!Min
  <1> QED
    BY <1>2, <1>5

\* A word begins at the start of the text or behind a space,
LEMMA WordStarts ==
  ASSUME NEW at \in 0..Letters
  PROVE  /\ Answers!WordStart(at) \in 0..at
         /\ Answers!WordStart(at) = 0 \/ Answers!IsSpace(Answers!WordStart(at))
  <1> DEFINE S == {i \in 0..at : i = 0 \/ Answers!IsSpace(i)}
  <1>1. S \subseteq Nat /\ 0 \in S /\ at \in Nat /\ \A k \in S : k <= at
    BY AnswersConstants
  <1>2. Answers!WordStart(at) = Answers!Max(S)
    BY DEF Answers!WordStart
  <1>3. Answers!Max(S) \in S
    BY <1>1, FirstAndLast
  <1> QED
    BY <1>2, <1>3

\* and ends with the text or before one.
LEMMA WordEnds ==
  ASSUME NEW at \in 0..Letters
  PROVE  /\ Answers!WordEnd(at) \in at..Letters
         /\ Answers!WordEnd(at) = Letters \/ Answers!IsSpace(Answers!WordEnd(at) + 1)
  <1> DEFINE S == {i \in at..Letters : i = Letters \/ Answers!IsSpace(i + 1)}
  <1>1. S \subseteq Nat /\ Letters \in S /\ Letters \in Nat /\ \A k \in S : k <= Letters
    BY AnswersConstants
  <1>2. Answers!WordEnd(at) = Answers!Min(S)
    BY DEF Answers!WordEnd, Letters
  <1>3. Answers!Min(S) \in S
    BY <1>1, FirstAndLast
  <1> QED
    BY <1>2, <1>3

\* The zone of an edit has it, and every word that the edit touches.
LEMMA ZoneHasItsWords ==
  ASSUME NEW e, Spanned(e)
  PROVE  LET z == Answers!WordZone(e) IN
         /\ z.start \in Nat /\ z.end \in Nat /\ z.start <= e.start /\ e.end <= z.end
         /\ \A w \in Answers!WordsOf(e) : z.start <= w.start /\ w.end <= z.end
  <1> DEFINE start == IF e.start = e.end /\ e.start > 0 THEN e.start - 1 ELSE e.start
             end == IF e.start = e.end /\ e.end < Letters THEN e.end + 1 ELSE e.end
             z == Answers!WordZone(e)
             away == IF e.start = e.end THEN 1 ELSE 0
  <1>1. z.start = Answers!WordStart(start) /\ z.end = Answers!WordEnd(end)
    BY DEF Answers!WordZone, Letters
  <1>2. /\ start \in 0..Letters /\ start <= e.start /\ end \in 0..Letters /\ e.end <= end
        /\ start = 0 \/ start = e.start - away
        /\ end = Letters \/ end = e.end + away
    BY AnswersConstants DEF Spanned
  <1>3. Answers!WordsOf(e) = {w \in Answers!Words : w.start <= e.end + away /\ e.start - away <= w.end}
    BY DEF Answers!WordsOf
  <1>4. away \in {0, 1} /\ Letters \in Nat /\ e.start \in 0..Letters /\ e.end \in 0..Letters
    BY AnswersConstants DEF Spanned
  <1> HIDE DEF start, end, z, away
  <1>5. /\ z.start \in 0..start /\ (z.start = 0 \/ Answers!IsSpace(z.start))
        /\ z.end \in end..Letters /\ (z.end = Letters \/ Answers!IsSpace(z.end + 1))
    BY <1>1, <1>2, WordStarts, WordEnds
  <1>6. z.start \in Nat /\ z.end \in Nat /\ z.start <= e.start /\ e.end <= z.end
    BY <1>2, <1>4, <1>5
  <1>7. ASSUME NEW w \in Answers!WordsOf(e)
        PROVE  z.start <= w.start /\ w.end <= z.end
    <2>1. /\ w.start \in 0..Letters /\ w.end \in 0..Letters /\ w.start < w.end
          /\ \A i \in (w.start + 1)..w.end : ~Answers!IsSpace(i)
          /\ w.start <= e.end + away /\ e.start - away <= w.end
      BY <1>3 DEF Answers!Words, Letters
    <2>2. z.start <= w.start
      <3>1. CASE z.start = 0
        BY <2>1, <3>1
      <3>2. CASE Answers!IsSpace(z.start) /\ z.start # 0
        <4>1. z.start <= w.end
          BY <1>2, <1>4, <1>5, <2>1, <3>2
        <4>2. z.start \notin (w.start + 1)..w.end
          BY <2>1, <3>2
        <4> QED
          BY <1>6, <2>1, <4>1, <4>2
      <3> QED
        BY <1>5, <3>1, <3>2
    <2>3. w.end <= z.end
      <3>1. CASE z.end = Letters
        BY <2>1, <3>1, <1>4
      <3>2. CASE Answers!IsSpace(z.end + 1) /\ z.end # Letters
        <4>1. w.start <= z.end
          BY <1>2, <1>4, <1>5, <2>1, <3>2
        <4>2. z.end + 1 \notin (w.start + 1)..w.end
          BY <2>1, <3>2
        <4> QED
          BY <1>6, <2>1, <4>1, <4>2
      <3> QED
        BY <1>5, <3>1, <3>2
    <2> QED
      BY <2>2, <2>3
  <1> QED
    BY <1>6, <1>7 DEF z

\* Edits whose zones are apart are apart, and touch no word together.
LEMMA ZonesApart ==
  ASSUME NEW e, NEW f, Spanned(e), Spanned(f), ~Answers!WordZonesConflict(f, e)
  PROVE  ~Answers!Overlaps(e, f) /\ ~Answers!Overlaps(f, e) /\ Answers!WordsOf(e) \cap Answers!WordsOf(f) = {}
  <1> DEFINE y == Answers!WordZone(e)
             z == Answers!WordZone(f)
  <1>1. /\ y.start \in Nat /\ y.end \in Nat /\ y.start <= e.start /\ e.end <= y.end
        /\ \A w \in Answers!WordsOf(e) : y.start <= w.start /\ w.end <= y.end
    BY ZoneHasItsWords
  <1>2. /\ z.start \in Nat /\ z.end \in Nat /\ z.start <= f.start /\ f.end <= z.end
        /\ \A w \in Answers!WordsOf(f) : z.start <= w.start /\ w.end <= z.end
    BY ZoneHasItsWords
  <1>3. ~(z.start < y.end /\ y.start < z.end)
    BY DEF Answers!WordZonesConflict, Answers!Overlaps
  <1> HIDE DEF y, z
  <1>4. e.start \in Nat /\ e.end \in Nat /\ f.start \in Nat /\ f.end \in Nat
    BY AnswersConstants DEF Spanned
  <1>5. ~Answers!Overlaps(e, f) /\ ~Answers!Overlaps(f, e)
    BY <1>1, <1>2, <1>3, <1>4 DEF Answers!Overlaps
  <1>6. ASSUME NEW w \in Answers!WordsOf(e), w \in Answers!WordsOf(f) PROVE FALSE
    <2>1. w.start \in Nat /\ w.end \in Nat /\ w.start < w.end
      BY AnswersConstants DEF Answers!WordsOf, Answers!Words, Letters
    <2> QED
      BY <1>1, <1>2, <1>3, <1>6, <2>1
  <1> QED
    BY <1>5, <1>6

\* A new category moves no edit and changes no text.
LEMMA CategoriesKeep ==
  ASSUME NEW llm, llm \subseteq Answers!Edit, NEW fast
  PROVE  \E f : /\ Answers!WithCategories(llm, fast) = {f[d] : d \in llm}
                /\ \A d \in llm : Same(f[d], d) /\ f[d].model = d.model
  <1> DEFINE of(e) == {f \in fast : f.category # "grammar" /\ Answers!Overlaps(e, f)}
             category(e) == (CHOOSE f \in of(e) : \A g \in of(e) : f.start <= g.start).category
             f == [e \in llm |-> IF of(e) = {} THEN e ELSE [e EXCEPT !.category = category(e)]]
  <1>1. Answers!WithCategories(llm, fast) = {f[d] : d \in llm}
    BY DEF Answers!WithCategories
  <1> HIDE DEF of, category
  <1>2. ASSUME NEW d \in llm PROVE Same(f[d], d) /\ f[d].model = d.model
    BY DEF Same, Answers!Edit
  <1> HIDE DEF f
  <1> QED
    BY <1>1, <1>2

\* Whatever is merged is apart, has the model's edits and no others of its, and by
\* words or by spans the checkers' stay away from them.
LEMMA Merges ==
  ASSUME NEW llm, llm \subseteq Answers!Edit, Diffed(llm), NEW fast \in Bridge.answers.finds, NEW mode
  PROVE  LET given == Answers!WithFast(Answers!WithCategories(llm, fast), fast, mode) IN
         /\ Answers!Apart(given)
         /\ \A e \in given : e.model = "llm" => \E d \in llm : Same(e, d)
         /\ \A d \in llm : \E e \in given : e.model = "llm" /\ Same(e, d)
         /\ \A e, f \in given : e.model = "llm" /\ f.model # "llm" =>
              IF mode \in {"all-word", "gector-word"} THEN Answers!WordsOf(e) \cap Answers!WordsOf(f) = {}
              ELSE ~Answers!SpansConflict(e, f)
  <1> DEFINE own == Answers!WithCategories(llm, fast)
             given == Answers!WithFast(own, fast, mode)
             byWords == mode \in {"all-word", "gector-word"}
  <1>1. PICK c : own = {c[d] : d \in llm} /\ \A d \in llm : Same(c[d], d) /\ c[d].model = d.model
    BY CategoriesKeep
  <1> HIDE DEF own
  <1>2. /\ \A e \in own : e \in given
        /\ \A e \in given : e \in own \/ e \in fast
        /\ \A f \in given : f \notin own =>
             \A e \in own : IF byWords THEN ~Answers!WordZonesConflict(f, e) ELSE ~Answers!SpansConflict(f, e)
    BY DEF Answers!WithFast
  <1> HIDE DEF given
  <1>3. \A e \in own : Spanned(e) /\ e.model = "llm"
    BY <1>1 DEF Diffed, Same, Spanned
  <1>4. Answers!Apart(fast) /\ \A f \in fast : Spanned(f) /\ f.model # "llm"
    BY AnswersConstants
  <1>5. Answers!Apart(own)
    <2> SUFFICES ASSUME NEW x \in llm, NEW y \in llm, c[x] # c[y]
                 PROVE  ~Answers!Overlaps(c[x], c[y])
      BY <1>1 DEF Answers!Apart
    <2>1. ~Answers!Overlaps(x, y)
      BY DEF Diffed, Answers!Apart
    <2> QED
      BY <1>1, <2>1 DEF Answers!Overlaps, Same
  <1>6. ASSUME NEW e \in own, NEW f \in given, f \notin own
        PROVE  /\ ~Answers!Overlaps(e, f) /\ ~Answers!Overlaps(f, e)
               /\ IF byWords THEN Answers!WordsOf(e) \cap Answers!WordsOf(f) = {}
                  ELSE ~Answers!SpansConflict(e, f)
    <2>1. Spanned(e) /\ Spanned(f)
      BY <1>2, <1>3, <1>4, <1>6
    <2>2. CASE byWords
      BY <1>2, <1>6, <2>1, <2>2, ZonesApart
    <2>3. CASE ~byWords
      <3>1. ~Answers!SpansConflict(f, e)
        BY <1>2, <1>6, <2>3
      <3>2. e.start \in Nat /\ e.end \in Nat /\ f.start \in Nat /\ f.end \in Nat
        BY <2>1, AnswersConstants DEF Spanned
      <3> QED
        BY <2>3, <3>1, <3>2 DEF Answers!SpansConflict, Answers!Overlaps
    <2> QED
      BY <2>2, <2>3
  <1>7. Answers!Apart(given)
    BY <1>2, <1>4, <1>5, <1>6 DEF Answers!Apart
  <1>8. \A e \in given : e.model = "llm" => e \in own
    BY <1>2, <1>4
  <1>9. \A e \in given : e.model = "llm" => \E d \in llm : Same(e, d)
    BY <1>1, <1>8
  <1>10. \A d \in llm : \E e \in given : e.model = "llm" /\ Same(e, d)
    BY <1>1, <1>2, <1>3
  <1>11. \A e, f \in given : e.model = "llm" /\ f.model # "llm" =>
           IF byWords THEN Answers!WordsOf(e) \cap Answers!WordsOf(f) = {} ELSE ~Answers!SpansConflict(e, f)
    BY <1>3, <1>6, <1>8
  <1> QED
    BY <1>7, <1>9, <1>10, <1>11 DEF given, own

\* The votes are counted alike here and there.
LEMMA Counted == ASSUME NEW S PROVE Answers!Cardinality(S) = Cardinality(S)
  BY Zenon DEF Answers!Cardinality, Cardinality

\* Who voted for an edit, to the letter.
Ballots(heard, e) == {i \in DOMAIN heard : e \in heard[i]}

\* An edit of a majority is of more than half; two majorities share a candidate,
\* of which the edits are apart; and what all propose is of a majority.
LEMMA Votes ==
  ASSUME NEW heard \in Seq(Bridge.answers.diffs), Len(heard) >= 1
  PROVE  LET kept == Answers!MajorityEdits(heard) IN
         /\ kept \subseteq Answers!Edit /\ Diffed(kept)
         /\ \A e \in kept : 2 * Cardinality(Ballots(heard, e)) > Len(heard)
         /\ \A i \in DOMAIN heard : \A e \in heard[i] : (\A j \in DOMAIN heard : e \in heard[j]) => e \in kept
  <1> DEFINE kept == Answers!MajorityEdits(heard)
             n == Len(heard)
             least == n \div 2 + 1
  <1>1. /\ DOMAIN heard = 1..n /\ n \in Nat /\ n >= 1 /\ \A i \in 1..n : heard[i] \in Bridge.answers.diffs
        /\ least \in Nat /\ 2 * least > n /\ least <= n
    OBVIOUS
  <1>2. kept = {e \in UNION {heard[i] : i \in DOMAIN heard} : Cardinality(Ballots(heard, e)) >= least}
    <2>1. kept = {e \in UNION {heard[i] : i \in DOMAIN heard} :
                    Answers!Cardinality(Ballots(heard, e)) >= least}
      BY Zenon DEF Answers!MajorityEdits, Answers!Quorum, Ballots
    <2> QED
      BY <2>1, Counted
  <1> HIDE DEF kept, n, least
  <1>3. IsFiniteSet(1..n) /\ Cardinality(1..n) = n
    BY <1>1, FS_Interval
  <1>4. ASSUME NEW e
        PROVE  /\ Ballots(heard, e) \subseteq 1..n
               /\ Cardinality(Ballots(heard, e)) \in Nat
    <2>1. Ballots(heard, e) \subseteq 1..n
      BY <1>1 DEF Ballots
    <2> QED
      BY <1>3, <2>1, FS_Subset, FS_CardinalityType
  <1>5. \A e \in kept : 2 * Cardinality(Ballots(heard, e)) > n
    BY <1>1, <1>2, <1>4
  <1>6. \A e \in kept : \E i \in 1..n : e \in heard[i]
    BY <1>1, <1>2
  <1>7. kept \subseteq Answers!Edit /\ \A e \in kept : Spanned(e) /\ e.model = "llm"
    <2>1. \A diff \in Bridge.answers.diffs : diff \subseteq Answers!Edit
      BY AnswersAssumption DEF Answers!Constants
    <2> QED
      BY <1>1, <1>6, <2>1, AnswersConstants DEF Diffed
  <1>8. ASSUME NEW x \in kept, NEW y \in kept, x # y
        PROVE  ~Answers!Overlaps(x, y)
    <2>1. Cardinality(Ballots(heard, x)) + Cardinality(Ballots(heard, y)) > n
      BY <1>1, <1>4, <1>5
    <2>2. Ballots(heard, x) \cap Ballots(heard, y) # {}
      BY <1>3, <1>4, <2>1, FS_MajoritiesIntersect
    <2>3. PICK i \in 1..n : x \in heard[i] /\ y \in heard[i]
      BY <1>1, <2>2 DEF Ballots
    <2>4. Answers!Apart(heard[i])
      BY <1>1, AnswersConstants DEF Diffed
    <2> QED
      BY <1>8, <2>3, <2>4 DEF Answers!Apart
  <1>9. Diffed(kept)
    BY <1>7, <1>8 DEF Diffed, Answers!Apart
  <1>10. ASSUME NEW i \in DOMAIN heard, NEW e \in heard[i], \A j \in DOMAIN heard : e \in heard[j]
         PROVE  e \in kept
    <2>1. Ballots(heard, e) = 1..n
      BY <1>1, <1>10 DEF Ballots
    <2> QED
      BY <1>1, <1>2, <1>3, <2>1
  <1> QED
    BY <1>5, <1>7, <1>9, <1>10 DEF kept, n

-----------------------------------------------------------------------------

AnswerNames == {"alone", "fast", "n", "mode", "stage", "asked", "heard", "given", "served", "by"}

Joined(a, llm) == Answers!WithFast(Answers!WithCategories(llm, a.fast), a.fast, a.mode)

\* What an answer is made of, by a vote, of a single candidate or of what the checkers found.
Made(a, edits, by) ==
  \/ by = "vote" /\ a.n >= 1 /\ Len(a.heard) = a.n /\ edits = Joined(a, Answers!MajorityEdits(a.heard))
  \/ by = "single" /\ \E diff \in Bridge.answers.diffs : edits = Joined(a, diff)
  \/ by \in {"fast", "rejected", "failed"} /\ edits = a.fast

\* No more candidates are heard than were asked for; what is served unjudged need not be judged.
AnswerInv(a) ==
  /\ DOMAIN a = AnswerNames
  /\ a.fast \in Bridge.answers.finds /\ a.n \in Nat /\ a.asked \in Nat
  /\ a.heard \in Seq(Bridge.answers.diffs) /\ Len(a.heard) <= a.asked /\ a.asked <= a.n
  /\ a.stage = "asking" => a.n >= 2
  /\ a.stage = "given" => Made(a, a.given, a.by)
  /\ a.stage # "given" => a.given = {} /\ a.by = "nobody" /\ a.served = {}
  /\ \A policy \in a.served : ~Answers!ShouldEscalate(a.fast, policy) /\ a.given = a.fast

\* At first nothing was asked.
LEMMA AnswerInit == Answers!Init => AnswerInv(state)
  <1> SUFFICES ASSUME Answers!Init PROVE AnswerInv(state)
    OBVIOUS
  <1>1. /\ DOMAIN state = AnswerNames /\ state.fast \in Bridge.answers.finds
        /\ state.n \in Bridge.answers.ns /\ state.asked = 0 /\ state.heard = <<>>
        /\ state.stage = "routing" /\ state.given = {} /\ state.by = "nobody" /\ state.served = {}
    BY DEF Answers!Init, AnswerNames
  <1>2. Len(state.heard) = 0 /\ state.heard \in Seq(Bridge.answers.diffs)
    BY <1>1
  <1> QED
    BY <1>1, <1>2, AnswersConstants DEF AnswerInv

\* An answer is given once it is made of what was heard and found.
LEMMA Gives ==
  ASSUME AnswerInv(state), state.stage # "given", NEW edits, NEW by, Made(state, edits, by),
         state' = Answers!Give(edits, by)
  PROVE  AnswerInv(state')
  <1>1. /\ DOMAIN state' = AnswerNames /\ state'.stage = "given" /\ state'.given = edits /\ state'.by = by
        /\ state'.fast = state.fast /\ state'.n = state.n /\ state'.mode = state.mode
        /\ state'.asked = state.asked /\ state'.heard = state.heard /\ state'.served = {}
    BY DEF Answers!Give, AnswerInv, AnswerNames
  <1>2. Made(state', edits, by)
    BY <1>1 DEF Made, Joined
  <1> QED
    BY <1>1, <1>2 DEF AnswerInv

\* Whether the model is asked is up to the policy.
LEMMA Routes ==
  ASSUME AnswerInv(state), Answers!Route
  PROVE  AnswerInv(state')
  <1>1. PICK policy :
          IF state.alone \/ Answers!ShouldEscalate(state.fast, policy)
          THEN state' = [state EXCEPT !.stage = IF state.n >= 2 THEN "asking" ELSE "single"]
          ELSE state' = [Answers!Give(state.fast, "fast") EXCEPT !.served = {policy}]
    BY Zenon DEF Answers!Route
  <1>2. state.stage = "routing"
    BY DEF Answers!Route
  <1>3. CASE state.alone \/ Answers!ShouldEscalate(state.fast, policy)
    <2>1. /\ DOMAIN state' = AnswerNames /\ \A k \in AnswerNames \ {"stage"} : state'[k] = state[k]
          /\ state'.stage = IF state.n >= 2 THEN "asking" ELSE "single"
      BY <1>1, <1>3 DEF AnswerInv, AnswerNames
    <2>2. /\ state'.fast = state.fast /\ state'.n = state.n /\ state'.asked = state.asked
          /\ state'.heard = state.heard /\ state'.given = state.given /\ state'.by = state.by
          /\ state'.served = state.served
      BY <2>1 DEF AnswerNames
    <2> QED
      BY <1>2, <2>1, <2>2 DEF AnswerInv
  <1>4. CASE ~(state.alone \/ Answers!ShouldEscalate(state.fast, policy))
    <2> DEFINE a == Answers!Give(state.fast, "fast")
    <2>1. /\ DOMAIN a = AnswerNames /\ a.stage = "given" /\ a.given = state.fast /\ a.by = "fast"
          /\ a.fast = state.fast /\ a.n = state.n /\ a.asked = state.asked /\ a.heard = state.heard
      BY DEF Answers!Give, AnswerInv, AnswerNames
    <2>2. state' = [a EXCEPT !.served = {policy}]
      BY <1>1, <1>4
    <2> HIDE DEF a
    <2>3. /\ DOMAIN state' = AnswerNames /\ state'.stage = "given" /\ state'.given = state.fast
          /\ state'.by = "fast" /\ state'.fast = state.fast /\ state'.n = state.n
          /\ state'.asked = state.asked /\ state'.heard = state.heard /\ state'.served = {policy}
      BY <2>1, <2>2 DEF AnswerNames
    <2>4. Made(state', state'.given, state'.by)
      BY <2>3 DEF Made
    <2> QED
      BY <1>4, <2>3, <2>4 DEF AnswerInv
  <1> QED
    BY <1>3, <1>4

\* A candidate is heard, or dropped.
LEMMA Hears ==
  ASSUME AnswerInv(state), Answers!Hear
  PROVE  AnswerInv(state')
  <1>1. /\ state.stage = "asking" /\ state.asked < state.n
        /\ \/ \E diff \in Bridge.answers.diffs :
                state' = [state EXCEPT !.asked = @ + 1, !.heard = Append(@, diff)]
           \/ state' = [state EXCEPT !.asked = @ + 1]
    BY DEF Answers!Hear
  <1>2. Len(state.heard) \in Nat /\ state.asked \in Nat /\ state.n \in Nat
    BY DEF AnswerInv
  <1>3. ASSUME NEW heard \in Seq(Bridge.answers.diffs), Len(heard) <= Len(state.heard) + 1,
               DOMAIN state' = AnswerNames, state'.asked = state.asked + 1, state'.heard = heard,
               \A k \in AnswerNames \ {"asked", "heard"} : state'[k] = state[k]
        PROVE  AnswerInv(state')
    <2>1. /\ state'.fast = state.fast /\ state'.n = state.n /\ state'.given = state.given
          /\ state'.by = state.by /\ state'.served = state.served /\ state'.stage = state.stage
      BY <1>3 DEF AnswerNames
    <2>2. Len(state.heard) <= state.asked /\ state.asked < state.n
      BY <1>1 DEF AnswerInv
    <2>3. Len(heard) \in Nat /\ Len(heard) <= Len(state.heard) + 1
      BY <1>3
    <2>4. Len(heard) <= state.asked + 1 /\ state.asked + 1 <= state.n /\ state.asked + 1 \in Nat
      BY ONLY <1>2, <2>2, <2>3
    <2> QED
      BY <1>1, <1>3, <2>1, <2>4 DEF AnswerInv
  <1>4. CASE \E diff \in Bridge.answers.diffs : state' = [state EXCEPT !.asked = @ + 1, !.heard = Append(@, diff)]
    <2>1. PICK diff \in Bridge.answers.diffs : state' = [state EXCEPT !.asked = @ + 1, !.heard = Append(@, diff)]
      BY <1>4
    <2>2. state.heard \in Seq(Bridge.answers.diffs)
      BY DEF AnswerInv
    <2>3. /\ Append(state.heard, diff) \in Seq(Bridge.answers.diffs)
          /\ Len(Append(state.heard, diff)) = Len(state.heard) + 1
      <3> DEFINE diffs == Bridge.answers.diffs
                 heard == state.heard
      <3>1. heard \in Seq(diffs) /\ diff \in diffs
        BY <2>2
      <3> HIDE DEF diffs, heard
      <3>2. Append(heard, diff) \in Seq(diffs) /\ Len(Append(heard, diff)) = Len(heard) + 1
        BY <3>1, Appends
      <3> QED
        BY <3>2 DEF diffs, heard
    <2>4. Len(Append(state.heard, diff)) <= Len(state.heard) + 1
      BY ONLY <1>2, <2>3
    <2>5. /\ DOMAIN state' = AnswerNames /\ state'.asked = state.asked + 1
          /\ state'.heard = Append(state.heard, diff)
          /\ \A k \in AnswerNames \ {"asked", "heard"} : state'[k] = state[k]
      BY <2>1 DEF AnswerInv, AnswerNames
    <2> QED
      BY <1>3, <2>3, <2>4, <2>5
  <1>5. CASE state' = [state EXCEPT !.asked = @ + 1]
    <2>1. /\ DOMAIN state' = AnswerNames /\ state'.asked = state.asked + 1 /\ state'.heard = state.heard
          /\ \A k \in AnswerNames \ {"asked", "heard"} : state'[k] = state[k]
      BY <1>5 DEF AnswerInv, AnswerNames
    <2>2. state.heard \in Seq(Bridge.answers.diffs)
      BY DEF AnswerInv
    <2> QED
      BY <1>2, <1>3, <2>1, <2>2
  <1> QED
    BY <1>1, <1>4, <1>5

\* The candidates vote, all of them; or too few were heard.
LEMMA Decides ==
  ASSUME AnswerInv(state), Answers!Vote \/ Answers!FallShort
  PROVE  AnswerInv(state')
  <1>1. CASE Answers!Vote
    <2> DEFINE votes == Answers!MajorityEdits(state.heard)
    <2>1. /\ state.stage = "asking" /\ state.asked = state.n /\ Len(state.heard) >= state.n
          /\ \/ state' = Answers!Give(Joined(state, votes), "vote")
             \/ state' = Answers!Give(state.fast, "rejected")
      BY <1>1 DEF Answers!Vote, Answers!Enough, Answers!Merged, Joined
    <2> HIDE DEF votes
    <2>2. Len(state.heard) \in Nat /\ state.n \in Nat /\ Len(state.heard) <= state.n /\ state.n >= 2
      BY <2>1 DEF AnswerInv
    <2>3. Len(state.heard) = state.n /\ state.n >= 1
      BY <2>1, <2>2
    <2>4. Made(state, Joined(state, votes), "vote") /\ Made(state, state.fast, "rejected")
      BY <2>3 DEF Made, votes
    <2> QED
      BY <2>1, <2>4, Gives
  <1>2. CASE Answers!FallShort
    <2>1. /\ DOMAIN state' = AnswerNames /\ \A k \in AnswerNames \ {"stage"} : state'[k] = state[k]
          /\ state'.stage = "single" /\ state.stage = "asking"
      BY <1>2 DEF Answers!FallShort, AnswerInv, AnswerNames
    <2>2. /\ state'.fast = state.fast /\ state'.n = state.n /\ state'.asked = state.asked
          /\ state'.heard = state.heard /\ state'.given = state.given /\ state'.by = state.by
          /\ state'.served = state.served
      BY <2>1 DEF AnswerNames
    <2> QED
      BY <2>1, <2>2 DEF AnswerInv
  <1> QED
    BY <1>1, <1>2

\* A single candidate is given, or what the checkers found, or nothing.
LEMMA Singles ==
  ASSUME AnswerInv(state), Answers!Single
  PROVE  AnswerInv(state')
  <1>1. /\ state.stage = "single"
        /\ \/ \E diff \in Bridge.answers.diffs : state' = Answers!Give(Joined(state, diff), "single")
           \/ \E by \in {"rejected", "failed"} : state' = Answers!Give(state.fast, by)
           \/ state' = [state EXCEPT !.stage = "error"]
    BY Zenon DEF Answers!Single, Answers!Merged, Joined
  <1>2. CASE \E diff \in Bridge.answers.diffs : state' = Answers!Give(Joined(state, diff), "single")
    <2>1. PICK diff \in Bridge.answers.diffs : state' = Answers!Give(Joined(state, diff), "single")
      BY <1>2
    <2>2. Made(state, Joined(state, diff), "single")
      BY DEF Made
    <2> QED
      BY <1>1, <2>1, <2>2, Gives
  <1>3. CASE \E by \in {"rejected", "failed"} : state' = Answers!Give(state.fast, by)
    <2>1. \A by \in {"rejected", "failed"} : Made(state, state.fast, by)
      BY DEF Made
    <2> QED
      BY <1>1, <1>3, <2>1, Gives
  <1>4. CASE state' = [state EXCEPT !.stage = "error"]
    <2>1. /\ DOMAIN state' = AnswerNames /\ \A k \in AnswerNames \ {"stage"} : state'[k] = state[k]
          /\ state'.stage = "error"
      BY <1>4 DEF AnswerInv, AnswerNames
    <2>2. /\ state'.fast = state.fast /\ state'.n = state.n /\ state'.asked = state.asked
          /\ state'.heard = state.heard /\ state'.given = state.given /\ state'.by = state.by
          /\ state'.served = state.served
      BY <2>1 DEF AnswerNames
    <2> QED
      BY <1>1, <2>1, <2>2 DEF AnswerInv
  <1> QED
    BY <1>1, <1>2, <1>3, <1>4

\* No step breaks the invariant of the answer.
LEMMA AnswerStep == AnswerInv(state) /\ [Answers!Next]_state => AnswerInv(state')
  <1> SUFFICES ASSUME AnswerInv(state), [Answers!Next]_state PROVE AnswerInv(state')
    OBVIOUS
  <1>1. CASE UNCHANGED state
    BY <1>1
  <1>2. CASE Answers!Next
    BY <1>2, Routes, Hears, Decides, Singles DEF Answers!Next
  <1> QED
    BY <1>1, <1>2

\* What was made of diffs and finds is apart, has the model's edits, and the checkers'
\* where they are not in the way.
LEMMA AnswerIsMerged ==
  ASSUME AnswerInv(state), state.by \in {"vote", "single"}
  PROVE  \E llm : /\ llm \subseteq Answers!Edit /\ Diffed(llm) /\ state.given = Joined(state, llm)
                  /\ state.by = "vote" => /\ llm = Answers!MajorityEdits(state.heard)
                                          /\ Len(state.heard) = state.n /\ state.n >= 1
  <1>1. Made(state, state.given, state.by)
    BY DEF AnswerInv
  <1>2. CASE state.by = "vote"
    BY <1>1, <1>2, Votes DEF Made, AnswerInv
  <1>3. CASE state.by = "single"
    <2>1. PICK diff \in Bridge.answers.diffs : state.given = Joined(state, diff)
      BY <1>1, <1>3 DEF Made
    <2>2. diff \subseteq Answers!Edit /\ Diffed(diff)
      BY AnswersConstants, AnswersAssumption DEF Answers!Constants
    <2> QED
      BY <1>3, <2>1, <2>2
  <1> QED
    BY <1>2, <1>3

\* What is given is apart, and by words or spans the checkers' edits stay away from the model's.
LEMMA AnswerIsApart ==
  ASSUME AnswerInv(state)
  PROVE  Answers!GivenIsApart /\ Answers!WordsAreTheModels
  <1>1. CASE state.by \in {"vote", "single"}
    <2>1. PICK llm : llm \subseteq Answers!Edit /\ Diffed(llm) /\ state.given = Joined(state, llm)
      BY <1>1, AnswerIsMerged
    <2>2. /\ Answers!Apart(state.given)
          /\ \A e, f \in state.given : e.model = "llm" /\ f.model # "llm" =>
               IF state.mode \in {"all-word", "gector-word"}
               THEN Answers!WordsOf(e) \cap Answers!WordsOf(f) = {}
               ELSE ~Answers!SpansConflict(e, f)
      BY <2>1, Merges DEF AnswerInv, Joined
    <2> QED
      BY <2>2 DEF Answers!GivenIsApart, Answers!WordsAreTheModels, Answers!OfModel
  <1>2. CASE state.by \notin {"vote", "single"}
    <2>1. state.given = {} \/ state.given = state.fast
      BY <1>2 DEF AnswerInv, Made
    <2>2. Answers!Apart(state.given)
      BY <2>1, AnswersConstants DEF AnswerInv, Answers!Apart
    <2> QED
      BY <1>2, <2>2 DEF Answers!GivenIsApart, Answers!WordsAreTheModels
  <1> QED
    BY <1>1, <1>2

\* Who voted for an edit of the answer: an edit of a vote is of more than half of the
\* candidates, and what all of them propose is given.
LEMMA AnswerIsOfMost ==
  ASSUME AnswerInv(state)
  PROVE  Answers!VotesAreOfMost
  <1> DEFINE Voters(e) == {i \in DOMAIN state.heard : \E d \in state.heard[i] : Same(d, e)}
             kept == Answers!MajorityEdits(state.heard)
  <1> SUFFICES ASSUME state.by = "vote"
               PROVE  /\ \A e \in Answers!OfModel : 2 * Cardinality(Voters(e)) > state.n
                      /\ \A e \in UNION {state.heard[i] : i \in DOMAIN state.heard} :
                           Cardinality(Voters(e)) = state.n => \E d \in Answers!OfModel : Same(d, e)
    <2>1. \A d, e : Same(d, e) <=> <<d.start, d.end, d.by>> = <<e.start, e.end, e.by>>
      BY DEF Same
    <2> QED
      BY <2>1, Counted DEF Answers!VotesAreOfMost
  <1>1. /\ Diffed(kept) /\ kept \subseteq Answers!Edit /\ state.given = Joined(state, kept)
        /\ Len(state.heard) = state.n /\ state.n >= 1
    BY AnswerIsMerged
  <1>2. state.heard \in Seq(Bridge.answers.diffs) /\ DOMAIN state.heard = 1..state.n /\ state.n \in Nat
    BY <1>1 DEF AnswerInv
  <1>3. /\ \A e \in kept : 2 * Cardinality(Ballots(state.heard, e)) > state.n
        /\ \A i \in DOMAIN state.heard : \A e \in state.heard[i] :
             (\A j \in DOMAIN state.heard : e \in state.heard[j]) => e \in kept
    BY <1>1, <1>2, Votes
  <1>4. /\ \A e \in state.given : e.model = "llm" => \E d \in kept : Same(e, d)
        /\ \A d \in kept : \E e \in state.given : e.model = "llm" /\ Same(e, d)
    BY <1>1, Merges DEF AnswerInv, Joined
  <1> HIDE DEF kept
  <1>5. IsFiniteSet(1..state.n) /\ Cardinality(1..state.n) = state.n
    BY <1>1, <1>2, FS_Interval
  <1>6. ASSUME NEW e PROVE Voters(e) \subseteq 1..state.n /\ IsFiniteSet(Voters(e)) /\ Cardinality(Voters(e)) \in Nat
    <2>1. Voters(e) \subseteq 1..state.n
      BY <1>2
    <2> QED
      BY <1>5, <2>1, FS_Subset, FS_CardinalityType
  <1>7. ASSUME NEW e \in Answers!OfModel PROVE 2 * Cardinality(Voters(e)) > state.n
    <2>1. PICK d \in kept : Same(e, d)
      BY <1>4 DEF Answers!OfModel
    <2>2. Ballots(state.heard, d) \subseteq Voters(e)
      BY <2>1 DEF Ballots, Same
    <2>3. Cardinality(Ballots(state.heard, d)) <= Cardinality(Voters(e))
      BY <1>6, <2>2, FS_Subset
    <2>4. Cardinality(Ballots(state.heard, d)) \in Nat
      BY <1>6, <2>2, FS_Subset, FS_CardinalityType
    <2>5. 2 * Cardinality(Ballots(state.heard, d)) > state.n
      BY <1>3
    <2>6. Cardinality(Voters(e)) \in Nat
      BY <1>6
    <2> HIDE DEF Voters
    <2> QED
      BY ONLY <1>2, <2>3, <2>4, <2>5, <2>6
  <1>8. ASSUME NEW i \in DOMAIN state.heard, NEW e \in state.heard[i], Cardinality(Voters(e)) = state.n
        PROVE  \E d \in Answers!OfModel : Same(d, e)
    <2>1. Voters(e) = 1..state.n
      BY <1>5, <1>6, <1>8, FS_Subset
    <2>2. \A j \in 1..state.n : e \in state.heard[j]
      <3> TAKE j \in 1..state.n
      <3>1. PICK d \in state.heard[j] : Same(d, e)
        BY <2>1
      <3> QED
        BY <1>2, <3>1, SameIsOne
    <2>3. e \in kept
      BY <1>2, <1>3, <2>2
    <2> QED
      BY <1>4, <2>3 DEF Answers!OfModel
  <1> QED
    BY <1>7, <1>8

\* What is served unjudged has no edit of grammar, where an edit is to be judged.
LEMMA AnswerIsJudged ==
  ASSUME AnswerInv(state)
  PROVE  Answers!GrammarIsJudged
  <1> SUFFICES ASSUME NEW policy \in state.served, policy.onFastEdit, NEW e \in state.given
               PROVE  e.category # "grammar"
    BY DEF Answers!GrammarIsJudged
  <1>1. e \in state.fast /\ ~Answers!ShouldEscalate(state.fast, policy)
    BY DEF AnswerInv
  <1>2. \/ Answers!AllSure(state.fast, policy)
        \/ \A x \in state.fast : Answers!Trusted(x, policy)
    BY <1>1 DEF Answers!ShouldEscalate
  <1> QED
    BY <1>1, <1>2 DEF Answers!AllSure, Answers!Trusted

-----------------------------------------------------------------------------
(* All of these. *)

\* Only the part moves that the behaviour is of, by a step of its own.
LEMMA PartMoves ==
  ASSUME [BridgeNext]_<<part, state>>
  PROVE  /\ part' = part
         /\ part = "relay" => [Relay!Next]_state
         /\ part = "staged" => [Staged!Next]_state
         /\ part = "services" => [Services!Next]_state
         /\ part = "answers" => [Answers!Next]_state
         /\ part = "store" => [Store!Next]_state
  BY DEF BridgeNext

\* The invariant of the part that a behaviour is of.
AccountsInv ==
  /\ part = "relay" => RelayInv(state)
  /\ part = "staged" => StagedInv(state)
  /\ part = "services" => ServicesInv(state)
  /\ part = "answers" => AnswerInv(state)
  /\ part = "store" => LogInv(state)

\* The inductive invariant of the browser's worker and of the bridge.
THEOREM AccountsInvariant == BridgeWork => []AccountsInv
  <1>1. BridgeInit => AccountsInv
    BY RelayInit, StagedInit, ServicesInit, AnswerInit, LogInit DEF BridgeInit, AccountsInv
  <1>2. AccountsInv /\ [BridgeNext]_<<part, state>> => AccountsInv'
    <2> SUFFICES ASSUME AccountsInv, [BridgeNext]_<<part, state>> PROVE AccountsInv'
      OBVIOUS
    <2>0. part' = part
      BY PartMoves
    <2>1. part = "relay" => RelayInv(state')
      BY PartMoves, RelayStep DEF AccountsInv
    <2>2. part = "staged" => StagedInv(state')
      BY PartMoves, StagedStep DEF AccountsInv
    <2>3. part = "services" => ServicesInv(state')
      BY PartMoves, ServicesStep DEF AccountsInv
    <2>4. part = "answers" => AnswerInv(state')
      BY PartMoves, AnswerStep DEF AccountsInv
    <2>5. part = "store" => LogInv(state')
      BY PartMoves, LogStep DEF AccountsInv
    <2> QED
      BY <2>0, <2>1, <2>2, <2>3, <2>4, <2>5 DEF AccountsInv
  <1> QED
    BY <1>1, <1>2, PTL DEF BridgeWork

\* No fetch outlives its caller unnoticed, and no caller its fetch; a streamed check
\* ends with one answer; what the other services answer was said of that text; and what
\* is made of the model's candidates is apart, of most of them and judged.
THEOREM RequestsAreAccounted == BridgeWork => []RequestsAccounted
  <1>1. AccountsInv => RequestsAccounted
    BY RelayAccounts, StagedAnswers, ServicesRemember, ServicesAnswer, AnswerIsApart, AnswerIsOfMost,
       AnswerIsJudged
    DEF AccountsInv, RequestsAccounted
  <1> QED
    BY <1>1, AccountsInvariant, PTL

\* The log gives the caches what reactions alone made, and reactions reach their edits,
\* of several to one edit the last.
THEOREM LogStaysSound == BridgeWork => LogIsSound
  <1>1. AccountsInv =>
          (part = "store" =>
             Store!EditsHaveTheirs /\ Store!ReactionsArrive /\ Store!LastReactionCounts)
    BY LogHolds DEF AccountsInv
  <1>2. AccountsInv /\ [BridgeNext]_<<part, state>> =>
          [part = "store" => Store!LearnedIsKept]_<<part, state>>
    BY PartMoves, LogStep, LogStands DEF AccountsInv
  <1> QED
    BY <1>1, <1>2, AccountsInvariant, PTL DEF BridgeWork, LogIsSound
=============================================================================
