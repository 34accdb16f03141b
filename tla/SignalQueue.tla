----------------------------- MODULE SignalQueue -----------------------------
(***************************************************************************)
(* The user's reactions to suggestions on their way from the content       *)
(* script to the bridge: createSignalQueue (clients/browser/src/signal/    *)
(* queue.ts), BridgeClient.signal and signalOnUnload (api/client.ts), and  *)
(* the content script that creates, replaces and flushes the queues        *)
(* (entrypoints/content/index.ts).                                         *)
(*                                                                         *)
(* Reactions are numbered as they are made.  The closures that enqueue     *)
(* hold the queue wireRuntime took from the runtime; the settings watcher  *)
(* and the unload listener speak to runtime.signalQueue.  Reactions        *)
(* without a correction id, which signal() filters out, are left out.      *)
(***************************************************************************)
EXTENDS Naturals, Sequences, SequencesExt, FiniteSets

CONSTANTS
  MaxReactions,  \* bound on the reactions of a behaviour
  Cap,           \* maxBufferSize
  MaxQueues,     \* bound on the queues created
  Slots,         \* identities for batches in flight: bounds how many there are
  None           \* no runtime

ASSUME SignalQueueAssumption ==
  /\ MaxReactions \in Nat
  /\ Cap \in Nat \ {0}
  /\ MaxQueues \in Nat \ {0}
  /\ None \notin 1..MaxQueues

VARIABLES
  made,      \* reactions so far
  queues,    \* queues created so far
  wired,     \* the queue the closures of wireRuntime hold
  current,   \* runtime.signalQueue
  buffer,    \* each queue's buffer
  timer,     \* whether its debounce timer is set
  batch,     \* the batches being sent, one POST per reaction
  page,      \* whether the page is there
  up,        \* whether the bridge answers
  recorded,  \* reactions the bridge has recorded
  capped,    \* history: reactions a full buffer dropped
  farewell,  \* history: reactions handed to the final, unanswered flush
  retried    \* history: reactions put back after a failed batch

local == <<made, queues, wired, current, buffer, timer, batch, page>>
history == <<capped, farewell, retried>>
vars == <<local, up, recorded, history>>

Reactions == 1..MaxReactions
Queues == 1..MaxQueues
NoBatch == [of |-> None, events |-> <<>>, pending |-> {}, open |-> FALSE]

Batches == [of: Queues \cup {None}, events: Seq(Reactions), pending: SUBSET Reactions, open: BOOLEAN]

TypeOK ==
  /\ made \in 0..MaxReactions
  /\ queues \in Queues
  /\ wired \in Queues \cup {None} /\ current \in Queues \cup {None}
  /\ buffer \in [Queues -> Seq(Reactions)] /\ \A q \in Queues : Len(buffer[q]) <= Cap
  /\ timer \in [Queues -> BOOLEAN]
  /\ batch \in [Slots -> Batches]
  /\ page \in {"shown", "gone"} /\ up \in BOOLEAN
  /\ recorded \subseteq 1..made /\ capped \subseteq 1..made
  /\ farewell \subseteq 1..made /\ retried \subseteq 1..made

Init ==
  /\ made = 0
  /\ queues = 1 /\ wired = 1 /\ current = 1
  /\ buffer = [q \in Queues |-> <<>>]
  /\ timer = [q \in Queues |-> FALSE]
  /\ batch = [s \in Slots |-> NoBatch]
  /\ page = "shown" /\ up \in BOOLEAN
  /\ recorded = {} /\ capped = {} /\ farewell = {} /\ retried = {}

-----------------------------------------------------------------------------
(* The queue.  Slip_... definitions are slips the definition after them    *)
(* could have; nothing uses them.                                          *)

Slip_CapIgnored(events) == events

\* capBuffer: the oldest go first.
Newest(events) == SubSeq(events, 1 + Len(events) - (IF Len(events) > Cap THEN Cap ELSE Len(events)), Len(events))

Fill(q, events) ==
  /\ buffer' = [buffer EXCEPT ![q] = Newest(events)]
  /\ capped' = capped \cup (Range(events) \ Range(Newest(events)))

Slip_TimerForFirstOnly ==
  /\ wired # None /\ made < MaxReactions
  /\ made' = made + 1
  /\ Fill(wired, Append(buffer[wired], made + 1))
  /\ timer' = [timer EXCEPT ![wired] = @ \/ buffer[wired] = <<>>]
  /\ UNCHANGED <<queues, wired, current, batch, page, up, recorded, farewell, retried>>

\* enqueue: the timer is set anew.
Enqueue ==
  /\ wired # None /\ made < MaxReactions
  /\ made' = made + 1
  /\ Fill(wired, Append(buffer[wired], made + 1))
  /\ timer' = [timer EXCEPT ![wired] = TRUE]
  /\ UNCHANGED <<queues, wired, current, batch, page, up, recorded, farewell, retried>>

Slip_BufferKeptUntilSent(q) ==
  /\ timer' = [timer EXCEPT ![q] = FALSE]
  /\ \E s \in Slots :
       /\ batch[s].pending = {}
       /\ batch' = [batch EXCEPT ![s] = [of |-> q, events |-> buffer[q],
                                         pending |-> Range(buffer[q]), open |-> TRUE]]
  /\ UNCHANGED buffer

\* The buffer becomes a batch, and signal() starts one POST per reaction.
Dispatch(q) ==
  /\ timer' = [timer EXCEPT ![q] = FALSE]
  /\ \E s \in Slots :
       /\ batch[s].pending = {}
       /\ batch' = [batch EXCEPT ![s] = [of |-> q, events |-> buffer[q],
                                         pending |-> Range(buffer[q]), open |-> TRUE]]
  /\ buffer' = [buffer EXCEPT ![q] = <<>>]

TimerFires(q) ==
  /\ timer[q]
  /\ Dispatch(q)
  /\ UNCHANGED <<made, queues, wired, current, page, up, recorded, history>>

Slip_FlushNeedsTimer(q) ==
  IF ~timer[q] THEN UNCHANGED <<buffer, timer, batch>> ELSE Dispatch(q)

\* flush: with an empty buffer only the timer is cleared.
Flush(q) ==
  IF buffer[q] = <<>>
  THEN timer' = [timer EXCEPT ![q] = FALSE] /\ UNCHANGED <<buffer, batch>>
  ELSE Dispatch(q)

\* A field loses focus, or the page navigates within itself.
Blur ==
  /\ wired # None
  /\ Flush(wired)
  /\ UNCHANGED <<made, queues, wired, current, page, up, recorded, history>>

\* What is left of a batch once the POST of n has ended.
Without(b, n) == IF b.pending = {n} THEN NoBatch ELSE [b EXCEPT !.pending = @ \ {n}]

\* A POST is answered: the bridge has recorded the reaction.
Posted(s, n) ==
  /\ n \in batch[s].pending /\ up
  /\ recorded' = recorded \cup {n}
  /\ batch' = [batch EXCEPT ![s] = Without(@, n)]
  /\ UNCHANGED <<made, queues, wired, current, buffer, timer, page, up, history>>

Slip_RequeueReplaces(q, events) == Fill(q, events)

Requeue(q, events) == Fill(q, events \o buffer[q])

\* A POST fails, or its answer is lost.  The first failure of a batch rejects
\* Promise.all, and the whole batch is put back; its other POSTs go on.
PostFails(s, n) ==
  /\ n \in batch[s].pending /\ ~up
  /\ recorded' = recorded \/ recorded' = recorded \cup {n}
  /\ \/ /\ batch[s].open
        /\ Requeue(batch[s].of, batch[s].events)
        /\ retried' = retried \cup Range(batch[s].events)
     \/ ~batch[s].open /\ UNCHANGED <<buffer, capped, retried>>
  /\ batch' = [batch EXCEPT ![s] = [Without(@, n) EXCEPT !.open = FALSE]]
  /\ UNCHANGED <<made, queues, wired, current, timer, page, up, farewell>>

-----------------------------------------------------------------------------
(* The content script. *)

\* flushFinal of the runtime's queue, if there is a runtime: sent without
\* waiting for an answer.
FlushFinal ==
  IF current = None
  THEN UNCHANGED <<buffer, timer, farewell>>
  ELSE /\ buffer' = [buffer EXCEPT ![current] = <<>>]
       /\ timer' = [timer EXCEPT ![current] = FALSE]
       /\ farewell' = farewell \cup Range(buffer[current])

\* What the final flush sent arrives or does not.
Arrive(sent) == \E arrived \in SUBSET sent : recorded' = recorded \cup (IF up THEN arrived ELSE {})

\* visibilitychange: the page is hidden, but it may come back.
Hide ==
  /\ FlushFinal /\ Arrive(farewell' \ farewell)
  /\ UNCHANGED <<made, queues, wired, current, batch, page, up, capped, retried>>

\* pagehide.
Unload ==
  /\ FlushFinal /\ Arrive(farewell' \ farewell)
  /\ page' = "gone"
  /\ UNCHANGED <<made, queues, wired, current, batch, up, capped, retried>>

\* The settings watcher sees another bridge URL or another remote opt-in.
Rebind ==
  /\ current # None /\ queues < MaxQueues
  /\ queues' = queues + 1 /\ current' = queues + 1
  /\ UNCHANGED <<made, wired, buffer, timer, batch, page, up, recorded, history>>

\* teardownRuntime flushes the runtime's queue and drops the runtime.
Teardown ==
  /\ current # None
  /\ Flush(current)
  /\ wired' = None /\ current' = None
  /\ UNCHANGED <<made, queues, page, up, recorded, history>>

\* initRuntime makes a queue and wires it.
Mount ==
  /\ current = None /\ queues < MaxQueues
  /\ queues' = queues + 1
  /\ wired' = queues + 1 /\ current' = queues + 1
  /\ UNCHANGED <<made, buffer, timer, batch, page, up, recorded, history>>

BridgeFlips == up' = ~up /\ UNCHANGED <<local, recorded, history>>

Sending == \E s \in Slots, n \in Reactions : Posted(s, n) \/ PostFails(s, n)

Next ==
  /\ page = "shown"
  /\ \/ Enqueue \/ Blur \/ Hide \/ Unload \/ Rebind \/ Teardown \/ Mount
     \/ \E q \in Queues : TimerFires(q)
     \/ Sending
     \/ BridgeFlips

Spec == Init /\ [][Next]_vars

\* Timers fire, and every POST is answered or times out.
FairSpec ==
  /\ Spec
  /\ \A q \in Queues : WF_vars(page = "shown" /\ TimerFires(q))
  /\ WF_vars(page = "shown" /\ Sending)

-----------------------------------------------------------------------------
(* Safety. *)

Buffered(n) == {q \in Queues : n \in Range(buffer[q])}
Sent(n) == {s \in Slots : batch[s].open /\ n \in Range(batch[s].events)}

\* No reaction disappears, whatever fails: it waits in a buffer, is being
\* sent, was recorded, or was given up for a reason that has a name.
NothingVanishes ==
  \A n \in 1..made :
    Buffered(n) # {} \/ Sent(n) # {} \/ n \in recorded \cup capped \cup farewell

\* No reaction is held twice, so that it is never sent by two batches that
\* may both put it back, and buffers hold it once.
HeldOnce ==
  /\ \A n \in 1..made : Cardinality(Buffered(n)) + Cardinality(Sent(n)) <= 1
  /\ \A q \in Queues : IsInjective(buffer[q])

\* A reaction waits without a timer only after a send of it failed: it goes
\* out a debounce after the last one, with no need for another event.
NobodyWaitsForNothing ==
  \A q \in Queues : ~timer[q] => Range(buffer[q]) \subseteq retried

-----------------------------------------------------------------------------
(* Liveness. *)

\* Failed batches included, what the closures enqueue leaves the queue, if
\* the bridge is back for good and the user never stays in a field for ever.
QueueDrains ==
  <>[](up /\ page = "shown") /\ WF_vars(Blur) => <>[](wired # None => buffer[wired] = <<>>)

-----------------------------------------------------------------------------
(* What a comment says, and the code does not keep. *)

\* index.ts:631-632: "force-flush queued telemetry before the page goes away
\* instead of silently dropping it".  After the settings watcher has replaced
\* runtime.signalQueue the flush is for a queue nobody enqueues into.
UnloadFlushes == page = "gone" /\ wired # None => buffer[wired] = <<>>
=============================================================================
