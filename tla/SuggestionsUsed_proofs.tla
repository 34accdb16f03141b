------------------------ MODULE SuggestionsUsed_proofs ------------------------
(***************************************************************************)
(* What the browser does with the suggestions a user takes or refuses.     *)
(*                                                                         *)
(* The signal queue, for every number of reactions, queues and batches in  *)
(* flight, and for every capacity: no reaction is held twice, none         *)
(* vanishes without a reason, and none waits without a timer unless a send *)
(* of it has failed.                                                       *)
(*                                                                         *)
(* Applying suggestions one by one and taking them back, for texts of any  *)
(* length and any answers, edits of the user and rechecks: in a plain      *)
(* field what the user types is never written over, and undo gives back    *)
(* the text that a batch began with, to the token, in a plain field and in *)
(* a rich editor that ignored nothing.                                     *)
(***************************************************************************)
EXTENDS SignalQueue, FiniteSetTheorems, SequenceTheorems, TLAPS

-----------------------------------------------------------------------------
(* The signal queue. *)

\* The reactions a queue's buffer holds, and those a batch may put back.
Holds(q) == Range(buffer[q])
Carries(s) == IF batch[s].open THEN Range(batch[s].events) ELSE {}

\* Nothing is held in two places.
Apart ==
  /\ \A p, q \in Queues : p # q => Holds(p) \cap Holds(q) = {}
  /\ \A s, t \in Slots : s # t => Carries(s) \cap Carries(t) = {}
  /\ \A q \in Queues, s \in Slots : Holds(q) \cap Carries(s) = {}

\* Only reactions already made are held, each once in its place.
Held ==
  /\ \A q \in Queues : Holds(q) \subseteq 1..made /\ IsInjective(buffer[q])
  /\ \A s \in Slots : Carries(s) \subseteq 1..made /\ (batch[s].open => IsInjective(batch[s].events))

\* A batch that may still be put back belongs to a queue, and what it no
\* longer waits for was recorded; an idle slot carries nothing.
BatchOK(s) ==
  /\ batch[s].pending \subseteq 1..made
  /\ batch[s].open => batch[s].of \in Queues
  /\ Carries(s) \ batch[s].pending \subseteq recorded
  /\ batch[s].pending = {} => Carries(s) = {}

Accounted ==
  \A n \in 1..made : \/ \E q \in Queues : n \in Holds(q)
                     \/ \E s \in Slots : n \in Carries(s)
                     \/ n \in recorded \cup capped \cup farewell

IInv ==
  /\ TypeOK
  /\ Apart /\ Held /\ Accounted /\ NobodyWaitsForNothing
  /\ \A s \in Slots : BatchOK(s)

-----------------------------------------------------------------------------
(* Buffers. *)

\* capBuffer keeps a part of the buffer, in order and within the capacity.
LEMMA NewestOK ==
  ASSUME NEW S, NEW e \in Seq(S)
  PROVE  /\ Newest(e) \in Seq(S) /\ Len(Newest(e)) <= Cap
         /\ Range(Newest(e)) \subseteq Range(e)
         /\ IsInjective(e) => IsInjective(Newest(e))
  <1> DEFINE k == IF Len(e) > Cap THEN Cap ELSE Len(e)
             b == Len(e) - k
  <1>1. k \in Nat /\ k <= Len(e) /\ k <= Cap /\ b \in Nat /\ b + k = Len(e)
    BY SignalQueueAssumption
  <1>2. Newest(e) = SubSeq(e, 1 + b, Len(e))
    BY <1>1 DEF Newest
  <1> HIDE DEF k, b
  <1>3. /\ Newest(e) \in Seq(S) /\ Len(Newest(e)) = k
        /\ \A i \in 1..k : Newest(e)[i] = e[b + i]
    BY <1>1, <1>2
  <1>4. DOMAIN Newest(e) = 1..k /\ DOMAIN e = 1..Len(e) /\ \A i \in 1..k : b + i \in 1..Len(e)
    BY <1>1, <1>3
  <1>5. Range(Newest(e)) \subseteq Range(e)
    BY <1>3, <1>4 DEF Range
  <1>6. ASSUME IsInjective(e) PROVE IsInjective(Newest(e))
    <2> SUFFICES ASSUME NEW i \in 1..k, NEW j \in 1..k, Newest(e)[i] = Newest(e)[j]
                 PROVE  i = j
      BY <1>4 DEF IsInjective
    <2>1. e[b + i] = e[b + j]
      BY <1>3
    <2>2. b + i = b + j
      BY <2>1, <1>4, <1>6 DEF IsInjective
    <2> QED
      BY <2>2, <1>1
  <1> QED
    BY <1>1, <1>3, <1>5, <1>6

\* What a batch puts back comes before what was enqueued since.
LEMMA ConcatOK ==
  ASSUME NEW S, NEW e \in Seq(S), NEW f \in Seq(S)
  PROVE  /\ e \o f \in Seq(S) /\ Range(e \o f) = Range(e) \cup Range(f)
         /\ IsInjective(e) /\ IsInjective(f) /\ Range(e) \cap Range(f) = {} => IsInjective(e \o f)
  <1> DEFINE g == e \o f
             m == Len(e)
             n == Len(f)
  <1>1. /\ g \in Seq(S) /\ m \in Nat /\ n \in Nat
        /\ DOMAIN g = 1..(m + n) /\ DOMAIN e = 1..m /\ DOMAIN f = 1..n
        /\ \A i \in 1..m : g[i] = e[i]
        /\ \A i \in 1..n : g[m + i] = f[i]
    OBVIOUS
  <1>2. \A i \in 1..(m + n) : i \in 1..m \/ (i - m \in 1..n /\ i = m + (i - m))
    BY <1>1
  <1> HIDE DEF g, m, n
  <1>3. \A i \in 1..m : i \in 1..(m + n)
    BY <1>1
  <1>4. \A i \in 1..n : m + i \in 1..(m + n)
    BY <1>1
  <1>5. Range(g) \subseteq Range(e) \cup Range(f)
    <2> SUFFICES ASSUME NEW i \in 1..(m + n) PROVE g[i] \in Range(e) \cup Range(f)
      BY <1>1 DEF Range
    <2>1. CASE i \in 1..m
      BY <1>1, <2>1 DEF Range
    <2>2. CASE i - m \in 1..n /\ i = m + (i - m)
      <3>1. g[m + (i - m)] = f[i - m]
        BY <1>1, <2>2
      <3>2. f[i - m] \in Range(f)
        BY <1>1, <2>2 DEF Range
      <3> QED
        BY <2>2, <3>1, <3>2
    <2> QED
      BY <1>2, <2>1, <2>2
  <1>6. Range(e) \subseteq Range(g)
    BY <1>1, <1>3 DEF Range
  <1>7. Range(f) \subseteq Range(g)
    BY <1>1, <1>4 DEF Range
  <1>8. ASSUME IsInjective(e), IsInjective(f), Range(e) \cap Range(f) = {} PROVE IsInjective(g)
    <2> SUFFICES ASSUME NEW i \in 1..(m + n), NEW j \in 1..(m + n), g[i] = g[j] PROVE i = j
      BY <1>1 DEF IsInjective
    <2>1. \A x \in 1..m, y \in 1..n : e[x] # f[y]
      BY <1>1, <1>8 DEF Range
    <2>2. CASE i \in 1..m /\ j \in 1..m
      <3>1. e[i] = e[j] /\ i \in DOMAIN e /\ j \in DOMAIN e
        BY <1>1, <2>2
      <3> QED
        BY <3>1, <1>8 DEF IsInjective
    <2>a. \A x \in 1..(m + n) : x \notin 1..m => x - m \in 1..n /\ g[x] = f[x - m]
      <3> SUFFICES ASSUME NEW x \in 1..(m + n), x \notin 1..m
                   PROVE  x - m \in 1..n /\ g[x] = f[x - m]
        OBVIOUS
      <3>1. x - m \in 1..n /\ x = m + (x - m)
        BY <1>2
      <3>2. g[m + (x - m)] = f[x - m]
        BY <1>1, <3>1
      <3> QED
        BY <3>1, <3>2
    <2>3. CASE i \in 1..m /\ j \notin 1..m
      <3>1. g[i] = e[i] /\ g[j] = f[j - m] /\ j - m \in 1..n
        BY <1>1, <2>3, <2>a
      <3> QED
        BY <2>1, <2>3, <3>1
    <2>4. CASE i \notin 1..m /\ j \in 1..m
      <3>1. g[j] = e[j] /\ g[i] = f[i - m] /\ i - m \in 1..n
        BY <1>1, <2>4, <2>a
      <3> QED
        BY <2>1, <2>4, <3>1
    <2>5. CASE i \notin 1..m /\ j \notin 1..m
      <3>1. i - m \in 1..n /\ j - m \in 1..n /\ g[i] = f[i - m] /\ g[j] = f[j - m]
        BY <2>5, <2>a
      <3>2. f[i - m] = f[j - m] /\ i - m \in DOMAIN f /\ j - m \in DOMAIN f
        BY <3>1, <1>1
      <3>3. i - m = j - m
        BY <3>2, <1>8 DEF IsInjective
      <3> QED
        BY <3>3, <1>1
    <2> QED
      BY <2>2, <2>3, <2>4, <2>5
  <1> QED
    BY <1>1, <1>5, <1>6, <1>7, <1>8 DEF g

\* One more reaction is enqueued.
LEMMA AppendOK ==
  ASSUME NEW S, NEW e \in Seq(S), NEW x \in S
  PROVE  /\ Append(e, x) \in Seq(S) /\ Range(Append(e, x)) = Range(e) \cup {x}
         /\ IsInjective(e) /\ x \notin Range(e) => IsInjective(Append(e, x))
  <1> DEFINE f == <<x>>
  <1>1. Append(e, x) = e \o f /\ f \in Seq(S)
    OBVIOUS
  <1>2. Range(f) = {x} /\ IsInjective(f)
    <2>1. DOMAIN f = {1} /\ f[1] = x
      OBVIOUS
    <2> QED
      BY <2>1 DEF Range, IsInjective
  <1> HIDE DEF f
  <1>3. e \o f \in Seq(S) /\ Range(e \o f) = Range(e) \cup {x}
    BY <1>1, <1>2, ConcatOK
  <1>4. ASSUME IsInjective(e), x \notin Range(e) PROVE IsInjective(e \o f)
    <2>1. Range(e) \cap Range(f) = {}
      BY <1>2, <1>4
    <2> QED
      BY <1>1, <1>2, <1>4, <2>1, ConcatOK
  <1> QED
    BY <1>1, <1>3, <1>4

\* An empty buffer.
LEMMA NothingIn == Range(<<>>) = {} /\ IsInjective(<<>>)
  <1>1. DOMAIN <<>> = {}
    OBVIOUS
  <1> QED
    BY <1>1 DEF Range, IsInjective

-----------------------------------------------------------------------------
(* The steps. *)

\* The first queue is empty and nothing has been made.
LEMMA Start == Init => IInv
  <1> SUFFICES ASSUME Init PROVE IInv
    OBVIOUS
  <1>1. \A q \in Queues : buffer[q] = <<>> /\ Holds(q) = {} /\ IsInjective(buffer[q])
    BY NothingIn DEF Init, Holds
  <1>2. \A s \in Slots : batch[s] = NoBatch /\ ~batch[s].open /\ batch[s].pending = {} /\ Carries(s) = {}
    BY DEF Init, NoBatch, Carries
  <1>3. TypeOK
    <2>1. NoBatch \in Batches
      BY DEF NoBatch, Batches
    <2> QED
      BY <2>1, SignalQueueAssumption DEF Init, TypeOK, Queues, Reactions
  <1>4. Apart /\ Held
    BY <1>1, <1>2 DEF Apart, Held
  <1>5. Accounted
    BY DEF Init, Accounted
  <1>6. NobodyWaitsForNothing
    BY <1>1 DEF NobodyWaitsForNothing, Holds
  <1>7. \A s \in Slots : BatchOK(s)
    BY <1>2 DEF BatchOK
  <1> QED
    BY <1>3, <1>4, <1>5, <1>6, <1>7 DEF IInv

\* What leaves every buffer and every batch alone keeps the invariant.
LEMMA Quiet ==
  ASSUME IInv, TypeOK', UNCHANGED <<made, buffer, batch, recorded, history>>,
         \A q \in Queues : timer'[q] \/ ~timer[q] \/ buffer[q] = <<>>
  PROVE  IInv'
  <1>1. /\ \A q \in Queues : Holds(q)' = Holds(q)
        /\ \A s \in Slots : Carries(s)' = Carries(s) /\ BatchOK(s)'
    BY DEF Holds, Carries, IInv, BatchOK
  <1>2. Apart' /\ Held' /\ Accounted'
    BY <1>1 DEF IInv, Apart, Held, Accounted, history
  <1>3. NobodyWaitsForNothing'
    BY NothingIn DEF IInv, NobodyWaitsForNothing, history
  <1> QED
    BY <1>1, <1>2, <1>3 DEF IInv

\* enqueue: the new reaction is held by the queue the closures hold.
LEMMA EnqueueStep ==
  ASSUME IInv, Enqueue, NEW w \in Queues, w = wired
  PROVE  IInv'
  <1> DEFINE x == made + 1
             e == Append(buffer[w], x)
  <1>1. /\ TypeOK /\ made \in Nat /\ x \in Reactions /\ x \notin 1..made
        /\ 1..x = 1..made \cup {x} /\ made' = x
    BY SignalQueueAssumption DEF IInv, Enqueue, TypeOK, Reactions
  <1>2. /\ buffer' = [buffer EXCEPT ![w] = Newest(e)]
        /\ capped' = capped \cup (Range(e) \ Range(Newest(e)))
        /\ timer' = [timer EXCEPT ![w] = TRUE]
        /\ UNCHANGED <<queues, wired, current, batch, page, up, recorded, farewell, retried>>
    BY DEF Enqueue, Fill
  <1>3. buffer[w] \in Seq(Reactions) /\ Holds(w) \subseteq 1..made /\ IsInjective(buffer[w])
    BY <1>1 DEF TypeOK, IInv, Held
  <1>4. e \in Seq(Reactions) /\ Range(e) = Holds(w) \cup {x} /\ IsInjective(e)
    BY <1>1, <1>3, AppendOK DEF Holds
  <1> HIDE DEF x, e
  <1>5. /\ Newest(e) \in Seq(Reactions) /\ Len(Newest(e)) <= Cap
        /\ Range(Newest(e)) \subseteq Holds(w) \cup {x} /\ IsInjective(Newest(e))
    BY <1>4, NewestOK
  <1>6. buffer'[w] = Newest(e) /\ \A q \in Queues \ {w} : buffer'[q] = buffer[q]
    BY <1>1, <1>2 DEF TypeOK
  <1>7. /\ Holds(w)' \subseteq Holds(w) \cup {x}
        /\ Holds(w) \cup {x} \subseteq Holds(w)' \cup capped'
        /\ \A q \in Queues \ {w} : Holds(q)' = Holds(q)
        /\ \A s \in Slots : Carries(s)' = Carries(s)
    <2>1. Holds(w)' = Range(Newest(e))
      BY <1>2, <1>6 DEF Holds
    <2> QED
      BY <1>2, <1>4, <1>5, <1>6, <2>1 DEF Holds, Carries
  <1>8. TypeOK'
    <2>1. buffer' \in [Queues -> Seq(Reactions)]
      BY <1>1, <1>2, <1>5 DEF TypeOK
    <2>2. \A q \in Queues : Len(buffer'[q]) <= Cap
      BY <1>1, <1>5, <1>6 DEF TypeOK
    <2>3. timer' \in [Queues -> BOOLEAN]
      BY <1>1, <1>2 DEF TypeOK
    <2>4. made' \in 0..MaxReactions
      BY <1>1 DEF Reactions
    <2>5. capped' \subseteq 1..made'
      BY <1>1, <1>2, <1>3, <1>4 DEF TypeOK
    <2>6. recorded \subseteq 1..made' /\ farewell \subseteq 1..made' /\ retried \subseteq 1..made'
      BY <1>1 DEF TypeOK
    <2> QED
      BY <1>1, <1>2, <2>1, <2>2, <2>3, <2>4, <2>5, <2>6 DEF TypeOK
  <1>9. /\ \A q \in Queues : Holds(q) \subseteq 1..made
        /\ \A s \in Slots : Carries(s) \subseteq 1..made
    BY DEF IInv, Held
  <1>10. Apart'
    BY <1>1, <1>7, <1>9 DEF IInv, Apart
  <1>11. Held'
    BY <1>1, <1>2, <1>5, <1>6, <1>7, <1>9 DEF IInv, Held
  <1>12. Accounted'
    BY <1>1, <1>2, <1>7 DEF IInv, Accounted
  <1>13. NobodyWaitsForNothing'
    BY <1>1, <1>2, <1>6 DEF IInv, NobodyWaitsForNothing, TypeOK
  <1>14. \A s \in Slots : BatchOK(s)'
    BY <1>1, <1>2, <1>7 DEF IInv, BatchOK
  <1> QED
    BY <1>8, <1>10, <1>11, <1>12, <1>13, <1>14 DEF IInv

\* The timer or a flush: what the buffer held the batch carries.
LEMMA DispatchStep ==
  ASSUME IInv, NEW q \in Queues, Dispatch(q), wired' \in Queues \cup {None},
         current' \in Queues \cup {None}, UNCHANGED <<made, queues, page, up, recorded, history>>
  PROVE  IInv'
  <1>1. PICK s \in Slots :
          /\ batch[s].pending = {}
          /\ batch' = [batch EXCEPT ![s] = [of |-> q, events |-> buffer[q],
                                            pending |-> Range(buffer[q]), open |-> TRUE]]
    BY DEF Dispatch
  <1>2. buffer' = [buffer EXCEPT ![q] = <<>>] /\ timer' = [timer EXCEPT ![q] = FALSE] /\ TypeOK
    BY DEF Dispatch, IInv
  <1>3. /\ batch'[s] = [of |-> q, events |-> buffer[q], pending |-> Range(buffer[q]), open |-> TRUE]
        /\ \A t \in Slots \ {s} : batch'[t] = batch[t]
        /\ buffer'[q] = <<>> /\ \A p \in Queues \ {q} : buffer'[p] = buffer[p]
    BY <1>1, <1>2 DEF TypeOK
  <1>4. /\ Holds(q)' = {} /\ \A p \in Queues \ {q} : Holds(p)' = Holds(p)
        /\ Carries(s) = {} /\ Carries(s)' = Holds(q)
        /\ \A t \in Slots \ {s} : Carries(t)' = Carries(t)
    <2>1. Holds(q)' = {}
      BY <1>3, NothingIn DEF Holds
    <2>2. Carries(s) = {}
      BY <1>1 DEF IInv, BatchOK
    <2> QED
      BY <1>3, <2>1, <2>2 DEF Holds, Carries
  <1>5. TypeOK'
    <2>a. made \in Nat /\ made <= MaxReactions /\ buffer[q] \in Seq(Reactions)
      BY <1>2, SignalQueueAssumption DEF TypeOK
    <2>b. 1..made \subseteq Reactions
      BY <2>a, SignalQueueAssumption DEF Reactions
    <2>1. Holds(q) \subseteq Reactions /\ buffer[q] \in Seq(Reactions)
      BY <2>a, <2>b DEF IInv, Held
    <2>2. batch'[s] \in Batches
      BY <1>3, <2>1 DEF Batches, Holds
    <2>3. batch' \in [Slots -> Batches]
      BY <1>1, <1>2, <2>2, <1>3 DEF TypeOK
    <2>4. buffer' \in [Queues -> Seq(Reactions)] /\ timer' \in [Queues -> BOOLEAN]
      BY <1>2 DEF TypeOK
    <2>5. \A p \in Queues : Len(buffer'[p]) <= Cap
      BY <1>2, <1>3, SignalQueueAssumption DEF TypeOK
    <2> QED
      BY <1>2, <2>3, <2>4, <2>5 DEF TypeOK, history
  <1>6. Apart'
    BY <1>4 DEF IInv, Apart
  <1>7. Held'
    BY <1>3, <1>4, NothingIn DEF IInv, Held
  <1>8. Accounted'
    BY <1>4 DEF IInv, Accounted, history
  <1>9. NobodyWaitsForNothing'
    BY <1>2, <1>3, NothingIn DEF IInv, NobodyWaitsForNothing, TypeOK, history
  <1>10. \A t \in Slots : BatchOK(t)'
    <2>1. BatchOK(s)'
      BY <1>3, <1>4 DEF IInv, BatchOK, Held, Holds
    <2> QED
      BY <1>3, <1>4, <2>1 DEF IInv, BatchOK
  <1> QED
    BY <1>5, <1>6, <1>7, <1>8, <1>9, <1>10 DEF IInv

\* flush with an empty buffer clears a timer nobody needs.
LEMMA FlushStep ==
  ASSUME IInv, NEW q \in Queues, Flush(q), wired' \in Queues \cup {None},
         current' \in Queues \cup {None}, UNCHANGED <<made, queues, page, up, recorded, history>>
  PROVE  IInv'
  <1>1. CASE buffer[q] = <<>>
    <2>1. timer' = [timer EXCEPT ![q] = FALSE] /\ UNCHANGED <<buffer, batch>> /\ TypeOK
      BY <1>1 DEF Flush, IInv
    <2>2. TypeOK'
      BY <2>1 DEF TypeOK, history
    <2>3. \A p \in Queues : timer'[p] \/ ~timer[p] \/ buffer[p] = <<>>
      BY <1>1, <2>1 DEF TypeOK
    <2> QED
      BY <2>1, <2>2, <2>3, Quiet
  <1>2. CASE buffer[q] # <<>>
    BY <1>2, DispatchStep DEF Flush
  <1> QED
    BY <1>1, <1>2

\* A POST is answered: what the batch no longer waits for was recorded.
LEMMA PostedStep ==
  ASSUME IInv, NEW s \in Slots, NEW n \in Reactions, Posted(s, n)
  PROVE  IInv'
  <1>1. /\ TypeOK /\ n \in batch[s].pending /\ recorded' = recorded \cup {n}
        /\ batch' = [batch EXCEPT ![s] = Without(@, n)]
        /\ UNCHANGED <<made, queues, wired, current, buffer, timer, page, up, history>>
    BY DEF IInv, Posted
  <1> DEFINE e == Without(batch[s], n)
  <1>2. /\ batch'[s] = e
        /\ \A t \in Slots \ {s} : batch'[t] = batch[t]
        /\ batch[s] \in Batches
    <2>1. batch' = [batch EXCEPT ![s] = e] /\ batch \in [Slots -> Batches]
      BY <1>1 DEF TypeOK
    <2> HIDE DEF e
    <2> QED
      BY <2>1
  <1>3. n \in 1..made /\ BatchOK(s)
    BY <1>1 DEF IInv, BatchOK
  <1>4. /\ \A q \in Queues : Holds(q)' = Holds(q)
        /\ \A t \in Slots \ {s} : Carries(t)' = Carries(t)
        /\ Carries(s)' \subseteq Carries(s) /\ Carries(s) \subseteq Carries(s)' \cup recorded'
        /\ batch'[s] \in Batches /\ BatchOK(s)'
        /\ batch'[s].open => batch[s].open /\ batch'[s].events = batch[s].events
    <2>1. \A q \in Queues : Holds(q)' = Holds(q)
      BY <1>1 DEF Holds
    <2>2. \A t \in Slots \ {s} : Carries(t)' = Carries(t)
      BY <1>2 DEF Carries
    <2>3. CASE batch[s].pending = {n}
      <3>1. batch'[s] = NoBatch
        BY <1>2, <2>3 DEF Without
      <3>2. NoBatch \in Batches /\ ~NoBatch.open /\ NoBatch.pending = {}
        BY DEF NoBatch, Batches
      <3>3. Carries(s)' = {} /\ Carries(s) \subseteq recorded'
        BY <1>1, <1>3, <2>3, <3>1, <3>2 DEF Carries, BatchOK
      <3>4. BatchOK(s)'
        BY <3>1, <3>2, <3>3 DEF BatchOK
      <3> QED
        BY <2>1, <2>2, <3>1, <3>2, <3>3, <3>4
    <2>4. CASE batch[s].pending # {n}
      <3>1. batch'[s] = [batch[s] EXCEPT !.pending = batch[s].pending \ {n}]
        BY <1>2, <2>4 DEF Without
      <3>2. /\ batch'[s] \in Batches /\ batch'[s].open = batch[s].open /\ batch'[s].of = batch[s].of
            /\ batch'[s].events = batch[s].events /\ batch'[s].pending = batch[s].pending \ {n}
        BY <1>2, <3>1 DEF Batches
      <3>3. batch'[s].pending # {}
        BY <1>1, <2>4, <3>2
      <3>4. Carries(s)' = Carries(s)
        BY <3>2 DEF Carries
      <3>5. BatchOK(s)'
        BY <1>1, <1>3, <3>2, <3>3, <3>4 DEF BatchOK
      <3> QED
        BY <2>1, <2>2, <3>2, <3>4, <3>5
    <2> QED
      BY <2>3, <2>4
  <1>5. TypeOK'
    <2>1. batch' \in [Slots -> Batches]
      BY <1>1, <1>2, <1>4 DEF TypeOK
    <2> QED
      BY <1>1, <1>3, <2>1 DEF TypeOK, history
  <1>6. Apart'
    BY <1>4 DEF IInv, Apart
  <1>7. Held'
    <2>1. \A t \in Slots : batch'[t].open => IsInjective(batch'[t].events)
      BY <1>2, <1>4 DEF IInv, Held
    <2> QED
      BY <1>1, <1>4, <2>1 DEF IInv, Held
  <1>8. Accounted'
    BY <1>1, <1>4 DEF IInv, Accounted, history
  <1>9. NobodyWaitsForNothing'
    BY <1>1 DEF IInv, NobodyWaitsForNothing, history
  <1>10. \A t \in Slots \ {s} : BatchOK(t)'
    BY <1>1, <1>2, <1>4 DEF IInv, BatchOK
  <1> QED
    BY <1>4, <1>5, <1>6, <1>7, <1>8, <1>9, <1>10 DEF IInv

\* A POST fails: what the batch carried goes back to its queue, once.
LEMMA PostFailsStep ==
  ASSUME IInv, NEW s \in Slots, NEW n \in Reactions, PostFails(s, n)
  PROVE  IInv'
  <1>1. /\ TypeOK /\ n \in batch[s].pending
        /\ recorded' = recorded \/ recorded' = recorded \cup {n}
        /\ batch' = [batch EXCEPT ![s] = [Without(@, n) EXCEPT !.open = FALSE]]
        /\ UNCHANGED <<made, queues, wired, current, timer, page, up, farewell>>
    BY DEF IInv, PostFails
  <1> DEFINE e == [Without(batch[s], n) EXCEPT !.open = FALSE]
  <1>2. /\ batch'[s] = e
        /\ \A t \in Slots \ {s} : batch'[t] = batch[t]
        /\ batch[s] \in Batches
    <2>1. batch' = [batch EXCEPT ![s] = e] /\ batch \in [Slots -> Batches]
      BY <1>1 DEF TypeOK
    <2> HIDE DEF e
    <2> QED
      BY <2>1
  <1>3. n \in 1..made /\ BatchOK(s)
    BY <1>1 DEF IInv, BatchOK
  <1>4. /\ \A t \in Slots \ {s} : Carries(t)' = Carries(t)
        /\ Carries(s)' = {} /\ ~batch'[s].open
        /\ batch'[s] \in Batches /\ BatchOK(s)'
    <2>1. \A t \in Slots \ {s} : Carries(t)' = Carries(t)
      BY <1>2 DEF Carries
    <2>2. batch'[s] \in Batches /\ ~batch'[s].open /\ batch'[s].pending \subseteq batch[s].pending
      <3>1. NoBatch \in Batches /\ ~NoBatch.open /\ NoBatch.pending = {}
        BY DEF NoBatch, Batches
      <3>2. Without(batch[s], n) \in Batches /\ Without(batch[s], n).pending \subseteq batch[s].pending
        BY <1>2, <3>1 DEF Batches, Without
      <3> QED
        BY <1>2, <3>2 DEF Batches
    <2>3. Carries(s)' = {}
      BY <2>2 DEF Carries
    <2>4. BatchOK(s)'
      BY <1>1, <1>3, <2>2, <2>3 DEF BatchOK
    <2> QED
      BY <2>1, <2>2, <2>3, <2>4
  <1>5. batch' \in [Slots -> Batches]
    BY <1>1, <1>2, <1>4 DEF TypeOK
  <1>6. recorded \subseteq recorded' /\ recorded' \subseteq 1..made
    BY <1>1, <1>3 DEF TypeOK
  <1>7. \A t \in Slots : BatchOK(t)'
    <2>1. \A t \in Slots \ {s} : BatchOK(t)'
      BY <1>1, <1>2, <1>4, <1>6 DEF IInv, BatchOK
    <2> QED
      BY <1>4, <2>1
  <1>8. CASE ~batch[s].open /\ UNCHANGED <<buffer, capped, retried>>
    <2>1. \A q \in Queues : Holds(q)' = Holds(q)
      BY <1>8 DEF Holds
    <2>2. Carries(s) = {}
      BY <1>8 DEF Carries
    <2>3. TypeOK'
      BY <1>1, <1>5, <1>6, <1>8 DEF TypeOK
    <2>4. Apart' /\ Accounted'
      BY <1>1, <1>4, <1>6, <1>8, <2>1, <2>2 DEF IInv, Apart, Accounted
    <2>5. Held'
      BY <1>1, <1>2, <1>4, <1>8, <2>1 DEF IInv, Held
    <2>6. NobodyWaitsForNothing'
      BY <1>1, <1>8 DEF IInv, NobodyWaitsForNothing
    <2> QED
      BY <1>7, <2>3, <2>4, <2>5, <2>6 DEF IInv
  <1>9. CASE /\ batch[s].open
             /\ Requeue(batch[s].of, batch[s].events)
             /\ retried' = retried \cup Range(batch[s].events)
    <2>1. PICK w \in Queues : w = batch[s].of
      BY <1>3, <1>9 DEF BatchOK
    <2> DEFINE back == batch[s].events
               all == back \o buffer[w]
    <2>2. /\ buffer' = [buffer EXCEPT ![w] = Newest(all)]
          /\ capped' = capped \cup (Range(all) \ Range(Newest(all)))
          /\ retried' = retried \cup Range(back)
      BY <1>9, <2>1 DEF Requeue, Fill
    <2>3. /\ back \in Seq(Reactions) /\ buffer[w] \in Seq(Reactions)
          /\ Carries(s) = Range(back) /\ Holds(w) = Range(buffer[w])
          /\ IsInjective(back) /\ IsInjective(buffer[w]) /\ Carries(s) \cap Holds(w) = {}
      BY <1>1, <1>2, <1>9 DEF Batches, TypeOK, Carries, Holds, IInv, Held, Apart
    <2>4. all \in Seq(Reactions) /\ Range(all) = Carries(s) \cup Holds(w) /\ IsInjective(all)
      BY <2>3, ConcatOK
    <2> HIDE DEF back, all
    <2>5. /\ Newest(all) \in Seq(Reactions) /\ Len(Newest(all)) <= Cap
          /\ Range(Newest(all)) \subseteq Carries(s) \cup Holds(w) /\ IsInjective(Newest(all))
      BY <2>4, NewestOK
    <2>6. buffer'[w] = Newest(all) /\ \A q \in Queues \ {w} : buffer'[q] = buffer[q]
      BY <1>1, <2>2 DEF TypeOK
    <2>7. /\ Holds(w)' \subseteq Carries(s) \cup Holds(w)
          /\ Carries(s) \cup Holds(w) \subseteq Holds(w)' \cup capped'
          /\ \A q \in Queues \ {w} : Holds(q)' = Holds(q)
      <3>1. Holds(w)' = Range(Newest(all))
        BY <2>6 DEF Holds
      <3> QED
        BY <2>2, <2>4, <2>5, <2>6, <3>1 DEF Holds
    <2>8. Carries(s) \subseteq 1..made /\ Holds(w) \subseteq 1..made
      BY DEF IInv, Held
    <2>9. capped \subseteq capped' /\ capped' \subseteq 1..made /\ retried' \subseteq 1..made
      BY <1>1, <2>2, <2>3, <2>4, <2>8 DEF TypeOK
    <2>10. TypeOK'
      <3>1. buffer' \in [Queues -> Seq(Reactions)]
        BY <1>1, <2>2, <2>5 DEF TypeOK
      <3>2. \A q \in Queues : Len(buffer'[q]) <= Cap
        BY <1>1, <2>5, <2>6 DEF TypeOK
      <3> QED
        BY <1>1, <1>5, <1>6, <2>9, <3>1, <3>2 DEF TypeOK
    <2>11. Apart'
      BY <1>4, <2>7 DEF IInv, Apart
    <2>12. Held'
      <3>1. made' = made
        BY <1>1
      <3>2. \A q \in Queues : Holds(q)' \subseteq 1..made /\ IsInjective(buffer'[q])
        BY <2>5, <2>6, <2>7, <2>8 DEF IInv, Held
      <3>3. \A t \in Slots : Carries(t)' \subseteq 1..made
        BY <1>4 DEF IInv, Held
      <3>4. \A t \in Slots : batch'[t].open => IsInjective(batch'[t].events)
        BY <1>2, <1>4 DEF IInv, Held
      <3> QED
        BY <3>1, <3>2, <3>3, <3>4 DEF Held, Holds, Carries
    <2>13. Accounted'
      BY <1>1, <1>4, <1>6, <2>7, <2>9 DEF IInv, Accounted
    <2>14. NobodyWaitsForNothing'
      <3>1. \A q \in Queues : ~timer[q] => Holds(q) \subseteq retried
        BY DEF IInv, NobodyWaitsForNothing, Holds
      <3>2. \A q \in Queues : ~timer'[q] => Holds(q)' \subseteq retried'
        BY <1>1, <2>2, <2>3, <2>7, <3>1
      <3> QED
        BY <3>2 DEF NobodyWaitsForNothing, Holds
    <2> QED
      BY <1>7, <2>10, <2>11, <2>12, <2>13, <2>14 DEF IInv
  <1> QED
    BY <1>8, <1>9 DEF PostFails

\* The final flush: what the buffer held is handed over, arriving or not.
LEMMA FinalStep ==
  ASSUME IInv, FlushFinal, Arrive(farewell' \ farewell), page' \in {"shown", "gone"},
         UNCHANGED <<made, queues, wired, current, batch, up, capped, retried>>
  PROVE  IInv'
  <1>0. TypeOK
    BY DEF IInv
  <1>1. recorded \subseteq recorded' /\ recorded' \subseteq recorded \cup (farewell' \ farewell)
    BY DEF Arrive
  <1>2. \A s \in Slots : Carries(s)' = Carries(s)
    BY DEF Carries
  <1>3. \A s \in Slots : BatchOK(s)'
    BY <1>1, <1>2 DEF IInv, BatchOK
  <1>4. CASE current = None
    <2>1. UNCHANGED <<buffer, timer, farewell>>
      BY <1>4 DEF FlushFinal
    <2>2. \A q \in Queues : Holds(q)' = Holds(q)
      BY <2>1 DEF Holds
    <2>3. TypeOK'
      BY <1>0, <1>1, <2>1 DEF TypeOK
    <2>4. Apart' /\ Held' /\ Accounted' /\ NobodyWaitsForNothing'
      BY <1>1, <1>2, <2>1, <2>2 DEF IInv, Apart, Held, Accounted, NobodyWaitsForNothing
    <2> QED
      BY <1>3, <2>3, <2>4 DEF IInv
  <1>5. CASE current # None
    <2>1. PICK w \in Queues : w = current
      BY <1>0, <1>5 DEF TypeOK
    <2>2. /\ buffer' = [buffer EXCEPT ![w] = <<>>] /\ timer' = [timer EXCEPT ![w] = FALSE]
          /\ farewell' = farewell \cup Holds(w)
      BY <1>5, <2>1 DEF FlushFinal, Holds
    <2>3. buffer'[w] = <<>> /\ \A q \in Queues \ {w} : buffer'[q] = buffer[q] /\ timer'[q] = timer[q]
      BY <1>0, <2>2 DEF TypeOK
    <2>4. Holds(w)' = {} /\ \A q \in Queues \ {w} : Holds(q)' = Holds(q)
      BY <2>3, NothingIn DEF Holds
    <2>5. Holds(w) \subseteq 1..made
      BY DEF IInv, Held
    <2>6. TypeOK'
      <3>1. buffer' \in [Queues -> Seq(Reactions)] /\ timer' \in [Queues -> BOOLEAN]
        BY <1>0, <2>2 DEF TypeOK
      <3>2. \A q \in Queues : Len(buffer'[q]) <= Cap
        BY <1>0, <2>3, SignalQueueAssumption DEF TypeOK
      <3>3. recorded' \subseteq 1..made /\ farewell' \subseteq 1..made
        BY <1>0, <1>1, <2>2, <2>5 DEF TypeOK
      <3> QED
        BY <1>0, <3>1, <3>2, <3>3 DEF TypeOK
    <2>7. Apart'
      BY <1>2, <2>4 DEF IInv, Apart
    <2>8. Held'
      BY <1>2, <2>3, <2>4, NothingIn DEF IInv, Held
    <2>9. Accounted'
      BY <1>1, <1>2, <2>2, <2>4 DEF IInv, Accounted
    <2>10. NobodyWaitsForNothing'
      BY <2>3, NothingIn DEF IInv, NobodyWaitsForNothing
    <2> QED
      BY <1>3, <2>6, <2>7, <2>8, <2>9, <2>10 DEF IInv
  <1> QED
    BY <1>4, <1>5

\* Every step of queue, page, bridge and settings keeps the invariant.
LEMMA Inductive == IInv /\ [Next]_vars => IInv'
  <1> SUFFICES ASSUME IInv, [Next]_vars PROVE IInv'
    OBVIOUS
  <1>0. TypeOK
    BY DEF IInv
  <1>1. CASE Enqueue
    <2>1. wired \in Queues
      BY <1>0, <1>1 DEF Enqueue, TypeOK
    <2> QED
      BY <1>1, <2>1, EnqueueStep
  <1>2. CASE Blur
    <2>1. wired \in Queues
      BY <1>0, <1>2 DEF Blur, TypeOK
    <2> QED
      BY <1>0, <1>2, <2>1, FlushStep DEF Blur, TypeOK
  <1>3. CASE Hide
    BY <1>0, <1>3, FinalStep DEF Hide, TypeOK
  <1>4. CASE Unload
    BY <1>4, FinalStep DEF Unload
  <1>5. CASE Rebind \/ Mount
    <2>1. queues + 1 \in Queues
      BY <1>0, <1>5, SignalQueueAssumption DEF Rebind, Mount, TypeOK, Queues
    <2>2. TypeOK'
      BY <1>0, <1>5, <2>1 DEF Rebind, Mount, TypeOK, history
    <2> QED
      BY <1>5, <2>2, Quiet DEF Rebind, Mount
  <1>6. CASE Teardown
    <2>1. current \in Queues
      BY <1>0, <1>6 DEF Teardown, TypeOK
    <2> QED
      BY <1>6, <2>1, FlushStep DEF Teardown
  <1>7. ASSUME NEW q \in Queues, TimerFires(q) PROVE IInv'
    BY <1>0, <1>7, DispatchStep DEF TimerFires, TypeOK
  <1>8. CASE Sending
    BY <1>8, PostedStep, PostFailsStep DEF Sending
  <1>9. CASE BridgeFlips
    <2>1. TypeOK'
      BY <1>0, <1>9 DEF BridgeFlips, TypeOK, local, history
    <2> QED
      BY <1>9, <2>1, Quiet DEF BridgeFlips, local
  <1>10. CASE UNCHANGED vars
    <2>1. TypeOK'
      BY <1>0, <1>10 DEF vars, TypeOK, local, history
    <2> QED
      BY <1>10, <2>1, Quiet DEF vars, local
  <1> QED
    BY <1>1, <1>2, <1>3, <1>4, <1>5, <1>6, <1>7, <1>8, <1>9, <1>10 DEF Next

-----------------------------------------------------------------------------
(* What it is for. *)

\* The invariant of buffers, batches and records holds throughout.
THEOREM Invariant == Spec => []IInv
  BY Start, Inductive, PTL DEF Spec

\* Every variable keeps its type, and no buffer outgrows maxBufferSize.
THEOREM TypeCorrect == Spec => []TypeOK
  <1>1. IInv => TypeOK
    BY DEF IInv
  <1> QED
    BY <1>1, Invariant, PTL

\* A reaction is buffered, being sent, recorded, or given up for a reason:
\* the cap, or a final flush without an answer.
THEOREM NoReactionVanishes == Spec => []NothingVanishes
  <1>1. IInv => NothingVanishes
    <2> SUFFICES ASSUME IInv, NEW n \in 1..made
                 PROVE  Buffered(n) # {} \/ Sent(n) # {} \/ n \in recorded \cup capped \cup farewell
      BY DEF NothingVanishes
    <2>1. \/ \E q \in Queues : n \in Holds(q)
          \/ \E s \in Slots : n \in Carries(s)
          \/ n \in recorded \cup capped \cup farewell
      BY DEF IInv, Accounted
    <2> QED
      BY <2>1 DEF Buffered, Sent, Holds, Carries
  <1> QED
    BY <1>1, Invariant, PTL

\* No reaction is in two buffers or batches, or twice in one, although a
\* failed batch is put back while newer reactions have been enqueued.
THEOREM ReactionsHeldOnce == Spec => []HeldOnce
  <1>1. IInv => HeldOnce
    <2> SUFFICES ASSUME IInv, NEW n \in 1..made
                 PROVE  Cardinality(Buffered(n)) + Cardinality(Sent(n)) <= 1
      BY DEF HeldOnce, IInv, Held
    <2>1. /\ Buffered(n) = {q \in Queues : n \in Holds(q)}
          /\ Sent(n) = {s \in Slots : n \in Carries(s)}
      BY DEF Buffered, Sent, Holds, Carries
    <2>2. Cardinality({}) = 0 /\ \A x : Cardinality({x}) = 1
      BY FS_EmptySet, FS_Singleton
    <2>a. 0 + 1 <= 1 /\ 1 + 0 <= 1 /\ 0 + 0 <= 1
      OBVIOUS
    <2>3. CASE \E q \in Queues : n \in Holds(q)
      <3>1. PICK q \in Queues : n \in Holds(q)
        BY <2>3
      <3>2. \A p \in Queues : n \in Holds(p) => p = q
        BY <3>1 DEF IInv, Apart
      <3>3. \A s \in Slots : n \notin Carries(s)
        BY <3>1 DEF IInv, Apart
      <3>4. Buffered(n) = {q} /\ Sent(n) = {}
        BY <2>1, <3>1, <3>2, <3>3
      <3> QED
        BY <2>2, <2>a, <3>4, Zenon
    <2>4. CASE \E s \in Slots : n \in Carries(s)
      <3>1. PICK s \in Slots : n \in Carries(s)
        BY <2>4
      <3>2. \A t \in Slots : n \in Carries(t) => t = s
        BY <3>1 DEF IInv, Apart
      <3>3. \A q \in Queues : n \notin Holds(q)
        BY <3>1 DEF IInv, Apart
      <3>4. Buffered(n) = {} /\ Sent(n) = {s}
        BY <2>1, <3>1, <3>2, <3>3
      <3> QED
        BY <2>2, <2>a, <3>4, Zenon
    <2>5. CASE (\A q \in Queues : n \notin Holds(q)) /\ (\A s \in Slots : n \notin Carries(s))
      <3>1. Buffered(n) = {} /\ Sent(n) = {}
        BY <2>1, <2>5
      <3> QED
        BY <2>2, <2>a, <3>1, Zenon
    <2> QED
      BY <2>3, <2>4, <2>5
  <1> QED
    BY <1>1, Invariant, PTL

\* Only what a failed batch put back waits without a timer.
THEOREM NobodyWaits == Spec => []NobodyWaitsForNothing
  <1>1. IInv => NobodyWaitsForNothing
    BY DEF IInv
  <1> QED
    BY <1>1, Invariant, PTL

-----------------------------------------------------------------------------
(* Suggestions applied and taken back. *)

CONSTANTS MaxLength, MaxTyped, MaxBatches, MaxAnswers
VARIABLE field

Edit == INSTANCE FieldEdits

\* The instance counts as this module does.
LEMMA SameCount == \A S : Edit!Cardinality(S) = Cardinality(S)
  BY Zenon DEF Edit!Cardinality, Cardinality

\* What suggestions are about and what they put in its place is not the user's.
Given == {"bad", "good", "other"}

-----------------------------------------------------------------------------
(* Texts of which a span is written over. *)

Spliced(u, t, start, end, by) ==
  /\ u \in Seq(Edit!Tokens) /\ Len(u) = start + Len(by) + (Len(t) - end)
  /\ \A p \in 1..start : u[p] = t[p]
  /\ \A p \in 1..Len(by) : u[start + p] = by[p]
  /\ \A p \in 1..(Len(t) - end) : u[start + Len(by) + p] = t[end + p]

\* A replacement puts in what it says, and the rest is as before.
LEMMA ReplaceSplices ==
  ASSUME NEW t \in Seq(Edit!Tokens), NEW by \in Seq(Edit!Tokens), NEW span,
         span.start \in Nat, span.end \in Nat, span.start <= span.end, span.end <= Len(t)
  PROVE  Spliced(Edit!Replace(t, span, by), t, span.start, span.end, by)
  <1> DEFINE start == span.start
             end == span.end
             a == SubSeq(t, 1, start)
             c == SubSeq(t, end + 1, Len(t))
             d == a \o by
             u == d \o c
  <1>1. Len(t) \in Nat /\ Len(by) \in Nat /\ \A i \in 1..Len(t) : t[i] \in Edit!Tokens
    BY LenProperties, ElementOfSeq
  <1>2. a \in Seq(Edit!Tokens) /\ Len(a) = start /\ \A i \in 1..start : a[i] = t[i]
    <2>1. \A i \in 1..start : t[i] \in Edit!Tokens
      BY <1>1
    <2> HIDE DEF start
    <2>2. start \in Nat
      BY DEF start
    <2> QED
      BY <2>1, <2>2, SubSeqProperties
  <1>3. c \in Seq(Edit!Tokens) /\ Len(c) = Len(t) - end /\ \A i \in 1..(Len(t) - end) : c[i] = t[end + i]
    <2>1. \A i \in (end + 1)..Len(t) : t[i] \in Edit!Tokens
      BY <1>1
    <2>2. end \in Nat /\ end <= Len(t)
      OBVIOUS
    <2> HIDE DEF end
    <2>3. /\ c \in Seq(Edit!Tokens) /\ Len(c) = IF end + 1 <= Len(t) THEN Len(t) - (end + 1) + 1 ELSE 0
          /\ \A i \in 1..(Len(t) - (end + 1) + 1) : c[i] = t[(end + 1) + i - 1]
      BY <1>1, <2>1, <2>2, SubSeqProperties
    <2>4. Len(c) = Len(t) - end
      BY <1>1, <2>2, <2>3
    <2>5. ASSUME NEW i \in 1..(Len(t) - end) PROVE c[i] = t[end + i]
      <3>1. i \in 1..(Len(t) - (end + 1) + 1) /\ (end + 1) + i - 1 = end + i
        BY <1>1, <2>2
      <3> QED
        BY <2>3, <3>1
    <2> QED
      BY <2>3, <2>4, <2>5
  <1> HIDE DEF a, c
  <1>4. /\ d \in Seq(Edit!Tokens) /\ Len(d) = start + Len(by)
        /\ \A i \in 1..(start + Len(by)) : d[i] = IF i <= start THEN a[i] ELSE by[i - start]
    <2> HIDE DEF start
    <2> QED
      BY <1>2, ConcatProperties
  <1> HIDE DEF d
  <1>5. /\ u \in Seq(Edit!Tokens) /\ Len(u) = Len(d) + Len(c)
        /\ \A i \in 1..(Len(d) + Len(c)) : u[i] = IF i <= Len(d) THEN d[i] ELSE c[i - Len(d)]
    BY ONLY <1>3, <1>4, ConcatProperties
  <1>6. u = Edit!Replace(t, span, by)
    BY DEF u, d, a, c, Edit!Replace
  <1> HIDE DEF u
  <1>7. start \in Nat /\ end \in Nat /\ end <= Len(t)
    OBVIOUS
  <1> HIDE DEF start, end
  <1>8. ASSUME NEW i \in 1..start PROVE u[i] = t[i]
    <2>1. i \in 1..(Len(d) + Len(c)) /\ i <= Len(d) /\ i \in 1..(start + Len(by)) /\ i <= start
      BY <1>1, <1>3, <1>4, <1>7
    <2> QED
      BY <1>2, <1>4, <1>5, <2>1
  <1>9. ASSUME NEW i \in 1..Len(by) PROVE u[start + i] = by[i]
    <2> DEFINE k == Len(by)
               m == Len(c)
    <2>2. k \in Nat /\ m \in Nat /\ start \in Nat /\ i \in 1..k /\ Len(d) = start + k
      BY <1>1, <1>3, <1>4, <1>7
    <2> HIDE DEF k, m
    <2>3. start + i \in 1..((start + k) + m) /\ start + i <= start + k /\ start + i \in 1..(start + k)
      BY ONLY <2>2
    <2>4. ~(start + i <= start) /\ (start + i) - start = i
      BY ONLY <2>2
    <2>1. /\ start + i \in 1..(Len(d) + Len(c)) /\ start + i <= Len(d)
          /\ start + i \in 1..(start + Len(by)) /\ ~(start + i <= start) /\ (start + i) - start = i
      BY <2>2, <2>3, <2>4, Zenon DEF k, m
    <2> QED
      BY <1>4, <1>5, <2>1
  <1>10. ASSUME NEW i \in 1..(Len(t) - end) PROVE u[start + Len(by) + i] = t[end + i]
    <2> DEFINE j == start + Len(by) + i
    <2>1. j \in 1..(Len(d) + Len(c)) /\ ~(j <= Len(d)) /\ j - Len(d) = i
      BY <1>1, <1>3, <1>4, <1>7
    <2> HIDE DEF j
    <2>2. u[j] = c[i]
      BY <1>5, <2>1
    <2> QED
      BY <1>3, <2>2 DEF j
  <1>11. Len(u) = start + Len(by) + (Len(t) - end)
    BY <1>3, <1>4, <1>5
  <1> QED
    BY <1>5, <1>6, <1>8, <1>9, <1>10, <1>11 DEF Spliced, start, end

-----------------------------------------------------------------------------
(* How much of a text is the user's. *)

Mine(t) == {i \in DOMAIN t : t[i] = "mine"}

LEMMA MineIs ==
  ASSUME NEW t \in Seq(Edit!Tokens)
  PROVE  Mine(t) \in SUBSET (1..Len(t)) /\ IsFiniteSet(Mine(t)) /\ Cardinality(Mine(t)) \in Nat
  <1>1. Len(t) \in Nat /\ DOMAIN t = 1..Len(t)
    BY LenProperties
  <1>2. Mine(t) \in SUBSET (1..Len(t))
    BY <1>1 DEF Mine
  <1>3. IsFiniteSet(1..Len(t))
    BY <1>1, FS_Interval
  <1>4. IsFiniteSet(Mine(t))
    BY <1>2, <1>3, FS_Subset
  <1> QED
    BY <1>2, <1>4, FS_CardinalityType

\* As many places lie behind one place as behind another, if they are as far behind.
LEMMA ShiftedAtMost ==
  ASSUME NEW S \in SUBSET Nat, NEW T \in SUBSET Nat, IsFiniteSet(T), NEW x \in Nat, NEW y \in Nat,
         \A i \in S : i > x /\ i - x + y \in T
  PROVE  Cardinality(S) <= Cardinality(T)
  <1> DEFINE f == [i \in S |-> i - x + y]
  <1>1. f \in [S -> T]
    OBVIOUS
  <1>2. ASSUME NEW i \in S, NEW j \in S, f[i] = f[j] PROVE i = j
    BY <1>2
  <1> HIDE DEF f
  <1>3. DOMAIN f = S
    BY <1>1
  <1>4. f \in Injection(S, T)
    BY <1>1, <1>2, <1>3 DEF Injection, IsInjective
  <1> QED
    BY <1>4, FS_Injection

LEMMA ShiftedAreAsMany ==
  ASSUME NEW S \in SUBSET Nat, NEW T \in SUBSET Nat, IsFiniteSet(S), IsFiniteSet(T),
         NEW x \in Nat, NEW y \in Nat,
         \A i \in S : i > x /\ i - x + y \in T, \A i \in T : i > y /\ i - y + x \in S
  PROVE  Cardinality(S) = Cardinality(T)
  <1>1. Cardinality(S) <= Cardinality(T) /\ Cardinality(T) <= Cardinality(S)
    BY ShiftedAtMost
  <1>2. Cardinality(S) \in Nat /\ Cardinality(T) \in Nat
    BY FS_CardinalityType
  <1> QED
    BY <1>1, <1>2

\* Of three parts that are apart, the whole has as many as they have.
LEMMA ThreeParts ==
  ASSUME NEW A, NEW B, NEW C, IsFiniteSet(A \cup B \cup C),
         A \cap B = {}, A \cap C = {}, B \cap C = {}
  PROVE  /\ Cardinality(A \cup B \cup C) = Cardinality(A) + Cardinality(B) + Cardinality(C)
         /\ Cardinality(A) \in Nat /\ Cardinality(B) \in Nat /\ Cardinality(C) \in Nat
  <1> DEFINE S == A \cup B \cup C
  <1>1. IsFiniteSet(A) /\ IsFiniteSet(B) /\ IsFiniteSet(C) /\ IsFiniteSet(A \cup B)
    <2>1. A \in SUBSET S /\ B \in SUBSET S /\ C \in SUBSET S /\ A \cup B \in SUBSET S
      OBVIOUS
    <2> QED
      BY <2>1, FS_Subset
  <1>2. /\ Cardinality(A) \in Nat /\ Cardinality(B) \in Nat /\ Cardinality(C) \in Nat
        /\ Cardinality(A \cup B) \in Nat
    BY <1>1, FS_CardinalityType
  <1>3. Cardinality(A \cup B) = Cardinality(A) + Cardinality(B)
    <2>1. Cardinality(A \cup B) = Cardinality(A) + Cardinality(B) - Cardinality(A \cap B)
      BY <1>1, FS_Union
    <2>2. Cardinality(A \cap B) = 0
      BY FS_EmptySet
    <2> QED
      BY <1>2, <2>1, <2>2
  <1>4. Cardinality(S) = Cardinality(A \cup B) + Cardinality(C)
    <2> DEFINE D == A \cup B
    <2>1. S = D \cup C /\ D \cap C = {} /\ IsFiniteSet(D)
      BY <1>1
    <2>2. Cardinality(D) \in Nat
      BY <1>2
    <2> HIDE DEF D
    <2>3. Cardinality(D \cup C) = Cardinality(D) + Cardinality(C) - Cardinality(D \cap C)
      BY <1>1, <2>1, FS_Union
    <2>4. Cardinality(D \cap C) = 0
      BY <2>1, FS_EmptySet
    <2>6. Cardinality(S) = Cardinality(D) + Cardinality(C) - Cardinality(D \cap C)
      BY <2>1, <2>3, Zenon
    <2>5. Cardinality(S) = Cardinality(D) + Cardinality(C)
      BY <1>2, <2>2, <2>4, <2>6
    <2> QED
      BY <2>5 DEF D
  <1> QED
    BY <1>2, <1>3, <1>4

\* A span written over takes what was the user's of it, and brings what it has.
LEMMA MineSplice ==
  ASSUME NEW t \in Seq(Edit!Tokens), NEW u, NEW by \in Seq(Edit!Tokens), NEW start \in Nat, NEW end \in Nat,
         start <= end, end <= Len(t), Spliced(u, t, start, end, by)
  PROVE  LET lost == {i \in Mine(t) : start < i /\ i <= end} IN
         /\ Cardinality(Mine(u)) + Cardinality(lost) = Cardinality(Mine(t)) + Cardinality(Mine(by))
         /\ Cardinality(lost) \in Nat /\ Cardinality(Mine(by)) \in Nat
         /\ Cardinality(Mine(t)) \in Nat /\ Cardinality(Mine(u)) \in Nat
  <1> DEFINE A == {i \in Mine(t) : i <= start}
             B == {i \in Mine(t) : start < i /\ i <= end}
             C == {i \in Mine(t) : end < i}
             then == start + Len(by)
             B2 == {i \in Mine(u) : start < i /\ i <= then}
             C2 == {i \in Mine(u) : then < i}
  <1>1. /\ u \in Seq(Edit!Tokens) /\ Len(u) = then + (Len(t) - end)
        /\ \A p \in 1..start : u[p] = t[p]
        /\ \A p \in 1..Len(by) : u[start + p] = by[p]
        /\ \A p \in 1..(Len(t) - end) : u[then + p] = t[end + p]
    BY DEF Spliced
  <1>2. /\ Len(t) \in Nat /\ Len(by) \in Nat /\ then \in Nat /\ start <= then
        /\ DOMAIN t = 1..Len(t) /\ DOMAIN u = 1..Len(u) /\ DOMAIN by = 1..Len(by)
    BY <1>1, LenProperties
  <1>3. /\ Mine(t) \in SUBSET (1..Len(t)) /\ IsFiniteSet(Mine(t)) /\ Cardinality(Mine(t)) \in Nat
        /\ Mine(u) \in SUBSET (1..Len(u)) /\ IsFiniteSet(Mine(u)) /\ Cardinality(Mine(u)) \in Nat
        /\ Mine(by) \in SUBSET (1..Len(by)) /\ IsFiniteSet(Mine(by)) /\ Cardinality(Mine(by)) \in Nat
    BY <1>1, MineIs
  <1> HIDE DEF then
  <1>4. A = {i \in Mine(u) : i <= start}
    <2>1. ASSUME NEW i \in 1..start PROVE i \in Mine(t) <=> i \in Mine(u)
      <3>1. i \in 1..Len(t) /\ i \in 1..Len(u) /\ u[i] = t[i]
        BY <1>1, <1>2
      <3> QED
        BY <1>2, <3>1 DEF Mine
    <2> QED
      BY <1>3, <2>1
  <1>5. /\ Cardinality(Mine(t)) = Cardinality(A) + Cardinality(B) + Cardinality(C)
        /\ Cardinality(A) \in Nat /\ Cardinality(B) \in Nat /\ Cardinality(C) \in Nat
    <2>1. /\ Mine(t) = A \cup B \cup C
          /\ A \cap B = {} /\ A \cap C = {} /\ B \cap C = {}
      BY <1>2, <1>3
    <2> HIDE DEF A, B, C
    <2>2. IsFiniteSet(A \cup B \cup C)
      BY <1>3, <2>1, Zenon
    <2>3. /\ Cardinality(A \cup B \cup C) = Cardinality(A) + Cardinality(B) + Cardinality(C)
          /\ Cardinality(A) \in Nat /\ Cardinality(B) \in Nat /\ Cardinality(C) \in Nat
      BY ONLY <2>1, <2>2, ThreeParts
    <2> QED
      BY <2>1, <2>3, Zenon
  <1>6. /\ Cardinality(Mine(u)) = Cardinality(A) + Cardinality(B2) + Cardinality(C2)
        /\ Cardinality(A) \in Nat /\ Cardinality(B2) \in Nat /\ Cardinality(C2) \in Nat
    <2>1. /\ Mine(u) = A \cup B2 \cup C2
          /\ A \cap B2 = {} /\ A \cap C2 = {} /\ B2 \cap C2 = {}
      <3> HIDE DEF A
      <3> QED
        BY <1>2, <1>3, <1>4
    <2> HIDE DEF A, B2, C2
    <2>2. IsFiniteSet(A \cup B2 \cup C2)
      BY <1>3, <2>1, Zenon
    <2>3. /\ Cardinality(A \cup B2 \cup C2) = Cardinality(A) + Cardinality(B2) + Cardinality(C2)
          /\ Cardinality(A) \in Nat /\ Cardinality(B2) \in Nat /\ Cardinality(C2) \in Nat
      BY ONLY <2>1, <2>2, ThreeParts
    <2> QED
      BY <2>1, <2>3, Zenon
  <1>7. Cardinality(B2) = Cardinality(Mine(by))
    <2>1. ASSUME NEW i \in B2 PROVE i > start /\ i - start + 0 \in Mine(by)
      <3>1. i \in Nat /\ i > start /\ i - start \in 1..Len(by) /\ start + (i - start) = i /\ u[i] = "mine"
        BY <1>2, <1>3 DEF then, Mine
      <3>2. by[i - start] = "mine"
        BY <1>1, <3>1
      <3> QED
        BY <1>2, <3>1, <3>2 DEF Mine
    <2>2. ASSUME NEW i \in Mine(by) PROVE i > 0 /\ i - 0 + start \in B2
      <3>1. i \in 1..Len(by) /\ by[i] = "mine"
        BY <1>3 DEF Mine
      <3>2. u[start + i] = "mine" /\ start + i \in 1..Len(u) /\ start < start + i /\ start + i <= then
        BY <1>1, <1>2, <3>1 DEF then
      <3> QED
        BY <1>2, <3>1, <3>2 DEF Mine
    <2>3. B2 \in SUBSET Nat /\ Mine(by) \in SUBSET Nat /\ IsFiniteSet(B2)
      <3>1. B2 \in SUBSET Mine(u)
        OBVIOUS
      <3> QED
        BY <1>2, <1>3, <3>1, FS_Subset
    <2> HIDE DEF B2
    <2> QED
      BY <1>3, <2>1, <2>2, <2>3, ShiftedAreAsMany
  <1>8. Cardinality(C2) = Cardinality(C)
    <2>1. ASSUME NEW i \in C2 PROVE i > then /\ i - then + end \in C
      <3> DEFINE k == i - then
      <3>1. /\ i \in Nat /\ i > then /\ k \in 1..(Len(t) - end) /\ then + k = i
            /\ u[i] = "mine" /\ k + end = end + k
        BY <1>1, <1>2, <1>3 DEF Mine
      <3> HIDE DEF k
      <3>2. end + k \in 1..Len(t) /\ end < end + k
        BY <1>2, <3>1
      <3>3. u[then + k] = t[end + k]
        BY <1>1, <3>1
      <3>4. t[end + k] = "mine"
        BY <3>1, <3>3
      <3>5. end + k \in C
        BY <1>2, <3>2, <3>4 DEF Mine
      <3> QED
        BY <3>1, <3>5 DEF k
    <2>2. ASSUME NEW i \in C PROVE i > end /\ i - end + then \in C2
      <3> DEFINE k == i - end
      <3>1. /\ i \in Nat /\ i > end /\ k \in 1..(Len(t) - end) /\ end + k = i
            /\ t[i] = "mine" /\ k + then = then + k
        BY <1>2, <1>3 DEF Mine
      <3> HIDE DEF k
      <3>2. then + k \in 1..Len(u) /\ then < then + k
        BY <1>1, <1>2, <3>1
      <3>3. u[then + k] = t[end + k]
        BY <1>1, <3>1
      <3>4. u[then + k] = "mine"
        BY <3>1, <3>3
      <3>5. then + k \in C2
        BY <1>2, <3>2, <3>4 DEF Mine
      <3> QED
        BY <3>1, <3>5 DEF k
    <2>3. C2 \in SUBSET Nat /\ C \in SUBSET Nat /\ IsFiniteSet(C2) /\ IsFiniteSet(C)
      <3>1. C2 \in SUBSET Mine(u) /\ C \in SUBSET Mine(t)
        OBVIOUS
      <3> QED
        BY <1>2, <1>3, <3>1, FS_Subset
    <2> HIDE DEF C, C2
    <2> QED
      BY <1>2, <2>1, <2>2, <2>3, ShiftedAreAsMany
  <1> HIDE DEF A, B2, C, C2
  <1>9. Cardinality(Mine(u)) + Cardinality(B) = Cardinality(Mine(t)) + Cardinality(Mine(by))
    <2> HIDE DEF B
    <2> QED
      BY <1>3, <1>5, <1>6, <1>7, <1>8
  <1> QED
    BY <1>3, <1>5, <1>9
-----------------------------------------------------------------------------
(* Records of edits, and the text before and after them. *)

\* A suggestion, and what is recorded of it.
Suggested(e) ==
  /\ e.start \in Nat /\ e.end \in Nat /\ e.start <= e.end
  /\ e.original \in Seq(Given) /\ Len(e.original) = e.end - e.start
  /\ e.replacement \in Seq(Given)
Records ==
  {r \in [start : Nat, end : Nat, applied : Seq(Given), original : Seq(Given)] :
     r.end = r.start + Len(r.applied)}

\* Edits are made from the last to the first, and so recorded.
Falling(rs) == \A i, j \in 1..Len(rs) : i < j => rs[j].end <= rs[i].start
Recorded(rs) == rs \in Seq(Records) /\ Falling(rs)
AheadOf(e, rs) == \A i \in 1..Len(rs) : e.end <= rs[i].start

\* A place behind an edit that puts in k tokens from start to end goes to a place.
LEMMA Shifts ==
  ASSUME NEW start \in Nat, NEW end \in Nat, NEW k \in Nat, NEW p \in Nat, end <= p,
         NEW delta, delta = k - (end - start)
  PROVE  p + delta \in Nat
  OBVIOUS

\* Recording an edit moves what was recorded behind it.
LEMMA AppendInverseIs ==
  ASSUME NEW rs, Recorded(rs), NEW e, Suggested(e), AheadOf(e, rs)
  PROVE  LET n     == Len(rs)
             delta == Len(e.replacement) - (e.end - e.start)
             rs2   == Edit!AppendInverse(rs, e) IN
         /\ n \in Nat /\ Recorded(rs2) /\ Len(rs2) = n + 1
         /\ \A i \in 1..n : /\ rs2[i].start = rs[i].start + delta /\ rs2[i].end = rs[i].end + delta
                            /\ rs2[i].applied = rs[i].applied /\ rs2[i].original = rs[i].original
         /\ rs2[n + 1].start = e.start /\ rs2[n + 1].end = e.start + Len(e.replacement)
         /\ rs2[n + 1].applied = e.replacement /\ rs2[n + 1].original = e.original
  <1> DEFINE n == Len(rs)
             delta == Len(e.replacement) - (e.end - e.start)
             moved == [i \in DOMAIN rs |->
                         IF rs[i].start >= e.start
                         THEN [rs[i] EXCEPT !.start = @ + delta, !.end = @ + delta] ELSE rs[i]]
             last == Edit!Inverse_(e)
             rs2 == Edit!AppendInverse(rs, e)
  <1>1. /\ n \in Nat /\ DOMAIN rs = 1..n /\ Len(e.replacement) \in Nat /\ delta \in Int
        /\ e.start \in Nat /\ e.end \in Nat /\ e.start <= e.end
        /\ delta = Len(e.replacement) - (e.end - e.start)
    BY LenProperties DEF Recorded, Suggested
  <1>2. rs2 = Append(moved, last)
    BY DEF Edit!AppendInverse
  <1> HIDE DEF rs2
  <1>3. /\ last \in Records /\ last.start = e.start /\ last.end = e.start + Len(e.replacement)
        /\ last.applied = e.replacement /\ last.original = e.original
    BY <1>1 DEF Edit!Inverse_, Records, Suggested
  <1> HIDE DEF last
  <1>4. ASSUME NEW i \in 1..n
        PROVE  /\ moved[i] \in Records
               /\ moved[i].start = rs[i].start + delta /\ moved[i].end = rs[i].end + delta
               /\ moved[i].applied = rs[i].applied /\ moved[i].original = rs[i].original
    <2> DEFINE r == rs[i]
    <2>1. r \in Records
      BY <1>1, ElementOfSeq DEF Recorded
    <2>2. /\ r \in [start : Nat, end : Nat, applied : Seq(Given), original : Seq(Given)]
          /\ r.end = r.start + Len(r.applied)
      BY <2>1 DEF Records
    <2>3. e.end <= r.start
      BY <1>1 DEF AheadOf
    <2> HIDE DEF r
    <2>4. r.start \in Nat /\ r.end \in Nat /\ Len(r.applied) \in Nat
      BY <2>2, LenProperties
    <2>5. r.start >= e.start /\ r.start + delta \in Nat /\ r.end + delta \in Nat
      <3> DEFINE k == Len(e.replacement)
      <3>1. k \in Nat /\ delta = k - (e.end - e.start)
        BY <1>1
      <3>2. r.start <= r.end
        BY <2>2, <2>4
      <3> HIDE DEF k, delta
      <3>3. r.start >= e.start
        BY <1>1, <2>3, <2>4
      <3>6. e.start \in Nat /\ e.end \in Nat /\ r.start \in Nat /\ r.end \in Nat /\ e.end <= r.start
        BY <1>1, <2>3, <2>4
      <3>7. e.end <= r.end
        BY ONLY <3>2, <3>6
      <3>4. r.start + delta \in Nat
        BY ONLY <3>1, <3>6, Shifts
      <3>5. r.end + delta \in Nat
        BY ONLY <3>1, <3>6, <3>7, Shifts
      <3> QED
        BY <3>3, <3>4, <3>5
    <2>6. moved[i] = [r EXCEPT !.start = @ + delta, !.end = @ + delta]
      BY <1>1, <2>5 DEF r
    <2> HIDE DEF moved, delta
    <2>7. /\ moved[i] \in [start : Nat, end : Nat, applied : Seq(Given), original : Seq(Given)]
          /\ moved[i].start = r.start + delta /\ moved[i].end = r.end + delta
          /\ moved[i].applied = r.applied /\ moved[i].original = r.original
      BY <2>2, <2>5, <2>6
    <2>8. moved[i].end = moved[i].start + Len(moved[i].applied)
      BY <1>1, <2>2, <2>4, <2>7
    <2> QED
      BY <2>7, <2>8 DEF Records, r
  <1>5. DOMAIN moved = 1..n
    BY <1>1
  <1> HIDE DEF moved
  <1>6. moved \in Seq(Records) /\ Len(moved) = n
    <2>1. moved \in [1..n -> Records]
      <3>1. moved = [i \in 1..n |-> moved[i]]
        BY <1>1 DEF moved
      <3> QED
        BY <1>4, <3>1
    <2> QED
      BY <1>1, <2>1, SeqDef, LenProperties
  <1>7. /\ rs2 \in Seq(Records) /\ Len(rs2) = n + 1
        /\ \A i \in 1..n : rs2[i] = moved[i]
        /\ rs2[n + 1] = last
    BY <1>2, <1>3, <1>6, AppendProperties
  <1>8. Falling(rs2)
    <2> SUFFICES ASSUME NEW i \in 1..(n + 1), NEW j \in 1..(n + 1), i < j
                 PROVE  rs2[j].end <= rs2[i].start
      BY <1>7 DEF Falling
    <2>1. i \in 1..n /\ rs2[i].start = rs[i].start + delta /\ rs[i] \in Records /\ rs[i].start \in Nat
      <3>1. i \in 1..n
        BY <1>1
      <3>2. rs[i] \in Records
        BY <3>1, ElementOfSeq DEF Recorded
      <3> QED
        BY <1>4, <1>7, <3>1, <3>2 DEF Records
    <2>2. CASE j \in 1..n
      <3>1. rs[j].end <= rs[i].start /\ rs[j] \in Records
        BY <2>1, <2>2, ElementOfSeq DEF Recorded, Falling
      <3>2. rs2[j].end = rs[j].end + delta /\ rs[j].end \in Nat
        BY <1>4, <1>7, <2>2, <3>1 DEF Records
      <3> HIDE DEF delta
      <3> QED
        BY <1>1, <2>1, <3>1, <3>2
    <2>3. CASE j = n + 1
      <3>1. rs2[j].end = e.start + Len(e.replacement) /\ e.end <= rs[i].start
        BY <1>3, <1>7, <2>1, <2>3 DEF AheadOf
      <3> QED
        BY <1>1, <2>1, <3>1
    <2> QED
      BY <1>1, <2>2, <2>3
  <1> QED
    <2>1. Recorded(rs2)
      BY <1>7, <1>8 DEF Recorded
    <2>2. \A i \in 1..n : /\ rs2[i].start = rs[i].start + delta /\ rs2[i].end = rs[i].end + delta
                          /\ rs2[i].applied = rs[i].applied /\ rs2[i].original = rs[i].original
      BY <1>4, <1>7
    <2>3. /\ rs2[n + 1].start = e.start /\ rs2[n + 1].end = e.start + Len(e.replacement)
          /\ rs2[n + 1].applied = e.replacement /\ rs2[n + 1].original = e.original
      BY <1>3, <1>7
    <2> QED
      BY <1>1, <1>7, <2>1, <2>2, <2>3, Zenon DEF rs2

\* Where the text behind and in front of a record is, now and before.  b says where
\* the records were.
Low(rs, i) == IF i = Len(rs) THEN 0 ELSE rs[i + 1].end
High(text, rs, i) == IF i = 0 THEN Len(text) ELSE rs[i].start
LowB(rs, b, i) == IF i = Len(rs) THEN 0 ELSE b[i + 1] + Len(rs[i + 1].original)
HighB(before, b, i) == IF i = 0 THEN Len(before) ELSE b[i]

\* Between two records the text is the one before.
Alike(before, text, low, high, lowB, highB) ==
  /\ low \in Nat /\ high \in Nat /\ lowB \in Nat /\ low <= high /\ highB = lowB + (high - low)
  /\ \A d \in 1..(high - low) : text[low + d] = before[lowB + d]
Between(before, text, rs, b, i) ==
  Alike(before, text, Low(rs, i), High(text, rs, i), LowB(rs, b, i), HighB(before, b, i))

\* At a record stands what was applied, and stood what was there.
StandsAt(before, text, r, at) ==
  /\ at \in Nat
  /\ \A d \in 1..Len(r.applied) : text[r.start + d] = r.applied[d]
  /\ \A d \in 1..Len(r.original) : before[at + d] = r.original[d]

\* So a text comes of the one before, by the edits recorded.
Woven(before, text, rs, b) ==
  /\ \A i \in 0..Len(rs) : Between(before, text, rs, b, i)
  /\ \A i \in 1..Len(rs) : StandsAt(before, text, rs[i], b[i])
Comes(before, text, rs) == \E b : Woven(before, text, rs, b)

\* By none it is the same text.
LEMMA ComesOfNone ==
  ASSUME NEW before \in Seq(Edit!Tokens), NEW text \in Seq(Edit!Tokens)
  PROVE  Comes(before, text, <<>>) <=> text = before
  <1>1. Len(before) \in Nat /\ Len(text) \in Nat /\ Len(<<>>) = 0 /\ 0..0 = {0} /\ 1..0 = {}
    BY LenProperties, EmptySeq
  <1>2. ASSUME NEW b
        PROVE  Woven(before, text, <<>>, b) <=> Alike(before, text, 0, Len(text), 0, Len(before))
    <2>1. \A i \in 0..0 : i = 0
      OBVIOUS
    <2>2. Between(before, text, <<>>, b, 0) <=> Alike(before, text, 0, Len(text), 0, Len(before))
      BY <1>1 DEF Between, Low, High, LowB, HighB
    <2> QED
      BY <1>1, <2>1, <2>2 DEF Woven
  <1>3. Alike(before, text, 0, Len(text), 0, Len(before)) => text = before
    <2> SUFFICES ASSUME Alike(before, text, 0, Len(text), 0, Len(before)) PROVE text = before
      OBVIOUS
    <2>1. Len(before) = Len(text) /\ \A d \in 1..Len(text) : text[0 + d] = before[0 + d]
      BY <1>1 DEF Alike
    <2>2. ASSUME NEW d \in 1..Len(text) PROVE text[d] = before[d]
      <3>1. 0 + d = d
        OBVIOUS
      <3> QED
        BY <2>1, <3>1
    <2> QED
      BY <2>1, <2>2, SeqEqual
  <1>4. text = before => Alike(before, text, 0, Len(text), 0, Len(before))
    BY <1>1 DEF Alike
  <1> QED
    BY <1>2, <1>3, <1>4 DEF Comes
\* What suggestions put in is text.
LEMMA GivenIsText == ASSUME NEW s \in Seq(Given) PROVE s \in Seq(Edit!Tokens) /\ Len(s) \in Nat
  <1>1. Len(s) \in Nat /\ DOMAIN s = 1..Len(s) /\ s \in [1..Len(s) -> Given]
    BY LenProperties
  <1>2. Given \in SUBSET Edit!Tokens
    BY DEF Given, Edit!Tokens
  <1>3. s \in [1..Len(s) -> Edit!Tokens]
    BY <1>1, <1>2
  <1> QED
    BY <1>1, <1>3, SeqDef

\* What a record is.
LEMMA RecordIs ==
  ASSUME NEW rs, Recorded(rs), NEW i \in 1..Len(rs)
  PROVE  /\ Len(rs) \in Nat /\ rs[i] \in Records
         /\ rs[i].start \in Nat /\ rs[i].end \in Nat /\ rs[i].start <= rs[i].end
         /\ rs[i].applied \in Seq(Edit!Tokens) /\ rs[i].original \in Seq(Edit!Tokens)
         /\ Len(rs[i].applied) = rs[i].end - rs[i].start /\ Len(rs[i].original) \in Nat
         /\ rs[i].applied \in Seq(Given) /\ rs[i].original \in Seq(Given)
  <1> DEFINE r == rs[i]
  <1>1. Len(rs) \in Nat /\ r \in Records
    BY LenProperties, ElementOfSeq DEF Recorded
  <1> HIDE DEF r
  <1>2. /\ r.start \in Nat /\ r.end \in Nat /\ r.applied \in Seq(Given) /\ r.original \in Seq(Given)
        /\ r.end = r.start + Len(r.applied)
    BY <1>1 DEF Records
  <1>3. /\ r.applied \in Seq(Edit!Tokens) /\ Len(r.applied) \in Nat
        /\ r.original \in Seq(Edit!Tokens) /\ Len(r.original) \in Nat
    BY <1>2, GivenIsText
  <1>4. r.start <= r.end /\ Len(r.applied) = r.end - r.start
    BY <1>2, <1>3
  <1> QED
    BY <1>1, <1>2, <1>3, <1>4 DEF r

\* A record ends in the text that comes of it.
LEMMA EndsInText ==
  ASSUME NEW before, NEW text \in Seq(Edit!Tokens), NEW rs, Recorded(rs), NEW b, Woven(before, text, rs, b),
         NEW i \in 1..Len(rs)
  PROVE  rs[i].end <= Len(text)
  <1>1. Len(rs) \in Nat /\ 1 \in 1..Len(rs) /\ 0 \in 0..Len(rs) /\ 0 # Len(rs)
    BY RecordIs
  <1>2. Between(before, text, rs, b, 0)
    BY <1>1 DEF Woven
  <1>3. rs[1].end <= Len(text)
    <2>1. Low(rs, 0) = rs[1].end /\ High(text, rs, 0) = Len(text)
      BY <1>1 DEF Low, High
    <2> QED
      BY <1>2, <2>1 DEF Between, Alike
  <1>4. CASE i = 1
    BY <1>3, <1>4
  <1>5. CASE i # 1
    <2>1. 1 < i /\ rs[i].end <= rs[1].start
      BY <1>1, <1>5 DEF Recorded, Falling
    <2>2. rs[1].start <= rs[1].end /\ rs[1].start \in Nat /\ rs[1].end \in Nat /\ rs[i].end \in Nat
      BY <1>1, RecordIs
    <2>3. Len(text) \in Nat
      BY LenProperties
    <2> QED
      BY <1>3, <2>1, <2>2, <2>3
  <1> QED
    BY <1>4, <1>5

\* Behind what is written over, the rest is moved.
LEMMA SplicedBehind ==
  ASSUME NEW t \in Seq(Edit!Tokens), NEW u, NEW by \in Seq(Edit!Tokens), NEW start \in Nat, NEW end \in Nat,
         end <= Len(t), Spliced(u, t, start, end, by), NEW p \in Nat, end < p, p <= Len(t)
  PROVE  u[p + (Len(by) - (end - start))] = t[p]
  <1>1. Len(t) \in Nat /\ Len(by) \in Nat
    BY LenProperties
  <1>2. p - end \in 1..(Len(t) - end)
    BY <1>1
  <1>3. u[start + Len(by) + (p - end)] = t[end + (p - end)]
    BY <1>2 DEF Spliced
  <1>4. start + Len(by) + (p - end) = p + (Len(by) - (end - start)) /\ end + (p - end) = p
    BY <1>1
  <1> QED
    BY <1>3, <1>4

\* A suggestion is still where it was made for.
Fits(text, e) ==
  /\ e.end <= Len(text)
  /\ \A d \in 1..Len(e.original) : text[e.start + d] = e.original[d]

\* Where the places behind an edit go: from start to end it had k tokens put in.
Moves(start, end, k, high, delta) ==
  /\ start + k \in Nat /\ high + delta \in Nat /\ start + k <= high + delta
  /\ (high + delta) - (start + k) = high - end /\ high = end + ((high + delta) - (start + k))
  /\ \A d \in 1..(high - end) :
       /\ end + d \in Nat /\ end < end + d /\ end + d <= high
       /\ (end + d) + delta = (start + k) + d /\ end + d \in 1..high

LEMMA PlacesMove ==
  ASSUME NEW start \in Nat, NEW end \in Nat, NEW k \in Nat, NEW high \in Nat, end <= high,
         NEW delta, delta = k - (end - start)
  PROVE  Moves(start, end, k, high, delta)
  <1>1. /\ start + k \in Nat /\ high + delta \in Nat /\ start + k <= high + delta
    OBVIOUS
  <1>2. (high + delta) - (start + k) = high - end
    OBVIOUS
  <1>3. high = end + ((high + delta) - (start + k))
    OBVIOUS
  <1>4. ASSUME NEW d \in 1..(high - end)
        PROVE  /\ end + d \in Nat /\ end < end + d /\ end + d <= high
               /\ (end + d) + delta = (start + k) + d /\ end + d \in 1..high
    OBVIOUS
  <1> QED
    BY <1>1, <1>2, <1>3, <1>4 DEF Moves

\* The edit of a suggestion that fits, recorded with those behind it.
LEMMA ComesByEdit ==
  ASSUME NEW before \in Seq(Edit!Tokens), NEW text \in Seq(Edit!Tokens), NEW rs, Recorded(rs),
         NEW e, Suggested(e), AheadOf(e, rs), Fits(text, e), Comes(before, text, rs)
  PROVE  Comes(before, Edit!Replace(text, e, e.replacement), Edit!AppendInverse(rs, e))
  <1> DEFINE n == Len(rs)
             by == e.replacement
             delta == Len(by) - (e.end - e.start)
             u == Edit!Replace(text, e, by)
             rs2 == Edit!AppendInverse(rs, e)
  <1>1. PICK b : Woven(before, text, rs, b)
    BY DEF Comes
  <1> DEFINE b2 == [i \in 1..(n + 1) |-> IF i = n + 1 THEN e.start ELSE b[i]]
  <1>2. /\ e.start \in Nat /\ e.end \in Nat /\ e.start <= e.end /\ e.end <= Len(text)
        /\ by \in Seq(Edit!Tokens) /\ Len(by) \in Nat /\ e.original \in Seq(Edit!Tokens)
        /\ Len(e.original) = e.end - e.start /\ Len(text) \in Nat /\ Len(before) \in Nat /\ delta \in Int
    BY GivenIsText, LenProperties DEF Suggested, Fits
  <1>3. Spliced(u, text, e.start, e.end, by)
    BY <1>2, ReplaceSplices
  <1>4. /\ n \in Nat /\ Recorded(rs2) /\ Len(rs2) = n + 1
        /\ \A i \in 1..n : /\ rs2[i].start = rs[i].start + delta /\ rs2[i].end = rs[i].end + delta
                           /\ rs2[i].applied = rs[i].applied /\ rs2[i].original = rs[i].original
        /\ rs2[n + 1].start = e.start /\ rs2[n + 1].end = e.start + Len(by)
        /\ rs2[n + 1].applied = by /\ rs2[n + 1].original = e.original
    BY AppendInverseIs
  <1>5. ASSUME NEW i \in 1..n
        PROVE  /\ rs[i].start \in Nat /\ rs[i].end \in Nat /\ rs[i].start <= rs[i].end
               /\ e.end <= rs[i].start /\ rs[i].end <= Len(text)
               /\ Len(rs[i].applied) = rs[i].end - rs[i].start /\ Len(rs[i].original) \in Nat
               /\ b2[i] = b[i]
    <2>1. i \in 1..(n + 1) /\ i # n + 1
      BY <1>4
    <2>2. b2[i] = b[i]
      BY <2>1
    <2> QED
      BY <1>1, <2>2, RecordIs, EndsInText DEF AheadOf
  <1>6. b2[n + 1] = e.start
    <2>1. n + 1 \in 1..(n + 1)
      BY <1>4
    <2> QED
      BY <2>1
  <1> HIDE DEF u, rs2, b2
  <1>7. /\ Len(u) = Len(text) + delta
        /\ \A p \in Nat : e.end < p /\ p <= Len(text) => u[p + delta] = text[p]
        /\ \A p \in 1..e.start : u[p] = text[p]
        /\ \A d \in 1..Len(by) : u[e.start + d] = by[d]
    <2>1. \A p \in Nat : e.end < p /\ p <= Len(text) => u[p + delta] = text[p]
      <3>1. ASSUME NEW p \in Nat, e.end < p, p <= Len(text) PROVE u[p + delta] = text[p]
        <4>1. u[p + (Len(by) - (e.end - e.start))] = text[p]
          <5> HIDE DEF by, delta
          <5> QED
            BY <1>2, <1>3, <3>1, SplicedBehind
        <4> QED
          BY <4>1
      <3> HIDE DEF delta
      <3> QED
        BY <3>1
    <2>2. /\ Len(u) = e.start + Len(by) + (Len(text) - e.end)
          /\ \A p \in 1..e.start : u[p] = text[p]
          /\ \A d \in 1..Len(by) : u[e.start + d] = by[d]
      BY <1>3 DEF Spliced
    <2>3. Len(u) = Len(text) + delta
      <3> DEFINE k == Len(by)
      <3>1. /\ e.start \in Nat /\ e.end \in Nat /\ k \in Nat /\ Len(text) \in Nat
            /\ delta = k - (e.end - e.start) /\ Len(u) = e.start + k + (Len(text) - e.end)
        BY <1>2, <2>2
      <3> HIDE DEF k, delta
      <3> QED
        BY ONLY <3>1
    <2> QED
      BY <2>1, <2>2, <2>3
  <1> HIDE DEF by
  \* Behind the edit all is as it was, moved.
  <1>8. ASSUME NEW i \in 0..(n + 1), i < n PROVE Between(before, u, rs2, b2, i)
    <2> DEFINE low == Low(rs, i)
               high == High(text, rs, i)
               lowB == LowB(rs, b, i)
               highB == HighB(before, b, i)
    <2>1. i \in 0..n /\ i + 1 \in 1..n /\ i # n /\ i # n + 1 /\ (i # 0 => i \in 1..n)
      BY <1>4, <1>8
    <2>2. Alike(before, text, low, high, lowB, highB)
      BY <1>1, <2>1 DEF Woven, Between
    <2>3. low = rs[i + 1].end /\ low \in Nat /\ e.end <= low
      <3>1. low = rs[i + 1].end
        BY <2>1 DEF Low
      <3> DEFINE r == rs[i + 1]
      <3>2. r.start \in Nat /\ r.end \in Nat /\ r.start <= r.end /\ e.end <= r.start
        BY <1>5, <2>1
      <3> HIDE DEF r, low
      <3>3. r.end \in Nat /\ e.end <= r.end
        BY <1>2, <3>2
      <3> QED
        BY <3>1, <3>3 DEF r
    <2>4. high \in Nat /\ high <= Len(text)
      <3>1. CASE i = 0
        BY <1>2, <3>1 DEF High
      <3>2. CASE i # 0
        <4>1. high = rs[i].start /\ i \in 1..n
          BY <2>1, <3>2 DEF High
        <4> DEFINE r == rs[i]
        <4>2. r.start \in Nat /\ r.end \in Nat /\ r.start <= r.end /\ r.end <= Len(text)
          BY <1>5, <4>1
        <4> HIDE DEF r, high
        <4>3. r.start \in Nat /\ r.start <= Len(text)
          BY <1>2, <4>2
        <4> QED
          BY <4>1, <4>3 DEF r
      <3> QED
        BY <3>1, <3>2
    <2>5. Low(rs2, i) = low + delta
      BY <1>4, <2>1, <2>3 DEF Low
    <2>6. High(u, rs2, i) = high + delta
      BY <1>4, <1>7, <2>1 DEF High
    <2>7. LowB(rs2, b2, i) = lowB
      <3>1. i # Len(rs2) /\ i # Len(rs)
        BY <1>4, <2>1
      <3> QED
        BY <1>4, <1>5, <2>1, <3>1 DEF LowB
    <2>8. HighB(before, b2, i) = highB
      BY <1>5, <2>1 DEF HighB
    <2> HIDE DEF low, high, lowB, highB
    <2>12. delta \in Int /\ e.end + delta = e.start + Len(by)
      BY <1>2
    <2> HIDE DEF delta
    <2>13. low <= high
      BY <2>2 DEF Alike
    <2>9. low + delta \in Nat /\ high + delta \in Nat /\ (high + delta) - (low + delta) = high - low
      <3> DEFINE k == Len(by)
      <3>1. k \in Nat
        BY <1>2
      <3> HIDE DEF k
      <3>2. e.end + delta = e.start + k
        BY <2>12 DEF k
      <3>3. e.start \in Nat /\ e.end \in Nat /\ delta \in Int /\ low \in Nat /\ high \in Nat /\ e.end <= low
        BY <1>2, <2>3, <2>4, <2>12
      <3>4. low + delta \in Nat
        BY ONLY <3>1, <3>2, <3>3
      <3>5. high + delta \in Nat
        BY ONLY <2>13, <3>1, <3>2, <3>3
      <3> QED
        BY ONLY <3>3, <3>4, <3>5
    <2>10. ASSUME NEW d \in 1..(high - low) PROVE u[(low + delta) + d] = before[lowB + d]
      <3>1. low + d \in Nat /\ e.end < low + d /\ low + d <= Len(text) /\ (low + d) + delta = (low + delta) + d
        <4>1. Len(text) \in Nat /\ e.end \in Nat
          BY <1>2
        <4>2. low \in Nat /\ high \in Nat /\ e.end <= low /\ high <= Len(text) /\ delta \in Int /\ d \in 1..(high - low)
          BY <2>3, <2>4, <2>12
        <4> QED
          BY ONLY <4>1, <4>2
      <3>2. u[(low + d) + delta] = text[low + d]
        BY <1>7, <3>1
      <3>3. text[low + d] = before[lowB + d]
        BY <2>2 DEF Alike
      <3> QED
        BY <3>1, <3>2, <3>3
    <2>11. Alike(before, u, low + delta, high + delta, lowB, highB)
      <3> DEFINE l == low + delta
                 h == high + delta
      <3>1. l \in Nat /\ h \in Nat /\ h - l = high - low
        BY <2>9
      <3>2. l <= h
        BY <2>3, <2>4, <2>12, <2>13
      <3>3. \A d \in 1..(high - low) : u[l + d] = before[lowB + d]
        BY <2>10
      <3> HIDE DEF l, h
      <3>4. Alike(before, u, l, h, lowB, highB)
        BY <2>2, <3>1, <3>2, <3>3 DEF Alike
      <3> QED
        BY <3>4 DEF l, h
    <2> QED
      BY <2>5, <2>6, <2>7, <2>8, <2>11 DEF Between
  \* In front of what was recorded the text is the one before.
  <1> DEFINE high == High(text, rs, n)
  <1>9. /\ high \in Nat /\ e.end <= high /\ high <= Len(text) /\ HighB(before, b, n) = high
        /\ \A d \in 1..high : text[d] = before[d]
    <2>1. n \in 0..n
      BY <1>4
    <2>2. Alike(before, text, Low(rs, n), high, LowB(rs, b, n), HighB(before, b, n))
      BY <1>1, <2>1 DEF Woven, Between
    <2>3. Low(rs, n) = 0 /\ LowB(rs, b, n) = 0
      BY DEF Low, LowB
    <2>4. e.end <= high /\ high <= Len(text) /\ high \in Nat
      <3>1. CASE n = 0
        BY <1>2, <3>1 DEF High
      <3>2. CASE n # 0
        <4>1. n \in 1..n
          BY <1>4, <3>2
        <4>2. high = rs[n].start
          BY <3>2 DEF High
        <4> HIDE DEF n
        <4> DEFINE x == rs[n]
        <4>3. x.start \in Nat /\ x.end \in Nat /\ x.start <= x.end /\ e.end <= x.start /\ x.end <= Len(text)
          BY <1>5, <4>1
        <4> HIDE DEF x
        <4>4. e.end <= x.start /\ x.start <= Len(text) /\ x.start \in Nat
          BY <1>2, <4>3
        <4> QED
          BY <4>2, <4>4 DEF x
      <3> QED
        BY <3>1, <3>2
    <2> HIDE DEF high
    <2>5. HighB(before, b, n) = 0 + (high - 0) /\ \A d \in 1..(high - 0) : text[0 + d] = before[0 + d]
      BY <2>2, <2>3 DEF Alike
    <2>6. ASSUME NEW d \in 1..high PROVE text[d] = before[d]
      <3>1. d \in 1..(high - 0) /\ 0 + d = d
        BY <2>4
      <3> QED
        BY <2>5, <3>1
    <2> QED
      BY <2>4, <2>5, <2>6
  <1>10. Between(before, u, rs2, b2, n)
    <2>1. Low(rs2, n) = e.start + Len(by)
      BY <1>4 DEF Low
    <2>2. LowB(rs2, b2, n) = e.end
      BY <1>2, <1>4, <1>6 DEF LowB
    <2>3. High(u, rs2, n) = high + delta
      <3>1. CASE n = 0
        BY <1>7, <3>1 DEF High
      <3>2. CASE n # 0
        <4>1. n \in 1..n
          BY <1>4, <3>2
        <4> QED
          BY <1>4, <3>2, <4>1 DEF High
      <3> QED
        BY <3>1, <3>2
    <2>4. HighB(before, b2, n) = high
      <3>1. CASE n = 0
        BY <1>9, <3>1 DEF HighB
      <3>2. CASE n # 0
        <4>1. n \in 1..n
          BY <1>4, <3>2
        <4> QED
          BY <1>5, <1>9, <3>2, <4>1 DEF HighB
      <3> QED
        BY <3>1, <3>2
    <2> DEFINE low == e.start + Len(by)
    <2> HIDE DEF high
    <2> DEFINE k == Len(by)
    <2>8. /\ k \in Nat /\ e.start \in Nat /\ e.end \in Nat /\ high \in Nat /\ e.end <= high
          /\ high <= Len(text) /\ Len(text) \in Nat /\ delta = k - (e.end - e.start) /\ low = e.start + k
      BY <1>2, <1>9
    <2> HIDE DEF k, delta, low
    <2>9. /\ e.start + k \in Nat /\ high + delta \in Nat /\ e.start + k <= high + delta
          /\ (high + delta) - (e.start + k) = high - e.end
          /\ high = e.end + ((high + delta) - (e.start + k))
          /\ \A d \in 1..(high - e.end) :
               /\ e.end + d \in Nat /\ e.end < e.end + d /\ e.end + d <= high
               /\ (e.end + d) + delta = (e.start + k) + d /\ e.end + d \in 1..high
      <3>1. Moves(e.start, e.end, k, high, delta)
        BY ONLY <2>8, PlacesMove, Zenon
      <3> QED
        BY <3>1, Zenon DEF Moves
    <2>5. /\ low \in Nat /\ high + delta \in Nat /\ low <= high + delta /\ (high + delta) - low = high - e.end
          /\ high = e.end + ((high + delta) - low)
      BY ONLY <2>8, <2>9, Zenon
    <2>6. ASSUME NEW d \in 1..(high - e.end) PROVE u[low + d] = before[e.end + d]
      <3>1. /\ e.end + d \in Nat /\ e.end < e.end + d /\ e.end + d <= Len(text)
            /\ (e.end + d) + delta = low + d /\ e.end + d \in 1..high
        <4>1. /\ e.end + d \in Nat /\ e.end < e.end + d /\ e.end + d <= high
              /\ (e.end + d) + delta = low + d /\ e.end + d \in 1..high
          BY <2>8, <2>9, Zenon
        <4> DEFINE p == e.end + d
        <4> HIDE DEF p
        <4>2. p \in Nat /\ p <= high
          BY <4>1 DEF p
        <4>3. p <= Len(text)
          BY ONLY <2>8, <4>2
        <4> QED
          BY <4>1, <4>3, Zenon DEF p
      <3> QED
        BY <1>7, <1>9, <3>1
    <2>7. Alike(before, u, low, high + delta, e.end, high)
      <3> DEFINE h == high + delta
      <3>1. h \in Nat /\ low <= h /\ h - low = high - e.end /\ high = e.end + (h - low)
        BY <2>5
      <3> HIDE DEF h
      <3>2. Alike(before, u, low, h, e.end, high)
        BY <2>5, <2>6, <2>8, <3>1 DEF Alike
      <3> QED
        BY <3>2 DEF h
    <2> QED
      BY <2>1, <2>2, <2>3, <2>4, <2>7 DEF Between, low
  <1>11. Between(before, u, rs2, b2, n + 1)
    <2>1. /\ Low(rs2, n + 1) = 0 /\ LowB(rs2, b2, n + 1) = 0
          /\ High(u, rs2, n + 1) = e.start /\ HighB(before, b2, n + 1) = e.start
      BY <1>4, <1>6 DEF Low, LowB, High, HighB
    <2>2. ASSUME NEW d \in 1..(e.start - 0) PROVE u[0 + d] = before[0 + d]
      <3>1. d \in 1..e.start /\ d \in 1..high /\ 0 + d = d
        <4> HIDE DEF high
        <4> QED
          BY <1>2, <1>9
      <3> QED
        BY <1>7, <1>9, <3>1
    <2>3. Alike(before, u, 0, e.start, 0, e.start)
      BY <1>2, <2>2 DEF Alike
    <2> QED
      BY <2>1, <2>3 DEF Between
  <1>12. ASSUME NEW i \in 1..(n + 1) PROVE StandsAt(before, u, rs2[i], b2[i])
    <2>1. CASE i \in 1..n
      <3> DEFINE r == rs[i]
                 s == rs2[i]
      <3>1. StandsAt(before, text, r, b[i])
        BY <1>1, <2>1 DEF Woven
      <3>2. /\ s.start = r.start + delta /\ s.applied = r.applied /\ s.original = r.original /\ b2[i] = b[i]
            /\ r.start \in Nat /\ r.end \in Nat /\ e.end <= r.start /\ r.end <= Len(text)
            /\ Len(r.applied) = r.end - r.start
        BY <1>4, <1>5, <2>1
      <3> HIDE DEF r, s, delta
      <3>3. ASSUME NEW d \in 1..Len(r.applied) PROVE u[s.start + d] = r.applied[d]
        <4>1. /\ r.start + d \in Nat /\ e.end < r.start + d /\ r.start + d <= Len(text)
              /\ (r.start + d) + delta = s.start + d
          <5>1. e.end \in Nat /\ Len(text) \in Nat /\ delta \in Int
            BY <1>2 DEF delta
          <5>2. d \in 1..(r.end - r.start)
            BY <3>2
          <5>3. /\ r.start \in Nat /\ r.end \in Nat /\ e.end <= r.start /\ r.end <= Len(text)
                /\ s.start = r.start + delta
            BY <3>2, Zenon
          <5>4. r.start + d \in Nat /\ e.end < r.start + d
            BY ONLY <5>1, <5>2, <5>3
          <5>5. r.start + d <= Len(text)
            BY ONLY <5>1, <5>2, <5>3
          <5>6. (r.start + d) + delta = s.start + d
            BY ONLY <5>1, <5>2, <5>3
          <5> QED
            BY <5>4, <5>5, <5>6
        <4> QED
          BY <1>7, <3>1, <4>1 DEF StandsAt
      <3>4. StandsAt(before, u, s, b2[i])
        BY <3>1, <3>2, <3>3 DEF StandsAt
      <3> QED
        BY <3>4 DEF s
    <2>2. CASE i = n + 1
      <3> DEFINE s == rs2[i]
      <3>1. s.start = e.start /\ s.applied = by /\ s.original = e.original /\ b2[i] = e.start
        BY <1>4, <1>6, <2>2
      <3>2. ASSUME NEW d \in 1..Len(e.original) PROVE before[e.start + d] = e.original[d]
        <4>1. e.start + d \in 1..high
          <5> HIDE DEF high
          <5>1. /\ e.start \in Nat /\ e.end \in Nat /\ high \in Nat /\ e.end <= high
                /\ d \in 1..(e.end - e.start)
            BY <1>2, <1>9
          <5> QED
            BY ONLY <5>1
        <4> QED
          BY <1>9, <4>1 DEF Fits
      <3> HIDE DEF s
      <3>3. StandsAt(before, u, s, b2[i])
        BY <1>2, <1>7, <3>1, <3>2 DEF StandsAt
      <3> QED
        BY <3>3 DEF s
    <2> QED
      BY <1>4, <2>1, <2>2
  <1>13. \A i \in 0..(n + 1) : Between(before, u, rs2, b2, i)
    <2> TAKE i \in 0..(n + 1)
    <2>1. i < n \/ i = n \/ i = n + 1
      BY <1>4
    <2> QED
      BY <1>8, <1>10, <1>11, <2>1
  <1>14. Woven(before, u, rs2, b2)
    BY <1>4, <1>12, <1>13 DEF Woven
  <1> QED
    BY <1>14 DEF Comes, u, rs2, by

\* Where the places from low on come from, when k tokens replace those from start to end
\* in a text of n: from before the span, from what was put in, or from behind the span.
Meets(start, end, k, n, low, lowB, b, size) ==
  /\ start + k \in Nat /\ size \in Nat /\ low <= size
  /\ (b + k) + (n - end) = lowB + (size - low)
  /\ \A d \in 1..(size - low) :
       \/ low + d \in 1..start /\ d \in 1..(start - low)
       \/ \E j \in 1..k : start + j = low + d /\ b + j = lowB + d
       \/ \E j \in 1..(n - end) : (start + k) + j = low + d /\ (b + k) + j = lowB + d

LEMMA PlacesMeet ==
  ASSUME NEW start \in Nat, NEW end \in Nat, NEW k \in Nat, NEW n \in Nat, NEW low \in Nat,
         NEW lowB \in Nat, low <= start, start <= end, end <= n,
         NEW b, b = lowB + (start - low), NEW size, size = (start + k) + (n - end)
  PROVE  Meets(start, end, k, n, low, lowB, b, size)
  <1>1. start + k \in Nat /\ size \in Nat /\ low <= size
    OBVIOUS
  <1>2. (b + k) + (n - end) = lowB + (size - low)
    OBVIOUS
  <1>3. ASSUME NEW d \in 1..(size - low)
        PROVE  \/ low + d \in 1..start /\ d \in 1..(start - low)
               \/ \E j \in 1..k : start + j = low + d /\ b + j = lowB + d
               \/ \E j \in 1..(n - end) : (start + k) + j = low + d /\ (b + k) + j = lowB + d
    <2>1. CASE low + d <= start
      BY <2>1
    <2>2. CASE start < low + d /\ low + d <= start + k
      <3> DEFINE j == (low + d) - start
      <3>1. j \in 1..k /\ start + j = low + d /\ b + j = lowB + d
        BY <2>2
      <3> QED
        BY <3>1
    <2>3. CASE start + k < low + d
      <3> DEFINE j == (low + d) - (start + k)
      <3>1. j \in 1..(n - end) /\ (start + k) + j = low + d /\ (b + k) + j = lowB + d
        BY <2>3
      <3> QED
        BY <3>1
    <2> QED
      BY <2>1, <2>2, <2>3
  <1> QED
    BY <1>1, <1>2, <1>3, Zenon DEF Meets

\* What is written over a record is there, and the rest of it as before.
LEMMA ComesBack ==
  ASSUME NEW before \in Seq(Edit!Tokens), NEW text \in Seq(Edit!Tokens), NEW rs, Recorded(rs), rs # <<>>,
         Comes(before, text, rs)
  PROVE  /\ rs[1].end <= Len(text)
         /\ Comes(before, Edit!Replace(text, rs[1], rs[1].original), Tail(rs))
  <1> DEFINE n == Len(rs)
             r == rs[1]
             by == r.original
             u == Edit!Replace(text, r, by)
             rest == Tail(rs)
  <1>1. PICK b : Woven(before, text, rs, b)
    BY DEF Comes
  <1> DEFINE b2 == [i \in 1..(n - 1) |-> b[i + 1]]
  <1>2. /\ n \in Nat /\ n >= 1 /\ rest \in Seq(Records) /\ Len(rest) = n - 1
        /\ \A i \in 1..(n - 1) : rest[i] = rs[i + 1]
    <2>1. rs \in Seq(Records) /\ n \in Nat /\ n # 0
      BY EmptySeq, LenProperties DEF Recorded
    <2> QED
      BY <2>1, HeadTailProperties
  <1>3. ASSUME NEW i \in 1..n
        PROVE  /\ rs[i].start \in Nat /\ rs[i].end \in Nat /\ rs[i].start <= rs[i].end
               /\ Len(rs[i].applied) = rs[i].end - rs[i].start /\ Len(rs[i].original) \in Nat
               /\ rs[i].end <= Len(text) /\ (i # 1 => rs[i].end <= r.start)
    <2>1. i # 1 => 1 \in 1..n /\ 1 < i
      BY <1>2
    <2>2. i # 1 => rs[i].end <= r.start
      BY <2>1 DEF Recorded, Falling
    <2> HIDE DEF r
    <2> QED
      BY <1>1, <2>2, RecordIs, EndsInText
  <1>4. 1 \in 1..n /\ r.start \in Nat /\ r.end \in Nat /\ r.start <= r.end /\ r.end <= Len(text) /\ by \in Seq(Edit!Tokens)
    <2>1. 1 \in 1..n
      BY <1>2
    <2> QED
      BY <1>3, <2>1, RecordIs
  <1>5. Len(text) \in Nat /\ Len(before) \in Nat /\ Len(by) \in Nat
    BY <1>4, LenProperties
  <1>6. Spliced(u, text, r.start, r.end, by)
    BY <1>4, ReplaceSplices
  <1>7. /\ Len(u) = r.start + Len(by) + (Len(text) - r.end)
        /\ \A p \in 1..r.start : u[p] = text[p]
        /\ \A p \in 1..Len(by) : u[r.start + p] = by[p]
        /\ \A p \in 1..(Len(text) - r.end) : u[r.start + Len(by) + p] = text[r.end + p]
    BY <1>6 DEF Spliced
  <1>8. Recorded(rest)
    <2>1. ASSUME NEW i \in 1..(n - 1), NEW j \in 1..(n - 1), i < j PROVE rest[j].end <= rest[i].start
      <3>1. i + 1 \in 1..n /\ j + 1 \in 1..n /\ i + 1 < j + 1
        BY <1>2, <2>1
      <3> QED
        BY <1>2, <3>1 DEF Recorded, Falling
    <2> QED
      BY <1>2, <2>1 DEF Recorded, Falling
  <1>9. \A i \in 1..(n - 1) : b2[i] = b[i + 1]
    OBVIOUS
  <1> HIDE DEF u, rest, b2
  \* In front of the record nothing changed.
  <1>10. ASSUME NEW i \in 1..(n - 1) PROVE Between(before, u, rest, b2, i)
    <2> DEFINE low == Low(rs, i + 1)
               high == High(text, rs, i + 1)
               lowB == LowB(rs, b, i + 1)
               highB == HighB(before, b, i + 1)
    <2>1. i + 1 \in 1..n /\ i + 1 \in 0..n /\ i + 1 # 0 /\ i # 0 /\ i + 1 # 1
      BY <1>2
    <2>2. Alike(before, text, low, high, lowB, highB)
      BY <1>1, <2>1 DEF Woven, Between
    <2>3. Low(rest, i) = low /\ LowB(rest, b2, i) = lowB
      <3>1. CASE i = n - 1
        <4>1. i = Len(rest) /\ i + 1 = Len(rs)
          BY <1>2, <3>1
        <4> QED
          BY <4>1 DEF Low, LowB
      <3>2. CASE i # n - 1
        <4>1. i # Len(rest) /\ i + 1 # Len(rs) /\ i + 1 \in 1..(n - 1) /\ (i + 1) + 1 = i + 2
          BY <1>2, <3>2
        <4>2. rest[i + 1] = rs[(i + 1) + 1] /\ b2[i + 1] = b[(i + 1) + 1]
          BY <1>2, <1>9, <4>1
        <4> QED
          BY <4>1, <4>2 DEF Low, LowB
      <3> QED
        BY <3>1, <3>2
    <2>4. High(u, rest, i) = high /\ HighB(before, b2, i) = highB
      BY <1>2, <1>9, <2>1 DEF High, HighB
    <2>5. high \in Nat /\ high <= r.start
      <3>1. high = rs[i + 1].start
        BY <2>1 DEF High
      <3> HIDE DEF r
      <3>2. r.start \in Nat
        BY <1>4
      <3> QED
        BY <1>3, <2>1, <3>1, <3>2
    <2> HIDE DEF low, high, lowB, highB
    <2>6. ASSUME NEW d \in 1..(high - low) PROVE u[low + d] = before[lowB + d]
      <3>1. low + d \in 1..r.start
        <4> HIDE DEF r
        <4> QED
          BY <1>4, <2>2, <2>5 DEF Alike
      <3> QED
        BY <1>7, <2>2, <3>1 DEF Alike
    <2>7. Alike(before, u, low, high, lowB, highB)
      BY <2>2, <2>6 DEF Alike
    <2> QED
      BY <2>3, <2>4, <2>7 DEF Between
  \* Behind what is now the first, up to the end, stands what stood there.
  <1> DEFINE low == Low(rs, 1)
             lowB == LowB(rs, b, 1)
             then == r.start + Len(by)
  <1>11. Alike(before, text, low, r.start, lowB, b[1])
    <2>1. 1 \in 0..n /\ 1 # 0
      BY <1>2
    <2>2. Alike(before, text, low, High(text, rs, 1), lowB, HighB(before, b, 1))
      BY <1>1, <2>1 DEF Woven, Between
    <2> QED
      BY <2>1, <2>2 DEF High, HighB
  <1>12. Alike(before, text, r.end, Len(text), b[1] + Len(by), Len(before))
    <2>1. 0 \in 0..n /\ 0 # n
      BY <1>2
    <2>2. Alike(before, text, Low(rs, 0), High(text, rs, 0), LowB(rs, b, 0), HighB(before, b, 0))
      BY <1>1, <2>1 DEF Woven, Between
    <2>3. Low(rs, 0) = r.end /\ LowB(rs, b, 0) = b[1] + Len(by)
      BY <2>1 DEF Low, LowB
    <2> QED
      BY <2>2, <2>3 DEF High, HighB
  <1>13. StandsAt(before, text, r, b[1])
    BY <1>1, <1>4 DEF Woven
  <1>14. Between(before, u, rest, b2, 0)
    <2>1. Low(rest, 0) = low /\ LowB(rest, b2, 0) = lowB
      <3>1. CASE n = 1
        BY <1>2, <3>1 DEF Low, LowB
      <3>2. CASE n # 1
        <4>1. 0 # Len(rest) /\ 1 # Len(rs) /\ 0 + 1 = 1 /\ 1 \in 1..(n - 1) /\ 1 + 1 = 2
          BY <1>2, <3>2
        <4>2. rest[1] = rs[2] /\ b2[1] = b[2]
          BY <1>2, <1>9, <4>1
        <4> QED
          BY <4>1, <4>2 DEF Low, LowB
      <3> QED
        BY <3>1, <3>2
    <2>2. High(u, rest, 0) = Len(u) /\ HighB(before, b2, 0) = Len(before)
      BY DEF High, HighB
    <2> HIDE DEF low, lowB, r, by
    <2>3. /\ low \in Nat /\ lowB \in Nat /\ low <= r.start /\ b[1] = lowB + (r.start - low)
          /\ Len(before) = (b[1] + Len(by)) + (Len(text) - r.end) /\ b[1] \in Nat
      BY <1>11, <1>12, <1>13 DEF Alike, StandsAt
    <2> DEFINE k == Len(by)
               size == (r.start + k) + (Len(text) - r.end)
    <2>4. Meets(r.start, r.end, k, Len(text), low, lowB, b[1], size)
      BY <1>4, <1>5, <2>3, PlacesMeet
    <2>7. Len(u) = size
      BY <1>7
    <2> HIDE DEF k, size
    <2>8. /\ size \in Nat /\ low <= size
          /\ (b[1] + k) + (Len(text) - r.end) = lowB + (size - low)
          /\ \A d \in 1..(size - low) :
               \/ low + d \in 1..r.start /\ d \in 1..(r.start - low)
               \/ \E j \in 1..k : r.start + j = low + d /\ b[1] + j = lowB + d
               \/ \E j \in 1..(Len(text) - r.end) :
                    (r.start + k) + j = low + d /\ (b[1] + k) + j = lowB + d
      BY <2>4, Zenon DEF Meets
    <2>9. Len(before) = lowB + (Len(u) - low)
      BY <2>3, <2>7, <2>8 DEF k
    <2>5. ASSUME NEW d \in 1..(Len(u) - low) PROVE u[low + d] = before[lowB + d]
      <3>1. \/ low + d \in 1..r.start /\ d \in 1..(r.start - low)
            \/ \E j \in 1..k : r.start + j = low + d /\ b[1] + j = lowB + d
            \/ \E j \in 1..(Len(text) - r.end) :
                 (r.start + k) + j = low + d /\ (b[1] + k) + j = lowB + d
        BY <2>7, <2>8
      <3>2. CASE low + d \in 1..r.start /\ d \in 1..(r.start - low)
        BY <1>7, <1>11, <3>2 DEF Alike
      <3>3. CASE \E j \in 1..k : r.start + j = low + d /\ b[1] + j = lowB + d
        <4>1. PICK j \in 1..k : r.start + j = low + d /\ b[1] + j = lowB + d
          BY <3>3
        <4>2. u[r.start + j] = by[j]
          BY <1>7 DEF k
        <4>3. before[b[1] + j] = by[j]
          BY <1>13 DEF StandsAt, by, k
        <4> QED
          BY <4>1, <4>2, <4>3
      <3>4. CASE \E j \in 1..(Len(text) - r.end) :
                   (r.start + k) + j = low + d /\ (b[1] + k) + j = lowB + d
        <4>1. PICK j \in 1..(Len(text) - r.end) :
                (r.start + k) + j = low + d /\ (b[1] + k) + j = lowB + d
          BY <3>4
        <4>2. u[(r.start + k) + j] = text[r.end + j]
          BY <1>7 DEF k
        <4>3. text[r.end + j] = before[(b[1] + k) + j]
          BY <1>12 DEF Alike, k
        <4> QED
          BY <4>1, <4>2, <4>3
      <3> QED
        BY <3>1, <3>2, <3>3, <3>4
    <2>6. Alike(before, u, low, Len(u), lowB, Len(before))
      BY <2>3, <2>5, <2>7, <2>8, <2>9 DEF Alike
    <2> QED
      BY <2>1, <2>2, <2>6 DEF Between
  <1>15. ASSUME NEW i \in 1..(n - 1) PROVE StandsAt(before, u, rest[i], b2[i])
    <2> DEFINE s == rs[i + 1]
    <2>1. i + 1 \in 1..n /\ i + 1 # 1
      BY <1>2
    <2>2. StandsAt(before, text, s, b[i + 1])
      BY <1>1, <2>1 DEF Woven
    <2>3. /\ s.start \in Nat /\ s.end \in Nat /\ s.end <= r.start
          /\ Len(s.applied) = s.end - s.start
      BY <1>3, <2>1
    <2>4. rest[i] = s /\ b2[i] = b[i + 1]
      BY <1>2, <1>9
    <2> HIDE DEF s, r
    <2>5. ASSUME NEW d \in 1..Len(s.applied) PROVE u[s.start + d] = s.applied[d]
      <3>1. s.start + d \in 1..r.start
        BY <1>4, <2>3
      <3> QED
        BY <1>7, <2>2, <3>1 DEF StandsAt
    <2>6. StandsAt(before, u, s, b[i + 1])
      BY <2>2, <2>5 DEF StandsAt
    <2> QED
      BY <2>4, <2>6
  <1>16. \A i \in 0..(n - 1) : Between(before, u, rest, b2, i)
    <2> TAKE i \in 0..(n - 1)
    <2>1. i = 0 \/ i \in 1..(n - 1)
      BY <1>2
    <2> QED
      BY <1>10, <1>14, <2>1
  <1>17. Woven(before, u, rest, b2)
    BY <1>2, <1>15, <1>16 DEF Woven
  <1> QED
    BY <1>4, <1>17 DEF Comes, u, rest

\* A slice of a text, where it is in the text.
LEMMA SliceIs ==
  ASSUME NEW t \in Seq(Edit!Tokens), NEW start \in Nat, NEW end \in Nat, start <= end
  PROVE  /\ Edit!Slice(t, start, end) \in Seq(Edit!Tokens)
         /\ end <= Len(t) => /\ Len(Edit!Slice(t, start, end)) = end - start
                             /\ \A d \in 1..(end - start) : Edit!Slice(t, start, end)[d] = t[start + d]
         /\ Len(Edit!Slice(t, start, end)) = end - start => start = end \/ end <= Len(t)
  <1> DEFINE to == IF end < Len(t) THEN end ELSE Len(t)
             s == SubSeq(t, start + 1, to)
  <1>1. Len(t) \in Nat /\ to \in Nat /\ to <= Len(t) /\ to <= end /\ \A i \in 1..Len(t) : t[i] \in Edit!Tokens
    BY LenProperties, ElementOfSeq
  <1>2. \A i \in (start + 1)..to : t[i] \in Edit!Tokens
    BY <1>1
  <1>3. /\ s \in Seq(Edit!Tokens) /\ Len(s) = IF start + 1 <= to THEN to - (start + 1) + 1 ELSE 0
        /\ \A i \in 1..(to - (start + 1) + 1) : s[i] = t[(start + 1) + i - 1]
    <2> HIDE DEF to
    <2> QED
      BY <1>1, <1>2, SubSeqProperties
  <1>4. Edit!Slice(t, start, end) = s
    BY DEF Edit!Slice
  <1>5. Len(s) = end - start => start = end \/ end <= Len(t)
    <2> HIDE DEF s
    <2> QED
      BY <1>1, <1>3
  <1>6. end <= Len(t) => to = end /\ Len(s) = end - start
    <2> HIDE DEF s
    <2> QED
      BY <1>1, <1>3
  <1>7. ASSUME end <= Len(t), NEW d \in 1..(end - start) PROVE s[d] = t[start + d]
    <2>1. d \in 1..(to - (start + 1) + 1) /\ (start + 1) + d - 1 = start + d
      BY <1>6, <1>7
    <2> HIDE DEF s, to
    <2> QED
      BY <1>3, <2>1
  <1> HIDE DEF s, to
  <1> QED
    BY <1>3, <1>4, <1>5, <1>6, <1>7

\* What was applied stands in the text that comes of it.
LEMMA AllStand ==
  ASSUME NEW before, NEW text \in Seq(Edit!Tokens), NEW rs, Recorded(rs), Comes(before, text, rs),
         NEW i \in 1..Len(rs)
  PROVE  Edit!Slice(text, rs[i].start, rs[i].end) = rs[i].applied
  <1> DEFINE r == rs[i]
             s == Edit!Slice(text, r.start, r.end)
  <1>1. PICK b : Woven(before, text, rs, b)
    BY DEF Comes
  <1>2. r.end <= Len(text)
    BY <1>1, EndsInText
  <1>3. /\ r.start \in Nat /\ r.end \in Nat /\ r.start <= r.end
        /\ r.applied \in Seq(Edit!Tokens) /\ Len(r.applied) = r.end - r.start
    BY RecordIs
  <1>4. \A d \in 1..Len(r.applied) : text[r.start + d] = r.applied[d]
    BY <1>1 DEF Woven, StandsAt
  <1> HIDE DEF r
  <1>5. /\ s \in Seq(Edit!Tokens) /\ Len(s) = r.end - r.start
        /\ \A d \in 1..(r.end - r.start) : s[d] = text[r.start + d]
    BY <1>2, <1>3, SliceIs
  <1> HIDE DEF s
  <1>6. s = r.applied
    BY <1>3, <1>4, <1>5, SeqEqual
  <1> QED
    BY <1>6 DEF s, r

-----------------------------------------------------------------------------
(* The order of a plan, and of a queue. *)

\* The pairs of an order in which any two of a set have their places.
Orders(R, S) ==
  /\ \A x \in S : <<x, x>> \notin R
  /\ \A x, y \in S : x # y => <<x, y>> \in R \/ <<y, x>> \in R
  /\ \A x, y, z \in S : <<x, y>> \in R /\ <<y, z>> \in R => <<x, z>> \in R
Ahead(R, S, x) == {y \in S : <<y, x>> \in R}
Place(R, S, x) == Cardinality(Ahead(R, S, x))

\* Whoever is ahead of another has fewer ahead.
LEMMA Places ==
  ASSUME NEW S, IsFiniteSet(S), NEW R, Orders(R, S), NEW x \in S
  PROVE  /\ Place(R, S, x) \in 0..(Cardinality(S) - 1)
         /\ \A y \in S : <<y, x>> \in R => Place(R, S, y) < Place(R, S, x)
  <1> DEFINE A(z) == Ahead(R, S, z)
  <1>1. ASSUME NEW z \in S
        PROVE  A(z) \in SUBSET (S \ {z}) /\ IsFiniteSet(A(z)) /\ Cardinality(A(z)) \in Nat
    <2>1. A(z) \in SUBSET (S \ {z})
      BY DEF Ahead, Orders
    <2>2. IsFiniteSet(A(z))
      BY <2>1, FS_Subset
    <2> QED
      BY <2>1, <2>2, FS_CardinalityType
  <1>2. Cardinality(A(x)) <= Cardinality(S) - 1
    <2>1. IsFiniteSet(S \ {x}) /\ Cardinality(S \ {x}) = Cardinality(S) - 1
      BY FS_RemoveElement
    <2> QED
      BY <1>1, <2>1, FS_Subset
  <1>3. ASSUME NEW y \in S, <<y, x>> \in R PROVE Cardinality(A(y)) < Cardinality(A(x))
    <2>1. A(y) \in SUBSET A(x)
      BY <1>3 DEF Ahead, Orders
    <2>2. y \in A(x) /\ y \notin A(y)
      BY <1>3 DEF Ahead, Orders
    <2>3. Cardinality(A(y)) <= Cardinality(A(x)) /\ Cardinality(A(y)) # Cardinality(A(x))
      <3>1. IsFiniteSet(A(x)) /\ A(y) # A(x)
        BY <1>1, <2>2
      <3>2. /\ Cardinality(A(y)) <= Cardinality(A(x))
            /\ Cardinality(A(x)) = Cardinality(A(y)) => A(x) = A(y)
        BY <2>1, <3>1, FS_Subset
      <3> QED
        BY <3>1, <3>2
    <2>4. Cardinality(A(y)) \in Nat /\ Cardinality(A(x)) \in Nat
      BY <1>1
    <2> QED
      BY <2>3, <2>4
  <1>4. Cardinality(S) \in Nat
    BY FS_CardinalityType
  <1> QED
    BY <1>1, <1>2, <1>3, <1>4 DEF Place

\* So every place is somebody's, and only one's.
LEMMA PlaceTaken ==
  ASSUME NEW S, IsFiniteSet(S), NEW R, Orders(R, S), NEW k \in 1..Cardinality(S)
  PROVE  \E x \in S : Place(R, S, x) = k - 1
  <1> SUFFICES ASSUME \A x \in S : Place(R, S, x) # k - 1 PROVE FALSE
    OBVIOUS
  <1> DEFINE n == Cardinality(S)
             I == 0..(n - 1)
             T == I \ {k - 1}
             f == [x \in S |-> Place(R, S, x)]
  <1>1. n \in Nat
    BY FS_CardinalityType
  <1>2. IsFiniteSet(T) /\ Cardinality(T) = n - 1
    <2>1. IsFiniteSet(I) /\ Cardinality(I) = n
      <3>1. 0 \in Int /\ n - 1 \in Int /\ ~(0 > n - 1) /\ (n - 1) - 0 + 1 = n
        BY <1>1
      <3> HIDE DEF n
      <3> QED
        BY <3>1, FS_Interval
    <2>2. k - 1 \in I
      BY <1>1
    <2> HIDE DEF n, I
    <2>3. IsFiniteSet(I \ {k - 1}) /\ Cardinality(I \ {k - 1}) = Cardinality(I) - 1
      BY ONLY <2>1, <2>2, FS_RemoveElement
    <2> QED
      BY <2>1, <2>3
  <1>3. ASSUME NEW x \in S PROVE Place(R, S, x) \in T
    BY Places
  <1> HIDE DEF T
  <1>4. f \in [S -> T]
    BY <1>3
  <1>5. PICK x, y \in S : x # y /\ f[x] = f[y]
    <2>1. Cardinality(T) < Cardinality(S)
      BY <1>1, <1>2
    <2> HIDE DEF f, n
    <2> QED
      BY <1>2, <1>4, <2>1, FS_PigeonHole
  <1>6. Place(R, S, x) = Place(R, S, y)
    BY <1>5
  <1>7. <<x, y>> \in R \/ <<y, x>> \in R
    BY <1>5 DEF Orders
  <1>8. Place(R, S, x) < Place(R, S, y) \/ Place(R, S, y) < Place(R, S, x)
    BY <1>7, Places
  <1>9. Place(R, S, x) \in Int /\ Place(R, S, y) \in Int
    BY Places
  <1> QED
    BY <1>6, <1>8, <1>9

\* Whoever has an earlier place is ahead.
LEMMA PlaceOrders ==
  ASSUME NEW S, IsFiniteSet(S), NEW R, Orders(R, S), NEW x \in S, NEW y \in S,
         Place(R, S, x) < Place(R, S, y)
  PROVE  <<x, y>> \in R /\ x # y
  <1>1. Place(R, S, x) \in Int /\ Place(R, S, y) \in Int
    BY Places
  <1>2. x # y
    BY <1>1
  <1>3. <<y, x>> \in R => Place(R, S, y) < Place(R, S, x)
    BY Places
  <1> QED
    BY <1>1, <1>2, <1>3 DEF Orders

\* Suggestions of one answer: no two start at one place, and none reaches into another.
Suggestions(items) ==
  /\ IsFiniteSet(items)
  /\ \A x \in items : Suggested(x)
  /\ \A x, y \in items : x # y =>
       (x.start < y.start /\ x.end <= y.start) \/ (y.start < x.start /\ y.end <= x.start)

\* What waits to be applied.
Queued(q) ==
  /\ \E S : q \in Seq(S)
  /\ \A i \in 1..Len(q) : Suggested(q[i])
  /\ \A i, j \in 1..Len(q) : i < j => q[j].end <= q[i].start

\* Apply-all has them all, from the last to the first.
LEMMA QueueFalls ==
  ASSUME NEW items, Suggestions(items)
  PROVE  /\ Queued(Edit!LastToFirst(items))
         /\ \A k \in 1..Len(Edit!LastToFirst(items)) : Edit!LastToFirst(items)[k] \in items
  <1> DEFINE R == {p \in items \X items : p[1].start > p[2].start}
             n == Cardinality(items)
             q == Edit!LastToFirst(items)
  <1>1. IsFiniteSet(items) /\ n \in Nat /\ \A x \in items : Suggested(x) /\ x.start \in Nat /\ x.end \in Nat
    BY FS_CardinalityType DEF Suggestions, Suggested
  <1>2. \A x, y \in items : <<x, y>> \in R <=> x.start > y.start
    OBVIOUS
  <1>3. Orders(R, items)
    <2> HIDE DEF R
    <2>1. \A x \in items : <<x, x>> \notin R
      BY <1>1, <1>2
    <2>2. \A x, y \in items : x # y => <<x, y>> \in R \/ <<y, x>> \in R
      BY <1>1, <1>2 DEF Suggestions
    <2>3. \A x, y, z \in items : <<x, y>> \in R /\ <<y, z>> \in R => <<x, z>> \in R
      BY <1>1, <1>2
    <2> QED
      BY <2>1, <2>2, <2>3 DEF Orders
  <1>4. \A x \in items : Place(R, items, x) = Cardinality({y \in items : y.start > x.start})
    <2> TAKE x \in items
    <2>1. Ahead(R, items, x) = {y \in items : y.start > x.start}
      BY <1>2 DEF Ahead
    <2> QED
      BY <2>1 DEF Place
  <1> DEFINE pick(k) == CHOOSE x \in items : Cardinality({y \in items : y.start > x.start}) = k - 1
  <1>5. q = [k \in 1..n |-> pick(k)]
    BY Zenon DEF Edit!LastToFirst, Edit!Cardinality, Cardinality
  <1>6. ASSUME NEW k \in 1..n PROVE pick(k) \in items /\ Place(R, items, pick(k)) = k - 1
    <2>1. PICK x \in items : Place(R, items, x) = k - 1
      <3> HIDE DEF R
      <3> QED
        BY <1>1, <1>3, PlaceTaken
    <2>2. \E y \in items : Cardinality({z \in items : z.start > y.start}) = k - 1
      BY <1>4, <2>1
    <2>3. pick(k) \in items /\ Cardinality({z \in items : z.start > pick(k).start}) = k - 1
      <3> HIDE DEF R, n
      <3> QED
        BY <2>2
    <2> HIDE DEF pick, R
    <2> QED
      BY <1>4, <2>3
  <1> HIDE DEF pick, R, q
  <1>7. \A k \in 1..n : q[k] \in items /\ Place(R, items, q[k]) = k - 1
    BY <1>5, <1>6
  <1>8. q \in Seq(items) /\ Len(q) = n
    <2>1. q \in [1..n -> items]
      <3> HIDE DEF n
      <3> QED
        BY <1>5, <1>7
    <2> HIDE DEF n
    <2> QED
      BY <1>1, <2>1, SeqDef, LenProperties
  <1>9. ASSUME NEW i \in 1..n, NEW j \in 1..n, i < j PROVE q[j].end <= q[i].start
    <2>1. Place(R, items, q[i]) < Place(R, items, q[j])
      BY <1>1, <1>7, <1>9
    <2>2. <<q[i], q[j]>> \in R /\ q[i] # q[j]
      BY <1>1, <1>3, <1>7, <2>1, PlaceOrders
    <2>3. q[i] \in items /\ q[j] \in items /\ q[i].start > q[j].start
      BY <1>2, <1>7, <2>2
    <2> QED
      BY <1>1, <2>2, <2>3 DEF Suggestions
  <1> QED
    BY <1>1, <1>7, <1>8, <1>9 DEF Queued, q

\* Undo's plan is the records that stand, in their order; of a text they make, all.
LEMMA PlanIs ==
  ASSUME NEW text \in Seq(Edit!Tokens), NEW rs, Recorded(rs)
  PROVE  LET plan == Edit!PlanUndo(text, rs) IN
         /\ Recorded(plan)
         /\ \A k \in 1..Len(plan) : Edit!Slice(text, plan[k].start, plan[k].end) = plan[k].applied
         /\ (\A i \in 1..Len(rs) : Edit!Slice(text, rs[i].start, rs[i].end) = rs[i].applied) => plan = rs
  <1> DEFINE S == {i \in DOMAIN rs : Edit!Slice(text, rs[i].start, rs[i].end) = rs[i].applied}
             R == {p \in S \X S : p[1] < p[2]}
             n == Cardinality(S)
             Above(i) == {j \in S : rs[j].start > rs[i].start \/ (rs[j].start = rs[i].start /\ j < i)}
             plan == Edit!PlanUndo(text, rs)
             pick(k) == CHOOSE i \in S : Cardinality(Above(i)) = k - 1
  <1>1. Len(rs) \in Nat /\ DOMAIN rs = 1..Len(rs)
    BY LenProperties DEF Recorded
  <1>2. S \in SUBSET (1..Len(rs)) /\ IsFiniteSet(S) /\ n \in Nat /\ \A i \in S : i \in Nat
    <2>1. S \in SUBSET (1..Len(rs))
      BY <1>1
    <2> HIDE DEF S
    <2>2. IsFiniteSet(S)
      <3>1. 1 \in Int /\ Len(rs) \in Int
        BY <1>1
      <3>2. IsFiniteSet(1..Len(rs))
        BY <3>1, FS_Interval
      <3> QED
        BY <2>1, <3>2, FS_Subset
    <2> QED
      BY <1>1, <2>1, <2>2, FS_CardinalityType
  <1>3. plan = [k \in 1..n |-> rs[pick(k)]]
    BY Zenon DEF Edit!PlanUndo, Edit!Cardinality, Cardinality
  <1>s. \A i \in S : Edit!Slice(text, rs[i].start, rs[i].end) = rs[i].applied
    OBVIOUS
  <1>t. (\A i \in 1..Len(rs) : Edit!Slice(text, rs[i].start, rs[i].end) = rs[i].applied) => S = 1..Len(rs)
    BY <1>1
  <1> HIDE DEF S, plan
  <1>4. \A x, y \in S : <<x, y>> \in R <=> x < y
    OBVIOUS
  <1> HIDE DEF R
  <1>5. Orders(R, S)
    BY <1>2, <1>4 DEF Orders
  <1>6. ASSUME NEW i \in S, NEW j \in S
        PROVE  i < j => rs[j].end <= rs[i].start /\ rs[j].start <= rs[i].start
    <2>1. i \in 1..Len(rs) /\ j \in 1..Len(rs)
      BY <1>2
    <2>2. rs[j].start \in Nat /\ rs[j].end \in Nat /\ rs[j].start <= rs[j].end /\ rs[i].start \in Nat
      BY <2>1, RecordIs
    <2>3. i < j => rs[j].end <= rs[i].start
      BY <2>1 DEF Recorded, Falling
    <2> QED
      BY <2>2, <2>3
  <1>7. ASSUME NEW i \in S PROVE Above(i) = Ahead(R, S, i)
    <2>1. ASSUME NEW j \in S
          PROVE  (rs[j].start > rs[i].start \/ (rs[j].start = rs[i].start /\ j < i)) <=> <<j, i>> \in R
      <3>1. i \in 1..Len(rs) /\ j \in 1..Len(rs) /\ i \in Nat /\ j \in Nat
        BY <1>2
      <3>2. rs[i].start \in Nat /\ rs[j].start \in Nat
        BY <3>1, RecordIs
      <3>3. i < j => rs[j].start <= rs[i].start
        BY <1>6
      <3>4. j < i => rs[i].start <= rs[j].start
        BY <1>6
      <3> QED
        BY <1>4, <3>1, <3>2, <3>3, <3>4
    <2> QED
      BY <2>1 DEF Ahead
  <1>8. ASSUME NEW k \in 1..n PROVE pick(k) \in S /\ Place(R, S, pick(k)) = k - 1
    <2>1. PICK i \in S : Place(R, S, i) = k - 1
      BY <1>2, <1>5, PlaceTaken
    <2>2. Cardinality(Above(i)) = k - 1
      BY <1>7, <2>1 DEF Place
    <2> HIDE DEF Above, n
    <2>3. pick(k) \in S /\ Cardinality(Above(pick(k))) = k - 1
      BY <2>2
    <2> HIDE DEF pick
    <2> QED
      BY <1>7, <2>3 DEF Place
  <1> HIDE DEF pick, Above
  <1>9. ASSUME NEW k \in 1..n PROVE plan[k] = rs[pick(k)] /\ pick(k) \in 1..Len(rs) /\ plan[k] \in Records
    <2>1. plan[k] = rs[pick(k)] /\ pick(k) \in 1..Len(rs)
      BY <1>2, <1>3, <1>8
    <2> QED
      BY <2>1, ElementOfSeq DEF Recorded
  <1>10. plan \in Seq(Records) /\ Len(plan) = n
    <2>1. plan \in [1..n -> Records]
      <3> HIDE DEF n
      <3> QED
        BY <1>3, <1>9
    <2> HIDE DEF n
    <2> QED
      BY <1>2, <2>1, SeqDef, LenProperties
  <1>11. ASSUME NEW k \in 1..n, NEW m \in 1..n, k < m PROVE pick(k) < pick(m)
    <2>1. Place(R, S, pick(k)) < Place(R, S, pick(m))
      BY <1>2, <1>8, <1>11
    <2> QED
      BY <1>2, <1>4, <1>5, <1>8, <2>1, PlaceOrders
  <1>12. Falling(plan)
    <2> SUFFICES ASSUME NEW k \in 1..n, NEW m \in 1..n, k < m PROVE plan[m].end <= plan[k].start
      BY <1>10 DEF Falling
    <2> QED
      BY <1>6, <1>8, <1>9, <1>11
  <1>13. ASSUME NEW k \in 1..n PROVE Edit!Slice(text, plan[k].start, plan[k].end) = plan[k].applied
    BY <1>8, <1>9, <1>s
  <1>14. ASSUME S = 1..Len(rs) PROVE plan = rs
    <2>1. n = Len(rs)
      <3>1. Cardinality(1..Len(rs)) = Len(rs)
        <4>1. 1 \in Int /\ Len(rs) \in Int /\ (1 > Len(rs) => Len(rs) = 0) /\ Len(rs) - 1 + 1 = Len(rs)
          BY <1>1
        <4> QED
          BY <4>1, FS_Interval
      <3> QED
        BY <1>14, <3>1
    <2>2. ASSUME NEW k \in 1..n PROVE pick(k) = k
      <3>1. k \in S /\ k \in Nat
        BY <1>14, <2>1
      <3>2. Ahead(R, S, k) = 1..(k - 1)
        <4>1. \A j \in S : <<j, k>> \in R <=> j < k
          BY <1>4, <3>1
        <4>2. \A j : j \in S /\ j < k <=> j \in 1..(k - 1)
          BY <1>1, <1>14, <2>1
        <4> QED
          BY <4>1, <4>2 DEF Ahead
      <3>3. Place(R, S, k) = k - 1
        <4>1. Cardinality(1..(k - 1)) = k - 1
          <5>1. 1 \in Int /\ k - 1 \in Int /\ (1 > k - 1 => k - 1 = 0) /\ (k - 1) - 1 + 1 = k - 1
            BY <1>2
          <5> QED
            BY <5>1, FS_Interval
        <4> QED
          BY <3>2, <4>1 DEF Place
      <3>4. Place(R, S, pick(k)) = Place(R, S, k) /\ pick(k) \in S
        BY <1>8, <3>3
      <3>5. pick(k) < k => Place(R, S, pick(k)) < Place(R, S, k)
        BY <1>2, <1>4, <1>5, <3>1, <3>4, Places
      <3>6. k < pick(k) => Place(R, S, k) < Place(R, S, pick(k))
        BY <1>2, <1>4, <1>5, <3>1, <3>4, Places
      <3>7. pick(k) \in Nat
        BY <1>2, <3>4
      <3>8. Place(R, S, k) \in Int
        BY <3>1, <3>3
      <3> QED
        BY <3>1, <3>4, <3>5, <3>6, <3>7, <3>8
    <2>3. \A k \in 1..Len(plan) : plan[k] = rs[k]
      BY <1>9, <1>10, <2>2
    <2> HIDE DEF n
    <2> QED
      BY <1>10, <2>1, <2>3, SeqEqual DEF Recorded
  <1> QED
    BY <1>10, <1>12, <1>13, <1>14, <1>t DEF Recorded, plan

-----------------------------------------------------------------------------
(* The invariant. *)

FieldNames ==
  {"text", "rich", "items", "queue", "sent", "batch", "applied", "plan", "busy", "typed", "batches",
   "answers", "fresh", "wanted", "clean", "before", "touched", "raced", "missed", "mine", "last"}

\* What has still to be applied is in front of what was; the edit the page was asked for,
\* too.
SentOK(f) ==
  f.sent = <<>> \/ \E e : /\ f.sent = <<e>> /\ Suggested(e) /\ AheadOf(e, f.batch)
                          /\ \A i \in 1..Len(f.queue) : f.queue[i].end <= e.start
ListsOK(f) ==
  /\ DOMAIN f = FieldNames /\ f.text \in Seq(Edit!Tokens) /\ f.before \in Seq(Edit!Tokens)
  /\ Suggestions(f.items) /\ Queued(f.queue)
  /\ Recorded(f.batch) /\ Recorded(f.applied) /\ Recorded(f.plan)
  /\ \A i \in 1..Len(f.queue) : AheadOf(f.queue[i], f.batch)
  /\ SentOK(f)

\* What goes on, and what was done last.
PhaseOK(f) ==
  /\ f.busy \in {"no", "applying", "undoing"} /\ f.last \in {"none", "applied", "undone"}
  /\ f.sent # <<>> => f.rich
  /\ f.busy # "applying" => f.sent = <<>> /\ f.batch = <<>>
  /\ f.busy = "undoing" \/ f.last = "undone" => f.applied = <<>>
  /\ f.last = "undone" => f.busy = "no"
CountsOK(f) ==
  f.typed \in 0..MaxTyped /\ f.batches \in 0..MaxBatches /\ f.answers \in 0..MaxAnswers

\* Where a plan will put something back, nothing is the user's.
Clear(text, r) == \A p \in (r.start + 1)..r.end : p <= Len(text) => text[p] # "mine"
MineOK(f) ==
  ~f.rich /\ ~f.raced =>
    /\ Cardinality(Mine(f.text)) = f.mine
    /\ f.busy = "undoing" => \A k \in 1..Len(f.plan) : Clear(f.text, f.plan[k])

\* The edits the text is made by: those undo has not taken back, those recorded by now,
\* or those of the batch before.
Done(f) ==
  IF f.busy = "undoing" THEN f.plan
  ELSE IF f.batch # <<>> \/ f.sent # <<>> THEN f.batch ELSE f.applied
BackOK(f) ==
  ~f.touched /\ ~f.missed =>
    /\ Comes(f.before, f.text, Done(f))
    /\ f.sent # <<>> => Fits(f.text, f.sent[1])

EditsInv(f) == ListsOK(f) /\ PhaseOK(f) /\ CountsOK(f) /\ MineOK(f) /\ BackOK(f)

Bounds == MaxLength \in Nat /\ MaxTyped \in Nat /\ MaxBatches \in Nat /\ MaxAnswers \in Nat

\* Nothing recorded, and nothing to do.
LEMMA NoneRecorded ==
  /\ Recorded(<<>>) /\ Queued(<<>>) /\ Len(<<>>) = 0
  /\ \A e : AheadOf(e, <<>>)
  <1>1. \A S : <<>> \in Seq(S) /\ Len(<<>>) = 0
    BY EmptySeq
  <1>2. 1..0 = {}
    OBVIOUS
  <1> QED
    BY <1>1, <1>2 DEF Recorded, Falling, Queued, AheadOf

\* Answers are of suggestions that are apart.
LEMMA AnswersAre ==
  ASSUME NEW text \in Seq(Edit!Tokens), NEW items \in Edit!Answers(text)
  PROVE  Suggestions(items)
  <1>1. PICK by \in [Edit!Bad(text) -> Edit!Replacements], gaps \in {{}} \cup {{i} : i \in Edit!Gaps(text)} :
          items = Edit!Items(text, by, gaps)
    BY DEF Edit!Answers
  <1>2. /\ Len(text) \in Nat /\ DOMAIN text = 1..Len(text) /\ gaps \in SUBSET Edit!Gaps(text)
        /\ Edit!Gaps(text) \in SUBSET (0..Len(text)) /\ Edit!Bad(text) \in SUBSET (1..Len(text))
    BY LenProperties DEF Edit!Gaps, Edit!Bad
  <1>3. ASSUME NEW x \in items
        PROVE  \/ \E i \in Edit!Bad(text) : x = Edit!Item(text, i - 1, i, by[i])
               \/ \E i \in Edit!Gaps(text) : x = Edit!Item(text, i, i, <<"good">>)
    BY <1>1, <1>2 DEF Edit!Items
  <1>4. ASSUME NEW i \in Edit!Bad(text), NEW x, x = Edit!Item(text, i - 1, i, by[i])
        PROVE  Suggested(x) /\ x.start = i - 1 /\ x.end = i
    <2>1. i \in 1..Len(text) /\ text[i] = "bad" /\ i - 1 \in Nat /\ i \in Nat /\ i - 1 <= i /\ i <= Len(text)
      BY <1>2 DEF Edit!Bad
    <2>2. x.start = i - 1 /\ x.end = i /\ x.original = Edit!Slice(text, i - 1, i) /\ x.replacement = by[i]
      BY <1>4 DEF Edit!Item
    <2> DEFINE s == Edit!Slice(text, i - 1, i)
    <2>3. s \in Seq(Edit!Tokens) /\ Len(s) = i - (i - 1) /\ \A d \in 1..(i - (i - 1)) : s[d] = text[(i - 1) + d]
      BY <2>1, SliceIs
    <2> HIDE DEF s
    <2>4. Len(s) = 1 /\ s[1] = "bad"
      <3>1. i - (i - 1) = 1 /\ 1 \in 1..1 /\ (i - 1) + 1 = i
        BY <2>1
      <3> QED
        BY <2>1, <2>3, <3>1
    <2>5. s \in Seq(Given)
      <3>1. s \in [1..1 -> Edit!Tokens] /\ \A d \in 1..1 : s[d] \in Given
        BY <2>3, <2>4, LenProperties DEF Given
      <3>2. s \in [1..1 -> Given]
        BY <3>1
      <3> QED
        BY <3>2, SeqDef
    <2>6. by[i] \in Seq(Given)
      <3>1. by[i] \in Edit!Replacements
        OBVIOUS
      <3>2. <<>> \in Seq(Given) /\ <<"good", "good">> \in Seq(Given)
        BY DEF Given
      <3> QED
        BY <3>1, <3>2 DEF Edit!Replacements
    <2>7. x.original = s /\ Len(s) = x.end - x.start
      BY <2>1, <2>2, <2>4 DEF s
    <2> QED
      BY <2>1, <2>2, <2>5, <2>6, <2>7 DEF Suggested
  <1>5. ASSUME NEW i \in Edit!Gaps(text), NEW x, x = Edit!Item(text, i, i, <<"good">>)
        PROVE  Suggested(x) /\ x.start = i /\ x.end = i
    <2>1. i \in Nat /\ i <= Len(text)
      BY <1>2
    <2>2. x.start = i /\ x.end = i /\ x.original = Edit!Slice(text, i, i) /\ x.replacement = <<"good">>
      BY <1>5 DEF Edit!Item
    <2> DEFINE s == Edit!Slice(text, i, i)
    <2>3. s \in Seq(Edit!Tokens) /\ Len(s) = i - i
      <3>1. i <= i
        BY <2>1
      <3> QED
        BY <2>1, <3>1, SliceIs
    <2> HIDE DEF s
    <2>4. s = <<>> /\ Len(s) = 0
      <3>1. Len(s) = 0
        BY <2>1, <2>3
      <3> QED
        BY <2>3, <3>1, EmptySeq
    <2>5. <<>> \in Seq(Given) /\ <<"good">> \in Seq(Given)
      BY DEF Given
    <2> QED
      BY <2>1, <2>2, <2>4, <2>5 DEF Suggested, s
  <1>6. ASSUME NEW x \in items
        PROVE  Suggested(x) /\ x.start \in 0..Len(text) /\ x.end \in 0..Len(text)
    <2>1. CASE \E i \in Edit!Bad(text) : x = Edit!Item(text, i - 1, i, by[i])
      <3>1. PICK i \in Edit!Bad(text) : x = Edit!Item(text, i - 1, i, by[i])
        BY <2>1
      <3>2. i \in 1..Len(text) /\ i - 1 \in 0..Len(text) /\ i \in 0..Len(text)
        BY <1>2
      <3> QED
        BY <1>4, <3>1, <3>2
    <2>2. CASE \E i \in Edit!Gaps(text) : x = Edit!Item(text, i, i, <<"good">>)
      BY <1>2, <1>5, <2>2
    <2> QED
      BY <1>3, <2>1, <2>2
  <1>7. ASSUME NEW x \in items, NEW y \in items, x # y
        PROVE  (x.start < y.start /\ x.end <= y.start) \/ (y.start < x.start /\ y.end <= x.start)
    <2>1. CASE \E i, j \in Edit!Bad(text) : x = Edit!Item(text, i - 1, i, by[i]) /\ y = Edit!Item(text, j - 1, j, by[j])
      <3>1. PICK i \in Edit!Bad(text), j \in Edit!Bad(text) :
              x = Edit!Item(text, i - 1, i, by[i]) /\ y = Edit!Item(text, j - 1, j, by[j])
        BY <2>1
      <3>2. i # j /\ i \in Nat /\ j \in Nat
        BY <1>2, <1>7, <3>1
      <3>3. x.start = i - 1 /\ x.end = i /\ y.start = j - 1 /\ y.end = j
        BY <1>4, <3>1
      <3> QED
        BY <3>2, <3>3
    <2>2. ASSUME NEW i \in Edit!Bad(text), NEW j \in Edit!Gaps(text)
          PROVE  i \in Nat /\ j \in Nat /\ j # i /\ j + 1 # i
      BY <1>2 DEF Edit!Gaps
    <2>3. CASE \E i \in Edit!Bad(text), j \in Edit!Gaps(text) :
                 x = Edit!Item(text, i - 1, i, by[i]) /\ y = Edit!Item(text, j, j, <<"good">>)
      <3>1. PICK i \in Edit!Bad(text), j \in Edit!Gaps(text) :
              x = Edit!Item(text, i - 1, i, by[i]) /\ y = Edit!Item(text, j, j, <<"good">>)
        BY <2>3
      <3>2. x.start = i - 1 /\ x.end = i /\ y.start = j /\ y.end = j
        BY <1>4, <1>5, <3>1
      <3> QED
        BY <2>2, <3>2
    <2>4. CASE \E i \in Edit!Bad(text), j \in Edit!Gaps(text) :
                 y = Edit!Item(text, i - 1, i, by[i]) /\ x = Edit!Item(text, j, j, <<"good">>)
      <3>1. PICK i \in Edit!Bad(text), j \in Edit!Gaps(text) :
              y = Edit!Item(text, i - 1, i, by[i]) /\ x = Edit!Item(text, j, j, <<"good">>)
        BY <2>4
      <3>2. y.start = i - 1 /\ y.end = i /\ x.start = j /\ x.end = j
        BY <1>4, <1>5, <3>1
      <3> QED
        BY <2>2, <3>2
    <2>5. CASE \E i, j \in gaps : x = Edit!Item(text, i, i, <<"good">>) /\ y = Edit!Item(text, j, j, <<"good">>)
      <3>1. \A i, j \in gaps : i = j
        BY <1>1
      <3> QED
        BY <1>7, <2>5, <3>1
    <2>6. ASSUME NEW z \in items
          PROVE  \/ \E i \in Edit!Bad(text) : z = Edit!Item(text, i - 1, i, by[i])
                 \/ \E i \in gaps : z = Edit!Item(text, i, i, <<"good">>)
      BY <1>1 DEF Edit!Items
    <2> QED
      BY <1>2, <2>1, <2>3, <2>4, <2>5, <2>6
  <1>8. IsFiniteSet(items)
    <2> DEFINE f == [x \in items |-> x.start]
               T == 0..Len(text)
    <2>1. IsFiniteSet(T)
      <3>1. 0 \in Int /\ Len(text) \in Int
        BY <1>2
      <3> QED
        BY <3>1, FS_Interval
    <2>2. f \in [items -> T]
      BY <1>6
    <2>3. ASSUME NEW x \in items, NEW y \in items, f[x] = f[y] PROVE x = y
      <3>1. x.start = y.start /\ x.start \in Nat /\ y.start \in Nat
        BY <1>2, <1>6, <2>3
      <3> QED
        BY <1>7, <3>1
    <2> HIDE DEF f, T
    <2>5. DOMAIN f = items
      BY <2>2
    <2>4. f \in Injection(items, T)
      BY <2>2, <2>3, <2>5 DEF Injection, IsInjective
    <2> QED
      BY <2>1, <2>4, FS_Injection
  <1> QED
    BY <1>6, <1>7, <1>8 DEF Suggestions

\* At first nothing was done.
LEMMA InitKeeps == Bounds /\ Edit!Init => EditsInv(field)
  <1> SUFFICES ASSUME Bounds, Edit!Init PROVE EditsInv(field)
    OBVIOUS
  <1>1. PICK n \in 1..MaxLength, rich \in BOOLEAN :
          \E text \in [1..n -> {"bad", "good"}] : \E items \in Edit!Answers(text) :
            field = [text |-> text, rich |-> rich, items |-> items, queue |-> <<>>, sent |-> <<>>,
                     batch |-> <<>>, applied |-> <<>>, plan |-> <<>>, busy |-> "no", typed |-> 0,
                     batches |-> 0, answers |-> 0, fresh |-> TRUE, wanted |-> <<>>, clean |-> FALSE,
                     before |-> text, touched |-> FALSE, raced |-> FALSE, missed |-> FALSE,
                     mine |-> 0, last |-> "none"]
    BY Zenon DEF Edit!Init
  <1>11. PICK text \in [1..n -> {"bad", "good"}] : \E items \in Edit!Answers(text) :
            field = [text |-> text, rich |-> rich, items |-> items, queue |-> <<>>, sent |-> <<>>,
                     batch |-> <<>>, applied |-> <<>>, plan |-> <<>>, busy |-> "no", typed |-> 0,
                     batches |-> 0, answers |-> 0, fresh |-> TRUE, wanted |-> <<>>, clean |-> FALSE,
                     before |-> text, touched |-> FALSE, raced |-> FALSE, missed |-> FALSE,
                     mine |-> 0, last |-> "none"]
    BY <1>1, Zenon
  <1>2. PICK items \in Edit!Answers(text) :
            field = [text |-> text, rich |-> rich, items |-> items, queue |-> <<>>, sent |-> <<>>,
                     batch |-> <<>>, applied |-> <<>>, plan |-> <<>>, busy |-> "no", typed |-> 0,
                     batches |-> 0, answers |-> 0, fresh |-> TRUE, wanted |-> <<>>, clean |-> FALSE,
                     before |-> text, touched |-> FALSE, raced |-> FALSE, missed |-> FALSE,
                     mine |-> 0, last |-> "none"]
    BY <1>11, Zenon
  <1>3. n \in Nat
    BY DEF Bounds
  <1>4. text \in Seq(Edit!Tokens) /\ Mine(text) = {}
    <2>1. text \in [1..n -> Edit!Tokens] /\ DOMAIN text = 1..n /\ \A i \in 1..n : text[i] # "mine"
      BY DEF Edit!Tokens
    <2> QED
      BY <1>3, <2>1, SeqDef DEF Mine
  <1>5. /\ DOMAIN field = FieldNames /\ field.text = text /\ field.before = text
        /\ field.items = items /\ field.queue = <<>> /\ field.sent = <<>> /\ field.batch = <<>>
        /\ field.applied = <<>> /\ field.plan = <<>> /\ field.busy = "no" /\ field.last = "none"
        /\ field.typed = 0 /\ field.batches = 0 /\ field.answers = 0 /\ field.mine = 0
    BY <1>2 DEF FieldNames
  <1>6. ListsOK(field)
    <2>1. Suggestions(items)
      BY <1>4, AnswersAre
    <2> QED
      BY <1>4, <1>5, <2>1, NoneRecorded DEF ListsOK, SentOK
  <1>7. PhaseOK(field)
    BY <1>5 DEF PhaseOK
  <1>8. CountsOK(field)
    BY <1>5 DEF CountsOK, Bounds
  <1>9. MineOK(field)
    <2>1. Cardinality({}) = 0
      BY FS_EmptySet
    <2> QED
      BY <1>4, <1>5, <2>1 DEF MineOK
  <1>10. BackOK(field)
    <2>1. Comes(text, text, <<>>)
      BY <1>4, ComesOfNone
    <2>2. Done(field) = <<>>
      BY <1>5 DEF Done
    <2> QED
      BY <1>5, <2>1, <2>2 DEF BackOK
  <1> QED
    BY <1>6, <1>7, <1>8, <1>9, <1>10 DEF EditsInv


-----------------------------------------------------------------------------
(* What the steps are made of. *)

\* A span that is still its own has what it had.
LEMMA SpanFits ==
  ASSUME NEW text \in Seq(Edit!Tokens), NEW e, Suggested(e), Edit!SpanStillValid(text, e)
  PROVE  Fits(text, e)
  <1>1. /\ e.start \in Nat /\ e.end \in Nat /\ e.start <= e.end /\ e.end <= Len(text)
        /\ Edit!Slice(text, e.start, e.end) = e.original /\ Len(e.original) = e.end - e.start
    BY DEF Suggested, Edit!SpanStillValid
  <1>2. \A d \in 1..(e.end - e.start) : Edit!Slice(text, e.start, e.end)[d] = text[e.start + d]
    BY <1>1, SliceIs
  <1> QED
    BY <1>1, <1>2 DEF Fits

\* Nothing of the user's is lost where nothing of the span is.
LEMMA NothingLost ==
  ASSUME NEW text \in Seq(Edit!Tokens), NEW u, NEW by \in Seq(Given), NEW start \in Nat, NEW end \in Nat,
         start <= end, end <= Len(text), Spliced(u, text, start, end, by),
         \A p \in (start + 1)..end : text[p] # "mine"
  PROVE  Cardinality(Mine(u)) = Cardinality(Mine(text))
  <1> DEFINE lost == {i \in Mine(text) : start < i /\ i <= end}
  <1>1. by \in Seq(Edit!Tokens) /\ Len(by) \in Nat
    BY GivenIsText
  <1>2. lost = {}
    <2>1. ASSUME NEW i \in Mine(text), start < i, i <= end PROVE FALSE
      <3>1. i \in Nat /\ text[i] = "mine"
        BY MineIs, LenProperties DEF Mine
      <3>2. i \in (start + 1)..end
        BY <2>1, <3>1
      <3> QED
        BY <3>1, <3>2
    <2> QED
      BY <2>1
  <1>3. Mine(by) = {}
    <2>1. DOMAIN by = 1..Len(by) /\ \A i \in 1..Len(by) : by[i] \in Given
      BY LenProperties, ElementOfSeq
    <2> QED
      BY <2>1 DEF Mine, Given
  <1>4. /\ Cardinality(Mine(u)) + Cardinality(lost) = Cardinality(Mine(text)) + Cardinality(Mine(by))
        /\ Cardinality(Mine(text)) \in Nat /\ Cardinality(Mine(u)) \in Nat
    <2>1. LET some == {i \in Mine(text) : start < i /\ i <= end} IN
          /\ Cardinality(Mine(u)) + Cardinality(some) = Cardinality(Mine(text)) + Cardinality(Mine(by))
          /\ Cardinality(some) \in Nat /\ Cardinality(Mine(by)) \in Nat
          /\ Cardinality(Mine(text)) \in Nat /\ Cardinality(Mine(u)) \in Nat
      BY <1>1, MineSplice, Zenon
    <2> QED
      BY <2>1
  <1>5. Cardinality({}) = 0
    BY FS_EmptySet
  <1> HIDE DEF lost
  <1> QED
    BY <1>2, <1>3, <1>4, <1>5

\* What is in front of an edit is in front of the record of it.
LEMMA StillAhead ==
  ASSUME NEW rs, Recorded(rs), NEW e, Suggested(e), AheadOf(e, rs),
         NEW x, x.end \in Nat, x.end <= e.start
  PROVE  AheadOf(x, Edit!AppendInverse(rs, e))
  <1> DEFINE n == Len(rs)
             k == Len(e.replacement)
             delta == k - (e.end - e.start)
             rs2 == Edit!AppendInverse(rs, e)
  <1>1. /\ n \in Nat /\ Len(rs2) = n + 1
        /\ \A i \in 1..n : rs2[i].start = rs[i].start + delta
        /\ rs2[n + 1].start = e.start
    BY AppendInverseIs
  <1>2. e.start \in Nat /\ e.end \in Nat /\ e.start <= e.end /\ k \in Nat
    BY GivenIsText DEF Suggested
  <1>3. \A i \in 1..n : rs[i].start \in Nat /\ e.end <= rs[i].start
    BY RecordIs DEF AheadOf
  <1> HIDE DEF n, k, rs2
  <1>4. ASSUME NEW i \in 1..Len(rs2) PROVE x.end <= rs2[i].start
    <2>1. CASE i = n + 1
      BY <1>1, <2>1
    <2>2. CASE i # n + 1
      <3>1. i \in 1..n
        BY <1>1, <2>2
      <3>2. rs2[i].start = rs[i].start + (k - (e.end - e.start)) /\ rs[i].start \in Nat /\ e.end <= rs[i].start
        BY <1>1, <1>3, <3>1
      <3> QED
        BY <1>2, <3>2
    <2> QED
      BY <2>1, <2>2
  <1> QED
    BY <1>4 DEF AheadOf, rs2

\* What is queued, but for the first.
LEMMA QueuedTail ==
  ASSUME NEW q, Queued(q), q # <<>>
  PROVE  /\ Len(q) \in Nat /\ Len(q) > 0 /\ Suggested(Head(q)) /\ Head(q) = q[1]
         /\ Queued(Tail(q)) /\ Len(Tail(q)) = Len(q) - 1
         /\ \A i \in 1..Len(Tail(q)) : /\ i + 1 \in 1..Len(q) /\ Tail(q)[i] = q[i + 1]
                                       /\ Tail(q)[i].end <= Head(q).start
  <1>1. PICK S : q \in Seq(S)
    BY DEF Queued
  <1>2. Len(q) \in Nat /\ Len(q) > 0
    BY <1>1, EmptySeq, LenProperties
  <1>3. Head(q) = q[1] /\ Tail(q) \in Seq(S) /\ Len(Tail(q)) = Len(q) - 1
        /\ \A i \in 1..(Len(q) - 1) : Tail(q)[i] = q[i + 1]
    BY <1>1, HeadTailProperties
  <1>4. ASSUME NEW i \in 1..Len(Tail(q))
        PROVE  i + 1 \in 1..Len(q) /\ Tail(q)[i] = q[i + 1] /\ q[i + 1].end <= q[1].start
    <2>1. i \in 1..(Len(q) - 1) /\ i + 1 \in 1..Len(q) /\ 1 \in 1..Len(q) /\ 1 < i + 1
      BY <1>2, <1>3
    <2> QED
      BY <1>3, <2>1 DEF Queued
  <1>5. Suggested(q[1])
    <2>1. 1 \in 1..Len(q)
      BY <1>2
    <2> QED
      BY <2>1 DEF Queued
  <1>6. Queued(Tail(q))
    <2>1. \A i \in 1..Len(Tail(q)) : Suggested(Tail(q)[i])
      BY <1>4 DEF Queued
    <2>2. ASSUME NEW i \in 1..Len(Tail(q)), NEW j \in 1..Len(Tail(q)), i < j
          PROVE  Tail(q)[j].end <= Tail(q)[i].start
      <3>1. i + 1 \in 1..Len(q) /\ j + 1 \in 1..Len(q) /\ i + 1 < j + 1
        BY <1>2, <1>3, <1>4, <2>2
      <3> QED
        BY <1>4, <3>1 DEF Queued
    <2> QED
      BY <1>3, <2>1, <2>2 DEF Queued
  <1> QED
    BY <1>2, <1>3, <1>4, <1>5, <1>6

\* What is recorded, but for the first.
LEMMA RecordedTail ==
  ASSUME NEW rs, Recorded(rs), rs # <<>>
  PROVE  /\ Len(rs) \in Nat /\ 1 \in 1..Len(rs) /\ Head(rs) = rs[1]
         /\ Recorded(Tail(rs)) /\ Len(Tail(rs)) = Len(rs) - 1
         /\ \A i \in 1..Len(Tail(rs)) : /\ i + 1 \in 1..Len(rs) /\ Tail(rs)[i] = rs[i + 1]
                                        /\ Tail(rs)[i].end <= rs[1].start
  <1>1. rs \in Seq(Records) /\ Falling(rs)
    BY DEF Recorded
  <1>2. Len(rs) \in Nat /\ 1 \in 1..Len(rs)
    BY <1>1, EmptySeq, LenProperties
  <1>3. Head(rs) = rs[1] /\ Tail(rs) \in Seq(Records) /\ Len(Tail(rs)) = Len(rs) - 1
        /\ \A i \in 1..(Len(rs) - 1) : Tail(rs)[i] = rs[i + 1]
    BY <1>1, HeadTailProperties
  <1>4. ASSUME NEW i \in 1..Len(Tail(rs))
        PROVE  i + 1 \in 1..Len(rs) /\ Tail(rs)[i] = rs[i + 1] /\ rs[i + 1].end <= rs[1].start
    <2>1. i \in 1..(Len(rs) - 1) /\ i + 1 \in 1..Len(rs) /\ 1 < i + 1
      BY <1>2, <1>3
    <2> QED
      BY <1>1, <1>2, <1>3, <2>1 DEF Falling
  <1>5. Falling(Tail(rs))
    <2>1. ASSUME NEW i \in 1..Len(Tail(rs)), NEW j \in 1..Len(Tail(rs)), i < j
          PROVE  Tail(rs)[j].end <= Tail(rs)[i].start
      <3>1. i + 1 \in 1..Len(rs) /\ j + 1 \in 1..Len(rs) /\ i + 1 < j + 1
        BY <1>2, <1>3, <1>4, <2>1
      <3> QED
        BY <1>1, <1>4, <3>1 DEF Falling
    <2> QED
      BY <2>1 DEF Falling
  <1> QED
    BY <1>2, <1>3, <1>4, <1>5 DEF Recorded

-----------------------------------------------------------------------------
(* The user, and the checks. *)

\* What is typed is counted, and ends the histories.
LEMMA TypedKeeps ==
  ASSUME Bounds, EditsInv(field), field.typed < MaxTyped, NEW text \in Seq(Edit!Tokens), NEW mine,
         Cardinality(Mine(field.text)) = field.mine => Cardinality(Mine(text)) = mine,
         Edit!Typed(text, mine)
  PROVE  EditsInv(field')
  <1> DEFINE n == field.typed + 1
             raced == field.raced \/ field.busy = "undoing"
  <1>1. field' = [field EXCEPT !.text = text, !.mine = mine, !.typed = n, !.fresh = FALSE,
                               !.clean = FALSE, !.touched = TRUE, !.raced = raced,
                               !.last = "none", !.wanted = <<>>]
    BY Zenon DEF Edit!Typed
  <1>2. n \in 0..MaxTyped
    BY DEF EditsInv, CountsOK, Bounds
  <1> HIDE DEF n, raced
  <1>3. /\ DOMAIN field' = FieldNames /\ field'.text = text /\ (field'.rich <=> field.rich)
        /\ field'.items = field.items /\ field'.queue = field.queue /\ field'.sent = field.sent
        /\ field'.batch = field.batch /\ field'.applied = field.applied /\ field'.plan = field.plan
        /\ field'.busy = field.busy /\ field'.typed = n /\ field'.batches = field.batches
        /\ field'.answers = field.answers /\ field'.before = field.before
        /\ (field'.touched <=> TRUE) /\ (field'.raced <=> raced) /\ (field'.missed <=> field.missed)
        /\ field'.mine = mine /\ field'.last = "none"
    BY <1>1 DEF EditsInv, ListsOK, FieldNames
  <1>4. ListsOK(field')
    BY <1>3 DEF EditsInv, ListsOK, SentOK
  <1>5. PhaseOK(field')
    BY <1>3 DEF EditsInv, PhaseOK
  <1>6. CountsOK(field')
    BY <1>2, <1>3 DEF EditsInv, CountsOK
  <1>7. MineOK(field')
    BY <1>3 DEF EditsInv, MineOK, raced
  <1>8. BackOK(field')
    BY <1>3 DEF BackOK
  <1> QED
    BY <1>4, <1>5, <1>6, <1>7, <1>8 DEF EditsInv

\* A token put in is one more of the user's; one taken out may be one less.
LEMMA TypeKeeps == Bounds /\ EditsInv(field) /\ Edit!Type => EditsInv(field')
  <1> SUFFICES ASSUME Bounds, EditsInv(field), Edit!Type PROVE EditsInv(field')
    OBVIOUS
  <1> DEFINE t == field.text
  <1>1. t \in Seq(Edit!Tokens) /\ Len(t) \in Nat /\ DOMAIN t = 1..Len(t) /\ field.typed < MaxTyped
    BY LenProperties DEF EditsInv, ListsOK, Edit!Type
  <1>2. ASSUME NEW i \in 0..Len(t),
               Edit!Typed(Edit!Replace(t, [start |-> i, end |-> i], <<"mine">>), field.mine + 1)
        PROVE  EditsInv(field')
    <2> DEFINE u == Edit!Replace(t, [start |-> i, end |-> i], <<"mine">>)
    <2>1. i \in Nat /\ i <= i /\ i <= Len(t) /\ <<"mine">> \in Seq(Edit!Tokens)
      BY <1>1 DEF Edit!Tokens
    <2>2. Spliced(u, t, i, i, <<"mine">>)
      <3> DEFINE span == [start |-> i, end |-> i]
      <3>1. span.start = i /\ span.end = i
        OBVIOUS
      <3> HIDE DEF span
      <3>2. Spliced(Edit!Replace(t, span, <<"mine">>), t, span.start, span.end, <<"mine">>)
        BY <1>1, <2>1, <3>1, ReplaceSplices
      <3> QED
        BY <3>1, <3>2 DEF span
    <2>3. u \in Seq(Edit!Tokens)
      BY <2>2 DEF Spliced
    <2> HIDE DEF u
    <2>4. Cardinality(Mine(u)) = Cardinality(Mine(t)) + 1
      <3> DEFINE lost == {j \in Mine(t) : i < j /\ j <= i}
      <3>1. lost = {}
        <4>1. \A j \in Mine(t) : j \in Nat
          BY <1>1, MineIs
        <4> QED
          BY <2>1, <4>1
      <3>2. Mine(<<"mine">>) = {1}
        BY DEF Mine
      <3>3. Cardinality({}) = 0 /\ Cardinality({1}) = 1
        BY FS_EmptySet, FS_Singleton
      <3>4. LET some == {j \in Mine(t) : i < j /\ j <= i} IN
            /\ Cardinality(Mine(u)) + Cardinality(some) = Cardinality(Mine(t)) + Cardinality(Mine(<<"mine">>))
            /\ Cardinality(some) \in Nat /\ Cardinality(Mine(<<"mine">>)) \in Nat
            /\ Cardinality(Mine(t)) \in Nat /\ Cardinality(Mine(u)) \in Nat
        BY <1>1, <2>1, <2>2, MineSplice, Zenon
      <3>5. /\ Cardinality(Mine(u)) + Cardinality(lost) = Cardinality(Mine(t)) + Cardinality(Mine(<<"mine">>))
            /\ Cardinality(Mine(t)) \in Nat /\ Cardinality(Mine(u)) \in Nat
        BY <3>4
      <3> HIDE DEF lost
      <3>6. Cardinality(lost) = 0 /\ Cardinality(Mine(<<"mine">>)) = 1
        BY <3>1, <3>2, <3>3, Zenon
      <3> QED
        BY <3>5, <3>6
    <2>5. Edit!Typed(u, field.mine + 1)
      BY <1>2 DEF u
    <2> QED
      BY <1>1, <2>3, <2>4, <2>5, TypedKeeps
  <1>3. ASSUME NEW i \in DOMAIN t,
               Edit!Typed(Edit!Replace(t, [start |-> i - 1, end |-> i], <<>>),
                     IF t[i] = "mine" THEN field.mine - 1 ELSE field.mine)
        PROVE  EditsInv(field')
    <2> DEFINE u == Edit!Replace(t, [start |-> i - 1, end |-> i], <<>>)
               mine == IF t[i] = "mine" THEN field.mine - 1 ELSE field.mine
    <2>1. i \in 1..Len(t) /\ i \in Nat /\ i - 1 \in Nat /\ i - 1 <= i /\ i <= Len(t)
      BY <1>1
    <2>2. <<>> \in Seq(Edit!Tokens)
      BY EmptySeq
    <2>3. Spliced(u, t, i - 1, i, <<>>)
      <3> DEFINE span == [start |-> i - 1, end |-> i]
      <3>1. span.start = i - 1 /\ span.end = i
        OBVIOUS
      <3> HIDE DEF span
      <3>2. Spliced(Edit!Replace(t, span, <<>>), t, span.start, span.end, <<>>)
        BY <1>1, <2>1, <2>2, <3>1, ReplaceSplices
      <3> QED
        BY <3>1, <3>2 DEF span
    <2>4. u \in Seq(Edit!Tokens)
      BY <2>3 DEF Spliced
    <2> HIDE DEF u
    <2>5. Cardinality(Mine(u)) = Cardinality(Mine(t)) - (IF t[i] = "mine" THEN 1 ELSE 0)
      <3> DEFINE lost == {j \in Mine(t) : i - 1 < j /\ j <= i}
      <3>1. lost = IF t[i] = "mine" THEN {i} ELSE {}
        <4>1. \A j \in Mine(t) : j \in Nat /\ t[j] = "mine"
          BY <1>1, MineIs DEF Mine
        <4>2. \A j \in lost : j = i
          BY <2>1, <4>1
        <4>3. t[i] = "mine" => i \in lost
          BY <1>1, <2>1 DEF Mine
        <4> QED
          BY <4>1, <4>2, <4>3
      <3>2. Mine(<<>>) = {}
        BY DEF Mine
      <3>3. Cardinality({}) = 0 /\ Cardinality({i}) = 1
        BY FS_EmptySet, FS_Singleton
      <3>4. LET some == {j \in Mine(t) : i - 1 < j /\ j <= i} IN
            /\ Cardinality(Mine(u)) + Cardinality(some) = Cardinality(Mine(t)) + Cardinality(Mine(<<>>))
            /\ Cardinality(some) \in Nat /\ Cardinality(Mine(<<>>)) \in Nat
            /\ Cardinality(Mine(t)) \in Nat /\ Cardinality(Mine(u)) \in Nat
        BY <1>1, <2>1, <2>2, <2>3, MineSplice, Zenon
      <3>5. /\ Cardinality(Mine(u)) + Cardinality(lost) = Cardinality(Mine(t)) + Cardinality(Mine(<<>>))
            /\ Cardinality(Mine(t)) \in Nat /\ Cardinality(Mine(u)) \in Nat
        BY <3>4
      <3> HIDE DEF lost
      <3>6. Cardinality(lost) = (IF t[i] = "mine" THEN 1 ELSE 0) /\ Cardinality(Mine(<<>>)) = 0
        BY <3>1, <3>2, <3>3, Zenon
      <3> QED
        BY <3>5, <3>6
    <2>6. Edit!Typed(u, mine)
      BY <1>3 DEF u
    <2>7. Cardinality(Mine(t)) = field.mine => Cardinality(Mine(u)) = mine
      BY <1>1, <2>5, MineIs
    <2> HIDE DEF mine
    <2> QED
      BY <1>1, <2>4, <2>6, <2>7, TypedKeeps
  <1> HIDE DEF t
  <1>4. \/ \E i \in 0..Len(t) :
             Edit!Typed(Edit!Replace(t, [start |-> i, end |-> i], <<"mine">>), field.mine + 1)
        \/ \E i \in DOMAIN t :
             Edit!Typed(Edit!Replace(t, [start |-> i - 1, end |-> i], <<>>),
                   IF t[i] = "mine" THEN field.mine - 1 ELSE field.mine)
    BY Zenon DEF Edit!Type, t
  <1> QED
    BY <1>2, <1>3, <1>4, Zenon

\* An answer is of the text as it is.
LEMMA CheckedKeeps == Bounds /\ EditsInv(field) /\ Edit!Checked => EditsInv(field')
  <1> SUFFICES ASSUME Bounds, EditsInv(field), Edit!Checked PROVE EditsInv(field')
    OBVIOUS
  <1> DEFINE n == field.answers + 1
             wanted == IF field.busy = "no" THEN <<>> ELSE field.wanted
  <1>1. PICK items \in Edit!Answers(field.text) :
          field' = [field EXCEPT !.items = items, !.answers = n, !.fresh = TRUE, !.last = "none",
                                 !.wanted = wanted]
    BY Zenon DEF Edit!Checked
  <1>2. n \in 0..MaxAnswers
    BY DEF EditsInv, CountsOK, Bounds, Edit!Checked
  <1>3. Suggestions(items)
    BY AnswersAre DEF EditsInv, ListsOK
  <1> HIDE DEF n, wanted
  <1>4. /\ DOMAIN field' = FieldNames /\ field'.text = field.text /\ (field'.rich <=> field.rich)
        /\ field'.items = items /\ field'.queue = field.queue /\ field'.sent = field.sent
        /\ field'.batch = field.batch /\ field'.applied = field.applied /\ field'.plan = field.plan
        /\ field'.busy = field.busy /\ field'.typed = field.typed /\ field'.batches = field.batches
        /\ field'.answers = n /\ field'.before = field.before /\ (field'.touched <=> field.touched)
        /\ (field'.raced <=> field.raced) /\ (field'.missed <=> field.missed)
        /\ field'.mine = field.mine /\ field'.last = "none"
    BY <1>1 DEF EditsInv, ListsOK, FieldNames
  <1>5. ListsOK(field')
    BY <1>3, <1>4 DEF EditsInv, ListsOK, SentOK
  <1>6. PhaseOK(field')
    BY <1>4 DEF EditsInv, PhaseOK
  <1>7. CountsOK(field')
    BY <1>2, <1>4 DEF EditsInv, CountsOK
  <1>8. MineOK(field')
    BY <1>4 DEF EditsInv, MineOK
  <1>9. BackOK(field')
    BY <1>4 DEF EditsInv, BackOK, Done
  <1> QED
    BY <1>5, <1>6, <1>7, <1>8, <1>9 DEF EditsInv

-----------------------------------------------------------------------------
(* Applying. *)

\* A batch begins with nothing recorded.
LEMMA ApplyKeeps ==
  ASSUME Bounds, EditsInv(field), NEW items, Suggestions(items), Edit!Apply(items)
  PROVE  EditsInv(field')
  <1> DEFINE queue == Edit!LastToFirst(items)
             n == field.batches + 1
             fresh == field.fresh
             wanted == IF field.fresh THEN Edit!AllFixed(field.text, items) ELSE <<>>
  <1>1. field' = [field EXCEPT !.busy = "applying", !.queue = queue, !.batch = <<>>, !.batches = n,
                               !.clean = fresh, !.last = "none", !.wanted = wanted]
    BY Zenon DEF Edit!Apply
  <1>2. n \in 0..MaxBatches /\ field.busy = "no"
    BY DEF EditsInv, CountsOK, Bounds, Edit!Apply
  <1>3. Queued(queue)
    BY QueueFalls
  <1> HIDE DEF queue, n, fresh, wanted
  <1>4. /\ DOMAIN field' = FieldNames /\ field'.text = field.text /\ (field'.rich <=> field.rich)
        /\ field'.items = field.items /\ field'.queue = queue /\ field'.sent = field.sent
        /\ field'.batch = <<>> /\ field'.applied = field.applied /\ field'.plan = field.plan
        /\ field'.busy = "applying" /\ field'.typed = field.typed /\ field'.batches = n
        /\ field'.answers = field.answers /\ field'.before = field.before
        /\ (field'.touched <=> field.touched) /\ (field'.raced <=> field.raced)
        /\ (field'.missed <=> field.missed) /\ field'.mine = field.mine /\ field'.last = "none"
    BY <1>1 DEF EditsInv, ListsOK, FieldNames
  <1>5. field.sent = <<>> /\ field.batch = <<>>
    BY <1>2 DEF EditsInv, PhaseOK
  <1>6. ListsOK(field')
    BY <1>3, <1>4, <1>5, NoneRecorded DEF EditsInv, ListsOK, SentOK
  <1>7. PhaseOK(field')
    BY <1>4, <1>5 DEF EditsInv, PhaseOK
  <1>8. CountsOK(field')
    BY <1>2, <1>4 DEF EditsInv, CountsOK
  <1>9. MineOK(field')
    BY <1>4 DEF EditsInv, MineOK
  <1>10. BackOK(field')
    BY <1>2, <1>4, <1>5 DEF EditsInv, BackOK, Done
  <1> QED
    BY <1>6, <1>7, <1>8, <1>9, <1>10 DEF EditsInv

\* Any suggestions of an answer are.
LEMMA OneIsSuggested ==
  ASSUME NEW items, Suggestions(items), NEW item \in items
  PROVE  Suggestions({item})
  <1>1. IsFiniteSet({item})
    BY FS_Singleton
  <1> QED
    BY <1>1 DEF Suggestions

\* An edit made and recorded, or recorded only.
LEMMA EditedIs ==
  ASSUME NEW f, DOMAIN f = FieldNames, NEW e
  PROVE  /\ DOMAIN Edit!Edited(f, e) = FieldNames
         /\ Edit!Edited(f, e).text = (IF e.end <= Len(f.text) THEN Edit!Replace(f.text, e, e.replacement) ELSE f.text)
         /\ (Edit!Edited(f, e).rich <=> f.rich) /\ Edit!Edited(f, e).items = f.items
         /\ Edit!Edited(f, e).queue = f.queue /\ Edit!Edited(f, e).sent = f.sent
         /\ Edit!Edited(f, e).batch = Edit!AppendInverse(f.batch, e) /\ Edit!Edited(f, e).applied = f.applied
         /\ Edit!Edited(f, e).plan = f.plan /\ Edit!Edited(f, e).busy = f.busy /\ Edit!Edited(f, e).typed = f.typed
         /\ Edit!Edited(f, e).batches = f.batches /\ Edit!Edited(f, e).answers = f.answers
         /\ Edit!Edited(f, e).before = f.before /\ (Edit!Edited(f, e).touched <=> f.touched)
         /\ (Edit!Edited(f, e).raced <=> f.raced) /\ (Edit!Edited(f, e).missed <=> f.missed)
         /\ Edit!Edited(f, e).mine = f.mine /\ Edit!Edited(f, e).last = f.last
  <1> DEFINE text == IF e.end <= Len(f.text) THEN Edit!Replace(f.text, e, e.replacement) ELSE f.text
             soFar == Edit!AppendInverse(f.batch, e)
  <1>1. Edit!Edited(f, e) = [f EXCEPT !.text = text, !.batch = soFar, !.fresh = FALSE]
    BY Zenon DEF Edit!Edited
  <1> HIDE DEF text, soFar
  <1>2. /\ DOMAIN Edit!Edited(f, e) = FieldNames /\ Edit!Edited(f, e).text = text
        /\ (Edit!Edited(f, e).rich <=> f.rich) /\ Edit!Edited(f, e).items = f.items
        /\ Edit!Edited(f, e).queue = f.queue /\ Edit!Edited(f, e).sent = f.sent /\ Edit!Edited(f, e).batch = soFar
        /\ Edit!Edited(f, e).applied = f.applied /\ Edit!Edited(f, e).plan = f.plan
        /\ Edit!Edited(f, e).busy = f.busy /\ Edit!Edited(f, e).typed = f.typed
        /\ Edit!Edited(f, e).batches = f.batches /\ Edit!Edited(f, e).answers = f.answers
        /\ Edit!Edited(f, e).before = f.before /\ (Edit!Edited(f, e).touched <=> f.touched)
        /\ (Edit!Edited(f, e).raced <=> f.raced) /\ (Edit!Edited(f, e).missed <=> f.missed)
        /\ Edit!Edited(f, e).mine = f.mine /\ Edit!Edited(f, e).last = f.last
    BY <1>1 DEF FieldNames
  <1> QED
    BY <1>2 DEF text, soFar

RestOf(f) == [f EXCEPT !.queue = Tail(@)]
BegunOf(f) == IF f.batch # <<>> THEN f ELSE [f EXCEPT !.before = f.text, !.touched = FALSE]

\* The next edit, taken from the queue, and the batch it begins if it is the first.
LEMMA BegunIs ==
  ASSUME EditsInv(field), field.busy = "applying", field.queue # <<>>, field.sent = <<>>
  PROVE  LET rest == RestOf(field)
             f    == BegunOf(rest) IN
         /\ EditsInv(rest) /\ rest.text = field.text /\ (rest.rich <=> field.rich)
         /\ ListsOK(f) /\ PhaseOK(f) /\ CountsOK(f) /\ MineOK(f)
         /\ f.text = field.text /\ (f.rich <=> field.rich) /\ f.busy = "applying" /\ f.sent = <<>>
         /\ f.batch = field.batch /\ f.queue = Tail(field.queue)
         /\ ~f.touched /\ ~f.missed => Comes(f.before, f.text, f.batch)
  <1> DEFINE queue == Tail(field.queue)
             text == field.text
             rest == RestOf(field)
             f == BegunOf(rest)
  <1>1. /\ Queued(queue) /\ Len(queue) = Len(field.queue) - 1 /\ Len(field.queue) \in Nat
        /\ \A i \in 1..Len(queue) : i + 1 \in 1..Len(field.queue) /\ queue[i] = field.queue[i + 1]
    BY QueuedTail DEF EditsInv, ListsOK
  <1>2. text \in Seq(Edit!Tokens)
    BY DEF EditsInv, ListsOK
  <1> HIDE DEF queue, text
  <1>3. rest = [field EXCEPT !.queue = queue]
    BY Zenon DEF queue, RestOf
  <1> HIDE DEF rest
  <1>4. /\ DOMAIN rest = FieldNames /\ rest.text = text /\ (rest.rich <=> field.rich)
        /\ rest.items = field.items /\ rest.queue = queue /\ rest.sent = field.sent
        /\ rest.batch = field.batch /\ rest.applied = field.applied /\ rest.plan = field.plan
        /\ rest.busy = field.busy /\ rest.typed = field.typed /\ rest.batches = field.batches
        /\ rest.answers = field.answers /\ rest.before = field.before
        /\ (rest.touched <=> field.touched) /\ (rest.raced <=> field.raced)
        /\ (rest.missed <=> field.missed) /\ rest.mine = field.mine /\ rest.last = field.last
    BY <1>3 DEF EditsInv, ListsOK, FieldNames, text
  <1>5. ListsOK(rest)
    <2>1. \A i \in 1..Len(queue) : AheadOf(queue[i], field.batch)
      BY <1>1 DEF EditsInv, ListsOK
    <2> QED
      BY <1>1, <1>2, <1>4, <2>1 DEF EditsInv, ListsOK, SentOK
  <1>6. PhaseOK(rest)
    BY <1>4 DEF EditsInv, PhaseOK
  <1>7. CountsOK(rest)
    BY <1>4 DEF EditsInv, CountsOK
  <1>8. MineOK(rest)
    BY <1>4 DEF EditsInv, MineOK, text
  <1>9. BackOK(rest)
    BY <1>4 DEF EditsInv, BackOK, Done, text
  <1> HIDE DEF f
  <1>10. /\ ListsOK(f) /\ PhaseOK(f) /\ CountsOK(f) /\ MineOK(f)
         /\ f.text = field.text /\ (f.rich <=> field.rich) /\ f.busy = "applying" /\ f.sent = <<>>
         /\ f.batch = field.batch /\ f.queue = queue
         /\ (~f.touched /\ ~f.missed => Comes(f.before, f.text, f.batch))
    <2>1. CASE field.batch # <<>>
      <3>1. f = rest
        BY <1>4, <2>1 DEF BegunOf, f
      <3>2. ~f.touched /\ ~f.missed => Comes(f.before, f.text, f.batch)
        BY <1>4, <1>9, <2>1, <3>1 DEF BackOK, Done
      <3> QED
        BY <1>4, <1>5, <1>6, <1>7, <1>8, <3>1, <3>2 DEF text
    <2>2. CASE field.batch = <<>>
      <3>1. f = [rest EXCEPT !.before = text, !.touched = FALSE]
        BY <1>4, <2>2 DEF BegunOf, f
      <3>2. /\ DOMAIN f = FieldNames /\ f.text = text /\ (f.rich <=> field.rich)
          /\ f.items = field.items /\ f.queue = queue /\ f.sent = field.sent /\ f.batch = field.batch
          /\ f.applied = field.applied /\ f.plan = field.plan /\ f.busy = field.busy
          /\ f.typed = field.typed /\ f.batches = field.batches /\ f.answers = field.answers
          /\ f.before = text /\ (f.touched <=> FALSE) /\ (f.raced <=> field.raced)
          /\ (f.missed <=> field.missed) /\ f.mine = field.mine /\ f.last = field.last
        BY <1>4, <3>1 DEF FieldNames
      <3>3. ListsOK(f)
        BY <1>2, <1>4, <1>5, <3>2 DEF ListsOK, SentOK
      <3>4. PhaseOK(f)
        BY <1>4, <1>6, <3>2 DEF PhaseOK
      <3>5. CountsOK(f)
        BY <1>4, <1>7, <3>2 DEF CountsOK
      <3>6. MineOK(f)
        BY <1>4, <1>8, <3>2 DEF MineOK
      <3>7. Comes(f.before, f.text, f.batch)
        BY <1>2, <2>2, <3>2, ComesOfNone
      <3>8. f.busy = "applying" /\ f.sent = <<>> /\ f.text = field.text
        BY <3>2 DEF text
      <3> QED
        BY <3>2, <3>3, <3>4, <3>5, <3>6, <3>7, <3>8
    <2> QED
      BY <2>1, <2>2
  <1>11. EditsInv(rest) /\ rest.text = field.text /\ (rest.rich <=> field.rich)
    BY <1>4, <1>5, <1>6, <1>7, <1>8, <1>9 DEF EditsInv, text
  <1> QED
    BY <1>10, <1>11 DEF rest, f, queue

\* An edit made where its span is, in a plain field still its own, and recorded.
LEMMA EditKeeps ==
  ASSUME NEW f, ListsOK(f), PhaseOK(f), CountsOK(f), MineOK(f), f.busy = "applying", f.sent = <<>>,
         NEW e, Suggested(e), AheadOf(e, f.batch), \A i \in 1..Len(f.queue) : f.queue[i].end <= e.start,
         ~f.rich => Fits(f.text, e),
         ~f.touched /\ ~f.missed => Comes(f.before, f.text, f.batch) /\ Fits(f.text, e)
  PROVE  EditsInv(Edit!Edited(f, e))
  <1> DEFINE text == IF e.end <= Len(f.text) THEN Edit!Replace(f.text, e, e.replacement) ELSE f.text
             soFar == Edit!AppendInverse(f.batch, e)
             g == Edit!Edited(f, e)
  <1>0. DOMAIN f = FieldNames
    BY DEF ListsOK
  <1>1. /\ DOMAIN g = FieldNames /\ g.text = text /\ (g.rich <=> f.rich) /\ g.items = f.items
        /\ g.queue = f.queue /\ g.sent = f.sent /\ g.batch = soFar /\ g.applied = f.applied
        /\ g.plan = f.plan /\ g.busy = f.busy /\ g.typed = f.typed /\ g.batches = f.batches
        /\ g.answers = f.answers /\ g.before = f.before /\ (g.touched <=> f.touched)
        /\ (g.raced <=> f.raced) /\ (g.missed <=> f.missed) /\ g.mine = f.mine /\ g.last = f.last
    BY ONLY <1>0, EditedIs
  <1>2. /\ e.start \in Nat /\ e.end \in Nat /\ e.start <= e.end /\ Len(e.original) = e.end - e.start
        /\ e.original \in Seq(Given) /\ e.replacement \in Seq(Given) /\ e.replacement \in Seq(Edit!Tokens)
    BY GivenIsText DEF Suggested
  <1>3. f.text \in Seq(Edit!Tokens) /\ Recorded(f.batch) /\ f.before \in Seq(Edit!Tokens)
    BY DEF ListsOK
  <1>4. e.end <= Len(f.text) =>
          Spliced(Edit!Replace(f.text, e, e.replacement), f.text, e.start, e.end, e.replacement)
    BY <1>2, <1>3, ReplaceSplices
  <1>5. text \in Seq(Edit!Tokens)
    BY <1>3, <1>4 DEF Spliced
  <1>6. Recorded(soFar) /\ soFar # <<>>
    <2>1. Recorded(soFar) /\ Len(soFar) = Len(f.batch) + 1 /\ Len(f.batch) \in Nat
      BY <1>3, AppendInverseIs
    <2> HIDE DEF soFar
    <2>2. Len(soFar) # 0
      BY <2>1
    <2> QED
      BY <2>1, <2>2, NoneRecorded
  <1>7. \A i \in 1..Len(f.queue) : AheadOf(f.queue[i], soFar)
    <2>1. ASSUME NEW i \in 1..Len(f.queue) PROVE AheadOf(f.queue[i], soFar)
      <3>1. f.queue[i].end \in Nat /\ f.queue[i].end <= e.start
        BY DEF ListsOK, Queued, Suggested
      <3> QED
        BY <1>3, <3>1, StillAhead
    <2> QED
      BY <2>1
  <1>8. ~f.rich => Cardinality(Mine(text)) = Cardinality(Mine(f.text))
    <2> SUFFICES ASSUME ~f.rich PROVE Cardinality(Mine(text)) = Cardinality(Mine(f.text))
      OBVIOUS
    <2>1. e.end <= Len(f.text) /\ \A d \in 1..(e.end - e.start) : f.text[e.start + d] = e.original[d]
      BY <1>2 DEF Fits
    <2>2. ASSUME NEW p \in (e.start + 1)..e.end PROVE f.text[p] # "mine"
      <3>1. p - e.start \in 1..(e.end - e.start) /\ e.start + (p - e.start) = p
        BY <1>2
      <3>2. f.text[p] = e.original[p - e.start]
        BY <2>1, <3>1
      <3>3. e.original[p - e.start] \in Given
        BY <1>2, <3>1, ElementOfSeq
      <3> QED
        BY <3>2, <3>3 DEF Given
    <2>3. Spliced(text, f.text, e.start, e.end, e.replacement)
      BY <1>4, <2>1
    <2> HIDE DEF text
    <2> QED
      BY <1>2, <1>3, <2>1, <2>2, <2>3, NothingLost
  <1>9. ~f.touched /\ ~f.missed => Comes(f.before, text, soFar)
    <2> SUFFICES ASSUME ~f.touched, ~f.missed PROVE Comes(f.before, text, soFar)
      OBVIOUS
    <2>1. e.end <= Len(f.text)
      BY DEF Fits
    <2>2. Comes(f.before, Edit!Replace(f.text, e, e.replacement), Edit!AppendInverse(f.batch, e))
      BY <1>3, ComesByEdit
    <2> QED
      BY <2>1, <2>2
  <1> HIDE DEF text, soFar, g
  <1>10. ListsOK(g)
    BY <1>1, <1>5, <1>6, <1>7 DEF ListsOK, SentOK
  <1>11. PhaseOK(g)
    BY <1>1 DEF PhaseOK
  <1>12. CountsOK(g)
    BY <1>1 DEF CountsOK
  <1>13. MineOK(g)
    BY <1>1, <1>8 DEF MineOK
  <1>14. BackOK(g)
    <2>1. Done(g) = soFar
      BY <1>1, <1>6 DEF Done
    <2> QED
      BY <1>1, <1>9, <2>1 DEF BackOK
  <1>15. EditsInv(g)
    BY <1>10, <1>11, <1>12, <1>13, <1>14 DEF EditsInv
  <1> QED
    BY <1>15 DEF g

\* The next item is left out, sent to the page, or applied.
LEMMA ApplyNextKeeps == EditsInv(field) /\ Edit!ApplyNext => EditsInv(field')
  <1> SUFFICES ASSUME EditsInv(field), Edit!ApplyNext PROVE EditsInv(field')
    OBVIOUS
  <1> DEFINE item == Head(field.queue)
             rest == RestOf(field)
             f    == BegunOf(rest)
  <1>1. /\ field.busy = "applying" /\ field.queue # <<>> /\ field.sent = <<>>
        /\ field' = IF ~Edit!SpanStillValid(rest.text, item) THEN rest
                    ELSE IF f.rich THEN [f EXCEPT !.sent = <<item>>] ELSE Edit!Edited(f, item)
    BY Zenon DEF Edit!ApplyNext, RestOf, BegunOf
  <1>4. /\ EditsInv(rest) /\ rest.text = field.text /\ (rest.rich <=> field.rich)
        /\ ListsOK(f) /\ PhaseOK(f) /\ CountsOK(f) /\ MineOK(f)
        /\ f.text = field.text /\ (f.rich <=> field.rich) /\ f.busy = "applying" /\ f.sent = <<>>
        /\ f.batch = field.batch /\ f.queue = Tail(field.queue)
        /\ ~f.touched /\ ~f.missed => Comes(f.before, f.text, f.batch)
    BY <1>1, BegunIs, Zenon
  <1> HIDE DEF rest, f
  <1>5. Suggested(item) /\ AheadOf(item, f.batch) /\ \A i \in 1..Len(f.queue) : f.queue[i].end <= item.start
    <2>1. /\ Len(field.queue) \in Nat /\ Len(field.queue) > 0 /\ Suggested(item) /\ item = field.queue[1]
          /\ \A i \in 1..Len(Tail(field.queue)) : Tail(field.queue)[i].end <= item.start
      BY <1>1, QueuedTail DEF EditsInv, ListsOK
    <2>2. 1 \in 1..Len(field.queue)
      BY <2>1
    <2>3. AheadOf(item, field.batch)
      BY <2>1, <2>2 DEF EditsInv, ListsOK
    <2> QED
      BY <1>4, <2>1, <2>3
  <1> HIDE DEF item
  <1>6. CASE ~Edit!SpanStillValid(rest.text, item)
    BY <1>1, <1>4, <1>6
  <1>7. Edit!SpanStillValid(rest.text, item) => Fits(f.text, item)
    BY <1>4, <1>5, SpanFits DEF EditsInv, ListsOK
  <1>8. CASE Edit!SpanStillValid(rest.text, item) /\ f.rich
    <2> DEFINE sent == <<item>>
    <2>1. field' = [f EXCEPT !.sent = sent]
      BY <1>1, <1>8
    <2>2. sent # <<>> /\ sent[1] = item
      OBVIOUS
    <2>3. SentOK([sent |-> sent, batch |-> f.batch, queue |-> f.queue])
      BY <1>5 DEF SentOK
    <2> HIDE DEF sent
    <2>4. /\ DOMAIN field' = FieldNames /\ field'.text = f.text /\ (field'.rich <=> f.rich)
          /\ field'.items = f.items /\ field'.queue = f.queue /\ field'.sent = sent
          /\ field'.batch = f.batch /\ field'.applied = f.applied /\ field'.plan = f.plan
          /\ field'.busy = f.busy /\ field'.typed = f.typed /\ field'.batches = f.batches
          /\ field'.answers = f.answers /\ field'.before = f.before /\ (field'.touched <=> f.touched)
          /\ (field'.raced <=> f.raced) /\ (field'.missed <=> f.missed) /\ field'.mine = f.mine
          /\ field'.last = f.last
      BY <1>4, <2>1 DEF ListsOK, FieldNames
    <2>5. ListsOK(field')
      BY <1>4, <2>3, <2>4 DEF ListsOK, SentOK
    <2>6. PhaseOK(field')
      BY <1>4, <1>8, <2>4 DEF PhaseOK
    <2>7. CountsOK(field')
      BY <1>4, <2>4 DEF CountsOK
    <2>8. MineOK(field')
      BY <1>8, <2>4 DEF MineOK
    <2>9. BackOK(field')
      <3>1. Done(field') = f.batch
        BY <1>4, <2>2, <2>4 DEF Done
      <3> QED
        BY <1>4, <1>7, <1>8, <2>2, <2>4, <3>1 DEF BackOK
    <2> QED
      BY <2>5, <2>6, <2>7, <2>8, <2>9 DEF EditsInv
  <1>9. CASE Edit!SpanStillValid(rest.text, item) /\ ~f.rich
    <2>1. field' = Edit!Edited(f, item)
      BY <1>1, <1>9
    <2>2. EditsInv(Edit!Edited(f, item))
      BY <1>4, <1>5, <1>7, <1>9, EditKeeps
    <2> QED
      BY <2>1, <2>2
  <1> QED
    BY <1>6, <1>8, <1>9

\* The page does what it was asked for, or ignores it; it is recorded either way.
LEMMA PageAppliesKeeps == EditsInv(field) /\ Edit!PageApplies => EditsInv(field')
  <1> SUFFICES ASSUME EditsInv(field), Edit!PageApplies PROVE EditsInv(field')
    OBVIOUS
  <1> DEFINE f == [field EXCEPT !.sent = <<>>]
             e == Head(field.sent)
             g == Edit!Edited(f, e)
  <1>1. /\ field.busy = "applying" /\ field.sent # <<>>
        /\ \/ field' = g
           \/ field' = [g EXCEPT !.text = field.text, !.missed = TRUE]
    BY Zenon DEF Edit!PageApplies
  <1>2. PICK x : /\ field.sent = <<x>> /\ Suggested(x) /\ AheadOf(x, field.batch)
                 /\ \A i \in 1..Len(field.queue) : field.queue[i].end <= x.start
    BY <1>1 DEF EditsInv, ListsOK, SentOK
  <1>3. e = x /\ field.sent[1] = x
    BY <1>2
  <1>4. field.rich
    BY <1>1 DEF EditsInv, PhaseOK
  <1> HIDE DEF f
  <1>5. /\ DOMAIN f = FieldNames /\ f.text = field.text /\ (f.rich <=> field.rich)
        /\ f.items = field.items /\ f.queue = field.queue /\ f.sent = <<>> /\ f.batch = field.batch
        /\ f.applied = field.applied /\ f.plan = field.plan /\ f.busy = field.busy
        /\ f.typed = field.typed /\ f.batches = field.batches /\ f.answers = field.answers
        /\ f.before = field.before /\ (f.touched <=> field.touched) /\ (f.raced <=> field.raced)
        /\ (f.missed <=> field.missed) /\ f.mine = field.mine /\ f.last = field.last
    BY DEF EditsInv, ListsOK, FieldNames, f
  <1> HIDE DEF e
  <1>6. ListsOK(f)
    BY <1>5 DEF EditsInv, ListsOK, SentOK
  <1>7. PhaseOK(f)
    BY <1>5 DEF EditsInv, PhaseOK
  <1>8. CountsOK(f)
    BY <1>5 DEF EditsInv, CountsOK
  <1>9. MineOK(f)
    BY <1>4, <1>5 DEF MineOK
  <1>10. ~f.touched /\ ~f.missed => Comes(f.before, f.text, f.batch) /\ Fits(f.text, e)
    BY <1>1, <1>3, <1>5 DEF EditsInv, BackOK, Done
  <1>11. EditsInv(g)
    BY <1>1, <1>2, <1>3, <1>4, <1>5, <1>6, <1>7, <1>8, <1>9, <1>10, EditKeeps
  <1> HIDE DEF g
  <1>12. CASE field' = g
    BY <1>11, <1>12
  <1>13. CASE field' = [g EXCEPT !.text = field.text, !.missed = TRUE]
    <2> DEFINE text == field.text
    <2>1. text \in Seq(Edit!Tokens)
      BY DEF EditsInv, ListsOK
    <2> HIDE DEF text
    <2>2. /\ DOMAIN field' = FieldNames /\ field'.text = text /\ (field'.rich <=> g.rich)
          /\ field'.items = g.items /\ field'.queue = g.queue /\ field'.sent = g.sent
          /\ field'.batch = g.batch /\ field'.applied = g.applied /\ field'.plan = g.plan
          /\ field'.busy = g.busy /\ field'.typed = g.typed /\ field'.batches = g.batches
          /\ field'.answers = g.answers /\ field'.before = g.before /\ (field'.touched <=> g.touched)
          /\ (field'.raced <=> g.raced) /\ (field'.missed <=> TRUE) /\ field'.mine = g.mine
          /\ field'.last = g.last
      BY <1>11, <1>13 DEF EditsInv, ListsOK, FieldNames, text
    <2>3. g.rich
      BY <1>4, <1>5, EditedIs DEF g
    <2>4. ListsOK(field')
      BY <1>11, <2>1, <2>2 DEF EditsInv, ListsOK, SentOK
    <2>5. PhaseOK(field')
      BY <1>11, <2>2 DEF EditsInv, PhaseOK
    <2>6. CountsOK(field')
      BY <1>11, <2>2 DEF EditsInv, CountsOK
    <2>7. MineOK(field')
      BY <2>2, <2>3 DEF MineOK
    <2>8. BackOK(field')
      BY <2>2 DEF BackOK
    <2> QED
      BY <2>4, <2>5, <2>6, <2>7, <2>8 DEF EditsInv
  <1> QED
    BY <1>1, <1>12, <1>13

\* What was recorded is kept, if anything was.
LEMMA AppliedKeeps == EditsInv(field) /\ Edit!Applied => EditsInv(field')
  <1> SUFFICES ASSUME EditsInv(field), Edit!Applied PROVE EditsInv(field')
    OBVIOUS
  <1> DEFINE applied == IF field.batch = <<>> THEN field.applied ELSE field.batch
  <1>1. /\ field.busy = "applying" /\ field.sent = <<>>
        /\ field' = [field EXCEPT !.busy = "no", !.batch = <<>>, !.applied = applied, !.last = "applied"]
    BY Zenon DEF Edit!Applied
  <1>2. Recorded(applied)
    BY DEF EditsInv, ListsOK
  <1>3. applied = Done(field)
    BY <1>1 DEF Done
  <1> HIDE DEF applied
  <1>4. /\ DOMAIN field' = FieldNames /\ field'.text = field.text /\ (field'.rich <=> field.rich)
        /\ field'.items = field.items /\ field'.queue = field.queue /\ field'.sent = field.sent
        /\ field'.batch = <<>> /\ field'.applied = applied /\ field'.plan = field.plan
        /\ field'.busy = "no" /\ field'.typed = field.typed /\ field'.batches = field.batches
        /\ field'.answers = field.answers /\ field'.before = field.before
        /\ (field'.touched <=> field.touched) /\ (field'.raced <=> field.raced)
        /\ (field'.missed <=> field.missed) /\ field'.mine = field.mine /\ field'.last = "applied"
    BY <1>1 DEF EditsInv, ListsOK, FieldNames
  <1>5. ListsOK(field')
    BY <1>1, <1>2, <1>4, NoneRecorded DEF EditsInv, ListsOK, SentOK
  <1>6. PhaseOK(field')
    BY <1>1, <1>4 DEF PhaseOK
  <1>7. CountsOK(field')
    BY <1>4 DEF EditsInv, CountsOK
  <1>8. MineOK(field')
    BY <1>4 DEF EditsInv, MineOK
  <1>9. BackOK(field')
    <2>1. Done(field') = applied
      BY <1>1, <1>4 DEF Done
    <2> QED
      BY <1>1, <1>3, <1>4, <2>1 DEF EditsInv, BackOK
  <1> QED
    BY <1>5, <1>6, <1>7, <1>8, <1>9 DEF EditsInv

-----------------------------------------------------------------------------
(* Undoing. *)

\* What a plan is about has nothing of the user's: it has what suggestions put there.
LEMMA PlanClear ==
  ASSUME NEW text \in Seq(Edit!Tokens), NEW r \in Records, Edit!Slice(text, r.start, r.end) = r.applied
  PROVE  Clear(text, r)
  <1>1. r.start \in Nat /\ r.end \in Nat /\ r.applied \in Seq(Given) /\ r.end = r.start + Len(r.applied)
    BY DEF Records
  <1>2. Len(r.applied) \in Nat
    BY <1>1, LenProperties
  <1>3. ASSUME NEW p \in (r.start + 1)..r.end PROVE text[p] # "mine"
    <2>1. /\ p - r.start \in 1..(r.end - r.start) /\ r.start + (p - r.start) = p
          /\ r.start <= r.end /\ r.end - r.start = Len(r.applied) /\ r.start # r.end
      BY <1>1, <1>2
    <2>2. r.end <= Len(text) /\ \A d \in 1..(r.end - r.start) : r.applied[d] = text[r.start + d]
      <3> DEFINE slice == Edit!Slice(text, r.start, r.end)
      <3>1. Len(slice) = r.end - r.start
        BY <2>1
      <3>2. r.end <= Len(text)
        BY <1>1, <2>1, <3>1, SliceIs
      <3>3. \A d \in 1..(r.end - r.start) : slice[d] = text[r.start + d]
        BY <1>1, <2>1, <3>2, SliceIs
      <3> QED
        BY <3>2, <3>3
    <2>3. text[p] = r.applied[p - r.start] /\ r.applied[p - r.start] \in Given
      BY <1>1, <2>1, <2>2, ElementOfSeq
    <2> QED
      BY <2>3 DEF Given
  <1> QED
    BY <1>3 DEF Clear

\* The plan is all that was recorded, if nothing was typed since.
LEMMA UndoKeeps == EditsInv(field) /\ Edit!Undo => EditsInv(field')
  <1> SUFFICES ASSUME EditsInv(field), Edit!Undo PROVE EditsInv(field')
    OBVIOUS
  <1> DEFINE plan == Edit!PlanUndo(field.text, field.applied)
  <1>1. /\ field.busy = "no"
        /\ field' = [field EXCEPT !.busy = "undoing", !.plan = plan, !.applied = <<>>,
                                  !.last = "none", !.wanted = <<>>]
    BY Zenon DEF Edit!Undo
  <1>2. field.text \in Seq(Edit!Tokens) /\ Recorded(field.applied)
    BY DEF EditsInv, ListsOK
  <1>3. /\ Recorded(plan)
        /\ \A k \in 1..Len(plan) : Edit!Slice(field.text, plan[k].start, plan[k].end) = plan[k].applied
        /\ (\A i \in 1..Len(field.applied) :
              Edit!Slice(field.text, field.applied[i].start, field.applied[i].end) = field.applied[i].applied)
             => plan = field.applied
    BY <1>2, PlanIs
  <1> HIDE DEF plan
  <1>4. /\ DOMAIN field' = FieldNames /\ field'.text = field.text /\ (field'.rich <=> field.rich)
        /\ field'.items = field.items /\ field'.queue = field.queue /\ field'.sent = field.sent
        /\ field'.batch = field.batch /\ field'.applied = <<>> /\ field'.plan = plan
        /\ field'.busy = "undoing" /\ field'.typed = field.typed /\ field'.batches = field.batches
        /\ field'.answers = field.answers /\ field'.before = field.before
        /\ (field'.touched <=> field.touched) /\ (field'.raced <=> field.raced)
        /\ (field'.missed <=> field.missed) /\ field'.mine = field.mine /\ field'.last = "none"
    BY <1>1 DEF EditsInv, ListsOK, FieldNames
  <1>5. field.sent = <<>> /\ field.batch = <<>>
    BY <1>1 DEF EditsInv, PhaseOK
  <1>6. ListsOK(field')
    BY <1>3, <1>4, NoneRecorded DEF EditsInv, ListsOK, SentOK
  <1>7. PhaseOK(field')
    BY <1>4, <1>5 DEF PhaseOK
  <1>8. CountsOK(field')
    BY <1>4 DEF EditsInv, CountsOK
  <1>9. MineOK(field')
    <2>1. \A k \in 1..Len(plan) : Clear(field.text, plan[k])
      BY <1>2, <1>3, PlanClear, RecordIs
    <2> QED
      BY <1>4, <2>1 DEF EditsInv, MineOK
  <1>10. BackOK(field')
    <2> SUFFICES ASSUME ~field.touched, ~field.missed PROVE Comes(field.before, field.text, plan)
      BY <1>4, <1>5 DEF BackOK, Done
    <2>1. Comes(field.before, field.text, field.applied)
      BY <1>1, <1>5 DEF EditsInv, BackOK, Done
    <2>2. \A i \in 1..Len(field.applied) :
            Edit!Slice(field.text, field.applied[i].start, field.applied[i].end) = field.applied[i].applied
      BY <1>2, <2>1, AllStand
    <2>3. plan = field.applied
      BY <1>3, <2>2
    <2> QED
      BY <2>1, <2>3
  <1> QED
    BY <1>6, <1>7, <1>8, <1>9, <1>10 DEF EditsInv

\* An edit is taken back; what is before it stays.
LEMMA UndoNextKeeps == EditsInv(field) /\ Edit!UndoNext => EditsInv(field')
  <1> SUFFICES ASSUME EditsInv(field), Edit!UndoNext PROVE EditsInv(field')
    OBVIOUS
  <1> DEFINE r == Head(field.plan)
             plan == Tail(field.plan)
             text == Edit!Restored(field.text, r)
  <1>1. /\ field.busy = "undoing" /\ field.plan # <<>>
        /\ \/ field' = [field EXCEPT !.text = text, !.plan = plan, !.fresh = FALSE]
           \/ field.rich /\ field' = [field EXCEPT !.plan = plan, !.missed = TRUE]
    BY Zenon DEF Edit!UndoNext
  <1>2. field.text \in Seq(Edit!Tokens) /\ Recorded(field.plan) /\ field.before \in Seq(Edit!Tokens)
    BY DEF EditsInv, ListsOK
  <1>3. /\ 1 \in 1..Len(field.plan) /\ r = field.plan[1] /\ Len(field.plan) \in Nat
        /\ Recorded(plan) /\ Len(plan) = Len(field.plan) - 1
        /\ \A i \in 1..Len(plan) : /\ i + 1 \in 1..Len(field.plan) /\ plan[i] = field.plan[i + 1]
                                   /\ plan[i].end <= r.start
    BY <1>1, <1>2, RecordedTail
  <1>4. /\ r.start \in Nat /\ r.end \in Nat /\ r.start <= r.end
        /\ r.original \in Seq(Given) /\ r.original \in Seq(Edit!Tokens)
    BY <1>2, <1>3, RecordIs
  <1>5. r.end <= Len(field.text) => Spliced(text, field.text, r.start, r.end, r.original)
    <2> HIDE DEF r
    <2> QED
      BY <1>2, <1>4, ReplaceSplices DEF Edit!Restored
  <1>6. text = IF r.end <= Len(field.text) THEN Edit!Replace(field.text, r, r.original) ELSE field.text
    BY DEF Edit!Restored
  <1> HIDE DEF r, plan, text
  <1>7. text \in Seq(Edit!Tokens)
    BY <1>2, <1>5, <1>6 DEF Spliced
  <1>8. field.sent = <<>> /\ field.batch = <<>> /\ field.applied = <<>> /\ field.last # "undone"
    BY <1>1 DEF EditsInv, PhaseOK
  <1>9. CASE field' = [field EXCEPT !.text = text, !.plan = plan, !.fresh = FALSE]
    <2>1. /\ DOMAIN field' = FieldNames /\ field'.text = text /\ (field'.rich <=> field.rich)
          /\ field'.items = field.items /\ field'.queue = field.queue /\ field'.sent = field.sent
          /\ field'.batch = field.batch /\ field'.applied = field.applied /\ field'.plan = plan
          /\ field'.busy = field.busy /\ field'.typed = field.typed /\ field'.batches = field.batches
          /\ field'.answers = field.answers /\ field'.before = field.before
          /\ (field'.touched <=> field.touched) /\ (field'.raced <=> field.raced)
          /\ (field'.missed <=> field.missed) /\ field'.mine = field.mine /\ field'.last = field.last
      BY <1>9 DEF EditsInv, ListsOK, FieldNames
    <2>2. ListsOK(field')
      BY <1>3, <1>7, <2>1 DEF EditsInv, ListsOK, SentOK
    <2>3. PhaseOK(field')
      BY <2>1 DEF EditsInv, PhaseOK
    <2>4. CountsOK(field')
      BY <2>1 DEF EditsInv, CountsOK
    <2>5. MineOK(field')
      <3> SUFFICES ASSUME ~field.rich, ~field.raced
                   PROVE  /\ Cardinality(Mine(text)) = field.mine
                          /\ \A k \in 1..Len(plan) : Clear(text, plan[k])
        BY <2>1 DEF MineOK
      <3>1. /\ Cardinality(Mine(field.text)) = field.mine
            /\ \A k \in 1..Len(field.plan) : Clear(field.text, field.plan[k])
        BY <1>1 DEF EditsInv, MineOK
      <3>2. CASE r.end <= Len(field.text)
        <4>1. \A p \in (r.start + 1)..r.end : field.text[p] # "mine"
          <5>1. Clear(field.text, r)
            BY <1>3, <3>1
          <5>2. Len(field.text) \in Nat /\ \A p \in (r.start + 1)..r.end : p <= Len(field.text)
            BY <1>2, <1>4, <3>2, LenProperties
          <5> QED
            BY <5>1, <5>2 DEF Clear
        <4>2. Cardinality(Mine(text)) = Cardinality(Mine(field.text))
          BY <1>2, <1>4, <1>5, <3>2, <4>1, NothingLost
        <4>3. ASSUME NEW k \in 1..Len(plan), NEW p \in (plan[k].start + 1)..plan[k].end,
                     p <= Len(text)
              PROVE  text[p] # "mine"
          <5>1. plan[k].end <= r.start /\ plan[k].start \in Nat /\ plan[k].end \in Nat
            BY <1>3, RecordIs
          <5> DEFINE q == plan[k]
          <5>6. /\ q.end <= r.start /\ q.start \in Nat /\ q.end \in Nat /\ p \in (q.start + 1)..q.end
                /\ r.start \in Nat /\ r.end \in Nat /\ r.start <= r.end /\ r.end <= Len(field.text)
                /\ Len(field.text) \in Nat
            BY <1>2, <1>4, <3>2, <5>1, LenProperties
          <5> HIDE DEF q
          <5>2. p \in 1..r.start /\ p <= Len(field.text)
            BY ONLY <5>6
          <5>3. text[p] = field.text[p]
            BY <1>5, <3>2, <5>2 DEF Spliced
          <5>4. Clear(field.text, plan[k])
            BY <1>3, <3>1
          <5> QED
            BY <5>2, <5>3, <5>4 DEF Clear
        <4> QED
          BY <3>1, <4>2, <4>3 DEF Clear
      <3>3. CASE ~(r.end <= Len(field.text))
        BY <1>3, <1>6, <3>1, <3>3
      <3> QED
        BY <3>2, <3>3
    <2>6. BackOK(field')
      <3> SUFFICES ASSUME ~field.touched, ~field.missed PROVE Comes(field.before, text, plan)
        BY <1>1, <1>8, <2>1 DEF BackOK, Done
      <3>1. Comes(field.before, field.text, field.plan)
        BY <1>1 DEF EditsInv, BackOK, Done
      <3>2. /\ field.plan[1].end <= Len(field.text)
            /\ Comes(field.before, Edit!Replace(field.text, field.plan[1], field.plan[1].original),
                     Tail(field.plan))
        BY <1>1, <1>2, <3>1, ComesBack
      <3> QED
        BY <1>3, <1>6, <3>2 DEF plan
    <2> QED
      BY <2>2, <2>3, <2>4, <2>5, <2>6 DEF EditsInv
  <1>10. CASE field.rich /\ field' = [field EXCEPT !.plan = plan, !.missed = TRUE]
    <2>1. /\ DOMAIN field' = FieldNames /\ field'.text = field.text /\ (field'.rich <=> field.rich)
          /\ field'.items = field.items /\ field'.queue = field.queue /\ field'.sent = field.sent
          /\ field'.batch = field.batch /\ field'.applied = field.applied /\ field'.plan = plan
          /\ field'.busy = field.busy /\ field'.typed = field.typed /\ field'.batches = field.batches
          /\ field'.answers = field.answers /\ field'.before = field.before
          /\ (field'.touched <=> field.touched) /\ (field'.raced <=> field.raced)
          /\ (field'.missed <=> TRUE) /\ field'.mine = field.mine /\ field'.last = field.last
      BY <1>10 DEF EditsInv, ListsOK, FieldNames
    <2>2. ListsOK(field')
      BY <1>3, <2>1 DEF EditsInv, ListsOK, SentOK
    <2>3. PhaseOK(field')
      BY <2>1 DEF EditsInv, PhaseOK
    <2>4. CountsOK(field')
      BY <2>1 DEF EditsInv, CountsOK
    <2>5. MineOK(field')
      BY <1>10, <2>1 DEF MineOK
    <2>6. BackOK(field')
      BY <2>1 DEF BackOK
    <2> QED
      BY <2>2, <2>3, <2>4, <2>5, <2>6 DEF EditsInv
  <1> QED
    BY <1>1, <1>9, <1>10

\* All is taken back.
LEMMA UndoneKeeps == EditsInv(field) /\ Edit!Undone => EditsInv(field')
  <1> SUFFICES ASSUME EditsInv(field), Edit!Undone PROVE EditsInv(field')
    OBVIOUS
  <1>1. /\ field.busy = "undoing" /\ field.plan = <<>>
        /\ field' = [field EXCEPT !.busy = "no", !.last = "undone"]
    BY Zenon DEF Edit!Undone
  <1>2. /\ DOMAIN field' = FieldNames /\ field'.text = field.text /\ (field'.rich <=> field.rich)
        /\ field'.items = field.items /\ field'.queue = field.queue /\ field'.sent = field.sent
        /\ field'.batch = field.batch /\ field'.applied = field.applied /\ field'.plan = field.plan
        /\ field'.busy = "no" /\ field'.typed = field.typed /\ field'.batches = field.batches
        /\ field'.answers = field.answers /\ field'.before = field.before
        /\ (field'.touched <=> field.touched) /\ (field'.raced <=> field.raced)
        /\ (field'.missed <=> field.missed) /\ field'.mine = field.mine /\ field'.last = "undone"
    BY <1>1 DEF EditsInv, ListsOK, FieldNames
  <1>3. field.sent = <<>> /\ field.batch = <<>> /\ field.applied = <<>>
    BY <1>1 DEF EditsInv, PhaseOK
  <1>4. ListsOK(field')
    BY <1>2 DEF EditsInv, ListsOK, SentOK
  <1>5. PhaseOK(field')
    BY <1>2, <1>3 DEF PhaseOK
  <1>6. CountsOK(field')
    BY <1>2 DEF EditsInv, CountsOK
  <1>7. MineOK(field')
    BY <1>2 DEF EditsInv, MineOK
  <1>8. BackOK(field')
    <2>1. Done(field) = <<>> /\ Done(field') = <<>>
      BY <1>1, <1>2, <1>3 DEF Done
    <2> QED
      BY <1>2, <1>3, <2>1 DEF EditsInv, BackOK
  <1> QED
    BY <1>4, <1>5, <1>6, <1>7, <1>8 DEF EditsInv

-----------------------------------------------------------------------------
(* The theorems. *)

\* Every step keeps the invariant.
LEMMA EditsKept == Bounds /\ Edit!Spec => []EditsInv(field)
  <1> SUFFICES ASSUME Bounds PROVE Edit!Spec => []EditsInv(field)
    OBVIOUS
  <1>1. Edit!Init => EditsInv(field)
    BY InitKeeps
  <1>2. EditsInv(field) /\ [Edit!Next]_field => EditsInv(field)'
    <2> SUFFICES ASSUME EditsInv(field), [Edit!Next]_field PROVE EditsInv(field')
      OBVIOUS
    <2>1. Suggestions(field.items)
      BY DEF EditsInv, ListsOK
    <2>2. CASE Edit!Type
      BY <2>2, TypeKeeps
    <2>3. CASE Edit!Checked
      BY <2>3, CheckedKeeps
    <2>4. CASE Edit!Apply(field.items)
      BY <2>1, <2>4, ApplyKeeps
    <2>5. CASE \E item \in field.items : Edit!Apply({item})
      <3>1. PICK item \in field.items : Edit!Apply({item})
        BY <2>5
      <3>2. Suggestions({item})
        BY <2>1, OneIsSuggested
      <3> QED
        BY <3>1, <3>2, ApplyKeeps
    <2>6. CASE Edit!ApplyNext
      BY <2>6, ApplyNextKeeps
    <2>7. CASE Edit!PageApplies
      BY <2>7, PageAppliesKeeps
    <2>8. CASE Edit!Applied
      BY <2>8, AppliedKeeps
    <2>9. CASE Edit!Undo
      BY <2>9, UndoKeeps
    <2>10. CASE Edit!UndoNext
      BY <2>10, UndoNextKeeps
    <2>11. CASE Edit!Undone
      BY <2>11, UndoneKeeps
    <2>12. CASE UNCHANGED field
      BY <2>12
    <2> QED
      BY <2>2, <2>3, <2>4, <2>5, <2>6, <2>7, <2>8, <2>9, <2>10, <2>11, <2>12, Zenon DEF Edit!Next
  <1> QED
    BY <1>1, <1>2, PTL DEF Edit!Spec

\* What the user typed between the edits of an apply and before an undo is in the text,
\* to the token, in a plain field (SpanStillValid, PlanUndo), for any answers.
THEOREM FieldEditsKeepTyped == Bounds /\ Edit!Spec => []Edit!TypedSurvives
  <1>1. EditsInv(field) => Edit!TypedSurvives
    BY SameCount DEF EditsInv, MineOK, Edit!TypedSurvives, Mine
  <1> QED
    BY <1>1, EditsKept, PTL

\* An undo gives back the text the batch began with, if nothing was typed since and a
\* rich editor ignored nothing (AppendInverse, PlanUndo).
THEOREM FieldEditsUndoRestores == Bounds /\ Edit!Spec => []Edit!UndoRestores
  <1>1. EditsInv(field) => Edit!UndoRestores
    <2> SUFFICES ASSUME EditsInv(field), field.last = "undone", ~field.touched, ~field.missed
                 PROVE  field.text = field.before
      BY DEF Edit!UndoRestores
    <2>1. field.busy = "no" /\ field.applied = <<>> /\ field.batch = <<>> /\ field.sent = <<>>
      BY DEF EditsInv, PhaseOK
    <2>2. Comes(field.before, field.text, <<>>)
      BY <2>1 DEF EditsInv, BackOK, Done
    <2> QED
      BY <2>2, ComesOfNone DEF EditsInv, ListsOK
  <1> QED
    BY <1>1, EditsKept, PTL

\* The states are of the types the model gives them, and what is recorded are spans.
THEOREM FieldEditsType == Bounds /\ Edit!Spec => []Edit!TypeOK
  <1>1. EditsInv(field) => Edit!TypeOK
    <2> SUFFICES ASSUME EditsInv(field) PROVE Edit!TypeOK
      OBVIOUS
    <2> DEFINE all == field.applied \o field.batch
    <2>1. field.applied \in Seq(Records) /\ field.batch \in Seq(Records)
      BY DEF EditsInv, ListsOK, Recorded
    <2>2. all \in Seq(Records)
      BY <2>1, ConcatProperties
    <2> HIDE DEF all
    <2>3. ASSUME NEW e \in Range(all) PROVE e.start \in Nat /\ e.start <= e.end
      <3>1. PICK i \in DOMAIN all : e = all[i]
        BY DEF Range
      <3>2. e \in Records
        BY <2>2, <3>1, LenProperties, ElementOfSeq
      <3>3. e.start \in Nat /\ e.end = e.start + Len(e.applied) /\ Len(e.applied) \in Nat
        BY <3>2, LenProperties DEF Records
      <3> QED
        BY <3>3
    <2>4. \A e \in Range(field.applied \o field.batch) : e.start \in Nat /\ e.start <= e.end
      BY <2>3 DEF all
    <2> QED
      BY <2>4 DEF EditsInv, ListsOK, PhaseOK, CountsOK, Edit!TypeOK, Edit!Range, Range
  <1> QED
    BY <1>1, EditsKept, PTL

=============================================================================
