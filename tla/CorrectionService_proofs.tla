---------------------- MODULE CorrectionService_proofs ----------------------
(***************************************************************************)
(* Safety of Service.Correct for every number of requests, sentences,      *)
(* texts and cache entries: what requests share through the cache and the  *)
(* singleflight group is shifted once, belongs to the sentence it is used  *)
(* for, and is computed once at a time.  The order of the cache decides    *)
(* only what is evicted: it is the matter of TypeCorrect alone.            *)
(***************************************************************************)
EXTENDS CorrectionService, FiniteSetTheorems, SequenceTheorems, TLAPS

\* How many segments a request is done with.
Done(r) ==
  IF pc[r] = "new" THEN 0
  ELSE IF pc[r] \in {"final", "drop", "end"} THEN Len(text[r])
  ELSE seg[r] - 1

\* These suggestions are for sentences of the first n of t, in order.
Placed(p, t, n) ==
  \E kept \in SUBSET (1..n) :
    /\ Cardinality(kept) = Len(p)
    /\ \A i \in kept : p[Cardinality({j \in kept : j <= i})].of = t[i]

\* Where a request is in its text, and that its key is its segment's.
Walks(r) ==
  /\ pc[r] = "new" => text[r] = <<>> /\ parts[r] = <<>> /\ failed[r] = 0
  /\ pc[r] # "new" => text[r] \in Texts /\ seg[r] \in 1..Len(text[r])
  /\ pc[r] \in {"do", "wait", "fast", "llm", "take"} => key[r] \in Keys /\ key[r].of = Sentence(r)
  /\ pc[r] = "fast" => HasFast

\* A leader is at its own call; a waiter at somebody else's, which counts it
\* and is for its key, and so for its sentence.
InCall(r) ==
  /\ pc[r] \in {"fast", "llm"} => of[r] = <<r, seg[r]>> /\ call[of[r]].status = "running"
  /\ pc[r] = "take" => of[r] = <<r, seg[r]>> /\ call[of[r]].status \in {"done", "error"}
  /\ pc[r] = "wait" =>
       /\ of[r] \in CallIds /\ of[r][1] # r /\ call[of[r]].dups > 0
       /\ call[of[r]].status \in {"running", "done", "error"}
       /\ call[of[r]].status = "running" => key[of[r][1]] = key[r]
  /\ pc[r] \in {"take", "wait"} /\ call[of[r]].status = "done" =>
       call[of[r]].set \in Sets /\ call[of[r]].set.shift = 0 /\ call[of[r]].set.of = Sentence(r)

\* What it has gathered.
Gathered(r) ==
  /\ \A i \in DOMAIN parts[r] : parts[r][i].shift = IF Whole(r) THEN 0 ELSE 1
  /\ Len(parts[r]) + failed[r] = Done(r)
  /\ Placed(parts[r], text[r], Done(r))
  /\ failed[r] > 0 => ~HasFast

\* What it has answered.
Replied(r) ==
  /\ reply[r] # None => pc[r] = "end"
  /\ reply[r] = "error" => parts[r] = <<>> /\ ~HasFast

\* How far dropAllowlisted is, and what it has made of the suggestions.
Dropped(r) ==
  /\ pc[r] \notin {"drop", "end"} => out[r] = <<>>
  /\ pc[r] = "drop" => Len(out[r]) < Len(parts[r]) /\ inDict \in found[r]
  /\ reply[r] = "answer" => Len(out[r]) = Len(parts[r])
  /\ \A i \in 1..Len(out[r]) : RightlyKept(parts[r][i], out[r][i], found[r])

DroppedOK == \A r \in Requests : Dropped(r)

\* A running call has its leader at work on it; no call is made before its time.
CallOK(c) ==
  /\ call[c].status = "running" => of[c[1]] = c /\ pc[c[1]] \in {"fast", "llm"}
  /\ call[c].status = "error" => ~HasFast
  /\ \/ pc[c[1]] = "new" \/ c[2] > seg[c[1]]
     \/ c[2] = seg[c[1]] /\ pc[c[1]] \in {"lookup", "do"}
     => call[c].status = "none"

CacheOK == \A k \in Keys : cache[k].shift = 0 /\ (cache[k] # NoSet => cache[k].of = k.of)

IInv ==
  /\ RequestTypes
  /\ \A r \in Requests : Walks(r) /\ InCall(r) /\ Gathered(r) /\ Replied(r)
  /\ \A c \in CallIds : CallOK(c)
  /\ CacheOK

-----------------------------------------------------------------------------
(* Suggestions in their places. *)

\* Suggestions for the next segment are put in their place.
LEMMA PlacedAppend ==
  ASSUME NEW p \in Seq(Sets), NEW t, NEW n \in Nat, NEW s \in Sets,
         Placed(p, t, n), s.of = t[n + 1]
  PROVE  Placed(Append(p, s), t, n + 1)
  <1>1. PICK kept \in SUBSET (1..n) :
          /\ Cardinality(kept) = Len(p)
          /\ \A i \in kept : p[Cardinality({j \in kept : j <= i})].of = t[i]
    BY DEF Placed
  <1> DEFINE more == kept \cup {n + 1}
  <1>2. more \in SUBSET (1..(n + 1)) /\ n + 1 \notin kept
    OBVIOUS
  <1>3. IsFiniteSet(1..n)
    BY FS_Interval
  <1>4. IsFiniteSet(kept)
    BY <1>3, FS_Subset
  <1>5. Cardinality(more) = Len(p) + 1
    BY <1>1, <1>2, <1>4, FS_AddElement
  <1>6. ASSUME NEW i \in more
        PROVE  Append(p, s)[Cardinality({j \in more : j <= i})].of = t[i]
    <2>1. CASE i = n + 1
      <3>1. \A j \in more : j <= i
        BY <2>1
      <3>2. {j \in more : j <= i} = more
        BY <3>1
      <3>3. Append(p, s)[Len(p) + 1] = s
        OBVIOUS
      <3> QED
        BY <2>1, <3>2, <3>3, <1>5
    <2>2. CASE i \in kept
      <3>0. ~(n + 1 <= i)
        <4>1. kept \subseteq 1..n
          BY <1>1
        <4>2. i \in Nat /\ i <= n
          BY <2>2, <4>1
        <4> QED
          BY <4>2
      <3>1. {j \in more : j <= i} = {j \in kept : j <= i}
        BY <3>0, Zenon
      <3> DEFINE front == {j \in kept : j <= i}
      <3>2. front \in SUBSET kept /\ front # {}
        BY <2>2
      <3>3. IsFiniteSet(front) /\ Cardinality(front) <= Cardinality(kept)
        BY <3>2, <1>4, FS_Subset
      <3>4. Cardinality(front) \in Nat /\ Cardinality(front) # 0
        BY <3>2, <3>3, FS_CardinalityType, FS_EmptySet
      <3>5. Cardinality(front) \in 1..Len(p)
        BY <3>3, <3>4, <1>1
      <3>6. Append(p, s)[Cardinality(front)] = p[Cardinality(front)]
        BY <3>5
      <3> QED
        BY <3>1, <3>6, <2>2, <1>1
    <2> QED
      BY <2>1, <2>2
  <1>7. Len(Append(p, s)) = Len(p) + 1
    OBVIOUS
  <1> QED
    BY <1>2, <1>5, <1>6, <1>7 DEF Placed

\* A segment without suggestions leaves the others in place.
LEMMA PlacedSkip ==
  ASSUME NEW p, NEW t, NEW n \in Nat, Placed(p, t, n)
  PROVE  Placed(p, t, n + 1)
  <1>1. SUBSET (1..n) \subseteq SUBSET (1..(n + 1))
    OBVIOUS
  <1> QED
    BY <1>1 DEF Placed

\* Nor does what changes no sentence.
LEMMA PlacedSame ==
  ASSUME NEW p \in Seq(Sets), NEW q \in Seq(Sets), NEW t, NEW n \in Nat, Placed(p, t, n),
         Len(q) = Len(p), \A i \in 1..Len(p) : q[i].of = p[i].of
  PROVE  Placed(q, t, n)
  <1>1. PICK kept \in SUBSET (1..n) :
          /\ Cardinality(kept) = Len(p)
          /\ \A i \in kept : p[Cardinality({j \in kept : j <= i})].of = t[i]
    BY DEF Placed
  <1>2. IsFiniteSet(1..n)
    BY FS_Interval
  <1>3. IsFiniteSet(kept)
    BY <1>2, FS_Subset
  <1>4. ASSUME NEW i \in kept
        PROVE  q[Cardinality({j \in kept : j <= i})].of = t[i]
    <2> DEFINE front == {j \in kept : j <= i}
    <2>1. front \in SUBSET kept /\ front # {}
      OBVIOUS
    <2>2. IsFiniteSet(front) /\ Cardinality(front) <= Cardinality(kept)
      BY <2>1, <1>3, FS_Subset
    <2>3. Cardinality(front) \in Nat /\ Cardinality(front) # 0
      BY <2>1, <2>2, FS_CardinalityType, FS_EmptySet
    <2>4. Cardinality(front) \in 1..Len(p)
      BY <2>2, <2>3, <1>1
    <2> QED
      BY <2>4, <1>1
  <1> QED
    BY <1>1, <1>4 DEF Placed

-----------------------------------------------------------------------------
(* One request does not disturb another. *)

\* What a request is at stays so when neither it nor its call changes.
LEMMA Undisturbed ==
  ASSUME NEW r \in Requests, Walks(r), InCall(r), Gathered(r), Replied(r),
         pc'[r] = pc[r], text'[r] = text[r], seg'[r] = seg[r], key'[r] = key[r], of'[r] = of[r],
         parts'[r] = parts[r], failed'[r] = failed[r], reply'[r] = reply[r],
         pc[r] \in {"fast", "llm", "take", "wait"} => call'[of[r]].status = call[of[r]].status,
         pc[r] = "wait" => call'[of[r]].dups >= call[of[r]].dups /\ call[of[r]].dups \in Nat /\ call'[of[r]].dups \in Nat,
         pc[r] = "wait" /\ call[of[r]].status = "running" => key'[of[r][1]] = key[of[r][1]],
         pc[r] \in {"take", "wait"} /\ call[of[r]].status = "done" => call'[of[r]].set = call[of[r]].set
  PROVE  (Walks(r) /\ InCall(r) /\ Gathered(r) /\ Replied(r))'
  <1>1. Walks(r)'
    BY DEF Walks, Sentence
  <1>2. InCall(r)'
    BY DEF InCall, Sentence
  <1>3. Done(r)' = Done(r)
    BY DEF Done
  <1>4. Gathered(r)'
    BY <1>3 DEF Gathered, Whole
  <1>5. Replied(r)'
    BY DEF Replied
  <1> QED
    BY <1>1, <1>2, <1>4, <1>5

\* Nothing gathered from nothing.
LEMMA PlacedNone ==
  ASSUME NEW t
  PROVE  Placed(<<>>, t, 0)
  <1>1. {} \in SUBSET (1..0) /\ Cardinality({}) = Len(<<>>)
    BY FS_EmptySet
  <1> QED
    BY <1>1 DEF Placed

\* Before the first request everything is in order.
LEMMA Start == Init => IInv
  <1> SUFFICES ASSUME Init PROVE IInv
    OBVIOUS
  <1>1. RequestTypes
    BY CorrectionAssumption DEF Init, RequestTypes, Calls
  <1>2. ASSUME NEW r \in Requests PROVE Walks(r) /\ InCall(r) /\ Gathered(r) /\ Replied(r)
    <2>1. Done(r) = 0 /\ parts[r] = <<>> /\ failed[r] = 0 /\ text[r] = <<>>
      BY DEF Init, Done
    <2>2. Gathered(r)
      BY <2>1, PlacedNone DEF Gathered
    <2> QED
      BY <2>1, <2>2 DEF Init, Walks, InCall, Replied, None
  <1>3. ASSUME NEW c \in CallIds PROVE CallOK(c)
    BY <1>3 DEF Init, CallOK
  <1>4. CacheOK
    BY DEF Init, CacheOK, NoSet
  <1> QED
    BY <1>1, <1>2, <1>3, <1>4 DEF IInv

-----------------------------------------------------------------------------
(* The loop over segments. *)

\* A text cut into its segments starts at the first, with nothing gathered.
LEMMA BeginStep ==
  ASSUME IInv, NEW r \in Requests, NEW t \in Texts, Begin(r, t)
  PROVE  IInv'
  <1> USE DEF IInv
  <1>1. RequestTypes'
    BY CorrectionAssumption DEF Begin, Goto, RequestTypes, lru, env
  <1>2. ASSUME NEW x \in Requests, x # r
        PROVE  (Walks(x) /\ InCall(x) /\ Gathered(x) /\ Replied(x))'
    BY <1>2, Undisturbed DEF Begin, Goto, RequestTypes, InCall, Calls
  <1>3. (Walks(r) /\ InCall(r) /\ Gathered(r) /\ Replied(r))'
    <2>1. Done(r)' = 0 /\ parts'[r] = <<>> /\ failed'[r] = 0 /\ pc'[r] = "lookup"
      BY DEF Begin, Goto, RequestTypes, Done, Walks
    <2>2. Gathered(r)'
      BY <2>1, PlacedNone DEF Gathered
    <2> QED
      BY <2>1, <2>2, CorrectionAssumption DEF Begin, Goto, RequestTypes, Walks, InCall, Replied
  <1>4. ASSUME NEW c \in CallIds PROVE CallOK(c)'
    BY <1>4 DEF Begin, Goto, RequestTypes, CallOK, CallIds
  <1>5. CacheOK'
    BY DEF Begin, CacheOK, lru
  <1> QED
    BY <1>1, <1>2, <1>3, <1>4, <1>5

\* Going on: one segment more is done.
Advances(r) ==
  /\ pc' \in [Requests -> {"new", "lookup", "do", "wait", "fast", "llm", "take", "final", "drop", "end"}]
  /\ seg' \in [Requests -> 0..MaxSegments]
  /\ \A x \in Requests \ {r} : pc'[x] = pc[x] /\ seg'[x] = seg[x]
  /\ pc'[r] \in {"lookup", "final"}
  /\ Done(r) \in Nat /\ Done(r)' = Done(r) + 1 /\ Done(r) + 1 = seg[r]
  /\ pc'[r] = "lookup" => seg'[r] > seg[r]
  /\ pc'[r] = "final" => seg'[r] = seg[r]

\* The loop over the segments either looks the next one up or is through.
LEMMA Advance ==
  ASSUME RequestTypes, NEW r \in Requests, Walks(r), NextSegment(r), UNCHANGED text,
         pc[r] \in {"lookup", "take", "wait"}
  PROVE  Advances(r) /\ Walks(r)'
  <1>1. text[r] \in Texts /\ seg[r] \in 1..Len(text[r]) /\ Len(text[r]) \in 1..MaxSegments
    BY CorrectionAssumption DEF Walks
  <1>2. Done(r) = seg[r] - 1
    BY DEF Done
  <1>3. CASE seg[r] < Len(text[r])
    <2>1. pc' = [pc EXCEPT ![r] = "lookup"] /\ seg' = [seg EXCEPT ![r] = seg[r] + 1]
      BY <1>3 DEF NextSegment, Goto
    <2>2. pc'[r] = "lookup" /\ seg'[r] = seg[r] + 1 /\ text'[r] = text[r]
      BY <2>1 DEF RequestTypes
    <2>3. seg[r] + 1 \in 0..MaxSegments /\ seg[r] + 1 \in 1..Len(text[r])
      BY <1>1, <1>3, CorrectionAssumption
    <2>4. Done(r)' = seg[r]
      BY <1>1, <2>2 DEF Done
    <2>5. Walks(r)'
      BY <1>1, <2>2, <2>3 DEF Walks
    <2> QED
      BY <1>1, <1>2, <2>1, <2>2, <2>3, <2>4, <2>5 DEF RequestTypes, Advances
  <1>4. CASE ~(seg[r] < Len(text[r]))
    <2>1. pc' = [pc EXCEPT ![r] = "final"] /\ seg' = seg
      BY <1>4 DEF NextSegment, Goto
    <2>2. pc'[r] = "final" /\ text'[r] = text[r]
      BY <2>1 DEF RequestTypes
    <2>3. Done(r)' = Len(text[r])
      BY <2>2 DEF Done
    <2>4. Walks(r)'
      BY <1>1, <2>1, <2>2 DEF Walks
    <2>5. seg[r] = Len(text[r])
      BY <1>1, <1>4
    <2> QED
      BY <1>1, <1>2, <2>1, <2>2, <2>3, <2>4, <2>5 DEF RequestTypes, Advances
  <1> QED
    BY <1>3, <1>4

\* Only later calls are still to be made then.
LEMMA AdvanceCalls ==
  ASSUME RequestTypes, NEW r \in Requests, Advances(r), pc[r] \in {"lookup", "take", "wait"},
         \A c \in CallIds : CallOK(c) /\ call'[c].status = call[c].status, UNCHANGED of
  PROVE  \A c \in CallIds : CallOK(c)'
  <1> SUFFICES ASSUME NEW c \in CallIds PROVE CallOK(c)'
    OBVIOUS
  <1>1. c[1] \in Requests /\ c[2] \in Nat
    BY DEF CallIds
  <1>2. CASE c[1] = r
    <2>1. seg[r] \in Nat /\ seg'[r] \in Nat
      BY DEF Advances, RequestTypes
    <2> QED
      BY <1>1, <1>2, <2>1 DEF CallOK, Advances
  <1>3. CASE c[1] # r
    BY <1>1, <1>3 DEF CallOK, Advances
  <1> QED
    BY <1>2, <1>3

\* The next segment's suggestions, shifted as they should be, are gathered.
LEMMA Gather ==
  ASSUME RequestTypes, NEW r \in Requests, Gathered(r), NEW s \in Sets,
         s.shift = (IF Whole(r) THEN 0 ELSE 1), s.of = Sentence(r),
         Done(r) \in Nat, Done(r)' = Done(r) + 1, Done(r) + 1 = seg[r],
         parts' = [parts EXCEPT ![r] = Append(@, s)], UNCHANGED <<text, failed>>
  PROVE  Gathered(r)' /\ parts' \in [Requests -> Seq(Sets)]
  <1>1. parts[r] \in Seq(Sets) /\ parts'[r] = Append(parts[r], s)
    BY DEF RequestTypes
  <1>2. parts' \in [Requests -> Seq(Sets)]
    BY <1>1 DEF RequestTypes
  <1>3. Placed(parts'[r], text'[r], Done(r)')
    BY <1>1, PlacedAppend DEF Gathered, Sentence
  <1>4. Len(parts'[r]) + failed'[r] = Done(r)'
    BY <1>1 DEF Gathered, RequestTypes
  <1>5. \A i \in DOMAIN parts'[r] : parts'[r][i].shift = IF Whole(r) THEN 0 ELSE 1
    BY <1>1 DEF Gathered
  <1>6. Whole(r)' = Whole(r)
    BY DEF Whole
  <1> QED
    BY <1>2, <1>3, <1>4, <1>5, <1>6 DEF Gathered

\* shiftSuggestions moves the spans, and nothing else of them.
LEMMA ShiftedSet ==
  ASSUME NEW s \in Sets
  PROVE  Shifted(s) \in Sets /\ Shifted(s).shift = s.shift + 1 /\ Shifted(s).of = s.of
  BY DEF Sets, Shifted

\* A segment found in the cache is a copy, shifted for this text; one that is
\* not goes to the singleflight group.
LEMMA LookupStep ==
  ASSUME IInv, NEW r \in Requests, Lookup(r)
  PROVE  IInv'
  <1> USE DEF IInv
  <1> DEFINE k == CacheKey(Sentence(r))
  <1>0. Walks(r) /\ Gathered(r) /\ Replied(r) /\ pc[r] = "lookup"
    BY DEF Lookup
  <1>1. Sentence(r) \in Sentences
    BY <1>0, CorrectionAssumption DEF Walks, Sentence
  <1>2. k \in Keys /\ k.of = Sentence(r)
    BY <1>1, CorrectionAssumption DEF CacheKey, Keys, RequestTypes
  <1>3. key' = [key EXCEPT ![r] = k] /\ UNCHANGED <<text, of, call, failed, reply, out, found, env>>
    BY DEF Lookup
  <1>4. CacheOK' /\ cache' = cache
    BY DEF Lookup, Touch, lru, CacheOK
  <1>5. ASSUME NEW c \in CallIds, call[c].status = "running" PROVE c[1] # r
    BY <1>0, <1>5 DEF CallOK
  <1>6. ASSUME NEW x \in Requests, x # r,
               pc'[x] = pc[x], seg'[x] = seg[x], parts'[x] = parts[x]
        PROVE  (Walks(x) /\ InCall(x) /\ Gathered(x) /\ Replied(x))'
    <2>1. key'[x] = key[x]
      BY <1>3, <1>6 DEF RequestTypes
    <2>2. pc[x] = "wait" /\ call[of[x]].status = "running" => key'[of[x][1]] = key[of[x][1]]
      <3> SUFFICES ASSUME pc[x] = "wait", call[of[x]].status = "running"
                   PROVE  key'[of[x][1]] = key[of[x][1]]
        OBVIOUS
      <3>1. of[x] \in CallIds
        BY DEF InCall
      <3>2. of[x][1] # r /\ of[x][1] \in Requests
        BY <3>1, <1>5 DEF CallIds
      <3> QED
        BY <3>2, <1>3 DEF RequestTypes
    <2>3. pc[x] = "wait" => call[of[x]].dups \in Nat
      BY DEF InCall, RequestTypes, Calls
    <2> QED
      BY <1>6, <2>1, <2>2, <2>3, <1>3, Undisturbed
  <1>7. CASE /\ ~Whole(r) /\ cache[k] # NoSet
             /\ parts' = [parts EXCEPT ![r] = Append(@, Shifted(cache[k]))]
             /\ NextSegment(r)
    <2>1. cache[k] \in Sets /\ cache[k].shift = 0 /\ cache[k].of = Sentence(r)
      BY <1>2, <1>7 DEF CacheOK, RequestTypes
    <2>2. /\ Shifted(cache[k]) \in Sets /\ Shifted(cache[k]).shift = 1
          /\ Shifted(cache[k]).of = Sentence(r)
      BY <2>1, ShiftedSet
    <2>3. Advances(r) /\ Walks(r)'
      BY <1>0, <1>3, <1>7, Advance
    <2>4. Gathered(r)' /\ parts' \in [Requests -> Seq(Sets)]
      BY <1>0, <1>3, <1>7, <2>2, <2>3, Gather DEF Advances
    <2>5. RequestTypes'
      BY <1>2, <1>3, <1>4, <2>3, <2>4 DEF RequestTypes, Advances, env
    <2>6. \A c \in CallIds : CallOK(c)'
      BY <1>0, <1>3, <2>3, AdvanceCalls
    <2>7. ASSUME NEW x \in Requests, x # r
          PROVE  (Walks(x) /\ InCall(x) /\ Gathered(x) /\ Replied(x))'
      BY <1>6, <1>7, <2>3, <2>7 DEF Advances, RequestTypes
    <2>8. InCall(r)' /\ Replied(r)'
      BY <1>0, <1>3, <2>3 DEF InCall, Replied, Advances, None
    <2> QED
      BY <1>4, <2>3, <2>4, <2>5, <2>6, <2>7, <2>8
  <1>8. CASE /\ Goto(r, "do") /\ UNCHANGED <<lru, parts, seg>>
    <2>1. pc' = [pc EXCEPT ![r] = "do"] /\ UNCHANGED <<parts, seg>>
      BY <1>8 DEF Goto
    <2>2. RequestTypes'
      BY <1>2, <1>3, <1>4, <2>1 DEF RequestTypes, env
    <2>3. \A c \in CallIds : CallOK(c)'
      BY <1>0, <1>3, <2>1 DEF CallOK, CallIds, RequestTypes
    <2>4. ASSUME NEW x \in Requests, x # r
          PROVE  (Walks(x) /\ InCall(x) /\ Gathered(x) /\ Replied(x))'
      BY <1>6, <2>1, <2>4 DEF RequestTypes
    <2>5. Walks(r)' /\ InCall(r)' /\ Replied(r)'
      BY <1>0, <1>2, <1>3, <2>1 DEF Walks, InCall, Replied, RequestTypes, Sentence
    <2>6. Done(r)' = Done(r) /\ Whole(r)' = Whole(r)
      BY <1>0, <1>3, <2>1 DEF Done, Whole, RequestTypes
    <2>7. Gathered(r)'
      BY <1>0, <1>3, <2>1, <2>6 DEF Gathered
    <2> QED
      BY <1>4, <2>2, <2>3, <2>4, <2>5, <2>7
  <1> QED
    BY <1>7, <1>8 DEF Lookup

-----------------------------------------------------------------------------
(* Sharing a computation. *)

\* A request that joins a call waits for a result for its own key, and is
\* counted, so that the leader will not shift the result in place.
LEMMA JoinStep ==
  ASSUME IInv, NEW r \in Requests, Join(r)
  PROVE  IInv'
  <1> USE DEF IInv
  <1>1. PICK c \in CallIds :
          /\ call[c].status = "running" /\ key[c[1]] = key[r] /\ of[c[1]] = c
          /\ call' = [call EXCEPT ![c].dups = @ + 1]
          /\ of' = [of EXCEPT ![r] = c]
    BY DEF Join, Running
  <1>2. /\ pc[r] = "do" /\ pc' = [pc EXCEPT ![r] = "wait"]
        /\ UNCHANGED <<text, seg, key, parts, failed, reply, out, found, cache, env>>
    BY DEF Join, Goto, lru
  <1>3. Walks(r) /\ Gathered(r) /\ Replied(r) /\ CallOK(c)
    OBVIOUS
  <1>4. c[1] # r /\ c[1] \in Requests
    BY <1>1, <1>2, <1>3 DEF CallOK, CallIds
  <1>5. call[c] \in Calls
    BY DEF RequestTypes
  <1>6. /\ call' \in [CallIds -> Calls]
        /\ call'[c].status = "running" /\ call'[c].dups > 0
        /\ \A d \in CallIds : /\ call'[d].status = call[d].status /\ call'[d].set = call[d].set
                              /\ call'[d].dups >= call[d].dups
                              /\ call[d].dups \in Nat /\ call'[d].dups \in Nat
    <2>1. \A d \in CallIds : call[d] \in Calls
      BY DEF RequestTypes
    <2>2. call'[c] = [call[c] EXCEPT !.dups = call[c].dups + 1]
      BY <1>1 DEF RequestTypes
    <2>3. call'[c] \in Calls /\ call'[c].status = call[c].status /\ call'[c].set = call[c].set
          /\ call'[c].dups = call[c].dups + 1
      BY <1>5, <2>2 DEF Calls
    <2>4. \A d \in CallIds \ {c} : call'[d] = call[d]
      BY <1>1 DEF RequestTypes
    <2>5. call' \in [CallIds -> Calls]
      BY <1>1, <2>1, <2>3, <2>4 DEF RequestTypes
    <2>6. \A d \in CallIds : call[d].dups \in Nat
      BY <2>1 DEF Calls
    <2> QED
      BY <1>1, <2>3, <2>4, <2>5, <2>6
  <1>7. RequestTypes'
    BY <1>1, <1>2, <1>6 DEF RequestTypes, env
  <1>8. ASSUME NEW x \in Requests, x # r
        PROVE  (Walks(x) /\ InCall(x) /\ Gathered(x) /\ Replied(x))'
    <2>1. pc'[x] = pc[x] /\ of'[x] = of[x]
      BY <1>1, <1>2, <1>8 DEF RequestTypes
    <2>2. pc[x] \in {"fast", "llm", "take", "wait"} => of[x] \in CallIds
      <3>1. pc[x] # "new" => <<x, seg[x]>> \in CallIds
        BY CorrectionAssumption DEF Walks, CallIds
      <3> QED
        BY <3>1 DEF InCall
    <2> QED
      BY <1>2, <1>6, <2>1, <2>2, Undisturbed
  <1>9. InCall(r)'
    BY <1>1, <1>2, <1>4, <1>6, <1>7 DEF InCall, RequestTypes
  <1>10. Done(r)' = Done(r) /\ Whole(r)' = Whole(r)
    BY <1>2 DEF Done, Whole, RequestTypes
  <1>11. Walks(r)' /\ Gathered(r)' /\ Replied(r)'
    BY <1>2, <1>3, <1>10 DEF Walks, Gathered, Replied, Sentence, RequestTypes
  <1>12. ASSUME NEW d \in CallIds PROVE CallOK(d)'
    BY <1>1, <1>2, <1>6, <1>12 DEF CallOK, RequestTypes, CallIds
  <1>13. CacheOK'
    BY <1>2 DEF CacheOK
  <1> QED
    BY <1>7, <1>8, <1>9, <1>11, <1>12, <1>13

\* A request that leads makes a call of its own, never made before.
LEMMA LeadStep ==
  ASSUME IInv, NEW r \in Requests, Lead(r)
  PROVE  IInv'
  <1> USE DEF IInv
  <1> DEFINE c == <<r, seg[r]>>
             new == [status |-> "running", dups |-> 0, set |-> NoSet]
  <1>1. /\ pc[r] = "do" /\ pc' = [pc EXCEPT ![r] = IF HasFast THEN "fast" ELSE "llm"]
        /\ call' = [call EXCEPT ![c] = new] /\ of' = [of EXCEPT ![r] = c]
        /\ UNCHANGED <<text, seg, key, parts, failed, reply, out, found, cache, env>>
    BY DEF Lead, Goto, lru
  <1>2. Walks(r) /\ Gathered(r) /\ Replied(r)
    OBVIOUS
  <1>3. c \in CallIds /\ call[c].status = "none" /\ c[1] = r
    <2>1. c \in CallIds
      BY <1>1, <1>2, CorrectionAssumption DEF Walks, CallIds
    <2> QED
      BY <1>1, <2>1 DEF CallOK
  <1>4. new \in Calls
    BY DEF Calls
  <1>5. /\ call' \in [CallIds -> Calls] /\ call'[c] = new
        /\ \A d \in CallIds \ {c} : call'[d] = call[d]
    BY <1>1, <1>3, <1>4 DEF RequestTypes
  <1>6. /\ pc'[r] \in {"fast", "llm"} /\ of'[r] = c /\ (pc'[r] = "fast" => HasFast)
        /\ \A x \in Requests \ {r} : pc'[x] = pc[x] /\ of'[x] = of[x]
    BY <1>1 DEF RequestTypes
  <1>7. RequestTypes'
    BY <1>1, <1>3, <1>5, <1>6 DEF RequestTypes, env
  <1>8. ASSUME NEW x \in Requests, x # r
        PROVE  (Walks(x) /\ InCall(x) /\ Gathered(x) /\ Replied(x))'
    <2>1. pc[x] \in {"fast", "llm", "take", "wait"} =>
            of[x] \in CallIds /\ of[x] # c /\ call[of[x]].dups \in Nat
      <3>1. pc[x] # "new" => <<x, seg[x]>> \in CallIds
        BY CorrectionAssumption DEF Walks, CallIds
      <3>2. pc[x] \in {"fast", "llm", "take", "wait"} => of[x] \in CallIds
        BY <3>1 DEF InCall
      <3>3. \A d \in CallIds : call[d].dups \in Nat
        BY DEF RequestTypes, Calls
      <3> QED
        BY <1>3, <1>8, <3>2, <3>3 DEF InCall
    <2> QED
      BY <1>1, <1>5, <1>6, <1>8, <2>1, Undisturbed
  <1>9. Done(r)' = Done(r) /\ Whole(r)' = Whole(r)
    BY <1>1, <1>6 DEF Done, Whole, RequestTypes
  <1>10. Walks(r)' /\ Gathered(r)'
    BY <1>1, <1>2, <1>6, <1>9 DEF Walks, Gathered, Sentence
  <1>11. InCall(r)' /\ Replied(r)'
    BY <1>1, <1>2, <1>5, <1>6 DEF InCall, Replied, None
  <1>12. ASSUME NEW d \in CallIds PROVE CallOK(d)'
    <2>1. CASE d = c
      <3>1. c[2] = seg[r] /\ seg[r] \in Nat /\ seg'[r] = seg[r]
        BY <1>1 DEF RequestTypes
      <3> QED
        BY <1>3, <1>5, <1>6, <2>1, <3>1 DEF CallOK
    <2>2. CASE d # c
      <3>1. d[1] = r => d[2] # seg[r]
        BY <2>2 DEF CallIds
      <3>2. call'[d] = call[d]
        BY <1>5, <2>2
      <3>3. d[1] = r => call[d].status # "running"
        BY <1>1 DEF CallOK
      <3>4. d[1] \in Requests /\ d[2] \in Nat /\ CallOK(d) /\ seg[r] \in Nat
        BY DEF CallIds, RequestTypes
      <3>5. CASE d[1] = r
        BY <1>1, <1>6, <3>1, <3>2, <3>3, <3>4, <3>5 DEF CallOK
      <3>6. CASE d[1] # r
        BY <1>1, <1>6, <3>2, <3>4, <3>6 DEF CallOK
      <3> QED
        BY <3>5, <3>6
    <2> QED
      BY <2>1, <2>2
  <1>13. CacheOK'
    BY <1>1 DEF CacheOK
  <1> QED
    BY <1>7, <1>8, <1>10, <1>11, <1>12, <1>13

-----------------------------------------------------------------------------
(* Computing. *)

\* What a leader may make of its call: a set for its sentence, unshifted, an
\* error if there is no fast path, or a step from the fast path to the model.
Outcome(r, e) ==
  \/ /\ e.status = "done" /\ pc'[r] = "take"
     /\ e.set \in Sets /\ e.set.shift = 0 /\ e.set.of = Sentence(r)
  \/ e.status = "error" /\ pc'[r] = "take" /\ ~HasFast
  \/ e.status = "running" /\ pc'[r] = "llm"

\* Where a request is in its text names one of the calls.
LEMMA OwnCall ==
  ASSUME RequestTypes, NEW r \in Requests, Walks(r), pc[r] # "new"
  PROVE  <<r, seg[r]>> \in CallIds
  <1>1. text[r] \in Texts /\ seg[r] \in 1..Len(text[r])
    BY DEF Walks
  <1>2. Len(text[r]) \in 1..MaxSegments
    BY <1>1, CorrectionAssumption
  <1>3. seg[r] \in 1..MaxSegments
    BY <1>1, <1>2, CorrectionAssumption
  <1> QED
    BY <1>3 DEF CallIds

\* What a leader makes of its call is what those that wait for it may take.
LEMMA Computes ==
  ASSUME IInv, NEW r \in Requests, pc[r] \in {"fast", "llm"}, NEW e \in Calls,
         call' = [call EXCEPT ![of[r]] = e], e.dups = call[of[r]].dups,
         NEW label \in {"llm", "take"}, Goto(r, label), Outcome(r, e),
         UNCHANGED <<text, seg, key, of, parts, failed, reply, out, found, lru, env>>
  PROVE  IInv'
  <1> USE DEF IInv
  <1>1. Walks(r) /\ InCall(r) /\ Gathered(r) /\ Replied(r)
    OBVIOUS
  <1>2. of[r] = <<r, seg[r]>> /\ of[r] \in CallIds /\ of[r][1] = r /\ call[of[r]].status = "running"
    <2>1. of[r] = <<r, seg[r]>> /\ call[of[r]].status = "running"
      BY <1>1 DEF InCall
    <2>2. pc[r] # "new"
      OBVIOUS
    <2>3. <<r, seg[r]>> \in CallIds
      BY <1>1, <2>2, OwnCall
    <2> QED
      BY <2>1, <2>3
  <1>3. /\ call' \in [CallIds -> Calls] /\ call'[of[r]] = e
        /\ \A d \in CallIds \ {of[r]} : call'[d] = call[d]
    BY <1>2 DEF RequestTypes
  <1>4. pc'[r] = label /\ \A x \in Requests \ {r} : pc'[x] = pc[x]
    BY DEF Goto, RequestTypes
  <1>5. RequestTypes'
    BY <1>3 DEF RequestTypes, Goto, lru, env
  <1>6. ASSUME NEW x \in Requests, x # r
        PROVE  (Walks(x) /\ InCall(x) /\ Gathered(x) /\ Replied(x))'
    <2>1. pc[x] # "new" => <<x, seg[x]>> \in CallIds
      BY CorrectionAssumption DEF Walks, CallIds
    <2>2. pc[x] \in {"fast", "llm", "take"} => of[x] \in CallIds /\ of[x] # of[r]
      BY <1>2, <1>6, <2>1 DEF InCall
    <2>3. pc[x] = "wait" => of[x] \in CallIds /\ call[of[x]].dups \in Nat
      BY DEF InCall, RequestTypes, Calls
    <2>4. CASE pc[x] = "wait" /\ of[x] = of[r]
      <3>1. key[x] = key[r] /\ key[x].of = Sentence(x) /\ key[r].of = Sentence(r)
        BY <1>1, <1>2, <2>4 DEF InCall, Walks
      <3>2. pc'[x] = "wait" /\ Sentence(x)' = Sentence(x) /\ e.set \in Sets \cup {NoSet}
        BY <1>4, <1>6, <2>4 DEF Sentence, Calls
      <3>3. InCall(x)'
        BY <1>2, <1>3, <2>3, <2>4, <3>1, <3>2 DEF InCall, Outcome
      <3>4. Walks(x)' /\ Done(x)' = Done(x) /\ Whole(x)' = Whole(x)
        BY <2>4, <3>2 DEF Walks, Done, Whole
      <3>5. Gathered(x)'
        BY <3>4 DEF Gathered
      <3>6. Replied(x)'
        BY <2>4, <3>2 DEF Replied, None
      <3> QED
        BY <3>3, <3>4, <3>5, <3>6
    <2>5. CASE ~(pc[x] = "wait" /\ of[x] = of[r])
      BY <1>3, <1>4, <1>6, <2>2, <2>3, <2>5, Undisturbed
    <2> QED
      BY <2>4, <2>5
  <1>7. Done(r)' = Done(r) /\ Whole(r)' = Whole(r) /\ Sentence(r)' = Sentence(r)
    BY <1>4 DEF Done, Whole, Sentence
  <1>8. Walks(r)' /\ Gathered(r)' /\ Replied(r)'
    BY <1>1, <1>4, <1>7 DEF Walks, Gathered, Replied, None
  <1>9. InCall(r)'
    BY <1>2, <1>3, <1>4, <1>7 DEF InCall, Outcome
  <1>10. ASSUME NEW d \in CallIds PROVE CallOK(d)'
    <2>1. CallOK(d) /\ d[1] \in Requests /\ d[2] \in Nat /\ seg[r] \in Nat
      BY DEF CallIds, RequestTypes
    <2>2. CASE d = of[r]
      BY <1>2, <1>3, <1>4, <2>1, <2>2 DEF CallOK, Outcome
    <2>3. CASE d # of[r]
      <3>1. call'[d] = call[d]
        BY <1>3, <2>3
      <3>2. CASE d[1] = r
        BY <1>2, <1>4, <2>1, <2>3, <3>1, <3>2 DEF CallOK
      <3>3. CASE d[1] # r
        BY <1>4, <2>1, <3>1, <3>3 DEF CallOK
      <3> QED
        BY <3>2, <3>3
    <2> QED
      BY <2>2, <2>3
  <1>11. CacheOK'
    BY DEF CacheOK, lru
  <1> QED
    BY <1>5, <1>6, <1>8, <1>9, <1>10, <1>11

\* A published call.
LEMMA PublishStep ==
  ASSUME IInv, NEW r \in Requests, pc[r] \in {"fast", "llm"},
         NEW word \in WordEdits, NEW by \in {Model, Fast, Lost}, Publish(r, word, by),
         UNCHANGED <<text, seg, key, of, parts, failed, reply, out, found, lru, env>>
  PROVE  IInv'
  <1> DEFINE set == [of |-> Sentence(r), word |-> word, by |-> by, shift |-> 0]
             e == [call[of[r]] EXCEPT !.status = "done", !.set = set]
  <1>1. RequestTypes /\ Walks(r) /\ InCall(r)
    BY DEF IInv
  <1>2. of[r] \in CallIds /\ call[of[r]] \in Calls
    <2>1. of[r] \in CallIds
      BY <1>1, OwnCall DEF InCall
    <2> QED
      BY <1>1, <2>1 DEF RequestTypes
  <1>3. Sentence(r) \in Sentences
    BY <1>1, CorrectionAssumption DEF Walks, Sentence
  <1>4. set \in Sets
    BY <1>3 DEF Sets
  <1>5. e \in Calls /\ e.status = "done" /\ e.set = set /\ e.dups = call[of[r]].dups
    BY <1>2, <1>4 DEF Calls
  <1>6. call' = [call EXCEPT ![of[r]] = e] /\ Goto(r, "take")
    BY DEF Publish
  <1>7. pc'[r] = "take"
    BY <1>1, <1>6 DEF Goto, RequestTypes
  <1>8. Outcome(r, e)
    BY <1>4, <1>5, <1>7 DEF Outcome
  <1> QED
    BY <1>5, <1>6, <1>8, Computes

\* A call fails only without a fast path.
LEMMA FailStep ==
  ASSUME IInv, NEW r \in Requests, pc[r] \in {"fast", "llm"}, FailCall(r), ~HasFast,
         UNCHANGED <<text, seg, key, of, parts, failed, reply, out, found, lru, env>>
  PROVE  IInv'
  <1> DEFINE e == [call[of[r]] EXCEPT !.status = "error"]
  <1>1. RequestTypes /\ Walks(r) /\ InCall(r)
    BY DEF IInv
  <1>2. of[r] \in CallIds
    BY <1>1, OwnCall DEF InCall
  <1>3. call[of[r]] \in Calls
    BY <1>1, <1>2 DEF RequestTypes
  <1>4. e \in Calls /\ e.status = "error" /\ e.dups = call[of[r]].dups
    BY <1>3 DEF Calls
  <1>5. call' = [call EXCEPT ![of[r]] = e] /\ Goto(r, "take")
    BY DEF FailCall
  <1>6. pc'[r] = "take"
    BY <1>1, <1>5 DEF Goto, RequestTypes
  <1>7. Outcome(r, e)
    BY <1>4, <1>6 DEF Outcome
  <1> QED
    BY <1>4, <1>5, <1>7, Computes

\* The fast path publishes its result or keeps it while the model is asked.
LEMMA RunFastStep ==
  ASSUME IInv, NEW r \in Requests, RunFast(r)
  PROVE  IInv'
  <1>1. RequestTypes /\ Walks(r) /\ InCall(r) /\ pc[r] = "fast"
    BY DEF IInv, RunFast
  <1>2. PICK word \in Possible(Sentence(r)) :
          \/ Publish(r, word, Fast)
          \/ /\ call' = [call EXCEPT ![of[r]].set =
                       [of |-> Sentence(r), word |-> word, by |-> Fast, shift |-> 0]]
             /\ Goto(r, "llm")
    BY DEF RunFast
  <1>w. word \in WordEdits
    BY DEF Possible, WordEdits
  <1>3. CASE Publish(r, word, Fast)
    BY <1>1, <1>w, <1>3, PublishStep DEF RunFast
  <1>4. CASE /\ call' = [call EXCEPT ![of[r]].set =
                     [of |-> Sentence(r), word |-> word, by |-> Fast, shift |-> 0]]
             /\ Goto(r, "llm")
    <2> DEFINE set == [of |-> Sentence(r), word |-> word, by |-> Fast, shift |-> 0]
               e == [call[of[r]] EXCEPT !.set = set]
    <2>1. of[r] \in CallIds
      BY <1>1, OwnCall DEF InCall
    <2>2. call[of[r]] \in Calls /\ call[of[r]].status = "running"
      BY <1>1, <2>1 DEF RequestTypes, InCall
    <2>3. set \in Sets
      BY <1>1, <1>w, CorrectionAssumption DEF Walks, Sentence, Sets
    <2>4. e \in Calls /\ e.status = "running" /\ e.dups = call[of[r]].dups
      BY <2>2, <2>3 DEF Calls
    <2>5. pc'[r] = "llm"
      BY <1>1, <1>4 DEF Goto, RequestTypes
    <2>6. Outcome(r, e)
      BY <2>4, <2>5 DEF Outcome
    <2>7. UNCHANGED <<text, seg, key, of, parts, failed, reply, out, found, lru, env>>
      BY DEF RunFast
    <2>8. call' = [call EXCEPT ![of[r]] = e]
      BY <1>4
    <2> QED
      BY <1>1, <1>4, <2>4, <2>6, <2>7, <2>8, Computes
  <1> QED
    BY <1>2, <1>3, <1>4

\* No usable answer of the model: what the fast path said, or an error.
LEMMA FallBackStep ==
  ASSUME IInv, NEW r \in Requests, pc[r] = "llm", NEW by \in {Model, Fast, Lost}, FallBack(r, by),
         UNCHANGED <<text, seg, key, of, parts, failed, reply, out, found, lru, env>>
  PROVE  IInv'
  <1>1. RequestTypes /\ Walks(r) /\ InCall(r)
    BY DEF IInv
  <1>2. of[r] \in CallIds
    BY <1>1, OwnCall DEF InCall
  <1>3. call[of[r]].set.word \in WordEdits
    <2>1. call[of[r]] \in Calls
      BY <1>1, <1>2 DEF RequestTypes
    <2>2. call[of[r]].set \in Sets \cup {NoSet}
      BY <2>1 DEF Calls
    <2>3. NoSet.word \in WordEdits
      BY DEF NoSet, WordEdits
    <2>4. \A s \in Sets : s.word \in WordEdits
      BY DEF Sets
    <2> QED
      BY <2>2, <2>3, <2>4
  <1>4. CASE HasFast
    BY <1>3, <1>4, PublishStep DEF FallBack
  <1>5. CASE ~HasFast
    BY <1>5, FailStep DEF FallBack
  <1> QED
    BY <1>4, <1>5

\* However the call of the model ends, the sentence has its result or error.
LEMMA ModelStep ==
  ASSUME IInv, NEW r \in Requests, LLMAnswers(r) \/ LLMFails(r) \/ LLMDiscarded(r)
  PROVE  IInv'
  <1>0. Possible(Sentence(r)) \subseteq WordEdits /\ None \in WordEdits
    BY DEF Possible, WordEdits
  <1>1. CASE LLMAnswers(r)
    BY <1>0, <1>1, PublishStep DEF LLMAnswers
  <1>2. CASE LLMFails(r)
    BY <1>2, FallBackStep DEF LLMFails
  <1>3. CASE LLMDiscarded(r)
    BY <1>0, <1>3, FallBackStep, PublishStep DEF LLMDiscarded
  <1> QED
    BY <1>1, <1>2, <1>3

-----------------------------------------------------------------------------
(* Taking the result. *)

\* What the cache is given is unshifted and for its key's sentence.
LEMMA AddOK ==
  ASSUME RequestTypes, CacheOK, NEW k \in Keys, NEW s \in Sets, s.shift = 0, s.of = k.of, Add(k, s)
  PROVE  CacheOK' /\ cache' \in [Keys -> Sets \cup {NoSet}]
  <1>1. PICK order : Store(order, k, s)
    BY DEF Add
  <1>2. /\ cache' = [j \in Keys |-> IF j = k THEN s ELSE IF j \in Range(order) THEN cache[j] ELSE NoSet]
        /\ cache \in [Keys -> Sets \cup {NoSet}]
    BY <1>1 DEF Store, RequestTypes
  <1>3. ASSUME NEW j \in Keys
        PROVE  (cache'[j] = s /\ j = k) \/ cache'[j] = cache[j] \/ cache'[j] = NoSet
    BY <1>2
  <1>4. NoSet.shift = 0
    BY DEF NoSet
  <1>5. cache' \in [Keys -> Sets \cup {NoSet}]
    BY <1>2
  <1> QED
    BY <1>3, <1>4, <1>5 DEF CacheOK

\* sf.Do returned a set: nobody else holds the slice that is shifted in place.
LEMMA TakeStep ==
  ASSUME IInv, NEW r \in Requests, Take(r)
  PROVE  IInv'
  <1> DEFINE set == call[of[r]].set
             s == IF Whole(r) THEN set ELSE Shifted(set)
  <1>1. /\ RequestTypes /\ CacheOK /\ Walks(r) /\ InCall(r) /\ Gathered(r) /\ Replied(r)
        /\ pc[r] \in {"take", "wait"} /\ call[of[r]].status = "done"
    BY DEF IInv, Take
  <1>2. /\ parts' = [parts EXCEPT ![r] = Append(@, s)]
        /\ NextSegment(r)
        /\ UNCHANGED <<text, key, of, failed, reply, out, found, env>>
    BY DEF Take
  <1>3. of[r] \in CallIds
    <2>1. pc[r] # "new"
      BY <1>1
    <2>2. <<r, seg[r]>> \in CallIds
      BY <1>1, <2>1, OwnCall
    <2> QED
      BY <1>1, <2>2 DEF InCall
  <1>4. set \in Sets /\ set.shift = 0 /\ set.of = Sentence(r)
    BY <1>1 DEF InCall
  <1>5. key[r] \in Keys /\ key[r].of = Sentence(r)
    BY <1>1 DEF Walks
  <1>6. Shifted(set) \in Sets /\ Shifted(set).shift = 1 /\ Shifted(set).of = Sentence(r)
    BY <1>4, ShiftedSet
  <1>7. s \in Sets /\ s.shift = (IF Whole(r) THEN 0 ELSE 1) /\ s.of = Sentence(r)
    BY <1>4, <1>6
  <1>8. Advances(r) /\ Walks(r)'
    BY <1>1, <1>2, Advance
  <1>9. Gathered(r)' /\ parts' \in [Requests -> Seq(Sets)]
    BY <1>1, <1>2, <1>7, <1>8, Gather DEF Advances
  <1>10. CacheOK' /\ cache' \in [Keys -> Sets \cup {NoSet}]
    <2>1. CASE Whole(r)
      <3>1. cache' = cache
        BY <2>1 DEF Take, lru
      <3> QED
        BY <1>1, <3>1 DEF CacheOK, RequestTypes
    <2>2. CASE ~Whole(r)
      <3>1. Add(key[r], set)
        BY <2>2 DEF Take
      <3> QED
        BY <1>1, <1>4, <1>5, <3>1, AddOK
    <2> QED
      BY <2>1, <2>2
  <1>11. call' = call \/ (~Shared(r) /\ call' = [call EXCEPT ![of[r]].set = Shifted(@)])
    BY DEF Take
  <1>12. /\ call' \in [CallIds -> Calls]
         /\ \A c \in CallIds : call'[c].status = call[c].status /\ call'[c].dups = call[c].dups
         /\ \A c \in CallIds : c # of[r] \/ Shared(r) => call'[c] = call[c]
    <2>1. CASE call' = call
      BY <1>1, <2>1 DEF RequestTypes
    <2>2. CASE ~Shared(r) /\ call' = [call EXCEPT ![of[r]].set = Shifted(@)]
      <3> DEFINE e == [call[of[r]] EXCEPT !.set = Shifted(set)]
      <3>1. call[of[r]] \in Calls
        BY <1>1, <1>3 DEF RequestTypes
      <3>2. e \in Calls /\ e.status = call[of[r]].status /\ e.dups = call[of[r]].dups
        BY <1>6, <3>1 DEF Calls
      <3>3. call' = [call EXCEPT ![of[r]] = e]
        BY <2>2
      <3> HIDE DEF e
      <3>4. call'[of[r]] = e /\ \A c \in CallIds \ {of[r]} : call'[c] = call[c]
        BY <1>1, <1>3, <3>3 DEF RequestTypes
      <3>5. call' \in [CallIds -> Calls]
        BY <1>1, <3>2, <3>3 DEF RequestTypes
      <3> QED
        BY <2>2, <3>2, <3>4, <3>5
    <2> QED
      BY <1>11, <2>1, <2>2
  <1>13. RequestTypes'
    BY <1>1, <1>2, <1>8, <1>9, <1>10, <1>12 DEF RequestTypes, Advances, env
  <1>14. ASSUME NEW x \in Requests, x # r
         PROVE  (Walks(x) /\ InCall(x) /\ Gathered(x) /\ Replied(x))'
    <2>1. Walks(x) /\ InCall(x) /\ Gathered(x) /\ Replied(x)
      BY DEF IInv
    <2>2. pc[x] \in {"fast", "llm", "take", "wait"} => of[x] \in CallIds
      <3>1. pc[x] # "new" => <<x, seg[x]>> \in CallIds
        BY <1>1, <2>1, OwnCall
      <3> QED
        BY <2>1, <3>1 DEF InCall
    <2>3. pc[x] \in {"take", "wait"} => of[x] # of[r] \/ Shared(r)
      <3>1. CASE pc[x] = "take"
        <4>1. of[x] = <<x, seg[x]>>
          BY <2>1, <3>1 DEF InCall
        <4> QED
          BY <1>14, <4>1 DEF Shared
      <3>2. CASE pc[x] = "wait"
        BY <2>1, <3>2 DEF InCall, Shared
      <3> QED
        BY <3>1, <3>2
    <2>4. pc'[x] = pc[x] /\ seg'[x] = seg[x] /\ parts'[x] = parts[x]
      BY <1>1, <1>2, <1>8, <1>14 DEF Advances, RequestTypes
    <2>5. pc[x] = "wait" => call[of[x]].dups \in Nat
      BY <1>1, <2>2 DEF RequestTypes, Calls
    <2> QED
      BY <1>2, <1>12, <2>1, <2>2, <2>3, <2>4, <2>5, Undisturbed
  <1>15. InCall(r)' /\ Replied(r)'
    BY <1>1, <1>2, <1>8 DEF InCall, Replied, Advances, None
  <1>16. \A c \in CallIds : CallOK(c)'
    <2>1. \A c \in CallIds : CallOK(c) /\ call'[c].status = call[c].status
      BY <1>12 DEF IInv
    <2> QED
      BY <1>1, <1>2, <1>8, <2>1, AdvanceCalls
  <1> QED
    BY <1>8, <1>9, <1>10, <1>13, <1>14, <1>15, <1>16 DEF IInv

\* sf.Do returned an error: the segment contributes nothing.
LEMMA SkipStep ==
  ASSUME IInv, NEW r \in Requests, Skip(r)
  PROVE  IInv'
  <1>1. /\ RequestTypes /\ CacheOK /\ Walks(r) /\ InCall(r) /\ Gathered(r) /\ Replied(r)
        /\ pc[r] \in {"take", "wait"} /\ call[of[r]].status = "error"
    BY DEF IInv, Skip
  <1>2. /\ failed' = [failed EXCEPT ![r] = @ + 1]
        /\ NextSegment(r)
        /\ UNCHANGED <<text, key, of, call, parts, reply, out, found, cache, env>>
    BY DEF Skip, lru
  <1>3. of[r] \in CallIds
    <2>1. pc[r] # "new"
      BY <1>1
    <2>2. <<r, seg[r]>> \in CallIds
      BY <1>1, <2>1, OwnCall
    <2> QED
      BY <1>1, <2>2 DEF InCall
  <1>4. ~HasFast
    BY <1>1, <1>3 DEF IInv, CallOK
  <1>5. Advances(r) /\ Walks(r)'
    BY <1>1, <1>2, Advance
  <1>6. failed[r] \in Nat /\ failed'[r] = failed[r] + 1 /\ parts[r] \in Seq(Sets)
    BY <1>1, <1>2 DEF RequestTypes
  <1>7. Len(parts'[r]) + failed'[r] = Done(r)'
    <2>1. Len(parts[r]) \in Nat /\ Len(parts[r]) + failed[r] = Done(r)
      BY <1>1, <1>6 DEF Gathered
    <2>2. Done(r)' = Done(r) + 1 /\ parts'[r] = parts[r]
      BY <1>2, <1>5 DEF Advances
    <2> QED
      BY <1>6, <2>1, <2>2
  <1>8. failed' \in [Requests -> 0..MaxSegments]
    <2>1. Done(r) + 1 = seg[r] /\ seg[r] \in 0..MaxSegments /\ Len(parts[r]) \in Nat
      BY <1>1, <1>5, <1>6 DEF Advances, RequestTypes
    <2>2. Len(parts[r]) + failed[r] = Done(r)
      BY <1>1 DEF Gathered
    <2>3. Len(parts[r]) + (failed[r] + 1) = seg[r]
      BY <1>6, <2>1, <2>2
    <2>4. failed[r] + 1 \in 0..MaxSegments
      BY <1>6, <2>1, <2>3, CorrectionAssumption
    <2> QED
      BY <1>1, <1>2, <2>4 DEF RequestTypes
  <1>9. Gathered(r)'
    <2>1. Placed(parts'[r], text'[r], Done(r)')
      <3>1. Placed(parts[r], text[r], Done(r)) /\ Done(r) \in Nat /\ Done(r)' = Done(r) + 1
        BY <1>1, <1>5 DEF Gathered, Advances
      <3>2. Placed(parts[r], text[r], Done(r) + 1)
        BY <3>1, PlacedSkip
      <3> QED
        BY <1>2, <3>1, <3>2
    <2>2. Whole(r)' = Whole(r)
      BY <1>2 DEF Whole
    <2> QED
      BY <1>1, <1>2, <1>4, <1>7, <2>1, <2>2 DEF Gathered
  <1>10. RequestTypes'
    BY <1>1, <1>2, <1>5, <1>8 DEF RequestTypes, Advances, env
  <1>11. ASSUME NEW x \in Requests, x # r
         PROVE  (Walks(x) /\ InCall(x) /\ Gathered(x) /\ Replied(x))'
    <2>1. Walks(x) /\ InCall(x) /\ Gathered(x) /\ Replied(x)
      BY DEF IInv
    <2>2. pc'[x] = pc[x] /\ seg'[x] = seg[x] /\ failed'[x] = failed[x]
      BY <1>1, <1>2, <1>5, <1>11 DEF Advances, RequestTypes
    <2>3. pc[x] = "wait" => call[of[x]].dups \in Nat
      BY <1>1, <2>1 DEF InCall, RequestTypes, Calls
    <2> QED
      BY <1>2, <2>1, <2>2, <2>3, Undisturbed
  <1>12. InCall(r)' /\ Replied(r)'
    BY <1>1, <1>2, <1>5 DEF InCall, Replied, Advances, None
  <1>13. \A c \in CallIds : CallOK(c)'
    <2>1. \A c \in CallIds : CallOK(c) /\ call'[c].status = call[c].status
      BY <1>2 DEF IInv
    <2> QED
      BY <1>1, <1>2, <1>5, <2>1, AdvanceCalls
  <1>14. CacheOK'
    BY <1>1, <1>2 DEF CacheOK
  <1> QED
    BY <1>5, <1>9, <1>10, <1>11, <1>12, <1>13, <1>14 DEF IInv

-----------------------------------------------------------------------------
(* The reply. *)

\* The reply is put together from what was gathered, and disturbs nobody.
LEMMA ReplyStep ==
  ASSUME IInv, NEW r \in Requests, pc[r] \in {"final", "drop"}, NEW l \in {"drop", "end"},
         pc' = [pc EXCEPT ![r] = l],
         UNCHANGED <<text, seg, key, of, call, parts, failed, lru, env>>,
         reply' \in [Requests -> {None, "answer", "error"}],
         out' \in [Requests -> Seq(WordEdits)], found' \in [Requests -> SUBSET BOOLEAN],
         \A x \in Requests \ {r} : reply'[x] = reply[x],
         Replied(r)'
  PROVE  IInv'
  <1>1. pc'[r] = l /\ \A x \in Requests \ {r} : pc'[x] = pc[x]
    BY DEF IInv, RequestTypes
  <1>2. RequestTypes'
    BY DEF IInv, RequestTypes, lru, env
  <1>3. ASSUME NEW x \in Requests, x # r
        PROVE  (Walks(x) /\ InCall(x) /\ Gathered(x) /\ Replied(x))'
    <2>1. Walks(x) /\ InCall(x) /\ Gathered(x) /\ Replied(x)
      BY DEF IInv
    <2>2. pc[x] = "wait" => call[of[x]].dups \in Nat
      BY <2>1 DEF IInv, InCall, RequestTypes, Calls
    <2> QED
      BY <1>1, <1>3, <2>1, <2>2, Undisturbed
  <1>4. Walks(r)' /\ InCall(r)'
    BY <1>1 DEF IInv, Walks, InCall
  <1>5. Gathered(r)'
    <2>1. Gathered(r)
      BY DEF IInv
    <2>2. Done(r)' = Done(r) /\ Whole(r)' = Whole(r)
      BY <1>1 DEF Done, Whole
    <2> QED
      BY <2>1, <2>2 DEF Gathered
  <1>6. ASSUME NEW c \in CallIds PROVE CallOK(c)'
    <2>1. CallOK(c) /\ c[1] \in Requests
      BY DEF IInv, CallIds
    <2> QED
      BY <1>1, <2>1 DEF CallOK
  <1>7. CacheOK'
    BY DEF IInv, CacheOK, lru
  <1> QED
    BY <1>2, <1>3, <1>4, <1>5, <1>6, <1>7 DEF IInv

\* A request all of whose segments failed has gathered nothing.
LEMMA RefuseStep ==
  ASSUME IInv, NEW r \in Requests, Refuse(r)
  PROVE  IInv'
  <1>1. /\ RequestTypes /\ Walks(r) /\ Gathered(r)
        /\ pc[r] = "final" /\ failed[r] = Len(text[r]) /\ pc' = [pc EXCEPT ![r] = "end"]
        /\ reply' = [reply EXCEPT ![r] = "error"]
        /\ UNCHANGED <<text, seg, key, of, call, parts, failed, out, found, lru, env>>
    BY DEF IInv, Refuse, Goto
  <1>2. Done(r) = Len(text[r]) /\ Len(text[r]) \in Nat \ {0}
    <2>1. text[r] \in Texts
      BY <1>1 DEF Walks
    <2>2. Len(text[r]) \in 1..MaxSegments
      BY <2>1, CorrectionAssumption
    <2> QED
      BY <1>1, <2>2, CorrectionAssumption DEF Done
  <1>3. parts[r] \in Seq(Sets) /\ Len(parts[r]) \in Nat /\ failed[r] \in Nat
    BY <1>1 DEF RequestTypes
  <1>4. parts[r] = <<>> /\ ~HasFast
    <2>0. Len(parts[r]) + failed[r] = Done(r)
      BY <1>1 DEF Gathered
    <2> DEFINE m == Len(parts[r])
               n == Len(text[r])
    <2>a. m \in Nat /\ n \in Nat \ {0} /\ m + failed[r] = n /\ failed[r] = n
      BY <1>1, <1>2, <1>3, <2>0
    <2> HIDE DEF m, n
    <2>b. m = 0 /\ failed[r] > 0
      BY <2>a
    <2>1. Len(parts[r]) = 0 /\ failed[r] > 0
      BY <2>b DEF m
    <2> QED
      BY <1>1, <1>3, <2>1 DEF Gathered
  <1>5. Replied(r)'
    BY <1>1, <1>4 DEF Replied, RequestTypes, None
  <1>6. reply' \in [Requests -> {None, "answer", "error"}] /\ \A x \in Requests \ {r} : reply'[x] = reply[x]
    BY <1>1 DEF RequestTypes
  <1>7. out' \in [Requests -> Seq(WordEdits)] /\ found' \in [Requests -> SUBSET BOOLEAN]
    BY <1>1 DEF RequestTypes
  <1> QED
    BY <1>1, <1>5, <1>6, <1>7, ReplyStep

\* finalize begins.
LEMMA FinalizeStep ==
  ASSUME IInv, NEW r \in Requests, Finalize(r)
  PROVE  IInv'
  <1>1. /\ RequestTypes /\ Replied(r)
        /\ pc[r] = "final" /\ pc' = [pc EXCEPT ![r] = "drop"] /\ found' = [found EXCEPT ![r] = {inDict}]
        /\ UNCHANGED <<text, seg, key, of, call, parts, failed, reply, out, lru, env>>
    BY DEF IInv, Finalize, Goto
  <1>2. Replied(r)'
    BY <1>1 DEF Replied
  <1>3. found' \in [Requests -> SUBSET BOOLEAN]
    BY <1>1 DEF RequestTypes
  <1>4. /\ out' \in [Requests -> Seq(WordEdits)] /\ reply' \in [Requests -> {None, "answer", "error"}]
        /\ \A x \in Requests \ {r} : reply'[x] = reply[x]
    BY <1>1 DEF RequestTypes
  <1> QED
    BY <1>1, <1>2, <1>3, <1>4, ReplyStep

\* dropAllowlisted writes what is left to a slice of its own.
LEMMA DropStep ==
  ASSUME IInv, NEW r \in Requests, DropAllowlisted(r), Dropped(r)
  PROVE  IInv'
  <1> DEFINE done == Len(out[r]) + 1
  <1>1. /\ RequestTypes /\ Replied(r) /\ pc[r] = "drop"
        /\ out' = [out EXCEPT ![r] = Append(@, Allowed(parts[r][done]))]
        /\ UNCHANGED <<text, seg, key, of, call, parts, failed, found, lru, env>>
    BY DEF IInv, DropAllowlisted
  <1>2. Allowed(parts[r][done]) \in WordEdits
    <2>1. parts[r] \in Seq(Sets) /\ out[r] \in Seq(WordEdits) /\ Len(out[r]) < Len(parts[r])
      BY <1>1 DEF RequestTypes, Dropped
    <2>2. done \in 1..Len(parts[r])
      BY <2>1
    <2>3. parts[r][done] \in Sets
      BY <2>1, <2>2
    <2> HIDE DEF done
    <2> QED
      BY <2>3 DEF Allowed, WordEdits, Sets
  <1>3. out' \in [Requests -> Seq(WordEdits)]
    BY <1>1, <1>2 DEF RequestTypes
  <1>4. found' \in [Requests -> SUBSET BOOLEAN]
    BY <1>1 DEF RequestTypes
  <1>5. CASE pc' = pc /\ reply' = reply
    <2>1. pc' = [pc EXCEPT ![r] = "drop"]
      BY <1>1, <1>5 DEF RequestTypes
    <2>2. Replied(r)'
      BY <1>1, <1>5 DEF Replied
    <2>3. /\ reply' \in [Requests -> {None, "answer", "error"}]
          /\ \A x \in Requests \ {r} : reply'[x] = reply[x]
      BY <1>1, <1>5 DEF RequestTypes
    <2> QED
      BY <1>1, <1>3, <1>4, <2>1, <2>2, <2>3, ReplyStep
  <1>6. CASE pc' = [pc EXCEPT ![r] = "end"] /\ reply' = [reply EXCEPT ![r] = "answer"]
    <2>1. Replied(r)'
      BY <1>1, <1>6 DEF Replied, RequestTypes, None
    <2>2. /\ reply' \in [Requests -> {None, "answer", "error"}]
          /\ \A x \in Requests \ {r} : reply'[x] = reply[x]
      BY <1>1, <1>6 DEF RequestTypes
    <2> QED
      BY <1>1, <1>3, <1>4, <1>6, <2>1, <2>2, ReplyStep
  <1> QED
    BY <1>5, <1>6 DEF DropAllowlisted, Goto

\* The environment: the block, the dictionary, the clients that leave.
LEMMA EnvStep ==
  ASSUME IInv, UNCHANGED <<pc, text, seg, key, of, call, parts, failed, reply, out, lru>>,
         found' \in [Requests -> SUBSET BOOLEAN],
         personal' \in Prompts, inDict' \in BOOLEAN, gone' \in [Requests -> BOOLEAN]
  PROVE  IInv'
  <1>1. RequestTypes'
    BY DEF IInv, RequestTypes, lru
  <1>2. ASSUME NEW x \in Requests
        PROVE  (Walks(x) /\ InCall(x) /\ Gathered(x) /\ Replied(x))'
    <2>1. Walks(x) /\ InCall(x) /\ Gathered(x) /\ Replied(x)
      BY DEF IInv
    <2>2. pc[x] = "wait" => call[of[x]].dups \in Nat
      BY <2>1 DEF IInv, InCall, RequestTypes, Calls
    <2> QED
      BY <2>1, <2>2, Undisturbed
  <1>3. \A c \in CallIds : CallOK(c)'
    BY DEF IInv, CallOK
  <1>4. CacheOK'
    BY DEF IInv, CacheOK, lru
  <1> QED
    BY <1>1, <1>2, <1>3, <1>4 DEF IInv

\* Every step of the service, of its clients and of the user keeps it.
LEMMA Inductive == IInv /\ DroppedOK /\ [Next]_vars => IInv'
  <1> SUFFICES ASSUME IInv, DroppedOK, [Next]_vars PROVE IInv'
    OBVIOUS
  <1>0. /\ personal \in Prompts /\ inDict \in BOOLEAN /\ gone \in [Requests -> BOOLEAN]
        /\ found \in [Requests -> SUBSET BOOLEAN]
    BY DEF IInv, RequestTypes
  <1>1. ASSUME NEW r \in Requests, NEW t \in Texts, Begin(r, t) PROVE IInv'
    BY <1>1, BeginStep
  <1>2. ASSUME NEW r \in Requests, Step(r) PROVE IInv'
    <2>1. Dropped(r)
      BY DEF DroppedOK
    <2> QED
      BY <1>2, <2>1, LookupStep, JoinStep, LeadStep, RunFastStep, ModelStep, TakeStep, SkipStep,
         RefuseStep, FinalizeStep, DropStep DEF Step
  <1>3. ASSUME NEW r \in Requests, ClientGone(r) PROVE IInv'
    <2>1. gone' \in [Requests -> BOOLEAN]
      BY <1>0, <1>3 DEF ClientGone
    <2> QED
      BY <1>0, <1>3, <2>1, EnvStep DEF ClientGone, requestVars
  <1>4. CASE Personalize
    BY <1>0, <1>4, EnvStep DEF Personalize, requestVars
  <1>5. CASE EditDictionary
    <2>1. inDict' \in BOOLEAN /\ found' \in [Requests -> SUBSET BOOLEAN]
      BY <1>0, <1>5 DEF EditDictionary
    <2> QED
      BY <1>0, <1>5, <2>1, EnvStep DEF EditDictionary
  <1>6. CASE UNCHANGED vars
    BY <1>0, <1>6, EnvStep DEF vars, env, requestVars
  <1> QED
    BY <1>1, <1>2, <1>3, <1>4, <1>5, <1>6 DEF Next

\* Only finalize writes to the slice of what is left, and what it writes there
\* is right by what the dictionary says at that time; the suggestions it reads
\* are all there when it begins.
LEMMA DroppedStep == IInv /\ DroppedOK /\ [Next]_vars => DroppedOK'
  <1> SUFFICES ASSUME IInv, DroppedOK, [Next]_vars, NEW x \in Requests PROVE Dropped(x)'
    BY DEF DroppedOK
  <1>1. RequestTypes /\ Dropped(x) /\ Gathered(x) /\ Replied(x)
    BY DEF IInv, DroppedOK
  <1>2. ASSUME pc'[x] = pc[x], parts'[x] = parts[x],
               UNCHANGED <<reply, out, found, inDict>>
        PROVE  Dropped(x)'
    BY <1>1, <1>2 DEF Dropped
  <1>3. ASSUME pc[x] \notin {"drop", "end"}, pc'[x] \notin {"drop", "end"}, UNCHANGED <<reply, out>>
        PROVE  Dropped(x)'
    BY <1>1, <1>3 DEF Dropped, Replied, None
  <1>4. ASSUME NEW r \in Requests,
               (\E t \in Texts : Begin(r, t)) \/ Lookup(r) \/ Join(r) \/ Lead(r) \/ RunFast(r)
               \/ LLMAnswers(r) \/ LLMFails(r) \/ LLMDiscarded(r) \/ Take(r) \/ Skip(r)
        PROVE  Dropped(x)'
    <2>1. /\ UNCHANGED <<reply, out, found, inDict>>
          /\ pc[r] \in {"new", "lookup", "do", "fast", "llm", "take", "wait"}
          /\ \E l \in {"lookup", "do", "wait", "fast", "llm", "take", "final"} : pc' = [pc EXCEPT ![r] = l]
          /\ parts' = parts \/ \E p : parts' = [parts EXCEPT ![r] = p]
      BY <1>4 DEF Begin, Lookup, Join, Lead, RunFast, LLMAnswers, LLMFails, LLMDiscarded, Take, Skip,
                  FallBack, FailCall, Publish, NextSegment, Goto, env
    <2>2. CASE x = r
      BY <1>1, <1>3, <2>1, <2>2 DEF RequestTypes
    <2>3. CASE x # r
      BY <1>1, <1>2, <2>1, <2>3 DEF RequestTypes
    <2> QED
      BY <2>2, <2>3
  <1>5. ASSUME NEW r \in Requests, Refuse(r) \/ Finalize(r) \/ DropAllowlisted(r), x # r
        PROVE  Dropped(x)'
    <2>1. UNCHANGED <<parts, inDict>> /\ pc'[x] = pc[x]
      BY <1>1, <1>5 DEF Refuse, Finalize, DropAllowlisted, Goto, RequestTypes, env
    <2>2. reply'[x] = reply[x] /\ out'[x] = out[x] /\ found'[x] = found[x]
      BY <1>1, <1>5 DEF Refuse, Finalize, DropAllowlisted, RequestTypes
    <2> QED
      BY <1>1, <2>1, <2>2 DEF Dropped
  <1>6. CASE Refuse(x)
    <2>1. pc'[x] = "end" /\ reply'[x] = "error" /\ out'[x] = <<>>
      BY <1>1, <1>6 DEF Refuse, Goto, RequestTypes, Dropped
    <2> QED
      BY <2>1 DEF Dropped
  <1>7. CASE Finalize(x)
    <2>1. /\ pc[x] = "final" /\ failed[x] < Len(text[x])
          /\ pc'[x] = "drop" /\ out'[x] = <<>> /\ parts' = parts /\ reply'[x] = reply[x]
          /\ inDict' \in found'[x]
      BY <1>1, <1>7 DEF Finalize, Goto, RequestTypes, Dropped, env
    <2>2. Len(parts[x]) + failed[x] = Len(text[x])
      BY <1>1, <2>1 DEF Gathered, Done
    <2>3. parts[x] \in Seq(Sets) /\ failed[x] \in Nat
      BY <1>1 DEF RequestTypes
    <2>4. Len(parts[x]) > 0
      BY <2>1, <2>2, <2>3
    <2> QED
      BY <1>1, <2>1, <2>4 DEF Dropped, Replied, None
  <1>8. CASE DropAllowlisted(x)
    <2> DEFINE n == Len(out[x])
               part == parts[x][n + 1]
    <2>1. /\ out[x] \in Seq(WordEdits) /\ n \in Nat /\ Len(parts[x]) \in Nat /\ n < Len(parts[x])
          /\ inDict \in found[x] /\ reply[x] # "answer"
      BY <1>1, <1>8 DEF DropAllowlisted, RequestTypes, Dropped, Replied, None
    <2>2. out'[x] = Append(out[x], Allowed(part)) /\ parts' = parts /\ found' = found /\ inDict' = inDict
      BY <1>1, <1>8 DEF DropAllowlisted, RequestTypes, env
    <2>3. /\ Len(out'[x]) = n + 1 /\ out'[x][n + 1] = Allowed(part)
          /\ \A i \in 1..n : out'[x][i] = out[x][i]
      BY <2>1, <2>2
    <2>4. RightlyKept(part, Allowed(part), found[x])
      <3>1. found[x] = {TRUE} => inDict
        BY <2>1
      <3>2. found[x] = {FALSE} => ~inDict
        BY <2>1
      <3> HIDE DEF part
      <3> QED
        BY <3>1, <3>2 DEF RightlyKept, Allowed, None, Alone
    <2>5. \A i \in 1..Len(out'[x]) : RightlyKept(parts'[x][i], out'[x][i], found'[x])
      <3> SUFFICES ASSUME NEW i \in 1..(n + 1) PROVE RightlyKept(parts[x][i], out'[x][i], found[x])
        BY <2>2, <2>3
      <3>1. CASE i = n + 1
        BY <2>3, <2>4, <3>1
      <3>2. CASE i # n + 1
        <4>1. i \in 1..n
          BY <2>1, <3>2
        <4> QED
          BY <1>1, <2>3, <4>1 DEF Dropped
      <3> QED
        BY <3>1, <3>2
    <2>6. CASE n + 1 < Len(parts[x])
      <3>1. pc'[x] = "drop" /\ reply'[x] = reply[x]
        BY <1>8, <2>6 DEF DropAllowlisted
      <3> QED
        BY <2>1, <2>2, <2>3, <2>5, <2>6, <3>1 DEF Dropped
    <2>7. CASE ~(n + 1 < Len(parts[x]))
      <3>1. pc'[x] = "end"
        BY <1>1, <1>8, <2>7 DEF DropAllowlisted, Goto, RequestTypes
      <3>2. n + 1 = Len(parts[x])
        BY <2>1, <2>7
      <3> QED
        BY <2>2, <2>3, <2>5, <3>1, <3>2 DEF Dropped
    <2> QED
      BY <2>6, <2>7
  <1>9. CASE EditDictionary
    <2>1. /\ UNCHANGED <<pc, parts, reply, out>> /\ inDict' \in BOOLEAN
          /\ found'[x] = IF pc[x] = "drop" THEN BOOLEAN ELSE found[x]
      BY <1>9 DEF EditDictionary
    <2>2. CASE pc[x] = "drop"
      <3>1. found'[x] # {TRUE} /\ found'[x] # {FALSE}
        BY <2>1, <2>2
      <3>2. \A i \in 1..Len(out[x]) : RightlyKept(parts[x][i], out[x][i], found'[x])
        BY <1>1, <3>1 DEF Dropped, RightlyKept
      <3> QED
        BY <1>1, <2>1, <2>2, <3>2 DEF Dropped
    <2>3. CASE pc[x] # "drop"
      BY <1>1, <2>1, <2>3 DEF Dropped
    <2> QED
      BY <2>2, <2>3
  <1>10. ASSUME (\E r \in Requests : ClientGone(r)) \/ Personalize \/ UNCHANGED vars
         PROVE  Dropped(x)'
    BY <1>2, <1>10 DEF ClientGone, Personalize, vars, env, requestVars
  <1> QED
    BY <1>4, <1>5, <1>6, <1>7, <1>8, <1>9, <1>10 DEF Next, Step

\* So the invariant holds throughout.
THEOREM Invariant == Spec => [](IInv /\ DroppedOK)
  <1>1. Init => DroppedOK
    BY DEF Init, DroppedOK, Dropped, None
  <1> QED
    BY <1>1, Start, Inductive, DroppedStep, PTL DEF Spec

-----------------------------------------------------------------------------
(* The order of the cache. *)

\* The index RemoveFirst takes out, in a sequence that names nothing twice.
LEMMA IndexFound ==
  ASSUME NEW s \in Seq(Keys), IsInjective(s), NEW i \in 1..Len(s)
  PROVE  RemoveFirst(s, s[i]) = RemoveAt(s, i)
  <1>1. {j \in 1..Len(s) : s[j] = s[i]} = {i}
    BY DEF IsInjective
  <1>2. Min({i}) = i
    BY DEF Min
  <1> QED
    BY <1>1, <1>2 DEF RemoveFirst, SelectInSeq

\* RemoveFirst takes the key out of the order and leaves the rest as it was.
LEMMA Removed ==
  ASSUME NEW s \in Seq(Keys), IsInjective(s), NEW k \in Keys
  PROVE  /\ RemoveFirst(s, k) \in Seq(Keys) /\ IsInjective(RemoveFirst(s, k))
         /\ Range(RemoveFirst(s, k)) = Range(s) \ {k}
         /\ Len(RemoveFirst(s, k)) \in Nat /\ Len(RemoveFirst(s, k)) <= Len(s)
         /\ k \in Range(s) => Len(RemoveFirst(s, k)) = Len(s) - 1
  <1>1. CASE k \notin Range(s)
    <2>1. ~\E i \in 1..Len(s) : s[i] = k
      BY <1>1 DEF Range
    <2>2. RemoveFirst(s, k) = s
      BY <2>1 DEF RemoveFirst
    <2> QED
      BY <1>1, <2>2
  <1>2. CASE k \in Range(s)
    <2>1. PICK i \in 1..Len(s) : s[i] = k
      BY <1>2 DEF Range
    <2> DEFINE t == RemoveAt(s, i)
    <2>2. RemoveFirst(s, k) = t
      BY <2>1, IndexFound
    <2>3. /\ t \in Seq(Keys) /\ Len(t) = Len(s) - 1
          /\ \A j \in 1..(Len(s) - 1) : t[j] = IF j < i THEN s[j] ELSE s[j + 1]
      <3> DEFINE before == SubSeq(s, 1, i - 1)
                 after == SubSeq(s, i + 1, Len(s))
      <3>1. /\ before \in Seq(Keys) /\ Len(before) = i - 1
            /\ \A j \in 1..(i - 1) : before[j] = s[j]
        OBVIOUS
      <3>2. /\ after \in Seq(Keys) /\ Len(after) = Len(s) - i
            /\ \A j \in 1..(Len(s) - i) : after[j] = s[i + j]
        OBVIOUS
      <3>3. t = before \o after
        BY DEF RemoveAt
      <3> HIDE DEF before, after, t
      <3>4. /\ t \in Seq(Keys) /\ Len(t) = Len(before) + Len(after)
            /\ \A j \in 1..(Len(before) + Len(after)) :
                 t[j] = IF j <= Len(before) THEN before[j] ELSE after[j - Len(before)]
        BY <3>1, <3>2, <3>3, ConcatProperties
      <3>5. Len(s) \in Nat /\ i \in 1..Len(s)
        OBVIOUS
      <3>6. Len(t) = Len(s) - 1
        BY <3>1, <3>2, <3>4, <3>5
      <3>7. ASSUME NEW j \in 1..(Len(s) - 1) PROVE t[j] = IF j < i THEN s[j] ELSE s[j + 1]
        <4> DEFINE b == Len(before)
                   m == Len(before) + Len(after)
        <4>a. b = i - 1 /\ m = Len(s) - 1
          BY <3>1, <3>2, <3>5
        <4>b. j \in 1..m /\ t[j] = IF j <= b THEN before[j] ELSE after[j - b]
          BY <3>4, <4>a
        <4> HIDE DEF b, m
        <4>1. CASE j < i
          <5>1. j <= b /\ j \in 1..(i - 1)
            BY <3>5, <4>a, <4>1
          <5>2. t[j] = before[j] /\ before[j] = s[j]
            BY <3>1, <4>b, <5>1
          <5> QED
            BY <4>1, <5>2
        <4>2. CASE j >= i
          <5>1. ~(j <= b) /\ j - b \in 1..(Len(s) - i) /\ i + (j - b) = j + 1 /\ ~(j < i)
            BY <3>5, <4>a, <4>2
          <5>2. t[j] = after[j - b] /\ after[j - b] = s[i + (j - b)]
            BY <3>2, <4>b, <5>1
          <5> QED
            BY <5>1, <5>2
        <4> QED
          BY <3>5, <3>7, <4>1, <4>2
      <3> QED
        BY <3>4, <3>6, <3>7
    <2> HIDE DEF t
    <2>4. IsInjective(t)
      <3> SUFFICES ASSUME NEW x \in 1..Len(t), NEW y \in 1..Len(t), t[x] = t[y]
                   PROVE  x = y
        BY <2>3 DEF IsInjective
      <3> DEFINE Old(n) == IF n < i THEN n ELSE n + 1
      <3>1. ASSUME NEW n \in 1..Len(t) PROVE Old(n) \in 1..Len(s) /\ t[n] = s[Old(n)]
        <4>1. n \in 1..(Len(s) - 1)
          BY <2>3
        <4>2. t[n] = s[Old(n)]
          BY <2>3, <4>1
        <4> QED
          BY <4>1, <4>2
      <3>2. Old(x) \in DOMAIN s /\ Old(y) \in DOMAIN s /\ s[Old(x)] = s[Old(y)]
        BY <3>1
      <3>3. Old(x) = Old(y)
        BY ONLY <3>2, IsInjective(s) DEF IsInjective
      <3> QED
        BY <3>3
    <2>5. \A j \in 1..Len(s) : j # i => \E m \in 1..Len(t) : t[m] = s[j]
      <3> TAKE j \in 1..Len(s)
      <3>1. CASE j < i
        BY <2>3, <3>1
      <3>2. CASE j > i
        <4>1. j - 1 \in 1..Len(t) /\ t[j - 1] = s[j]
          BY <2>3, <3>2
        <4> QED
          BY <4>1
      <3> QED
        BY <3>1, <3>2
    <2>6. \A m \in 1..Len(t) : \E j \in 1..Len(s) : j # i /\ s[j] = t[m]
      <3> TAKE m \in 1..Len(t)
      <3>1. CASE m < i
        BY <2>3, <3>1
      <3>2. CASE m >= i
        <4>1. m + 1 \in 1..Len(s) /\ m + 1 # i /\ t[m] = s[m + 1]
          BY <2>3, <3>2
        <4> QED
          BY <4>1
      <3> QED
        BY <2>3, <3>1, <3>2
    <2>7. \A j \in 1..Len(s) : j # i => s[j] # k
      BY <2>1 DEF IsInjective
    <2>8. Range(t) = Range(s) \ {k}
      <3>1. Range(t) = {t[m] : m \in 1..Len(t)} /\ Range(s) = {s[j] : j \in 1..Len(s)}
        BY <2>3, RangeEquality
      <3>2. \A x \in Range(s) : x # k => x \in Range(t)
        BY <2>1, <2>5, <3>1
      <3>3. \A x \in Range(t) : x \in Range(s) /\ x # k
        BY <2>6, <2>7, <3>1
      <3> QED
        BY <3>2, <3>3
    <2> QED
      BY <2>2, <2>3, <2>4, <2>8
  <1> QED
    BY <1>1, <1>2

\* A key that was looked up or added is the most recent, once.
LEMMA Renewed ==
  ASSUME NEW s \in Seq(Keys), IsInjective(s), NEW k \in Keys
  PROVE  LET order == Append(RemoveFirst(s, k), k) IN
         /\ order \in Seq(Keys) /\ IsInjective(order) /\ Range(order) = Range(s) \cup {k}
         /\ order[Len(order)] = k /\ Len(order) \in 1..(Len(s) + 1)
         /\ k \in Range(s) => Len(order) = Len(s)
  <1> DEFINE t == RemoveFirst(s, k)
             order == Append(t, k)
  <1>1. /\ t \in Seq(Keys) /\ IsInjective(t) /\ Range(t) = Range(s) \ {k}
        /\ Len(t) \in Nat /\ Len(t) <= Len(s) /\ (k \in Range(s) => Len(t) = Len(s) - 1)
    BY Removed
  <1> HIDE DEF t
  <1>2. /\ order \in Seq(Keys) /\ Len(order) = Len(t) + 1 /\ order[Len(order)] = k
        /\ \A i \in 1..Len(t) : order[i] = t[i]
    BY <1>1
  <1>3. \A i \in 1..Len(t) : t[i] # k
    BY <1>1 DEF Range
  <1> HIDE DEF order
  <1>4. IsInjective(order)
    BY <1>1, <1>2, <1>3 DEF IsInjective
  <1>5. Range(order) = Range(t) \cup {k}
    BY <1>1, <1>2 DEF Range
  <1>6. Len(order) \in 1..(Len(s) + 1) /\ (k \in Range(s) => Len(order) = Len(s))
    BY <1>1, <1>2, LenProperties
  <1> QED
    BY <1>1, <1>2, <1>4, <1>5, <1>6 DEF order, t

\* The least recently used entry goes; the newest stays.
LEMMA Evicted ==
  ASSUME NEW s \in Seq(Keys), IsInjective(s), Len(s) > 1
  PROVE  /\ Tail(s) \in Seq(Keys) /\ IsInjective(Tail(s)) /\ Range(Tail(s)) \subseteq Range(s)
         /\ Len(Tail(s)) = Len(s) - 1 /\ s[Len(s)] \in Range(Tail(s))
  <1>1. /\ Tail(s) \in Seq(Keys) /\ Len(Tail(s)) = Len(s) - 1
        /\ \A i \in 1..(Len(s) - 1) : Tail(s)[i] = s[i + 1]
    OBVIOUS
  <1>2. IsInjective(Tail(s))
    BY <1>1 DEF IsInjective
  <1>3. Len(s) - 1 \in 1..Len(Tail(s)) /\ Tail(s)[Len(s) - 1] = s[Len(s)]
    BY <1>1
  <1> DEFINE t == Tail(s)
  <1>4. Range(t) = {t[m] : m \in 1..Len(t)} /\ Range(s) = {s[j] : j \in 1..Len(s)}
    BY <1>1, RangeEquality
  <1> HIDE DEF t
  <1>5. Range(t) \subseteq Range(s)
    BY <1>1, <1>4 DEF t
  <1>6. s[Len(s)] \in Range(t)
    BY <1>3, <1>4 DEF t
  <1> QED
    BY <1>1, <1>2, <1>5, <1>6 DEF t

LruTypeOK == recent \in Seq(Keys) /\ LruOK

\* An order over cached keys, the stored one among them, is the cache's.
LEMMA StoreOrder ==
  ASSUME RequestTypes, LruTypeOK, NEW k \in Keys, NEW set \in Sets, NEW order \in Seq(Keys),
         IsInjective(order), k \in Range(order), Range(order) \subseteq Range(recent) \cup {k},
         Len(order) <= Capacity, Store(order, k, set)
  PROVE  LruTypeOK'
  <1>1. recent' = order
    BY DEF Store
  <1>2. set # NoSet
    BY DEF Sets, NoSet, None, Model, Fast, Lost
  <1>3. \A j \in Keys : cache'[j] = IF j = k THEN set ELSE IF j \in Range(order) THEN cache[j] ELSE NoSet
    BY DEF Store
  <1>4. Range(recent) = {j \in Keys : cache[j] # NoSet}
    BY DEF LruTypeOK, LruOK
  <1>5. Range(order) \subseteq Keys
    BY DEF Range
  <1>6. Range(order) = {j \in Keys : cache'[j] # NoSet}
    BY <1>2, <1>3, <1>4, <1>5
  <1> QED
    BY <1>1, <1>6 DEF LruTypeOK, LruOK

\* sentenceCache.add keeps the list in step with the map, within the capacity.
LEMMA AddOrder ==
  ASSUME RequestTypes, LruTypeOK, NEW k \in Keys, NEW set \in Sets, Add(k, set)
  PROVE  LruTypeOK'
  <1> DEFINE order == Append(RemoveFirst(recent, k), k)
  <1>1. /\ recent \in Seq(Keys) /\ IsInjective(recent) /\ Len(recent) <= Capacity
        /\ Len(recent) \in Nat /\ Capacity \in Nat \ {0}
    BY CorrectionAssumption DEF LruTypeOK, LruOK
  <1>2. /\ order \in Seq(Keys) /\ IsInjective(order) /\ Range(order) = Range(recent) \cup {k}
        /\ order[Len(order)] = k /\ Len(order) \in 1..(Len(recent) + 1)
    BY <1>1, Renewed
  <1>3. Store(IF Len(order) > Capacity THEN Tail(order) ELSE order, k, set)
    BY DEF Add
  <1> HIDE DEF order
  <1>4. CASE Len(order) > Capacity
    <2>1. Len(order) > 1
      BY <1>1, <1>2, <1>4
    <2>2. /\ Tail(order) \in Seq(Keys) /\ IsInjective(Tail(order)) /\ Range(Tail(order)) \subseteq Range(order)
          /\ Len(Tail(order)) = Len(order) - 1 /\ k \in Range(Tail(order))
      BY <1>2, <2>1, Evicted
    <2>3. Len(Tail(order)) <= Capacity
      BY <1>1, <1>2, <2>2
    <2> QED
      BY <1>2, <1>3, <1>4, <2>2, <2>3, StoreOrder
  <1>5. CASE Len(order) <= Capacity
    <2>1. ~(Len(order) > Capacity) /\ k \in Range(order)
      BY <1>1, <1>2, <1>5
    <2> QED
      BY <1>2, <1>3, <1>5, <2>1, StoreOrder
  <1> QED
    BY <1>1, <1>2, <1>4, <1>5

\* sentenceCache.get does, too: it moves a key that is there.
LEMMA TouchOrder ==
  ASSUME LruTypeOK, NEW k \in Keys, cache[k] # NoSet, Touch(k)
  PROVE  LruTypeOK'
  <1>1. recent \in Seq(Keys) /\ IsInjective(recent) /\ k \in Range(recent)
    BY DEF LruTypeOK, LruOK
  <1>2. recent' \in Seq(Keys) /\ IsInjective(recent') /\ Range(recent') = Range(recent) /\ Len(recent') = Len(recent)
    <2> DEFINE order == Append(RemoveFirst(recent, k), k)
    <2>1. /\ order \in Seq(Keys) /\ IsInjective(order) /\ Range(order) = Range(recent) \cup {k}
          /\ Len(order) = Len(recent)
      BY <1>1, Renewed
    <2>2. recent' = order
      BY DEF Touch
    <2> HIDE DEF order
    <2> QED
      BY <1>1, <2>1, <2>2
  <1> QED
    BY <1>2 DEF Touch, LruTypeOK, LruOK

\* Every step keeps the order: only a lookup that finds and a Take change it.
LEMMA OrderStep == IInv /\ LruTypeOK /\ [Next]_vars => LruTypeOK'
  <1> SUFFICES ASSUME IInv, LruTypeOK, [Next]_vars PROVE LruTypeOK'
    OBVIOUS
  <1>1. ASSUME UNCHANGED lru PROVE LruTypeOK'
    BY <1>1 DEF lru, LruTypeOK, LruOK
  <1>2. ASSUME NEW r \in Requests, Lookup(r) PROVE LruTypeOK'
    <2>1. Walks(r) /\ pc[r] = "lookup" /\ RequestTypes
      BY <1>2 DEF IInv, Lookup
    <2>2. CacheKey(Sentence(r)) \in Keys
      <3>1. text[r] \in Seq(Sentences) /\ seg[r] \in 1..Len(text[r])
        BY <2>1, CorrectionAssumption DEF Walks
      <3>2. Sentence(r) \in Sentences
        BY <3>1 DEF Sentence
      <3>3. (Chat /\ inDict /\ Sentence(r) \in Worded) \in BOOLEAN
        OBVIOUS
      <3> QED
        BY <2>1, <3>2, <3>3 DEF CacheKey, Keys, RequestTypes
    <2> QED
      BY <1>1, <1>2, <2>2, TouchOrder DEF Lookup
  <1>3. ASSUME NEW r \in Requests, Take(r) PROVE LruTypeOK'
    <2>1. Walks(r) /\ InCall(r) /\ RequestTypes /\ pc[r] \in {"take", "wait"} /\ call[of[r]].status = "done"
      BY <1>3 DEF IInv, Take
    <2>2. key[r] \in Keys /\ call[of[r]].set \in Sets
      BY <2>1 DEF Walks, InCall
    <2> QED
      BY <1>1, <1>3, <2>1, <2>2, AddOrder DEF Take
  <1>4. CASE Next
    <2>1. ASSUME NEW r \in Requests, NEW t \in Texts, Begin(r, t) PROVE UNCHANGED lru
      BY <2>1 DEF Begin
    <2>2. ASSUME NEW r \in Requests, Step(r), ~Lookup(r), ~Take(r) PROVE UNCHANGED lru
      BY <2>2 DEF Step, Join, Lead, RunFast, LLMAnswers, LLMFails, LLMDiscarded, Skip, Refuse,
         Finalize, DropAllowlisted
    <2>3. ASSUME NEW r \in Requests, ClientGone(r) PROVE UNCHANGED lru
      BY <2>3 DEF ClientGone
    <2> QED
      BY <1>1, <1>2, <1>3, <1>4, <2>1, <2>2, <2>3 DEF Next, Personalize, EditDictionary
  <1> QED
    BY <1>1, <1>4 DEF vars

\* The requests and the cache have their types, and the cache's list names
\* what its map holds, each key once, within the capacity.
THEOREM TypeCorrect == Spec => []TypeOK
  <1>1. Init => LruTypeOK
    <2> SUFFICES ASSUME Init PROVE LruTypeOK
      OBVIOUS
    <2>1. recent = <<>> /\ \A k \in Keys : cache[k] = NoSet
      BY DEF Init
    <2>2. Range(recent) = {} /\ IsInjective(recent) /\ Len(recent) = 0
      BY <2>1 DEF Range, IsInjective
    <2> QED
      BY <2>1, <2>2, CorrectionAssumption DEF LruTypeOK, LruOK
  <1>2. IInv /\ LruTypeOK => TypeOK
    BY DEF IInv, LruTypeOK, TypeOK
  <1> QED
    BY <1>1, <1>2, OrderStep, Invariant, PTL DEF Spec

-----------------------------------------------------------------------------
(* What it is for. *)

\* Whoever led and whoever joined, and whatever came from the cache, each
\* set of spans is moved to whole-text offsets once (correctOnce's slice is
\* shared by every caller of sf.Do).
THEOREM ShiftedOnceHolds == Spec => []ShiftedOnce
  <1>1. IInv => ShiftedOnce
    BY DEF IInv, Gathered, CacheOK, InCall, ShiftedOnce
  <1> QED
    BY <1>1, Invariant, PTL

\* A request gets the suggestions for its own sentences, in their order.
THEOREM OwnSentencesHold == Spec => []OwnSentences
  <1>1. IInv => OwnSentences
    <2> SUFFICES ASSUME IInv, NEW r \in Requests
                 PROVE  \E kept \in SUBSET (1..Len(text[r])) :
                          /\ Cardinality(kept) = Len(parts[r])
                          /\ \A i \in kept :
                               parts[r][Cardinality({j \in kept : j <= i})].of = text[r][i]
      BY DEF OwnSentences
    <2>1. Walks(r) /\ Gathered(r) /\ RequestTypes
      BY DEF IInv
    <2>2. Len(text[r]) \in Nat
      BY <2>1, CorrectionAssumption DEF Walks
    <2>3. Done(r) \in Nat /\ Done(r) <= Len(text[r])
      <3>1. CASE pc[r] = "new"
        BY <2>2, <3>1 DEF Done
      <3>2. CASE pc[r] # "new"
        <4>1. seg[r] \in 1..Len(text[r])
          BY <2>1, <3>2 DEF Walks
        <4> QED
          BY <2>2, <3>2, <4>1 DEF Done
      <3> QED
        BY <3>1, <3>2
    <2>4. SUBSET (1..Done(r)) \subseteq SUBSET (1..Len(text[r]))
      BY <2>2, <2>3
    <2> QED
      BY <2>1, <2>4 DEF Gathered, Placed
  <1> QED
    BY <1>1, Invariant, PTL

\* While the dictionary has the user's word no answer edits it alone, whoever
\* computed the suggestions and when; dropAllowlisted takes nothing else away.
THEOREM DictionaryRespectedHolds == Spec => []DictionaryRespected
  <1>1. IInv /\ DroppedOK => DictionaryRespected
    <2> SUFFICES ASSUME IInv, DroppedOK, NEW r \in Requests, reply[r] = "answer"
                 PROVE  /\ Len(out[r]) = Len(parts[r])
                        /\ \A i \in DOMAIN parts[r] : RightlyKept(parts[r][i], out[r][i], found[r])
      BY DEF DictionaryRespected
    <2>1. Dropped(r) /\ parts[r] \in Seq(Sets)
      BY DEF DroppedOK, IInv, RequestTypes
    <2>2. Len(out[r]) = Len(parts[r]) /\ DOMAIN parts[r] = 1..Len(out[r])
      BY <2>1 DEF Dropped
    <2> QED
      BY <2>1, <2>2 DEF Dropped
  <1> QED
    BY <1>1, Invariant, PTL

\* Correct returns an error only with nothing to show and without a fast path.
THEOREM FailsOnlyEmptyHolds == Spec => []FailsOnlyEmpty
  <1>1. IInv => FailsOnlyEmpty
    BY DEF IInv, Replied, FailsOnlyEmpty
  <1> QED
    BY <1>1, Invariant, PTL

\* No key is being computed twice at a time.
LEMMA SingleFlight == IInv /\ OneComputationPerKey /\ [Next]_vars => OneComputationPerKey'
  <1> SUFFICES ASSUME IInv, OneComputationPerKey, [Next]_vars PROVE OneComputationPerKey'
    OBVIOUS
  <1>1. CASE \E r \in Requests : Lead(r)
    <2>1. PICK r \in Requests : Lead(r)
      BY <1>1
    <2>2. pc[r] = "do" /\ Walks(r) /\ key' = key /\ Running(key[r]) = {}
      BY <2>1 DEF IInv, Lead
    <2>3. <<r, seg[r]>> \in CallIds
      BY <2>2, OwnCall DEF IInv
    <2>4. \A c \in CallIds \ {<<r, seg[r]>>} : call'[c] = call[c]
      BY <2>1 DEF Lead, IInv, RequestTypes
    <2>5. \A c \in CallIds : call[c].status = "running" => key[c[1]] # key[r]
      BY <2>2 DEF Running, IInv, CallOK
    <2> QED
      BY <2>2, <2>3, <2>4, <2>5 DEF OneComputationPerKey
  <1>2. CASE \E r \in Requests : Lookup(r)
    <2>1. PICK r \in Requests : Lookup(r)
      BY <1>2
    <2>2. pc[r] = "lookup" /\ call' = call /\ \A x \in Requests \ {r} : key'[x] = key[x]
      BY <2>1 DEF Lookup, IInv, RequestTypes
    <2>3. \A c \in CallIds : call[c].status = "running" => c[1] \in Requests \ {r}
      BY <2>2 DEF IInv, CallOK, CallIds
    <2> QED
      BY <2>2, <2>3 DEF OneComputationPerKey
  <1>3. ASSUME key' = key,
               \A c \in CallIds : call'[c].status = "running" => call[c].status = "running"
        PROVE  OneComputationPerKey'
    BY <1>3 DEF OneComputationPerKey
  <1>4. CASE call' = call /\ key' = key
    BY <1>3, <1>4
  <1>5. CASE \E r \in Requests : Join(r)
    <2>1. key' = key /\ \A c \in CallIds : call'[c].status = call[c].status
      <3>1. PICK r \in Requests : Join(r)
        BY <1>5
      <3>2. PICK c \in CallIds : call' = [call EXCEPT ![c].dups = @ + 1]
        BY <3>1 DEF Join, Running
      <3>3. call'[c] = [call[c] EXCEPT !.dups = @ + 1] /\ \A d \in CallIds \ {c} : call'[d] = call[d]
        BY <3>2 DEF IInv, RequestTypes
      <3>4. call[c] \in Calls
        BY DEF IInv, RequestTypes
      <3>5. call'[c].status = call[c].status
        BY <3>3, <3>4 DEF Calls
      <3> QED
        BY <3>1, <3>3, <3>5 DEF Join
    <2> QED
      BY <1>3, <2>1
  <1>6. CASE \E r \in Requests : Take(r)
    <2>1. PICK r \in Requests : Take(r)
      BY <1>6
    <2>2. key' = key
      BY <2>1 DEF Take
    <2>3. call' = call \/ call' = [call EXCEPT ![of[r]].set = Shifted(@)]
      BY <2>1 DEF Take
    <2>4. \A c \in CallIds : call[c] \in Calls
      BY DEF IInv, RequestTypes
    <2>5. ASSUME NEW c \in CallIds PROVE call'[c].status = call[c].status
      <3>1. CASE call'[c] = call[c]
        BY <3>1
      <3>2. CASE c = of[r] /\ call'[c] = [call[c] EXCEPT !.set = Shifted(@)]
        BY <2>4, <3>2 DEF Calls
      <3> QED
        BY <2>3, <3>1, <3>2 DEF IInv, RequestTypes
    <2> QED
      BY <1>3, <2>2, <2>5
  <1>7. ASSUME NEW r \in Requests, pc[r] \in {"fast", "llm"}, key' = key,
               \A c \in CallIds : c # of[r] => call'[c] = call[c]
        PROVE  OneComputationPerKey'
    <2>1. call[of[r]].status = "running"
      BY <1>7 DEF IInv, InCall
    <2> QED
      BY <1>3, <1>7, <2>1
  <1>8. ASSUME NEW r \in Requests, RunFast(r) PROVE OneComputationPerKey'
    <2>1. pc[r] = "fast" /\ key' = key
      BY <1>8 DEF RunFast
    <2>2. \A c \in CallIds : c # of[r] => call'[c] = call[c]
      BY <1>8 DEF RunFast, Publish, IInv, RequestTypes
    <2> QED
      BY <1>7, <2>1, <2>2
  <1>9. ASSUME NEW r \in Requests, LLMAnswers(r) \/ LLMFails(r) \/ LLMDiscarded(r)
        PROVE  OneComputationPerKey'
    <2>1. pc[r] = "llm" /\ key' = key
      BY <1>9 DEF LLMAnswers, LLMFails, LLMDiscarded
    <2>2. \A c \in CallIds : c # of[r] => call'[c] = call[c]
      BY <1>9 DEF LLMAnswers, LLMFails, LLMDiscarded, FallBack, Publish, FailCall, IInv, RequestTypes
    <2> QED
      BY <1>7, <2>1, <2>2
  <1>10. ASSUME NEW r \in Requests,
                (\E t \in Texts : Begin(r, t)) \/ Skip(r) \/ Refuse(r) \/ Finalize(r)
                \/ DropAllowlisted(r) \/ ClientGone(r)
         PROVE  OneComputationPerKey'
    BY <1>4, <1>10 DEF Begin, Skip, Refuse, Finalize, DropAllowlisted, ClientGone, requestVars
  <1>11. CASE Personalize \/ EditDictionary \/ UNCHANGED vars
    BY <1>4, <1>11 DEF Personalize, EditDictionary, requestVars, vars
  <1> QED
    BY <1>1, <1>2, <1>5, <1>6, <1>8, <1>9, <1>10, <1>11 DEF Next, Step

\* singleflight: two requests never compute the same key at a time.
THEOREM OneComputationHolds == Spec => []OneComputationPerKey
  <1>1. Init => OneComputationPerKey
    BY DEF Init, OneComputationPerKey
  <1> QED
    BY <1>1, Invariant, SingleFlight, PTL DEF Spec
=============================================================================
