-------------------------- MODULE CorrectionService --------------------------
(***************************************************************************)
(* correction.Service.Correct (bridge/internal/correction/service.go): the *)
(* requests of concurrent clients cut into sentences, the sentence cache   *)
(* (sentence_cache.go), the singleflight group that lets requests for the  *)
(* same sentence share one correctOnce, the escalation from the fast path  *)
(* to the language model, and finalize.                                    *)
(*                                                                         *)
(* A set of suggestions is kept as what the properties tell apart: the     *)
(* sentence it was computed for, how it edits the user's own word, who     *)
(* answered (the model, the fast path, or the fast path for want of the    *)
(* model's answer), and how often its spans were shifted.                  *)
(*                                                                         *)
(* Not modelled here: the picky style pass, the neighbour context (both    *)
(* off unless asked for), and the reject suppressor and calibrators        *)
(* finalize consults (see RejectSuppressor).                               *)
(***************************************************************************)
EXTENDS Naturals, Sequences, SequencesExt, FiniteSets

CONSTANTS
  Requests,    \* request identities, each used once
  Sentences,
  Texts,       \* the texts clients send: non-empty sequences of sentences
  MaxSegments, \* the most sentences in one of them
  Hard,        \* sentences whose fast result ShouldEscalate
  Worded,      \* sentences that contain the one word the user may add
  Prompts,     \* values of the personalization block
  Chat,        \* whether the model is sent a system prompt (chat, not GRMR-native)
  HasFast,     \* whether fast correctors are configured (len(s.fast) > 0)
  BackendFails,\* whether the model's backend may fail by itself (breaker open included)
  Capacity     \* size of the sentence cache

ASSUME CorrectionAssumption ==
  /\ Texts \subseteq Seq(Sentences)
  /\ MaxSegments \in Nat /\ \A t \in Texts : Len(t) \in 1..MaxSegments
  /\ Hard \subseteq Sentences /\ Worded \subseteq Sentences
  /\ Chat \in BOOLEAN /\ HasFast \in BOOLEAN /\ BackendFails \in BOOLEAN
  /\ Capacity \in Nat \ {0}

VARIABLES
  pc,        \* where each request is
  text,      \* its text
  seg,       \* index of the segment it is at
  key,       \* sentenceCacheKey of that segment
  of,        \* <<leader, segment>>: the singleflight call it takes part in
  call,      \* the singleflight calls, by leader and segment
  parts,     \* the suggestions of its segments so far, as records
  failed,    \* failures: segments that ended in an error
  reply,     \* what the client was sent
  cache,     \* the sentence cache: sets of suggestions by key
  recent,    \* its keys, least recently used first
  personal,  \* the current personalization block (prompt.Builder reads it)
  inDict,    \* whether the user's word is in the dictionary
  gone,      \* the client of the request disconnected: its context is done
  out,      \* dropAllowlisted's out: how the parts it is through with edit the word
  found      \* history: what the dictionary said of the word while it was at work

requestVars == <<pc, text, seg, key, of, call, parts, failed, reply, out, found>>
lru == <<cache, recent>>
env == <<personal, inDict, gone>>
vars == <<requestVars, lru, env>>

None == "none"
Fast == "fast"      \* the fast path answered, the model was not needed or overruled
Lost == "lost"      \* the fast path answered because the model did not
Model == "model"    \* the model's correction was diffed

Keys == [personal: Prompts \cup {None}, vocab: BOOLEAN, of: Sentences]
CallIds == Requests \X (1..MaxSegments)
NoCall == <<None, 0>>
NoKey == [personal |-> None, vocab |-> FALSE, of |-> None]
NoSet == [of |-> None, word |-> None, by |-> None, shift |-> 0]

\* An edit is of the word alone if its span, widened to the white space around
\* it, is the word and nothing else.  Any other edit that touches the word is
\* wider: it takes in other words, or punctuation glued to the word, or is an
\* insertion.  A sentence has the word once, and a set at most one edit of it.
Alone == "alone"
Wider == "wider"
WordEdits == {None, Alone, Wider}
Possible(s) == IF s \in Worded THEN WordEdits ELSE {None}

Sets == [of: Sentences, word: WordEdits, by: {Model, Fast, Lost}, shift: Nat]
Calls == [status: {"none", "running", "done", "error"}, dups: Nat,
          set: Sets \cup {NoSet}]

Whole(r) == Len(text[r]) = 1
Sentence(r) == text[r][seg[r]]

RequestTypes ==
  /\ pc \in [Requests -> {"new", "lookup", "do", "wait", "fast", "llm", "take", "final", "drop", "end"}]
  /\ text \in [Requests -> Texts \cup {<<>>}]
  /\ seg \in [Requests -> 0..MaxSegments]
  /\ key \in [Requests -> Keys \cup {NoKey}]
  /\ of \in [Requests -> CallIds \cup {NoCall}]
  /\ call \in [CallIds -> Calls]
  /\ parts \in [Requests -> Seq(Sets)]
  /\ failed \in [Requests -> 0..MaxSegments]
  /\ reply \in [Requests -> {None, "answer", "error"}]
  /\ cache \in [Keys -> Sets \cup {NoSet}]
  /\ personal \in Prompts /\ inDict \in BOOLEAN
  /\ gone \in [Requests -> BOOLEAN]
  /\ out \in [Requests -> Seq(WordEdits)]
  /\ found \in [Requests -> SUBSET BOOLEAN]

\* The recency list names the cached keys, each once, within the capacity.
LruOK ==
  /\ Range(recent) = {k \in Keys : cache[k] # NoSet}
  /\ IsInjective(recent)
  /\ Len(recent) <= Capacity

TypeOK == RequestTypes /\ LruOK

Init ==
  /\ pc = [r \in Requests |-> "new"]
  /\ text = [r \in Requests |-> <<>>]
  /\ seg = [r \in Requests |-> 0]
  /\ key = [r \in Requests |-> NoKey]
  /\ of = [r \in Requests |-> NoCall]
  /\ call = [c \in CallIds |-> [status |-> "none", dups |-> 0, set |-> NoSet]]
  /\ parts = [r \in Requests |-> <<>>]
  /\ failed = [r \in Requests |-> 0]
  /\ reply = [r \in Requests |-> None]
  /\ cache = [k \in Keys |-> NoSet]
  /\ recent = <<>>
  /\ personal \in Prompts
  /\ inDict \in BOOLEAN
  /\ gone = [r \in Requests |-> FALSE]
  /\ out = [r \in Requests |-> <<>>]
  /\ found = [r \in Requests |-> {}]

-----------------------------------------------------------------------------
(* The sentence cache.  Slip_... definitions are slips the definition      *)
(* after them could have; nothing uses them.                               *)

Slip_KeyWithoutSentence(s) ==
  [personal |-> personal, vocab |-> FALSE, of |-> CHOOSE t \in Sentences : TRUE]

\* sentenceCacheKey: the system prompt and the sentence; model, neighbours
\* and picky are fixed.  In chat mode the prompt holds the personalization
\* block and the dictionary's words that occur in the sentence.
CacheKey(s) ==
  [personal |-> IF Chat THEN personal ELSE None,
   vocab |-> Chat /\ inDict /\ s \in Worded,
   of |-> s]

\* sentenceCache.get moves the entry to the recent end.
Touch(k) ==
  /\ recent' = Append(RemoveFirst(recent, k), k)
  /\ UNCHANGED cache

Store(order, k, set) ==
  /\ recent' = order
  /\ cache' = [j \in Keys |-> IF j = k THEN set ELSE IF j \in Range(order) THEN cache[j] ELSE NoSet]

Slip_AddForgetsEviction(k, set) == Store(Append(RemoveFirst(recent, k), k), k, set)

\* sentenceCache.add stores a copy, evicting the least recently used entry.
Add(k, set) ==
  LET order == Append(RemoveFirst(recent, k), k)
  IN  Store(IF Len(order) > Capacity THEN Tail(order) ELSE order, k, set)

-----------------------------------------------------------------------------
(* Correct, one segment after the other. *)

Goto(r, label) == pc' = [pc EXCEPT ![r] = label]

Begin(r, t) ==
  /\ pc[r] = "new"
  /\ Goto(r, "lookup")
  /\ text' = [text EXCEPT ![r] = t]
  /\ seg' = [seg EXCEPT ![r] = 1]
  /\ UNCHANGED <<key, of, call, parts, failed, reply, out, found, lru, env>>

Shifted(set) == [set EXCEPT !.shift = @ + 1]

\* The loop goes on with the next segment, or to finalize after the last.
NextSegment(r) ==
  IF seg[r] < Len(text[r])
  THEN Goto(r, "lookup") /\ seg' = [seg EXCEPT ![r] = @ + 1]
  ELSE Goto(r, "final") /\ UNCHANGED seg

\* Build the key and look it up.  The whole-text path has no cache.
Lookup(r) ==
  LET k == CacheKey(Sentence(r)) IN
  /\ pc[r] = "lookup"
  /\ key' = [key EXCEPT ![r] = k]
  /\ \/ /\ ~Whole(r) /\ cache[k] # NoSet
        /\ Touch(k)
        /\ parts' = [parts EXCEPT ![r] = Append(@, Shifted(cache[k]))]
        /\ NextSegment(r)
     \/ /\ Whole(r) \/ cache[k] = NoSet
        /\ Goto(r, "do")
        /\ UNCHANGED <<lru, parts, seg>>
  /\ UNCHANGED <<text, of, call, failed, reply, out, found, env>>

\* The calls in the singleflight map under key k.
Running(k) == {c \in CallIds : call[c].status = "running" /\ key[c[1]] = k /\ of[c[1]] = c}

Join(r) ==
  /\ pc[r] = "do"
  /\ \E c \in Running(key[r]) :
       /\ call' = [call EXCEPT ![c].dups = @ + 1]
       /\ of' = [of EXCEPT ![r] = c]
  /\ Goto(r, "wait")
  /\ UNCHANGED <<text, seg, key, parts, failed, reply, out, found, lru, env>>

Slip_LeadAlways(r) ==
  /\ pc[r] = "do"
  /\ call' = [call EXCEPT ![<<r, seg[r]>>] = [status |-> "running", dups |-> 0, set |-> NoSet]]
  /\ of' = [of EXCEPT ![r] = <<r, seg[r]>>]
  /\ Goto(r, IF HasFast THEN "fast" ELSE "llm")
  /\ UNCHANGED <<text, seg, key, parts, failed, reply, out, found, lru, env>>

Lead(r) ==
  /\ pc[r] = "do"
  /\ Running(key[r]) = {}
  /\ call' = [call EXCEPT ![<<r, seg[r]>>] = [status |-> "running", dups |-> 0, set |-> NoSet]]
  /\ of' = [of EXCEPT ![r] = <<r, seg[r]>>]
  /\ Goto(r, IF HasFast THEN "fast" ELSE "llm")
  /\ UNCHANGED <<text, seg, key, parts, failed, reply, out, found, lru, env>>

\* fn returned: the result is published and the call leaves the map.
Publish(r, word, by) ==
  /\ call' = [call EXCEPT ![of[r]].status = "done",
                          ![of[r]].set = [of |-> Sentence(r), word |-> word, by |-> by, shift |-> 0]]
  /\ Goto(r, "take")

\* runFast, then either done or the prompt for the model is built.  Harper may
\* have loaded another dictionary (see HarperDictionary), GECToR knows none: the
\* fast path may edit the user's word in any way too.
RunFast(r) ==
  /\ pc[r] = "fast"
  /\ \E word \in Possible(Sentence(r)) :
       \/ /\ Sentence(r) \notin Hard
          /\ Publish(r, word, Fast)
       \/ /\ Sentence(r) \in Hard
          /\ call' = [call EXCEPT ![of[r]].set =
                       [of |-> Sentence(r), word |-> word, by |-> Fast, shift |-> 0]]
          /\ Goto(r, "llm")
  /\ UNCHANGED <<text, seg, key, of, parts, failed, reply, out, found, lru, env>>

\* The model's correction is diffed against the sentence.  It may edit the
\* user's word, whatever the prompt says.
LLMAnswers(r) ==
  /\ pc[r] = "llm"
  /\ \E word \in Possible(Sentence(r)) : Publish(r, word, Model)
  /\ UNCHANGED <<text, seg, key, of, parts, failed, reply, out, found, lru, env>>

FailCall(r) ==
  /\ call' = [call EXCEPT ![of[r]].status = "error"]
  /\ Goto(r, "take")

\* No usable answer: with a fast path its result stands, otherwise an error.
FallBack(r, by) ==
  IF HasFast THEN Publish(r, call[of[r]].set.word, by) ELSE FailCall(r)

Slip_ErrorAbandonsCall(r) ==
  /\ pc[r] = "llm" /\ (BackendFails \/ gone[r])
  /\ failed' = [failed EXCEPT ![r] = @ + 1]
  /\ NextSegment(r)
  /\ UNCHANGED <<text, key, of, call, parts, reply, out, found, lru, env>>

\* Complete failed: the backend is down, its breaker open, or the context of
\* the request that leads the call is done.
LLMFails(r) ==
  /\ pc[r] = "llm" /\ (BackendFails \/ gone[r])
  /\ FallBack(r, Lost)
  /\ UNCHANGED <<text, seg, key, of, parts, failed, reply, out, found, lru, env>>

\* The answer is suspiciously short (the semantic verifier's veto does the
\* same with a fast path; without one it yields an empty set).
LLMDiscarded(r) ==
  /\ pc[r] = "llm"
  /\ FallBack(r, Fast) \/ (~HasFast /\ Publish(r, None, Fast))
  /\ UNCHANGED <<text, seg, key, of, parts, failed, reply, out, found, lru, env>>

Shared(r) == of[r][1] # r \/ call[of[r]].dups > 0

Slip_OnlyFollowersCopy(r) ==
  /\ pc[r] \in {"take", "wait"} /\ call[of[r]].status = "done"
  /\ parts' = [parts EXCEPT ![r] =
                 Append(@, IF Whole(r) THEN call[of[r]].set ELSE Shifted(call[of[r]].set))]
  /\ IF Whole(r) THEN UNCHANGED lru ELSE Add(key[r], call[of[r]].set)
  /\ IF Whole(r) \/ of[r][1] # r THEN UNCHANGED call
     ELSE call' = [call EXCEPT ![of[r]].set = Shifted(@)]
  /\ NextSegment(r)
  /\ UNCHANGED <<text, key, of, failed, reply, out, found, env>>

Slip_CacheAfterShift(r) ==
  /\ pc[r] \in {"take", "wait"} /\ call[of[r]].status = "done"
  /\ parts' = [parts EXCEPT ![r] =
                 Append(@, IF Whole(r) THEN call[of[r]].set ELSE Shifted(call[of[r]].set))]
  /\ IF Whole(r) THEN UNCHANGED lru ELSE Add(key[r], Shifted(call[of[r]].set))
  /\ IF Whole(r) \/ Shared(r) THEN UNCHANGED call
     ELSE call' = [call EXCEPT ![of[r]].set = Shifted(@)]
  /\ NextSegment(r)
  /\ UNCHANGED <<text, key, of, failed, reply, out, found, env>>

\* sf.Do returned a set.  A shared one is copied first; the caller's own is
\* shifted to whole-text offsets in place, the cache keeps an unshifted copy.
Take(r) ==
  /\ pc[r] \in {"take", "wait"} /\ call[of[r]].status = "done"
  /\ parts' = [parts EXCEPT ![r] =
                 Append(@, IF Whole(r) THEN call[of[r]].set ELSE Shifted(call[of[r]].set))]
  /\ IF Whole(r) THEN UNCHANGED lru ELSE Add(key[r], call[of[r]].set)
  /\ IF Whole(r) \/ Shared(r) THEN UNCHANGED call
     ELSE call' = [call EXCEPT ![of[r]].set = Shifted(@)]
  /\ NextSegment(r)
  /\ UNCHANGED <<text, key, of, failed, reply, out, found, env>>

\* sf.Do returned an error: the segment is skipped.
Skip(r) ==
  /\ pc[r] \in {"take", "wait"} /\ call[of[r]].status = "error"
  /\ failed' = [failed EXCEPT ![r] = @ + 1]
  /\ NextSegment(r)
  /\ UNCHANGED <<text, key, of, call, parts, reply, out, found, lru, env>>

Slip_AnyFailureFails(r) ==
  /\ pc[r] = "final" /\ failed[r] > 0
  /\ reply' = [reply EXCEPT ![r] = "error"]
  /\ Goto(r, "end")
  /\ UNCHANGED <<text, seg, key, of, call, parts, failed, out, found, lru, env>>

\* Every segment failed.
Refuse(r) ==
  /\ pc[r] = "final" /\ failed[r] = Len(text[r])
  /\ reply' = [reply EXCEPT ![r] = "error"]
  /\ Goto(r, "end")
  /\ UNCHANGED <<text, seg, key, of, call, parts, failed, out, found, lru, env>>

\* finalize begins, with the suggestions of at least one segment.
Finalize(r) ==
  /\ pc[r] = "final" /\ failed[r] < Len(text[r])
  /\ Goto(r, "drop")
  /\ found' = [found EXCEPT ![r] = {inDict}]
  /\ UNCHANGED <<text, seg, key, of, call, parts, failed, reply, out, lru, env>>

Slip_AnyToken(part) == IF inDict THEN None ELSE part.word

Slip_OnlyTheModels(part) ==
  IF inDict /\ part.word = Alone /\ part.by = Model THEN None ELSE part.word

\* allTokensAllowlisted, of the words an edit touches: a wider one has a token
\* the dictionary lacks, the user's word with its punctuation included.
Allowed(part) == IF inDict /\ part.word = Alone THEN None ELSE part.word

\* dropAllowlisted asks the dictionary, which may change meanwhile, about the
\* suggestions of one segment after the other; what is left of them is sent.
DropAllowlisted(r) ==
  LET done == Len(out[r]) + 1 IN
  /\ pc[r] = "drop"
  /\ out' = [out EXCEPT ![r] = Append(@, Allowed(parts[r][done]))]
  /\ IF done < Len(parts[r]) THEN UNCHANGED <<pc, reply>>
     ELSE Goto(r, "end") /\ reply' = [reply EXCEPT ![r] = "answer"]
  /\ UNCHANGED <<text, seg, key, of, call, parts, failed, found, lru, env>>

-----------------------------------------------------------------------------
(* The environment. *)

\* A disconnect cancels the request's context.  Only calls of the model look
\* at it, so one that comes earlier is the same as one during the next call.
ClientGone(r) ==
  /\ pc[r] = "llm" /\ ~gone[r]
  /\ gone' = [gone EXCEPT ![r] = TRUE]
  /\ UNCHANGED <<requestVars, lru, personal, inDict>>

\* A reaction of the user changes the personalization block.
Personalize ==
  /\ personal' \in Prompts \ {personal}
  /\ UNCHANGED <<requestVars, lru, inDict, gone>>

\* The user adds the word to the dictionary, or removes it.
EditDictionary ==
  /\ inDict' = ~inDict
  /\ found' = [r \in Requests |-> IF pc[r] = "drop" THEN BOOLEAN ELSE found[r]]
  /\ UNCHANGED <<pc, text, seg, key, of, call, parts, failed, reply, out, lru, personal, gone>>

Step(r) ==
  \/ Lookup(r) \/ Join(r) \/ Lead(r) \/ RunFast(r)
  \/ LLMAnswers(r) \/ LLMFails(r) \/ LLMDiscarded(r)
  \/ Take(r) \/ Skip(r) \/ Refuse(r)
  \/ Finalize(r) \/ DropAllowlisted(r)

Next ==
  \/ \E r \in Requests : (\E t \in Texts : Begin(r, t)) \/ Step(r) \/ ClientGone(r)
  \/ Personalize \/ EditDictionary

Spec == Init /\ [][Next]_vars

\* A request's goroutine runs on, and the model's answer, its error or the
\* 30 s client timeout ends every call of the model.
FairSpec == Spec /\ \A r \in Requests : WF_vars(Step(r))

-----------------------------------------------------------------------------
(* Safety. *)

\* Every segment's spans are moved to whole-text offsets exactly once, and
\* what the cache and the calls hold for others stays relative to the
\* sentence: no two requests shift one slice, whoever led and whoever joined.
ShiftedOnce ==
  /\ \A r \in Requests : \A i \in DOMAIN parts[r] : parts[r][i].shift = IF Whole(r) THEN 0 ELSE 1
  /\ \A k \in Keys : cache[k].shift = 0
  /\ \A r \in Requests : pc[r] = "wait" /\ call[of[r]].status = "done" => call[of[r]].set.shift = 0

\* Whatever was cached, shared or joined, a request gets suggestions computed
\* for its own sentences, in their order.
OwnSentences ==
  \A r \in Requests : \E kept \in SUBSET (1..Len(text[r])) :
    /\ Cardinality(kept) = Len(parts[r])
    /\ \A i \in kept : parts[r][Cardinality({j \in kept : j <= i})].of = text[r][i]

\* What dropAllowlisted may make of a suggestion: an edit of the word alone is
\* gone if the dictionary had the word all the while, and there if it never did;
\* any other edit stays.
RightlyKept(part, left, said) ==
  /\ part.word # Alone => left = part.word
  /\ part.word = Alone => left \in {None, Alone}
  /\ part.word = Alone /\ said = {TRUE} => left = None
  /\ part.word = Alone /\ said = {FALSE} => left = Alone

\* Whoever computed the suggestions, and however long ago, an answer edits the
\* user's word alone only if the dictionary lacked it at some time while the
\* answer was put together.  An edit that is wider than the word always gets
\* through, and every edit does as long as the dictionary lacks the word.
DictionaryRespected ==
  \A r \in Requests : reply[r] = "answer" =>
    /\ Len(out[r]) = Len(parts[r])
    /\ \A i \in DOMAIN parts[r] : RightlyKept(parts[r][i], out[r][i], found[r])

\* A request fails only when it has nothing to show for any of its segments,
\* and with a fast path it never fails.
FailsOnlyEmpty ==
  \A r \in Requests : reply[r] = "error" => parts[r] = <<>> /\ ~HasFast

\* Singleflight: no key is being computed twice at a time.
OneComputationPerKey ==
  \A c, d \in CallIds :
    call[c].status = "running" /\ call[d].status = "running" /\ key[c[1]] = key[d[1]] => c = d

-----------------------------------------------------------------------------
(* Liveness. *)

\* Every request is answered or refused, those that wait for the call of a
\* request whose client has gone included.
EveryRequestEnds == \A r \in Requests : pc[r] = "lookup" ~> pc[r] = "end"

-----------------------------------------------------------------------------
(* What a comment says, and the code does not keep. *)

\* sentence_cache.go:11-15: "the key covers everything that can change the
\* answer", so nothing ever invalidates an entry.  An entry made while the
\* model did not answer is such a change the key does not cover.
NoLostAnswerCached == \A k \in Keys : cache[k].by # Lost
=============================================================================
