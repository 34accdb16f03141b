------------------------------ MODULE StagedCheck ------------------------------
(***************************************************************************)
(* One POST /correct/stream of the bridge, for one sentence: the handler   *)
(* (bridge/internal/restserver/handlers.go), CorrectStaged and             *)
(* runFastIncremental, then correctOnce and finalize (correction/          *)
(* service.go), with mergeSuggestions (correction/routing.go).  The fast   *)
(* checkers run at once, each in a goroutine that may fail or panic, first *)
(* for the previews and again for the answer.                              *)
(*                                                                         *)
(* Left out: word-level modes of merging fast edits, candidates beside the *)
(* first, per-checker repairs, and what CorrectionService models: cache,   *)
(* sharing, segments, disconnects.                                         *)
(***************************************************************************)
EXTENDS Integers, SequencesExt

CONSTANTS
  Fasts,  \* the names of the fast checkers, in their order, as a bridge may have them
  Finds,  \* Finds[name]: the sets of edits a checker may find
  Diffs,  \* what the diff of an answer of the model may be: edits apart
  Words,  \* spans that may be of words of the dictionary only
  Pairs,  \* [start, end, by]: edits whose pair of words may be a rejected one
  Modes   \* of merging fast edits into the model's: "off", "gector", "all"

VARIABLE staged

Named(edits, model) ==
  {[start |-> e.start, end |-> e.end, by |-> e.by, score |-> e.score, priority |-> e.priority,
    model |-> model] : e \in edits}
Models == Range(staged.fast) \cup {"llm", "style"}

TypeOK ==
  /\ staged.pass \in {"preview", "answer", "over"}
  /\ staged.pass # "over" => staged.ended \in [DOMAIN staged.fast -> {"running", "answered", "failed"}]
  /\ staged.fast \in Fasts /\ staged.taken \in 0..Len(staged.fast)
  /\ \A e \in Range(staged.gathered) : e.model \in Models /\ e.start <= e.end
  /\ staged.frames \in Seq({"fast", "final", "error"}) /\ Len(staged.frames) <= Len(staged.fast) + 2

Init ==
  \E fast \in Fasts, known \in {{}} \cup {{w} : w \in Words}, rejected \in {{}} \cup {{p} : p \in Pairs},
     mode \in Modes :
  \E found \in [DOMAIN fast -> UNION {Finds[c] : c \in Range(fast)}] :
    /\ \A i \in DOMAIN fast : found[i] \in Finds[fast[i]]
    /\ staged = [fast |-> fast, found |-> found,
                 known |-> known, rejected |-> rejected, mode |-> mode,
                 pass |-> "preview",
                 ended |-> [i \in DOMAIN fast |-> "running"],
                 taken |-> 0,         \* how many results were taken, from the first
                 gathered |-> <<>>,   \* and what they were
                 frames |-> <<>>,     \* the events written to the client
                 shown |-> <<>>,      \* and the edits of the last one
                 candidates |-> {}]   \* history: what the answer was chosen from

-----------------------------------------------------------------------------
(* Spans, and the order of edits.  Slip_... definitions are slips the      *)
(* definition after them could have; nothing uses them.                    *)

Overlaps(a, b) == a.start < b.end /\ b.start < a.end
SpansConflict(a, b) == a.start <= b.end /\ b.start <= a.end
Empty(e) == e.start = e.end

ZeroWidthConflict(a, b) ==
  \/ Empty(a) /\ Empty(b) /\ a.start = b.start
  \/ Empty(a) /\ ~Empty(b) /\ a.start \in {b.start, b.end}
  \/ Empty(b) /\ ~Empty(a) /\ b.start \in {a.start, a.end}

\* sort.SliceStable.
StableSort(edits, Before(_, _)) ==
  LET order == SetToSortSeq(DOMAIN edits,
                 LAMBDA i, j : \/ Before(edits[i], edits[j])
                               \/ ~Before(edits[j], edits[i]) /\ i < j)
  IN  [i \in DOMAIN order |-> edits[order[i]]]

Slip_AsFound(edits) == edits

SortByStart(edits) == StableSort(edits, LAMBDA a, b : a.start < b.start)

\* The surer first; of these the shorter, then by category, then by place.
Better(a, b) ==
  LET length(e) == e.end - e.start
  IN  \/ a.score > b.score
      \/ a.score = b.score /\ length(a) < length(b)
      \/ a.score = b.score /\ length(a) = length(b) /\ a.priority > b.priority
      \/ /\ a.score = b.score /\ length(a) = length(b) /\ a.priority = b.priority
         /\ a.start < b.start

\* Those of the edits, in their order, that do not clash with one kept before.
Keep(edits, Clash(_, _)) ==
  FoldLeft(LAMBDA kept, e : IF \E k \in Range(kept) : Clash(k, e) THEN kept ELSE Append(kept, e),
           <<>>, edits)

Slip_MergeInOrder(edits) == SortByStart(Keep(edits, Overlaps))

MergeSuggestions(edits) == SortByStart(Keep(StableSort(edits, Better), Overlaps))

\* deduplicateFinalizeSuggestions.
Deduplicate(edits) ==
  Keep(edits, LAMBDA k, e : \/ k.start = e.start /\ k.end = e.end /\ k.by = e.by
                            \/ ZeroWidthConflict(k, e))

\* dropAllowlisted: what only changes known words is dropped, insertions are not.
OfKnown(e, known) == ~Empty(e) /\ [start |-> e.start, end |-> e.end] \in known
Without(edits, known) == SelectSeq(edits, LAMBDA e : ~OfKnown(e, known))

\* dropRejected.
IsRejected(e, rejected) == [start |-> e.start, end |-> e.end, by |-> e.by] \in rejected
Unrejected(edits, rejected) == SelectSeq(edits, LAMBDA e : ~IsRejected(e, rejected))

\* mergeNonConflictingFastEdits.
WithFast(llm, fast, mode) ==
  IF mode = "off" THEN llm
  ELSE llm \o SelectSeq(fast, LAMBDA f : /\ mode = "gector" => f.model = "gector"
                                         /\ ~\E l \in Range(llm) : SpansConflict(l, f))

\* appendStyleSuggestions: what overlaps grammar goes.
WithStyle(grammar, style) ==
  grammar \o SelectSeq(style, LAMBDA e : ~\E g \in Range(grammar) : Overlaps(g, e))

-----------------------------------------------------------------------------
(* The request. *)

\* A goroutine of runFastConcurrent ends, with its edits or without.
Ends(i) ==
  /\ staged.pass # "over" /\ staged.ended[i] = "running"
  /\ \E outcome \in {"answered", "failed"} : staged' = [staged EXCEPT !.ended[i] = outcome]

Result(i) ==
  IF staged.ended[i] = "answered" THEN SetToSeq(Named(staged.found[i], staged.fast[i])) ELSE <<>>

Write(s, event, edits) == [s EXCEPT !.frames = Append(@, event), !.shown = edits]

\* For the previews, a frame of all so far.
Gather(i) ==
  LET gathered == staged.gathered \o Result(i)
      s == [staged EXCEPT !.taken = @ + 1, !.gathered = gathered]
  IN  /\ staged.pass # "over" /\ staged.taken < Len(staged.fast) /\ staged.ended[i] # "running"
      /\ staged' = IF staged.pass = "answer" THEN s
                   ELSE Write(s, "fast", Without(MergeSuggestions(gathered), staged.known))

Slip_WhoeverIsDone == \E i \in DOMAIN staged.fast : Gather(i)

\* The next result in the order of the checkers, whichever ended first.
Take == staged.taken < Len(staged.fast) /\ Gather(staged.taken + 1)

\* The previews are out, an empty one if there is no fast checker; now the answer.
Again ==
  /\ staged.pass = "preview" /\ staged.taken = Len(staged.fast)
  /\ LET s == [staged EXCEPT !.pass = "answer", !.taken = 0, !.gathered = <<>>,
                              !.ended = [i \in DOMAIN staged.fast |-> "running"]]
     IN  staged' = IF Len(staged.fast) = 0 THEN Write(s, "fast", <<>>) ELSE s

Finalize(edits) ==
  Deduplicate(SortByStart(Unrejected(Without(edits, staged.known), staged.rejected)))

Diff(edits, model) == SortByStart(SetToSeq(Named(edits, model)))

\* What correctOnce makes of the fast edits and the model's, if it was asked
\* and its answer used.
Grammar(fast, llm) ==
  IF llm = {} THEN {fast}
  ELSE {WithFast(Diff(edits, "llm"), fast, staged.mode) : edits \in llm}

\* The results are nobody's any more.
Over(event, edits, candidates) ==
  staged' = Write([staged EXCEPT !.pass = "over", !.found = <<>>, !.ended = <<>>, !.taken = 0,
                                 !.gathered = <<>>, !.candidates = candidates], event, edits)

Answer ==
  /\ staged.pass = "answer" /\ staged.taken = Len(staged.fast) /\ Len(staged.fast) > 0
  /\ \E llm \in {{}} \cup {{edits} : edits \in Diffs}, style \in {{}} \cup Diffs :
       \E grammar \in Grammar(MergeSuggestions(staged.gathered), llm) :
         Over("final", Finalize(WithStyle(grammar, Diff(style, "style"))),
              Named(UNION llm, "llm") \cup Named(style, "style") \cup
              IF llm = {} THEN Range(staged.gathered) ELSE Range(grammar))

\* Without a fast checker the answer is the model's, and so are its failures.
AnswerOfModel ==
  /\ staged.pass = "answer" /\ Len(staged.fast) = 0
  /\ \/ \E edits \in Diffs, style \in {{}} \cup Diffs :
          Over("final", Finalize(WithStyle(Diff(edits, "llm"), Diff(style, "style"))),
               Named(edits, "llm") \cup Named(style, "style"))
     \/ Over("error", <<>>, {})

Next ==
  \/ \E i \in DOMAIN staged.fast : Ends(i)
  \/ Take \/ Again \/ Answer \/ AnswerOfModel

Spec == Init /\ [][Next]_staged

-----------------------------------------------------------------------------
(* Safety. *)

\* What an edit covers: characters, and the places between them.
Cells(e) == IF Empty(e) THEN {2 * e.start} ELSE (2 * e.start + 1)..(2 * e.end - 1)
Meet(a, b) == Cells(a) \cap Cells(b) # {} /\ ~(Empty(a) /\ Empty(b))
\* Whether both can be applied, when insertions are widened by a character.
Touch(a, b) == (2 * a.start)..(2 * a.end) \cap (2 * b.start)..(2 * b.end) # {}
Fit(a, b) == ~Meet(a, b) /\ (Empty(a) \/ Empty(b) => ~Touch(a, b))

Final == staged.frames # <<>> /\ Last(staged.frames) = "final"

\* A preview is the best of what the first checkers found, by the order of the
\* edits alone: all that meet no better one of it.  Who ended first, or failed
\* beside, makes no difference.
PreviewsAreBest ==
  staged.pass = "preview" /\ staged.taken > 0 =>
    LET i    == staged.taken
        all  == UNION {Range(Result(j)) : j \in 1..i}
        best == Range(staged.shown)
        Of(e) == CHOOSE j \in 1..i : staged.fast[j] = e.model
        Beats(a, b) == Better(a, b) \/ (~Better(b, a) /\ Of(a) < Of(b))
        seen == {e \in all : ~OfKnown(e, staged.known)}
    IN  /\ Len(staged.frames) = i
        /\ best \subseteq seen
        /\ \A a, b \in best : a # b => ~Meet(a, b)
        /\ staged.known = {} =>
             \A e \in all \ best : \E k \in best : Meet(k, e) /\ Beats(k, e)

\* What is handed out can be applied from last to first: it is in order, and no
\* two edits get in each other's way.
HandedOutFits ==
  Final => \A i, j \in DOMAIN staged.shown :
    i < j => /\ staged.shown[i].start <= staged.shown[j].start
             /\ Fit(staged.shown[i], staged.shown[j])

\* Nothing is lost that nothing else was in the way of, and of what the model
\* corrected nothing to a fast checker.
LostToAnother ==
  Final =>
    LET wanted == {e \in staged.candidates :
                     ~OfKnown(e, staged.known) /\ ~IsRejected(e, staged.rejected)}
    IN  \A e \in wanted \ Range(staged.shown) :
          \E other \in staged.candidates :
            other # e /\ ~Fit(other, e) /\ (e.model = "llm" => other.model = "style")

\* Previews, then one answer or an error.
OneAnswer ==
  \A n \in DOMAIN staged.frames :
    staged.frames[n] # "fast" <=> n = Len(staged.frames) /\ staged.pass = "over"
=============================================================================
