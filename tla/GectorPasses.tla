------------------------------ MODULE GectorPasses ------------------------------
(***************************************************************************)
(* The passes of GECToR over one text (bridge/internal/gector): Correct    *)
(* (gector.go), decodeToSuggestions and applyTag (decode.go), applyAndTrack *)
(* and mergePasses (remap.go).  Every pass but the first is over the text  *)
(* the edits of the one before made, and its own edits are translated back *)
(* to the text of the user, through all passes before.                     *)
(*                                                                         *)
(* A text is a sequence of characters: letters, spaces, full stops.  What  *)
(* tags the model gives is outside: any, of what they make of a word.      *)
(***************************************************************************)
EXTENDS Integers, Sequences, SequencesExt, FiniteSets

CONSTANTS
  Texts,
  Tags,      \* of those a vocabulary of tags has, see Applied
  MaxPasses, \* the passes asked for
  MaxTagged  \* bound on the words of a pass whose tag is not KEEP

VARIABLE run

Slice(s, from, to) == SubSeq(s, from + 1, to)
Edit(start, end, by) == [start |-> start, end |-> end, by |-> by]
IsLetter(c) == c \notin {" ", "."}

-----------------------------------------------------------------------------
(* Decoding.  Slip_... definitions are slips the definition after them     *)
(* could have; nothing uses them.                                          *)

\* The words: runs of letters, and full stops by themselves.  The tokenizer has
\* the space before a word in its span; from is where the word itself begins.
Words(text) ==
  LET joined(i)  == IsLetter(text[i]) /\ IsLetter(text[i + 1])
      begins     == {i \in DOMAIN text : text[i] # " " /\ ~(i > 1 /\ joined(i - 1))}
      end(i)     == CHOOSE j \in i..Len(text) :
                      /\ \A k \in i..(j - 1) : joined(k)
                      /\ ~(j < Len(text) /\ joined(j))
      start(i)   == IF i > 1 /\ text[i - 1] = " " THEN i - 2 ELSE i - 1
  IN  SetToSortSeq({[start |-> start(i), end |-> end(i), from |-> i - 1] : i \in begins},
                   LAMBDA v, w : v.from < w.from)

\* applyTag: what a tag makes of a word.  A word appended gets a space before
\* it, punctuation does not; a verb form without entry changes nothing.
Applied(word, tag) ==
  CASE tag \in {"KEEP", "UNMAPPED"} -> word
    [] tag = "DELETE" -> <<>>
    [] tag = "REPLACE" -> <<"x">>
    [] tag = "PLURAL" -> word \o <<"s">>
    [] tag = "APPEND_WORD" -> word \o <<" ", "x">>
    [] tag = "APPEND_STOP" -> word \o <<".">>
    [] tag = "LOWER" -> <<"l">>

\* The first word of a sentence is not put in lower case.
SentenceInitial(text, words, i) ==
  i = 1 \/ Slice(text, words[i - 1].from, words[i - 1].end) = <<".">>

\* A deletion takes the space before the word with it, a replacement does not.
Decode(text, tags) ==
  LET words == Words(text)
      one(i) ==
        LET w    == words[i]
            word == Slice(text, w.from, w.end)
            by   == Applied(word, tags[i])
            from == IF by = <<>> THEN w.start ELSE w.from
        IN  IF by = word \/ (tags[i] = "LOWER" /\ SentenceInitial(text, words, i)) THEN <<>>
            ELSE <<Edit(from, w.end, by)>>
  IN  FlattenSeq([i \in DOMAIN words |-> one(i)])

-----------------------------------------------------------------------------
(* Applying and translating back. *)

\* The segments applyAndTrack records: what edits replace, and what is between.
Segments(text, edits) ==
  LET step(acc, e) ==
        LET gap   == e.start - acc.orig
            kept  == IF gap = 0 THEN <<>>
                     ELSE <<[orig |-> acc.orig, origEnd |-> e.start, corr |-> acc.corr,
                             corrEnd |-> acc.corr + gap, replaced |-> FALSE]>>
            start == acc.corr + gap
            new   == [orig |-> e.start, origEnd |-> e.end, corr |-> start,
                      corrEnd |-> start + Len(e.by), replaced |-> TRUE]
        IN  [orig |-> e.end, corr |-> start + Len(e.by), segs |-> acc.segs \o kept \o <<new>>]
      all  == FoldLeft(step, [orig |-> 0, corr |-> 0, segs |-> <<>>], edits)
      rest == Len(text) - all.orig
  IN  IF rest = 0 THEN all.segs
      ELSE Append(all.segs, [orig |-> all.orig, origEnd |-> Len(text), corr |-> all.corr,
                             corrEnd |-> all.corr + rest, replaced |-> FALSE])

Corrected(text, edits) ==
  FoldRight(LAMBDA e, t : Slice(t, 0, e.start) \o e.by \o Slice(t, e.end, Len(t)), edits, text)

Slip_AnyEdge(segs, pos) ==
  {s.orig + (pos - s.corr) : s \in {s \in Range(segs) : s.corr <= pos /\ pos <= s.corrEnd}}

\* resolve: where a place of the corrected text was, if anywhere.  The end is
\* the end; the left edge of a replacement is its start; what is between edits
\* is moved; the inside of a replacement was nowhere.
Resolve(segs, pos) ==
  LET edges == {s \in Range(segs) : s.replaced /\ s.corr = pos}
      kept  == {s \in Range(segs) : ~s.replaced /\ s.corr <= pos /\ pos < s.corrEnd}
      first == CHOOSE i \in DOMAIN segs :
                 segs[i] \in edges /\ \A j \in DOMAIN segs : segs[j] \in edges => i <= j
  IN  IF segs # <<>> /\ pos = Last(segs).corrEnd THEN {Last(segs).origEnd}
      ELSE IF edges # {} THEN {segs[first].orig}
      ELSE {s.orig + (pos - s.corr) : s \in kept}

\* A span in the text of the user, through the segments of all passes before,
\* or nothing.
BackToOriginal(tracks, e) ==
  FoldRight(LAMBDA segs, spans :
              UNION {{Edit(s, t, e.by) : s \in Resolve(segs, p.start), t \in Resolve(segs, p.end)} :
                       p \in spans},
            tracks, {e})

Overlap(a, b) == a.start < b.end /\ b.start < a.end

Slip_LaterWins(passes) ==
  FoldRight(LAMBDA pass, out : out \o SelectSeq(pass, LAMBDA e : ~\E o \in Range(out) : Overlap(e, o)),
            passes, <<>>)

\* mergePasses: of edits that overlap, the one of the earlier pass.
MergePasses(passes) ==
  LET all  == FoldLeft(LAMBDA out, e : IF \E o \in Range(out) : Overlap(e, o) THEN out
                                       ELSE Append(out, e), <<>>, FlattenSeq(passes))
      order == SetToSortSeq(DOMAIN all, LAMBDA i, j :
                 \/ all[i].start < all[j].start
                 \/ all[i].start = all[j].start /\ i < j)
  IN  [i \in DOMAIN order |-> all[order[i]]]

-----------------------------------------------------------------------------

TypeOK ==
  /\ run.pass \in 0..MaxPasses /\ Len(run.passes) = run.pass
  /\ run.phase \in {"running", "over"}

Init ==
  \E text \in Texts :
    run = [phase |-> "running", pass |-> 0,
           original |-> text,   \* the text of the request
           current |-> text,    \* currentText
           last |-> <<>>,       \* lastSugs, in offsets of current
           tracks |-> <<>>,     \* backToOriginal, as the segments it goes through
           passes |-> <<>>,     \* passesOut, in offsets of original
           dropped |-> FALSE,   \* an edit had no place in original
           result |-> <<>>,
           judged |-> {}]       \* history: the edits of later passes, and what they were edits of

Slip_Last(edits, translated) == translated

\* What the next pass is prepared from: the edits as decoded.
LastSuggestions(edits, translated) == edits

\* A pass over the text, which the tracks lead back from, found the edits.
Passed(text, tracks, edits) ==
  LET translated == FlattenSeq([i \in DOMAIN edits |-> SetToSeq(BackToOriginal(tracks, edits[i]))])
  IN  [run EXCEPT
         !.pass = @ + 1, !.current = text, !.tracks = tracks,
         !.last = LastSuggestions(edits, translated),
         !.passes = Append(@, translated),
         !.dropped = @ \/ Len(translated) < Len(edits),
         !.judged = @ \cup UNION {{[as |-> e, of |-> Slice(text, d.start, d.end)] :
                                     e \in BackToOriginal(tracks, d)} : d \in Range(edits)}]

\* One pass of the model: over the text the edits before made, if any.
Pass ==
  /\ run.phase = "running" /\ run.pass < MaxPasses
  /\ run.pass > 0 => run.last # <<>>
  /\ LET first  == run.pass = 0
         text   == IF first THEN run.current ELSE Corrected(run.current, run.last)
         tracks == IF first THEN <<>> ELSE Append(run.tracks, Segments(run.current, run.last))
     IN  \E tags \in [DOMAIN Words(text) -> Tags] :
           /\ Cardinality({i \in DOMAIN tags : tags[i] # "KEEP"}) <= MaxTagged
           /\ run' = Passed(text, tracks, Decode(text, tags))

\* The last pass, or one that found nothing; a failed one loses the request.
Merge ==
  /\ run.phase = "running" /\ run.pass > 0
  /\ run.pass = MaxPasses \/ run.last = <<>>
  /\ run' = [run EXCEPT !.phase = "over", !.result = MergePasses(run.passes),
                        !.current = <<>>, !.last = <<>>, !.tracks = <<>>]

Fail ==
  /\ run.phase = "running"
  /\ run' = [run EXCEPT !.phase = "over", !.pass = 0, !.passes = <<>>, !.current = <<>>,
                        !.last = <<>>, !.tracks = <<>>, !.judged = {},
                        !.dropped = FALSE]

Next == Pass \/ Merge \/ Fail

Spec == Init /\ [][Next]_run

-----------------------------------------------------------------------------
(* Safety. *)

\* Every edit that is handed out stands in the text of the user where it stood
\* in the text it was judged on: over the same characters.  The edits are in
\* order and apart, and those of the first pass are all there.
CoordinatesHold ==
  run.phase = "over" /\ run.passes # <<>> /\ run.result # <<>> =>
    /\ \A i, j \in DOMAIN run.result : i < j => run.result[i].end <= run.result[j].start
    /\ Range(run.passes[1]) \subseteq Range(run.result)
    /\ \A e \in Range(run.result) :
         /\ e.start < e.end /\ e.end <= Len(run.original)
         /\ \E j \in run.judged : j.as = e /\ j.of = Slice(run.original, e.start, e.end)

\* While no edit was dropped and none overlaps another, the text a pass is over
\* is the user's with all edits before applied at once: where they were
\* translated to.
PassesAddUp ==
  run.phase = "running" /\ run.pass > 1 /\ ~run.dropped =>
    LET before == SubSeq(run.passes, 1, run.pass - 1)
        merged == MergePasses(before)
    IN  Len(merged) = Len(FlattenSeq(before)) => Corrected(run.original, merged) = run.current
=============================================================================
