------------------------------- MODULE FlatText --------------------------------
(***************************************************************************)
(* The text of a contenteditable field, as the clients read, measure and   *)
(* edit it: input/text.ts flattens the nodes to a string with newlines for *)
(* <br> and for the ends of blocks, maps spans of it to DOM ranges and     *)
(* points of a selection back to offsets; input/caret-offset.ts keeps the  *)
(* highlights before an edit.                                              *)
(*                                                                         *)
(* Nodes are the sequence of their tags and texts: a point between two     *)
(* nodes is a gap of it, and one inside a text has an offset.  Whether a   *)
(* block begins a line is the page's affair: only its end makes a newline  *)
(* here, so <<text, block>> is one line of the flat text.                  *)
(***************************************************************************)
EXTENDS Integers, Sequences, SequencesExt, FiniteSets

CONSTANTS
  Documents,  \* the contents the field may have at first
  Typed,      \* what the user may type or paste
  Fixes,      \* what a suggestion may put in
  MaxEdits    \* bound on edits

VARIABLE field

Text(letters) == [is |-> "text", data |-> letters]
Br == [is |-> "br"]
Open(tag) == [is |-> "open", tag |-> tag]
Close(tag) == [is |-> "close", tag |-> tag]
IsBlock(tag) == tag = "div"
Inline(node) == node.is \in {"open", "close"} /\ ~IsBlock(node.tag)

-----------------------------------------------------------------------------
(* The flat text.  Slip_... definitions are slips the definition after     *)
(* them could have; nothing uses them.                                     *)

Ends(segments) == IF segments = <<>> THEN 0 ELSE Last(segments).start + Last(segments).length
EndsWithNewline(segments) == segments # <<>> /\ Last(segments).newline

\* Segments are of a text, or a newline with the gap behind what makes it.
Segment(segments, node, length, newline) ==
  Append(segments, [node |-> node, start |-> Ends(segments), length |-> length,
                    newline |-> newline])

Slip_EveryBlockEnds(doc, segments, i) == doc[i].is = "close" /\ IsBlock(doc[i].tag)
\* The end of a block is a newline behind what has none.
BlockEnds(doc, segments, i) ==
  /\ doc[i].is = "close" /\ IsBlock(doc[i].tag)
  /\ Ends(segments) > 0 /\ ~EndsWithNewline(segments)

FlatSegments(doc) ==
  LET Walk(segments, i) ==
        IF doc[i].is = "text" THEN Segment(segments, i, Len(doc[i].data), FALSE)
        ELSE IF doc[i].is = "br" \/ BlockEnds(doc, segments, i)
        THEN Segment(segments, i, 1, TRUE)
        ELSE segments
      all == FoldLeftDomain(Walk, <<>>, doc)
  IN  IF EndsWithNewline(all) THEN Front(all) ELSE all

GetText(doc) ==
  LET segments == FlatSegments(doc) IN
  FlattenSeq([i \in DOMAIN segments |->
                IF segments[i].newline THEN <<"nl">> ELSE doc[segments[i].node].data])

-----------------------------------------------------------------------------
(* Points. *)

\* A gap is behind every place in the node it follows.
Behind == 99
Gap(node) == [node |-> node, offset |-> Behind]
In(node, offset) == [node |-> node, offset |-> offset]
NotAfter(p, q) == p.node < q.node \/ (p.node = q.node /\ p.offset <= q.offset)

Points(doc) ==
  {Gap(i) : i \in 0..Len(doc)}
    \cup UNION {{In(i, k) : k \in 0..Len(doc[i].data)} : i \in {j \in DOMAIN doc : doc[j].is = "text"}}

Least(S) == CHOOSE i \in S : \A j \in S : i <= j
Greatest(S) == CHOOSE i \in S : \A j \in S : j <= i
Texts(segments) == {i \in DOMAIN segments : ~segments[i].newline}

Slip_StartsAtEnd(segments, at) == {i \in DOMAIN segments : at <= segments[i].start + segments[i].length}
\* An offset starts in the segment it is inside of.
StartsIn(segments, at) == {i \in DOMAIN segments : at < segments[i].start + segments[i].length}

ResolveStart(segments, at) ==
  LET within == StartsIn(segments, at)
      i      == IF within = {} THEN Len(segments) ELSE Least(within)
      before == {j \in Texts(segments) : j < i}
      s      == segments[i]
      prev   == segments[Greatest(before)]
  IN  IF ~s.newline THEN In(s.node, IF within = {} THEN s.length ELSE at - s.start)
      ELSE IF within # {} /\ before # {} THEN In(prev.node, prev.length)
      ELSE Gap(s.node)

\* An offset ends the segment it closes.
ResolveEnd(segments, at) ==
  LET i     == Least({j \in DOMAIN segments : at <= segments[j].start + segments[j].length})
      after == {j \in Texts(segments) : j > i}
      s     == segments[i]
  IN  IF at = 0 THEN ResolveStart(segments, 0)
      ELSE IF ~s.newline THEN In(s.node, at - s.start)
      ELSE IF after # {} THEN In(segments[Least(after)].node, 0)
      ELSE Gap(s.node)

\* codeUnitSpansToRanges, of one span; an empty field has no ranges.
RangeOf(doc, span) ==
  LET segments == FlatSegments(doc)
      start    == ResolveStart(segments, span.start)
  IN  [start |-> start,
       end |-> IF span.end = span.start THEN start ELSE ResolveEnd(segments, span.end)]

\* domPointToFlatOffset
FlatOffset(doc, p) ==
  LET segments == FlatSegments(doc)
      at(node) == segments[CHOOSE i \in Texts(segments) : segments[i].node = node].start
      later    == {segments[i].node : i \in Texts(segments)} \cap ((p.node + 1)..Len(doc))
  IN  IF p.offset # Behind THEN at(p.node) + p.offset
      ELSE IF later # {} THEN at(Least(later))
      ELSE Ends(segments)

Spans(doc) ==
  LET n == Len(GetText(doc)) IN
  {s \in [start : 0..n, end : 0..n] : n > 0 /\ s.start <= s.end}


-----------------------------------------------------------------------------
(* Edits. *)

Slice(text, span) == SubSeq(text, span.start + 1, span.end)
Replace(text, span, by) ==
  SubSeq(text, 1, span.start) \o by \o SubSeq(text, span.end + 1, Len(text))

\* The ends and beginnings of blocks in a range, and whether it joins two lines
\* or stays on one; what others come to is the browser's affair.
Edges(doc, range, is) ==
  {i \in (range.start.node + 1)..(range.end.node - 1) : doc[i].is = is /\ IsBlock(doc[i].tag)}
Joins(doc, range) ==
  LET lines == {s \in ToSet(FlatSegments(doc)) :
                  s.newline /\ range.start.node < s.node /\ s.node < range.end.node}
  IN  /\ Cardinality(lines) <= 1
      /\ Cardinality(Edges(doc, range, "close")) = Cardinality(Edges(doc, range, "open"))

\* What the browser puts in for a range: it goes into the text the range starts
\* in, and lines that ended in the range are one.
Inserted(doc, range, by) ==
  LET p == range.start
      q == range.end
      Cut(i) ==
        IF doc[i].is # "text" \/ i < p.node \/ i > q.node THEN doc[i]
        ELSE LET d    == doc[i].data
                 from == IF i = p.node THEN SubSeq(d, 1, p.offset) \o by ELSE <<>>
                 to   == IF i = q.node THEN SubSeq(d, q.offset + 1, Len(d)) ELSE <<>>
             IN  Text(from \o to)
      gone == {i \in (p.node + 1)..(q.node - 1) : doc[i].is = "br"}
                \cup Edges(doc, range, "close") \cup Edges(doc, range, "open")
      kept == SelectSeq([i \in DOMAIN doc |-> i], LAMBDA i : i \notin gone)
      cut  == [k \in DOMAIN kept |-> Cut(kept[k])]
      \* A line left without letters has a <br>.
      lone(k) ==
        /\ cut[k] = Text(<<>>) /\ doc[kept[k]] # Text(<<>>)
        /\ LET own == {i \in DOMAIN cut : i # k /\ ~Inline(cut[i])}
               l   == {i \in own : i < k}
               r   == {i \in own : i > k}
           IN  /\ l # {} => cut[Greatest(l)].is # "text"
               /\ r # {} => cut[Least(r)].is \notin {"text", "br"}
  IN  [k \in DOMAIN cut |-> IF lone(k) THEN Br ELSE cut[k]]

\* No block opens behind letters: all lines are apart in the flat text.
LinesApart(doc) ==
  \A i \in DOMAIN doc :
    doc[i].is = "open" /\ IsBlock(doc[i].tag) =>
      LET before == {j \in 1..(i - 1) : ~Inline(doc[j])}
      IN  before # {} => doc[Greatest(before)].is # "text"

Slip_KeepsFrom(items, caret) == {i \in items : i.start <= caret}
\* keepHighlightsBeforeEdit
KeepBefore(items, caret) == {i \in items : i.end <= caret}

Still == [is |-> "still"]

Init == \E doc \in Documents : field = [doc |-> doc, items |-> {}, edits |-> 0, last |-> Still]

\* A check shows what it found.
Show ==
  \E items \in {{s} : s \in Spans(field.doc)} :
    field' = [field EXCEPT !.items = items, !.last = Still]

\* The user types, pastes or takes a letter back; the caret is read behind it,
\* or cannot be.
Type ==
  /\ field.edits < MaxEdits
  /\ \E p \in Points(field.doc), by \in Typed \cup {<<>>}, resolved \in BOOLEAN :
       /\ p.offset # Behind /\ (by = <<>> => p.offset > 0)
       /\ LET from  == In(p.node, p.offset - (IF by = <<>> THEN 1 ELSE 0))
              doc   == Inserted(field.doc, [start |-> from, end |-> p], by)
              there == In(p.node, from.offset + Len(by))
              caret == FlatOffset(doc, IF doc[p.node] = Br THEN Gap(p.node - 1) ELSE there)
          IN  field' =
                [doc |-> doc, edits |-> field.edits + 1,
                 items |-> IF resolved THEN KeepBefore(field.items, caret) ELSE {},
                 last |-> [is |-> "typed", at |-> FlatOffset(field.doc, from), size |-> Len(by),
                           was |-> GetText(field.doc), items |-> field.items,
                           resolved |-> resolved]]

\* applyFix; the input event it causes keeps what is before it.
Fix ==
  /\ field.edits < MaxEdits
  /\ \E span \in field.items \cap Spans(field.doc), by \in Fixes :
       LET range == RangeOf(field.doc, span) IN
       /\ range.start.offset # Behind /\ range.end.offset # Behind /\ Joins(field.doc, range)
       /\ field' = [doc |-> Inserted(field.doc, range, by), edits |-> field.edits + 1, items |-> {},
                    last |-> [is |-> "fixed", apart |-> LinesApart(field.doc),
                              was |-> GetText(field.doc), span |-> span, by |-> by]]

Next == Show \/ Type \/ Fix
Spec == Init /\ [][Next]_field

-----------------------------------------------------------------------------
(* Properties.  Invariants. *)

\* The nodes are nested, and what the items are of is a span of some text.
TypeOK ==
  /\ \A i \in DOMAIN field.doc : field.doc[i].is \in {"text", "br", "open", "close"}
  /\ LET opened(i) == Cardinality({j \in 1..i : field.doc[j].is = "open"})
         closed(i) == Cardinality({j \in 1..i : field.doc[j].is = "close"})
     IN  /\ \A i \in DOMAIN field.doc : closed(i) <= opened(i)
         /\ closed(Len(field.doc)) = opened(Len(field.doc))
  /\ \A s \in field.items : s.start \in Nat /\ s.end \in Nat /\ s.start <= s.end
  /\ field.edits \in 0..MaxEdits
  /\ field.last.is \in {"still", "typed", "fixed"}

\* The letters between two points of the document.
Letters(doc, p, q) ==
  FlattenSeq([i \in DOMAIN doc |->
    IF doc[i].is # "text" THEN <<>>
    ELSE LET n    == Len(doc[i].data)
             from == {k \in 1..n : NotAfter(p, In(i, k - 1)) /\ NotAfter(In(i, k), q)}
         IN  IF from = {} THEN <<>> ELSE SubSeq(doc[i].data, Least(from), Greatest(from))])

NoNewlines(text) == SelectSeq(text, LAMBDA c : c # "nl")

\* The range of a span runs forward, has the span's letters and no other, and
\* stays on one line where the span does.
RangesAreSpans ==
  \A span \in Spans(field.doc) :
    LET range == RangeOf(field.doc, span)
        said  == Slice(GetText(field.doc), span)
    IN  /\ NotAfter(range.start, range.end)
        /\ Letters(field.doc, range.start, range.end) = NoNewlines(said)
        /\ said = NoNewlines(said) =>
             \A s \in ToSet(FlatSegments(field.doc)) :
               s.newline => ~(range.start.node < s.node /\ s.node < range.end.node)

\* What the user selects is what its span says, and points and offsets agree
\* wherever a letter or its line's end follows a text.
SelectionsAreSpans ==
  LET text == GetText(field.doc)
      at   == [p \in Points(field.doc) |-> FlatOffset(field.doc, p)]
  IN  /\ \A p, q \in DOMAIN at :
           NotAfter(p, q) =>
             /\ at[p] <= at[q]
             /\ NoNewlines(Slice(text, [start |-> at[p], end |-> at[q]])) = Letters(field.doc, p, q)
      /\ \A span \in Spans(field.doc) :
           LET there == at[RangeOf(field.doc, span).start] IN
           NoNewlines(SubSeq(text, there + 1, span.start)) = <<>>

\* An offset on a line without letters, which has no text to start a range in:
\* the range starts on the line before.
OnEmptyLine(text, at) ==
  /\ at < Len(text) /\ text[at + 1] = "nl"
  /\ at = 0 \/ text[at] = "nl"

\* A fix changes its span of the text, and nothing else, if lines were apart and
\* it starts on a line that has letters.
FixReplaces ==
  field.last.is = "fixed" /\ field.last.apart =>
    LET last == field.last IN
    ~OnEmptyLine(last.was, last.span.start) => GetText(field.doc) = Replace(last.was, last.span, last.by)

\* After the user's edit every item before it is kept and says what it said; any
\* other that is kept has no letters behind what was typed.
KeptStand ==
  field.last.is = "typed" =>
    LET before == {i \in field.last.items : i.end <= field.last.at} IN
    /\ field.last.resolved => before \subseteq field.items
    /\ \A i \in field.items \cap before :
         Slice(GetText(field.doc), i) = Slice(field.last.was, i)
    /\ \A i \in field.items :
         NoNewlines(SubSeq(GetText(field.doc), field.last.at + field.last.size + 1, i.end)) = <<>>
=============================================================================
