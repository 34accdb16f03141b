----------------------------- MODULE SentenceEdits -----------------------------
(***************************************************************************)
(* From a text to edits, and to what each client is handed: SegmentSentences *)
(* (bridge/internal/correction/segment.go), the diff of a sentence and its *)
(* correction (diff.go), the offsets of the whole text (service.go), and   *)
(* the forms edits are delivered in: matches of LanguageTool's protocols   *)
(* (ltcompat, ltgrpc) and items of the browser (api/offset.ts, lib/        *)
(* pipeline.ts, lib/word-diff.ts).                                         *)
(*                                                                         *)
(* A text is a sequence of bytes, the letters among them of one, two or    *)
(* four; in JavaScript it is a sequence of UTF-16 units.  Spans are        *)
(* [start, end) from 0.  Where the tokenizer cuts a line, whether a line   *)
(* looks like code, and the diff itself are outside: any cut, and any      *)
(* edits with something equal between them.                                *)
(***************************************************************************)
EXTENDS Integers, Sequences, SequencesExt, FiniteSets

CONSTANTS
  Texts,    \* the texts checked, of letters; none empty, which the handlers refuse
  Inserts,  \* what corrections put in, of letters
  MaxEdits, \* bound on the edits of a diff
  Window    \* how many bytes of context a match is sent with

VARIABLE checked

-----------------------------------------------------------------------------
(* Letters, bytes and units.  "e" stands for those of two bytes and one    *)
(* unit, "g" for those of four and two.                                    *)

Utf8(letter) ==
  CASE letter = "e" -> <<"e1", "e2">>
    [] letter = "g" -> <<"g1", "g2", "g3", "g4">>
    [] OTHER -> <<letter>>

RuneStart(byte) == byte \notin {"e2", "g2", "g3", "g4"}

Bytes(letters) == FlattenSeq([i \in DOMAIN letters |-> Utf8(letters[i])])

\* What the bytes are in a JavaScript string.
ToUnits(bytes) ==
  FlattenSeq([i \in DOMAIN bytes |->
    CASE bytes[i] = "e1" -> <<"e">>
      [] bytes[i] = "g1" -> <<"g-", "-g">>
      [] RuneStart(bytes[i]) -> <<bytes[i]>>
      [] OTHER -> <<>>])

IsSpace(c) == c \in {" ", "nl", "cr"}

\* s[from:to] of Go, and s.slice(from, to).
Slice(s, from, to) == SubSeq(s, from + 1, to)
HasSpace(s) == \E i \in DOMAIN s : IsSpace(s[i])

\* Where a rune of the bytes begins, or the last one ends.
Boundaries(bytes) == {Len(bytes)} \cup {i - 1 : i \in {j \in DOMAIN bytes : RuneStart(bytes[j])}}

\* The edits, in their order and apart, applied from last to first.
Apply(s, edits) ==
  FoldRight(LAMBDA e, t : Slice(t, 0, e.start) \o e.by \o Slice(t, e.end, Len(t)), edits, s)

Span(start, end) == [start |-> start, end |-> end]
Edit(start, end, by) == [start |-> start, end |-> end, by |-> by]

-----------------------------------------------------------------------------
(* Sentences.  Slip_... definitions are slips the definition after them    *)
(* could have; nothing uses them.                                          *)

\* The lines of a text that are not empty, without their ends.
Lines(text) ==
  LET ends    == {i - 1 : i \in {j \in DOMAIN text : text[j] = "nl"}} \cup {Len(text)}
      starts  == {0} \cup {i + 1 : i \in ends \ {Len(text)}}
      End(s)  == CHOOSE e \in ends : e >= s /\ \A f \in ends : f >= s => e <= f
      Strip(s, e) == IF e > s /\ text[e] = "cr" THEN e - 1 ELSE e
  IN  SetToSortSeq({l \in {Span(s, Strip(s, End(s))) : s \in starts} : l.start < l.end},
                   LAMBDA k, l : k.start < l.start)

\* strings.TrimSpace, as a span.
Trim(text, span) ==
  LET kept == {i \in (span.start + 1)..span.end : ~IsSpace(text[i])}
  IN  IF kept = {} THEN Span(span.start, span.start)
      ELSE Span((CHOOSE i \in kept : \A j \in kept : i <= j) - 1,
                CHOOSE i \in kept : \A j \in kept : j <= i)

\* The pieces of a line between the cuts of the tokenizer, the blank ones left out.
Pieces(text, line, cuts) ==
  LET places == SetToSortSeq(cuts \cup {line.start, line.end}, <)
      pieces == [i \in 1..(Len(places) - 1) |-> Trim(text, Span(places[i], places[i + 1]))]
  IN  SelectSeq(pieces, LAMBDA p : p.start < p.end)

Cuts(text, line) == {c \in Boundaries(text) : line.start < c /\ c < line.end}

\* appendLineSegments: a line is taken whole, or cut into sentences.
LineSegments(text, line) ==
  {<<line>>} \cup {Pieces(text, line, cuts) : cuts \in SUBSET Cuts(text, line)}

AllSegments(text) ==
  FoldLeft(LAMBDA found, line : {s \o t : s \in found, t \in LineSegments(text, line)},
           {<<>>}, Lines(text))

\* segmentLinesWithoutTokenizer is the case in which every line is taken whole.
SegmentSentences(text) ==
  IF Trim(text, Span(0, Len(text))).end = 0 THEN {<<>>} ELSE AllSegments(text)

\* What is checked at a time: the sentences, or the text if there are not two.
Units(text, segs) == IF Len(segs) < 2 THEN <<Span(0, Len(text))>> ELSE segs

-----------------------------------------------------------------------------
(* The diff of a sentence and its correction. *)

Inserted == {Bytes(i) : i \in Inserts}

\* Edits with something equal between them, none of which is nothing.
Corrections(s) ==
  LET edits == {e \in [start : Boundaries(s), end : Boundaries(s), by : Inserted \cup {<<>>}] :
                  e.start <= e.end /\ ~(e.start = e.end /\ e.by = <<>>)}
  IN  {d \in UNION {[1..n -> edits] : n \in 0..MaxEdits} :
         \A i \in 1..(Len(d) - 1) : d[i].end < d[i + 1].start}

\* The same as the library lists it: a run deleted, then what is inserted for it.
Listed(s, edits) ==
  LET before(i) == IF i = 1 THEN 0 ELSE edits[i - 1].end
      run(op, t) == IF t = <<>> THEN <<>> ELSE <<[op |-> op, text |-> t]>>
      one(i) == run("equal", Slice(s, before(i), edits[i].start))
                \o run("delete", Slice(s, edits[i].start, edits[i].end))
                \o run("insert", edits[i].by)
  IN  FlattenSeq([i \in DOMAIN edits |-> one(i)])

\* The loop of diffToSuggestionsCategory.
Suggested(diffs) ==
  LET n(i) == IF diffs[i].op = "insert" THEN 0 ELSE Len(diffs[i].text)
      pos(i) == FoldLeft(LAMBDA sum, j : sum + n(j), 0, [j \in 1..(i - 1) |-> j])
      paired(i) == i > 1 /\ diffs[i].op = "insert" /\ diffs[i - 1].op = "delete"
      by(i) == IF diffs[i].op = "insert" THEN diffs[i].text
               ELSE IF i < Len(diffs) /\ paired(i + 1) THEN diffs[i + 1].text ELSE <<>>
      one(i) == IF diffs[i].op = "equal" \/ paired(i) THEN <<>>
                ELSE <<Edit(pos(i), pos(i) + n(i), by(i))>>
  IN  FlattenSeq([i \in DOMAIN diffs |-> one(i)])

CancelNoOps(s, edits) == SelectSeq(edits, LAMBDA e : Slice(s, e.start, e.end) # e.by)

Slip_NotCoalesced(s, edits) == edits

\* coalesceSameWordEdits.
Coalesce(s, edits) ==
  FoldLeft(LAMBDA out, e :
             IF out = <<>> \/ HasSpace(Slice(s, Last(out).end, e.start)) THEN Append(out, e)
             ELSE Append(Front(out),
                         Edit(Last(out).start, e.end,
                              Last(out).by \o Slice(s, Last(out).end, e.start) \o e.by)),
           <<>>, edits)

DiffToSuggestions(s, diffs) == CancelNoOps(s, Coalesce(s, CancelNoOps(s, Suggested(diffs))))

Shift(edits, by) ==
  [i \in DOMAIN edits |-> Edit(edits[i].start + by, edits[i].end + by, edits[i].by)]

\* finalize, where edits of sentences that abut may be in each other's way.
Staged == INSTANCE StagedCheck WITH
  staged <- checked, Fasts <- {}, Finds <- <<>>, Diffs <- {}, Words <- {}, Pairs <- {}, Modes <- {}

-----------------------------------------------------------------------------
(* Deliveries. *)

Slip_LastByte(text, at) == at - 1

\* Where the rune before a place begins.
RuneBefore(text, at) ==
  CHOOSE i \in Boundaries(text) : i < at /\ \A j \in Boundaries(text) : j < at => j <= i

FirstRune(text) ==
  CHOOSE i \in Boundaries(text) : i > 0 /\ \A j \in Boundaries(text) : j > 0 => i <= j

\* widenInsertion and widenInsertionBytes: the rune before is replaced by
\* itself and what is inserted, at the start of the text the first one.
Widen(text, e) ==
  IF e.start < e.end \/ text = <<>> THEN e
  ELSE IF e.start > 0
       THEN LET from == RuneBefore(text, e.start)
            IN  Edit(from, e.start, Slice(text, from, e.start) \o e.by)
       ELSE LET to == FirstRune(text) IN Edit(0, to, e.by \o Slice(text, 0, to))

Slip_BytesAsUnits(bytes, offset) == offset

\* byteToUTF16Offset: the units of the runes that begin before the offset.
ByteToUTF16(bytes, offset) == Len(ToUnits(Slice(bytes, 0, offset)))

ToGRPC(text, edits) == [i \in DOMAIN edits |-> Widen(text, edits[i])]

\* contextWindow: from and to moved outwards to whole runes.
Context(text, e) ==
  LET low  == IF e.start > Window THEN e.start - Window ELSE 0
      high == IF e.end + Window < Len(text) THEN e.end + Window ELSE Len(text)
      from == CHOOSE i \in Boundaries(text) : i <= low /\ \A j \in Boundaries(text) : j <= low => j <= i
      to   == CHOOSE i \in Boundaries(text) :
                i >= high /\ \A j \in Boundaries(text) : j >= high => i <= j
      snippet == Slice(text, from, to)
  IN  [text |-> ToUnits(snippet),
       start |-> ByteToUTF16(snippet, e.start - from), end |-> ByteToUTF16(snippet, e.end - from)]

\* suggestionToLTMatch.
ToLT(text, edits) ==
  [i \in DOMAIN edits |->
     LET e == Widen(text, edits[i])
     IN  [start |-> ByteToUTF16(text, e.start), end |-> ByteToUTF16(text, e.end),
          by |-> ToUnits(e.by), context |-> Context(text, e)]]

\* byteToCodeUnit: a byte offset as an index of the string, if it is one.
UnitBytes(u) == CASE u = "e" -> 2 [] u = "g-" -> 4 [] u = "-g" -> 0 [] OTHER -> 1
ByteToCodeUnit(units, offset) ==
  LET bytes(k) == FoldLeft(LAMBDA sum, u : sum + UnitBytes(u), 0, Slice(units, 0, k))
  IN  {k \in 0..Len(units) : bytes(k) = offset /\ (k = 0 \/ units[k] # "g-")}

\* verifyByteSpan: the span in units, or none.
Verified(units, e) ==
  {Span(s, t) : s \in ByteToCodeUnit(units, e.start), t \in ByteToCodeUnit(units, e.end)}

Boundary(units, i) == i \notin DOMAIN units \/ IsSpace(units[i])

\* wordLevelDiff: an edge inside a word moves out to the end of the word.
Word(units, span) ==
  LET empty  == span.start = span.end
      inside == ~Boundary(units, IF empty THEN span.start ELSE span.start + 1)
      within == ~Boundary(units, IF empty THEN span.end + 1 ELSE span.end)
      start  == CHOOSE s \in 0..span.start :
                  /\ \A i \in (s + 1)..span.start : ~Boundary(units, i)
                  /\ Boundary(units, s)
      end    == CHOOSE t \in span.end..Len(units) :
                  /\ \A i \in (span.end + 1)..t : ~Boundary(units, i)
                  /\ Boundary(units, t + 1)
  IN  Span(IF inside THEN start ELSE span.start, IF within THEN end ELSE span.end)

Item(units, span, by) ==
  LET word == Word(units, span)
  IN  [start |-> span.start, end |-> span.end, by |-> by, word |-> word,
       corrected |-> Slice(units, word.start, span.start) \o by \o Slice(units, span.end, word.end)]

CrossesLine(units, span) == \E i \in (span.start + 1)..span.end : units[i] = "nl"

\* buildRenderableItems: what cannot be verified, or crosses a line, is dropped.
ToItems(units, edits) ==
  FlattenSeq([i \in DOMAIN edits |->
    LET shown == {s \in Verified(units, edits[i]) : s.start <= s.end /\ ~CrossesLine(units, s)}
    IN  IF shown = {} THEN <<>>
        ELSE <<Item(units, CHOOSE s \in shown : TRUE, ToUnits(edits[i].by))>>])

-----------------------------------------------------------------------------

TypeOK ==
  /\ checked.phase \in {"text", "units", "done"}
  /\ checked.next \in 1..(Len(checked.units) + 1)
  /\ checked.phase = "done" => checked.next = Len(checked.units) + 1

Init ==
  \E letters \in Texts :
    checked = [text |-> Bytes(letters), phase |-> "text",
               segs |-> <<>>, units |-> <<>>, next |-> 1,
               edits |-> <<>>,    \* in offsets of the whole text
               wanted |-> <<>>]   \* history: the diffs, in these offsets

Segment ==
  /\ checked.phase = "text"
  /\ \E segs \in SegmentSentences(checked.text) :
       checked' = [checked EXCEPT !.phase = "units", !.segs = segs,
                                  !.units = Units(checked.text, segs)]

\* A sentence fails, and is skipped, or its correction comes.
Check ==
  /\ checked.phase = "units" /\ checked.next <= Len(checked.units)
  /\ LET unit == checked.units[checked.next]
         s    == Slice(checked.text, unit.start, unit.end)
     IN  \E diffs \in Corrections(s) :
           checked' =
             [checked EXCEPT !.next = @ + 1,
                !.edits = @ \o Shift(DiffToSuggestions(s, Listed(s, diffs)), unit.start),
                !.wanted = @ \o Shift(diffs, unit.start)]

Deliver ==
  /\ checked.phase = "units" /\ checked.next > Len(checked.units)
  /\ checked' = [checked EXCEPT !.phase = "done",
                                !.edits = Staged!Deduplicate(Staged!SortByStart(checked.edits))]

Next == Segment \/ Check \/ Deliver

Spec == Init /\ [][Next]_checked

-----------------------------------------------------------------------------
(* Safety. *)

Text == checked.text
Edits == checked.edits
Done == checked.phase = "done"

InOrder(spans) == \A i, j \in DOMAIN spans : i < j => spans[i].end <= spans[j].start
Abut == \E i \in 1..(Len(checked.units) - 1) : checked.units[i].end = checked.units[i + 1].start

\* Sentences are in order and apart, of whole runes of one line, and what is in
\* none of them is white space: nothing goes unchecked.
SentencesCover ==
  checked.phase # "text" =>
    /\ InOrder(checked.segs)
    /\ \A s \in Range(checked.segs) :
         /\ s.start < s.end /\ {s.start, s.end} \subseteq Boundaries(Text)
         /\ \A i \in (s.start + 1)..s.end : Text[i] # "nl"
    /\ \A i \in DOMAIN Text :
         IsSpace(Text[i]) \/ \E s \in Range(checked.segs) : s.start < i /\ i <= s.end

\* Coalesced, cancelled and moved, the edits come to the corrections: all of
\* them, unless sentences abut.  None is nothing, and of a word there is one.
EditsAreCorrections ==
  Done =>
    /\ InOrder(Edits)
    /\ \A e \in Range(Edits) : Slice(Text, e.start, e.end) # e.by
    /\ ~Abut => /\ Apply(Text, Edits) = Apply(Text, checked.wanted)
                /\ \A i \in 1..(Len(Edits) - 1) :
                     HasSpace(Slice(Text, Edits[i].end, Edits[i + 1].start))

\* An insertion before the first rune is widened over it, as is one behind it,
\* when the two are not edits of one word: matches that overlap.
AroundFirst ==
  \E d, e \in Range(Edits) : d.end = 0 /\ e.start = FirstRune(Text) /\ e.end = e.start

\* Matches are not empty, in order and apart, and come to the same text, over
\* either protocol; their context shows the words they are about.
MatchesAreEdits ==
  Done /\ ~AroundFirst =>
    LET corrected == Apply(Text, Edits)
        units     == ToUnits(Text)
        grpc      == ToGRPC(Text, Edits)
        lt        == ToLT(Text, Edits)
    IN  /\ InOrder(grpc) /\ InOrder(lt)
        /\ \A m \in Range(grpc) \cup Range(lt) : m.start < m.end
        /\ Apply(Text, grpc) = corrected
        /\ Apply(units, lt) = ToUnits(corrected)
        /\ \A m \in Range(lt) :
             Slice(m.context.text, m.context.start, m.context.end) = Slice(units, m.start, m.end)

\* The browser shows every edit but those across lines; the words it marks are
\* apart, and a word with its edit is the word of the corrected text.
ItemsAreEdits ==
  Done =>
    LET units == ToUnits(Text)
        kept  == SelectSeq(Edits, LAMBDA e :
                   \A i \in (e.start + 1)..e.end : Text[i] # "nl")
        items == ToItems(units, kept)
    IN  /\ items = ToItems(units, Edits) /\ Len(items) = Len(kept)
        /\ Apply(units, items) = ToUnits(Apply(Text, kept))
        /\ ~Abut => /\ InOrder([i \in DOMAIN items |-> items[i].word])
                    /\ Apply(units, [i \in DOMAIN items |->
                                       Edit(items[i].word.start, items[i].word.end,
                                            items[i].corrected)])
                       = ToUnits(Apply(Text, kept))
=============================================================================
