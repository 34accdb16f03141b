--------------------------- MODULE SelectionSurfaces ---------------------------
(***************************************************************************)
(* What the browser client and the Vencord plugin offer for a selection:   *)
(* the Rephrase/Synonyms control that a debounced selectionchange shows,   *)
(* the rephrase card (pending, result, error), the synonyms popover and    *)
(* the toasts that undo.  Browser: mountRephraseFlow                       *)
(* (entrypoints/content/rephrase.ts), openSynonymsForSelection, undoFor    *)
(* and the closers of index.ts, overlay/rephrase-card.ts and synonyms.ts.  *)
(* Vencord: openRephraseFor (rephrase.ts), applySynonym,                   *)
(* openSynonymsForWord and the control of orchestrator.ts.                 *)
(*                                                                         *)
(* There is one field, a plain one in the browser; ComposerEdits has what  *)
(* an editor that answers late does.  A text is a sequence of words; the   *)
(* selection is a span of them, [start, end) from 0, empty for a caret.    *)
(* Surfaces are clicked, not tabbed to; the client is not paused, and the  *)
(* field stays.                                                            *)
(***************************************************************************)
EXTENDS Integers, Sequences, SequencesExt, FiniteSets

CONSTANTS
  Texts,     \* texts the field may have at first
  MaxTyped,  \* bound on the user's edits
  MaxMoves,  \* bound on the moves of the selection
  MaxAsked   \* bound on the requests

VARIABLE page

\* The recording of inverses is that of every client.
Plain == INSTANCE FieldEdits
           WITH field <- page, MaxLength <- 0, MaxBatches <- 0, MaxAnswers <- 0
Slice(text, span) == Plain!Slice(text, span.start, span.end)
Replace(text, span, by) == Plain!Replace(text, span, by)

Rephrasings == {<<"re">>, <<"re", "re">>}
Synonyms == {<<"syn">>, <<"syn", "syn">>}

Caret(i) == [start |-> i, end |-> i]
Spans(text) == {s \in [start : 0..Len(text), end : 0..Len(text)] : s.start <= s.end}
Empty(span) == span.start = span.end

Gone == [is |-> "gone"]

Init ==
  \E text \in Texts, client \in {"browser", "vencord"} :
    page = [client |-> client, text |-> text, selection |-> Caret(0),
            debounce |-> FALSE,   \* the timer of selectionchange
            control |-> Gone,     \* the split control, of a span it remembers
            opening |-> {},       \* rephrases that wait for the settings
            out |-> {},           \* requests the bridge has
            card |-> Gone, popover |-> Gone, toast |-> Gone,
            applied |-> <<>>,     \* lastApplied
            typed |-> 0, moves |-> 0, asked |-> 0,
            wrote |-> Gone,       \* history: what was last written over what
            before |-> text,      \* history: the text before the last swap
            undone |-> FALSE,     \* history: the last swap, and no more, was taken back
            since |-> FALSE,      \* history: something else was done by the last swap, or since
            crossed |-> FALSE,    \* history: two searches for synonyms were out
            closed |-> TRUE]      \* history: the popover was closed since it was opened

-----------------------------------------------------------------------------
(* Selecting and typing.  Slip_... definitions are slips the definition     *)
(* after them could have; nothing uses them.                                *)

Slip_LeavesPopover(f, span) == [f EXCEPT !.selection = span, !.debounce = TRUE]
\* A change of the selection; the browser closes the popover, which may be stale.
Selected(f, span) ==
  [f EXCEPT !.selection = span, !.debounce = TRUE,
            !.popover = IF f.client = "browser" THEN Gone ELSE @,
            !.closed = @ \/ f.client = "browser"]

\* A pointer that goes down outside of them closes the card and the popover.
Outside(f) == [f EXCEPT !.card = Gone, !.popover = Gone, !.closed = TRUE]

SelectionMoves ==
  /\ page.moves < MaxMoves
  /\ \E span \in Spans(page.text), mouse \in BOOLEAN :
       page' = [Selected(IF mouse THEN Outside(page) ELSE page, span) EXCEPT !.moves = @ + 1]

\* What the selection is replaced by leaves the caret behind it.
Edited(f, span, by) ==
  Selected([f EXCEPT !.text = Replace(@, span, by)], Caret(span.start + Len(by)))

Type ==
  /\ page.typed < MaxTyped
  /\ \E by \in {<<>>, <<"mine">>} :
       /\ by = <<>> => ~Empty(page.selection)
       /\ page' = [Edited(page, page.selection, by) EXCEPT
                     !.typed = @ + 1, !.since = TRUE, !.undone = FALSE]

Scroll ==
  /\ page.client = "browser" /\ {page.control, page.card, page.popover} # {Gone}
  /\ page' = [Outside(page) EXCEPT !.control = Gone]

-----------------------------------------------------------------------------
(* The control. *)

Slip_KeepsControl(f) ==
  IF Empty(f.selection) THEN {f.control}
  ELSE {[is |-> "shown", span |-> f.selection, said |-> Slice(f.text, f.selection), clean |-> FALSE]}
\* isSingleCleanWordSelection: one word, which a correction may be on or not.
CleanWord(span) == {FALSE, span.end = span.start + 1}

\* What the debounced listener shows of the selection.
Shown(f) ==
  IF Empty(f.selection) THEN {Gone}
  ELSE {[is |-> "shown", span |-> f.selection, said |-> Slice(f.text, f.selection), clean |-> clean] :
          clean \in CleanWord(f.selection)}

Debounced ==
  /\ page.debounce
  /\ \E control \in Shown(page) : page' = [page EXCEPT !.debounce = FALSE, !.control = control]

Request(f, kind, span, said) ==
  [id |-> f.asked + 1, kind |-> kind, span |-> span, said |-> said, original |-> Slice(f.text, span)]

\* One card and one popover: a new one takes the place of the one before.
Card(is, r) == [is |-> is, of |-> r]
Popover(is, r) == [is |-> is, of |-> r]

\* openRephraseFor.  The browser reads its settings before it shows anything.
Rephrase(f, span, said) ==
  LET r == Request(f, "rephrase", span, said) IN
  IF f.client = "browser"
  THEN [f EXCEPT !.asked = @ + 1, !.opening = @ \cup {r}]
  ELSE [f EXCEPT !.asked = @ + 1, !.out = @ \cup {r}, !.card = Card("pending", r)]

SettingsRead(r) ==
  /\ r \in page.opening
  /\ page' = [page EXCEPT !.opening = @ \ {r}, !.out = @ \cup {r}, !.control = Gone,
                          !.card = Card("pending", r)]

ClickRephrase ==
  /\ page.control # Gone /\ page.asked < MaxAsked
  /\ page' = [Rephrase(Outside(page), page.control.span, page.control.said) EXCEPT !.control = Gone]

\* selectRephraseTarget: the selection, or else the whole text.
Target(f) ==
  IF Empty(f.selection) THEN [start |-> 0, end |-> Len(f.text)] ELSE f.selection

\* rephraseFor, of the hotkey.
RephraseHotkey ==
  /\ page.text # <<>> /\ page.asked < MaxAsked
  /\ page' = Rephrase(page, Target(page), Slice(page.text, Target(page)))

\* openSynonymsForSelection, openSynonymsForWord
ClickSynonyms ==
  /\ page.control # Gone /\ page.asked < MaxAsked
  /\ page.control.clean
  /\ LET r == Request(page, "synonyms", page.control.span, page.control.said) IN
     \/ page' = [Outside(page) EXCEPT
                   !.control = Gone, !.asked = @ + 1, !.out = @ \cup {r}, !.closed = FALSE,
                   !.popover = Popover("loading", r),
                   !.crossed = @ \/ \E q \in page.out : q.kind = "synonyms"]
     \* the composer has no place for the word
     \/ page.client = "vencord" /\ page' = [Outside(page) EXCEPT !.control = Gone]

-----------------------------------------------------------------------------
(* Answers of the bridge. *)

Slip_Reopens(f, r, is) == Popover(is, r)
\* A popover that was closed stays so; another one is replaced.
Loaded(f, r, is) == IF f.popover = Gone THEN Gone ELSE Popover(is, r)

Answer(r) ==
  /\ r \in page.out
  /\ LET f == [page EXCEPT !.out = @ \ {r}] IN
     \/ r.kind = "rephrase" /\ page' = [f EXCEPT !.card = Card("result", r)]
     \/ /\ r.kind = "synonyms"
        /\ \E is \in {"loaded", "empty"} : page' = [f EXCEPT !.popover = Loaded(f, r, is)]

Fail(r) ==
  /\ r \in page.out
  /\ LET f == [page EXCEPT !.out = @ \ {r}] IN
     \/ r.kind = "rephrase" /\ page' = [f EXCEPT !.card = Card("error", r)]
     \/ /\ r.kind = "synonyms"
        /\ page' = [f EXCEPT !.popover = IF f.client = "browser" THEN Gone ELSE Loaded(f, r, "empty")]

-----------------------------------------------------------------------------
(* What the surfaces do. *)

Slip_Anything(text, r) == TRUE
\* The guard against a text that is another by now.
StillSaid(text, r) == Slice(text, r.span) = r.said

\* A swap writes over a span, where there is one.
Swapped(f, r, by, how) ==
  LET g == IF r.span.end <= Len(f.text) THEN Edited(f, r.span, by) ELSE f
  IN  [g EXCEPT !.before = f.text, !.since = ~StillSaid(f.text, r), !.undone = FALSE,
                !.wrote = [is |-> how, found |-> Slice(f.text, r.span), of |-> r]]

\* Accept, or one of the alternatives.  An editor may not take it.
Accept ==
  /\ page.card.is = "result"
  /\ \E by \in Rephrasings, taken \in BOOLEAN :
       LET f == [page EXCEPT !.card = Gone, !.popover = Gone, !.closed = TRUE]
           r == page.card.of
           g == Swapped(f, r, by, "rephrasing")
       IN  /\ page.client = "browser" => taken
           /\ page' = IF ~StillSaid(f.text, r) \/ ~taken THEN f
                      ELSE IF f.client = "browser" THEN g
                      ELSE [g EXCEPT !.toast = [is |-> "rephrased", of |-> r, by |-> by]]

\* Scope, tone and Regenerate ask again for what the card is of.
Reissue ==
  /\ page.card.is = "result" /\ page.asked < MaxAsked
  /\ page' = Rephrase([page EXCEPT !.popover = Gone, !.closed = TRUE],
                      page.card.of.span, page.card.of.said)

Retry ==
  /\ page.card.is = "error" /\ page.asked < MaxAsked
  /\ page' = Rephrase(Outside(page), page.card.of.span, page.card.of.said)

\* Escape, or the close button; an answer may still be out.
CloseCard == page.card # Gone /\ page' = [page EXCEPT !.card = Gone]
ClosePopover == page.popover # Gone /\ page' = [page EXCEPT !.popover = Gone, !.closed = TRUE]

\* The browser writes wherever the word was, and remembers that swap alone.
PickInField(f, r, by) ==
  [Swapped([f EXCEPT !.popover = Gone, !.closed = TRUE], r, by, "synonym") EXCEPT
     !.applied = Plain!AppendInverse(<<>>, [start |-> r.span.start, end |-> r.span.end,
                                            replacement |-> by, original |-> r.original]),
     !.toast = [is |-> "undo"]]

\* applySynonym: the popover stays if nothing was written.
PickInComposer(f, r, by, taken) ==
  IF ~StillSaid(f.text, r) \/ ~taken THEN f
  ELSE [Swapped(f, r, by, "synonym") EXCEPT
          !.popover = Gone, !.closed = TRUE,
          !.applied = Plain!AppendInverse(@, [start |-> r.span.start, end |-> r.span.end,
                                              replacement |-> by, original |-> r.said]),
          !.toast = [is |-> "undo"]]

Pick ==
  /\ page.popover.is = "loaded"
  /\ \E by \in Synonyms, taken \in BOOLEAN :
       LET f == [page EXCEPT !.card = Gone]
           r == page.popover.of
       IN  \/ page.client = "browser" /\ taken /\ page' = PickInField(f, r, by)
           \/ page.client = "vencord" /\ page' = PickInComposer(f, r, by, taken)

\* What it had comes back into each span of the plan, one after the other.
TakenBack(text, plan) ==
  LET back[k \in 0..Len(plan)] ==
        IF k = 0 THEN text ELSE Replace(back[k - 1], plan[k], plan[k].original)
  IN  back[Len(plan)]

\* undoFor.  What several records come to is in ComposerEdits.
Undo ==
  /\ page.toast.is = "undo"
  /\ LET f    == Outside(page)
         plan == Plain!PlanUndo(f.text, f.applied)
     IN  page' = [(IF plan = <<>> THEN f
                   ELSE Selected([f EXCEPT !.text = TakenBack(@, plan)],
                                 Caret(Last(plan).start + Len(Last(plan).original)))) EXCEPT
                    !.applied = <<>>, !.toast = Gone,
                    !.wrote = IF Len(plan) # 1 THEN Gone
                              ELSE [is |-> "undo", found |-> Slice(f.text, plan[1]), of |-> plan[1]],
                    !.undone = ~page.since /\ page.wrote.is = "synonym" /\ Len(page.applied) = 1]

\* The toast of a rephrasing in a composer: its span, with what was there.
UndoRephrase ==
  /\ page.toast.is = "rephrased"
  /\ LET r == page.toast.of
         f == [Outside(page) EXCEPT !.toast = Gone]
     IN  page' = IF r.span.end > Len(f.text) THEN f
                 ELSE [Edited(f, r.span, r.said) EXCEPT
                         !.since = TRUE, !.wrote = Gone,
                         !.undone = ~page.since /\ Len(page.toast.by) = Len(r.said)]

ToastGoes == page.toast # Gone /\ page' = [page EXCEPT !.toast = Gone]

Next ==
  \/ SelectionMoves \/ Type \/ Scroll \/ Debounced
  \/ ClickRephrase \/ RephraseHotkey \/ ClickSynonyms
  \/ \E r \in page.opening : SettingsRead(r)
  \/ \E r \in page.out : Answer(r) \/ Fail(r)
  \/ Accept \/ Reissue \/ Retry \/ CloseCard \/ ClosePopover \/ Pick
  \/ Undo \/ UndoRephrase \/ ToastGoes

Spec == Init /\ [][Next]_page

-----------------------------------------------------------------------------

Words == (UNION {Range(t) : t \in Texts}) \cup {"mine", "re", "syn"}
Constants == Texts \subseteq Seq(Words)

TypeOK ==
  /\ page.text \in Seq(Words)
  /\ page.selection \in Spans(page.text)
  /\ page.card.is \in {"gone", "pending", "result", "error"}
  /\ page.popover.is \in {"gone", "loading", "loaded", "empty"}
  /\ page.toast.is \in {"gone", "undo", "rephrased"}
  /\ page.typed <= MaxTyped /\ page.moves <= MaxMoves /\ page.asked <= MaxAsked

\* A swap or an undo writes over what its surface is of, whatever was selected,
\* typed or swapped since.  The browser does not look before it writes a synonym:
\* that it holds there too is the closing of the popover, unless the control
\* outlived its word or two searches crossed.
WritesOverItsOwn ==
  LET w == page.wrote IN
  /\ w.is = "rephrasing" => w.found = w.of.said
  /\ w.is = "undo" => w.found = w.of.applied
  /\ w.is = "synonym" /\ (page.client = "browser" => ~page.crossed /\ w.of.said = w.of.original) =>
       w.found = w.of.said

\* Taking back the last swap gives the text before it, if nothing else was done
\* since; of a rephrasing in a composer, if it was as long as what it replaced.
\* The browser puts back what was there when the synonyms were asked for, which
\* is something else if two searches crossed while the text changed.
UndoRestores ==
  page.undone /\ (page.client = "browser" => ~page.crossed) => page.text = page.before

\* A card or popover that waits, waits for a request that is out.
WaitersAreAnswered ==
  /\ page.card.is = "pending" => page.card.of \in page.out
  /\ page.popover.is = "loading" => page.popover.of \in page.out

\* A popover that was closed, by the user or by a change of the text in the
\* browser, does not come back, whatever answer is late.
ClosedStaysClosed == page.closed => page.popover = Gone

\* Once the selection rests, the control is of what is selected.
ControlIsCurrent ==
  page.control # Gone /\ ~page.debounce =>
    /\ page.control.span = page.selection
    /\ StillSaid(page.text, page.control)
=============================================================================
