------------------------------ MODULE FieldEdits ------------------------------
(***************************************************************************)
(* Applying suggestions to a text that changes, and taking them back:      *)
(* isSpanStillValid (clients/browser/src/lib/pipeline.ts),                 *)
(* appendInverseEdit and planUndo (lib/undo.ts), and applyAllFor,          *)
(* applyItemPrimary, applyEdit and undoFor of the content script.          *)
(* Apply-all and undo yield a frame after every edit, in which the user    *)
(* types.  In a plain field an edit is done when applyEdit is called; in a *)
(* rich editor the page does it later, or not at all, and it is recorded   *)
(* either way.  An apply or undo begun while another is under way is left  *)
(* out.                                                                    *)
(*                                                                         *)
(* A text is a sequence of tokens: "bad" ones, which suggestions replace   *)
(* or delete, "good" ones they put there, "mine", typed by the user, and   *)
(* "other", chosen in place of one (in ComposerEdits).                     *)
(* A span is [start, end) from 0, as in the code, and empty for an         *)
(* insertion, of which the token before is remembered.                     *)
(***************************************************************************)
EXTENDS Integers, Sequences, SequencesExt, FiniteSets

CONSTANTS
  MaxLength,  \* bound on the initial text
  MaxTyped,   \* bound on the user's edits
  MaxBatches, \* bound on the applies of a behaviour
  MaxAnswers  \* bound on the checks answered after the first

VARIABLE field

Tokens == {"bad", "good", "mine", "other"}
Replacements == {<<>>, <<"good", "good">>}

Slice(text, start, end) == SubSeq(text, start + 1, IF end < Len(text) THEN end ELSE Len(text))
Replace(text, span, by) == SubSeq(text, 1, span.start) \o by \o SubSeq(text, span.end + 1, Len(text))

Bad(text) == {i \in DOMAIN text : text[i] = "bad"}

\* Where the bridge may insert: it drops edits that touch another.
Gaps(text) == {i \in 0..Len(text) : {i, i + 1} \cap Bad(text) = {}}

Item(text, start, end, replacement) ==
  [start |-> start, end |-> end, original |-> Slice(text, start, end), replacement |-> replacement,
   before |-> Slice(text, IF start = 0 THEN 0 ELSE start - 1, start), last |-> end = Len(text)]

\* An answer of the bridge: what replaces the bad tokens, and where one is missing.
Items(text, by, gaps) ==
  {Item(text, i - 1, i, by[i]) : i \in Bad(text)} \cup {Item(text, i, i, <<"good">>) : i \in gaps}

Answers(text) ==
  {Items(text, by, gaps) : by \in [Bad(text) -> Replacements],
                           gaps \in {{}} \cup {{i} : i \in Gaps(text)}}

TypeOK ==
  /\ field.text \in Seq(Tokens)
  /\ field.busy \in {"no", "applying", "undoing"}
  /\ field.last \in {"none", "applied", "undone"}
  /\ field.typed \in 0..MaxTyped /\ field.batches \in 0..MaxBatches
  /\ field.answers \in 0..MaxAnswers
  /\ \A e \in Range(field.applied \o field.batch) : e.start \in Nat /\ e.start <= e.end

Init ==
  \E n \in 1..MaxLength, rich \in BOOLEAN :
    \E text \in [1..n -> {"bad", "good"}] : \E items \in Answers(text) :
      field = [text |-> text,
               rich |-> rich,             \* whether a framework owns the editor
               items |-> items,
               queue |-> <<>>,            \* what apply-all has still to apply
               sent |-> <<>>,             \* the edit the page was asked for
               batch |-> <<>>,            \* what it has recorded so far
               applied |-> <<>>,          \* lastApplied
               plan |-> <<>>,             \* what undo has still to do
               busy |-> "no", typed |-> 0, batches |-> 0, answers |-> 0,
               fresh |-> TRUE,            \* history: the items are of this text
               wanted |-> <<>>,           \* history: what the batch should give
               clean |-> FALSE,           \* history: nothing was typed since it began
               before |-> text,           \* history: the text the batch began with
               touched |-> FALSE,         \* history: something was typed since
               raced |-> FALSE,           \* history: something was typed during an undo
               missed |-> FALSE,          \* history: an edit was recorded and not made
               mine |-> 0,                \* history: how much of the text is the user's
               last |-> "none"]           \* history: what was done last

-----------------------------------------------------------------------------
(* The helpers.  Slip_... definitions are slips the definition after them  *)
(* could have; nothing uses them.                                          *)

\* isSpanStillValid.  An insertion is known by what precedes it, and one at the
\* end of the text by that.
SpanStillValid(text, item) ==
  /\ item.end <= Len(text)
  /\ item.start = item.end =>
       /\ Slice(text, item.start - Len(item.before), item.start) = item.before
       /\ item.last => item.end = Len(text)
  /\ Slice(text, item.start, item.end) = item.original

Inverse_(edit) ==
  [start |-> edit.start, end |-> edit.start + Len(edit.replacement),
   applied |-> edit.replacement, original |-> edit.original]

Slip_Unshifted(batch, edit) == Append(batch, Inverse_(edit))

\* appendInverseEdit: what was recorded at or after the new edit moves with it.
AppendInverse(batch, edit) ==
  LET delta == Len(edit.replacement) - (edit.end - edit.start)
  IN  Append([i \in DOMAIN batch |->
                IF batch[i].start >= edit.start
                THEN [batch[i] EXCEPT !.start = @ + delta, !.end = @ + delta] ELSE batch[i]],
             Inverse_(edit))

\* planUndo: the highest first, and only where the applied text still stands.
PlanUndo(text, applied) ==
  LET standing == {i \in DOMAIN applied :
                     Slice(text, applied[i].start, applied[i].end) = applied[i].applied}
      Above(i) == {j \in standing : \/ applied[j].start > applied[i].start
                                    \/ applied[j].start = applied[i].start /\ j < i}
  IN  [k \in 1..Cardinality(standing) |->
         applied[CHOOSE i \in standing : Cardinality(Above(i)) = k - 1]]

\* The order of applyAllFor.
LastToFirst(items) ==
  [k \in 1..Cardinality(items) |->
     CHOOSE x \in items : Cardinality({y \in items : y.start > x.start}) = k - 1]

\* The reference: every item replaces the token it is about, or fills its gap.
AllFixed(text, items) ==
  LET Of(start, end, otherwise) ==
        IF \E item \in items : item.start = start /\ item.end = end
        THEN (CHOOSE item \in items : item.start = start /\ item.end = end).replacement
        ELSE otherwise
  IN  Of(0, 0, <<>>) \o
        FlattenSeq([i \in DOMAIN text |-> Of(i - 1, i, <<text[i]>>) \o Of(i, i, <<>>)])

-----------------------------------------------------------------------------
(* The user, and the checks. *)

Typed(text, mine) ==
  field' = [field EXCEPT !.text = text, !.mine = mine, !.typed = @ + 1,
                         !.fresh = FALSE, !.clean = FALSE, !.touched = TRUE,
                         !.raced = @ \/ field.busy = "undoing", !.last = "none", !.wanted = <<>>]

\* A token is put in, or taken out.
Type ==
  /\ field.typed < MaxTyped
  /\ \/ \E i \in 0..Len(field.text) :
          Typed(Replace(field.text, [start |-> i, end |-> i], <<"mine">>), field.mine + 1)
     \/ \E i \in DOMAIN field.text :
          Typed(Replace(field.text, [start |-> i - 1, end |-> i], <<>>),
                IF field.text[i] = "mine" THEN field.mine - 1 ELSE field.mine)

\* A check of the text is answered.
Checked ==
  /\ ~field.fresh /\ field.answers < MaxAnswers
  /\ \E items \in Answers(field.text) :
       field' = [field EXCEPT !.items = items, !.answers = @ + 1, !.fresh = TRUE, !.last = "none",
                              !.wanted = IF field.busy = "no" THEN <<>> ELSE @]

-----------------------------------------------------------------------------
(* Applying. *)

\* applyAllFor, or applyItemPrimary of one item.
Apply(items) ==
  /\ field.busy = "no" /\ items # {} /\ field.batches < MaxBatches
  /\ field' = [field EXCEPT !.busy = "applying", !.queue = LastToFirst(items), !.batch = <<>>,
                            !.batches = @ + 1, !.clean = field.fresh, !.last = "none",
                            !.wanted = IF field.fresh THEN AllFixed(field.text, items) ELSE <<>>]

\* The edit is made where the span is now, and recorded.
Edited(f, item) ==
  [f EXCEPT !.text = IF item.end <= Len(@) THEN Replace(@, item, item.replacement) ELSE @,
            !.batch = AppendInverse(@, item), !.fresh = FALSE]

\* The next item, if its span is still its own; then a frame.
ApplyNext ==
  /\ field.busy = "applying" /\ field.queue # <<>> /\ field.sent = <<>>
  /\ LET item == Head(field.queue)
         rest == [field EXCEPT !.queue = Tail(@)]
         f    == IF rest.batch # <<>> THEN rest
                 ELSE [rest EXCEPT !.before = rest.text, !.touched = FALSE]
     IN  field' = IF ~SpanStillValid(rest.text, item) THEN rest
                  ELSE IF f.rich THEN [f EXCEPT !.sent = <<item>>]
                  ELSE Edited(f, item)

\* The page's agent does what was asked, or applyFix does when the agent reports
\* that it did not, at the span as it is by then; or the editor ignores both.
PageApplies ==
  /\ field.busy = "applying" /\ field.sent # <<>>
  /\ LET edited == Edited([field EXCEPT !.sent = <<>>], Head(field.sent))
     IN  \/ field' = edited
         \/ field' = [edited EXCEPT !.text = field.text, !.missed = TRUE]

Applied ==
  /\ field.busy = "applying" /\ field.queue = <<>> /\ field.sent = <<>>
  /\ field' = [field EXCEPT !.busy = "no", !.batch = <<>>,
                            !.applied = IF field.batch = <<>> THEN @ ELSE field.batch,
                            !.last = "applied"]

-----------------------------------------------------------------------------
(* Undoing. *)

Restored(text, e) == IF e.end <= Len(text) THEN Replace(text, e, e.original) ELSE text

\* undoFor: the plan is made of the text as it is now.
Undo ==
  /\ field.busy = "no" /\ field.applied # <<>>
  /\ field' = [field EXCEPT !.busy = "undoing", !.plan = PlanUndo(field.text, field.applied),
                            !.applied = <<>>, !.last = "none", !.wanted = <<>>]

\* It is not looked at again, whatever is typed between two of its edits.
UndoNext ==
  /\ field.busy = "undoing" /\ field.plan # <<>>
  /\ \/ field' = [field EXCEPT !.text = Restored(@, Head(field.plan)),
                               !.plan = Tail(@), !.fresh = FALSE]
     \/ field.rich /\ field' = [field EXCEPT !.plan = Tail(@), !.missed = TRUE]

Undone ==
  /\ field.busy = "undoing" /\ field.plan = <<>>
  /\ field' = [field EXCEPT !.busy = "no", !.last = "undone"]

Next ==
  \/ Type \/ Checked
  \/ Apply(field.items)
  \/ \E item \in field.items : Apply({item})
  \/ ApplyNext \/ PageApplies \/ Applied
  \/ Undo \/ UndoNext \/ Undone

Spec == Init /\ [][Next]_field

-----------------------------------------------------------------------------
(* Safety. *)

\* Edits made one after the other, at spans computed for the whole text, come
\* to what the suggestions say together, if nothing was typed meanwhile and a
\* rich editor ignored none.
BatchFixesAll ==
  field.last = "applied" /\ field.clean /\ ~field.missed => field.text = field.wanted

\* Undo gives back the text the batch began with, whatever the lengths of its
\* replacements, deletions and insertions, if nothing was typed since.
UndoRestores ==
  field.last = "undone" /\ ~field.touched /\ ~field.missed => field.text = field.before

\* What the user typed between the edits of an apply, between checks and before
\* an undo is never overwritten in a plain field.
TypedSurvives ==
  ~field.rich /\ ~field.raced =>
    Cardinality({i \in DOMAIN field.text : field.text[i] = "mine"}) = field.mine
=============================================================================
