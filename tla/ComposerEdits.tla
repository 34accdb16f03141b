----------------------------- MODULE ComposerEdits -----------------------------
(***************************************************************************)
(* Applying suggestions in an editor that a framework owns: applySlateFix  *)
(* (clients/browser/src/input/rich-editor-apply.ts), and applyItem,        *)
(* applyAllFor, applyBatchFor, applySynonym and undoFor of the Vencord     *)
(* plugin, which await it.  The editor is asked by an event; it takes it   *)
(* or not, and the text shows what it took at once or later.  The text is  *)
(* polled: changed into what was asked, changed otherwise, or, when the    *)
(* window ends, not at all, and then the span is selected and the editor   *)
(* told to insert.  Meanwhile the user types, or begins another operation: *)
(* nothing keeps two from running at once.                                 *)
(*                                                                         *)
(* Texts are as in FieldEdits.  An editor shows what it takes before the   *)
(* window ends (400 ms); the text is polled (every 25 ms) between two      *)
(* edits of the user, and one of them does not take the editor's back      *)
(* before it is seen.                                                      *)
(***************************************************************************)
EXTENDS Integers, Sequences, SequencesExt, FiniteSetsExt

CONSTANTS
  MaxLength,  \* bound on the initial text
  MaxTyped,   \* bound on the user's edits
  MaxBegun,   \* bound on the operations of a behaviour
  MaxAtOnce,  \* bound on the operations under way
  MaxAnswers  \* bound on the checks answered after the first

VARIABLE ed

\* Texts, items and the recording of inverses are those of every client.
Plain == INSTANCE FieldEdits WITH field <- ed, MaxBatches <- MaxBegun

Ops == 1..MaxAtOnce
Idle == [at |-> "idle"]

Edit(start, end, original, by) ==
  [start |-> start, end |-> end, original |-> original, replacement |-> by]
Nowhere == [start |-> 0, end |-> 0]

TypeOK ==
  /\ ed.text \in Seq(Plain!Tokens) /\ ed.model \in Seq(Plain!Tokens)
  /\ ed.prompt => ed.model = ed.text
  /\ \A o \in Ops : ed.ops[o].at \in {"idle", "ready", "polling", "selected", "polling again"}
  /\ ed.typed \in 0..MaxTyped /\ ed.begun \in 0..MaxBegun /\ ed.answers \in 0..MaxAnswers
  /\ {ed.unmade, ed.twice} \subseteq 0..(MaxBegun * (MaxLength + 1))

Init ==
  \E n \in 1..MaxLength, prompt \in BOOLEAN :
    \E text \in [1..n -> {"bad", "good"}] : \E items \in Plain!Answers(text) :
      ed = [text |-> text,              \* what getText returns
            model |-> text,             \* what the editor has, and the text will show
            prompt |-> prompt,          \* the text shows it at once
            selection |-> Nowhere,
            items |-> items,
            applied |-> <<>>,           \* lastApplied
            ops |-> [o \in Ops |-> Idle],
            typed |-> 0, begun |-> 0, answers |-> 0,
            since |-> [text |-> text, typed |-> 0],  \* history: what undo should restore
            last |-> "none",            \* history: what was done last
            mine |-> 0,                 \* history: how much of the text is the user's
            unmade |-> 0,               \* history: edits recorded that were not made
            twice |-> 0,                \* history: edits made twice
            ignored |-> FALSE,          \* history: the editor ignored an event
            overlapped |-> FALSE,       \* history: two operations ran at once
            crossed |-> FALSE,          \* history: one of them was an undo
            raced |-> FALSE,            \* history: typed into an undo or a selection
            nested |-> FALSE]           \* history: a synonym met an edit still to be undone

-----------------------------------------------------------------------------
(* applySlateFix.  Slip_... definitions are slips the definition after     *)
(* them could have; nothing uses them.                                     *)

\* widenInsertion: an empty span becomes that of the token before, or of the first.
Widen(text, e) ==
  IF e.start # e.end \/ text = <<>> THEN e
  ELSE IF e.start > 0
       THEN [e EXCEPT !.start = @ - 1, !.replacement = Plain!Slice(text, e.start - 1, e.start) \o @]
       ELSE [e EXCEPT !.end = @ + 1, !.replacement = @ \o Plain!Slice(text, e.end, e.end + 1)]

\* diffMiddle: what stands where two texts differ.
Shorter(s, t) == IF Len(s) < Len(t) THEN Len(s) ELSE Len(t)
CommonPrefix(s, t) ==
  Max({n \in 0..Shorter(s, t) : \A i \in 1..n : s[i] = t[i]})
CommonSuffix(s, t, most) ==
  Max({n \in 0..most : \A i \in 0..(n - 1) : s[Len(s) - i] = t[Len(t) - i]})
Inserted(before, after) ==
  LET prefix == CommonPrefix(before, after)
      suffix == CommonSuffix(before, after, Shorter(before, after) - prefix)
  IN  SubSeq(after, prefix + 1, Len(after) - suffix)

Slip_AnyChange(before, after, e) == after # before

\* replacementLanded
Landed(before, after, e) ==
  LET by  == Widen(before, e).replacement
      new == Inserted(before, after)
  IN  \/ after = Plain!Replace(before, e, e.replacement)
      \/ by # <<>> /\ \E i, j \in 1..Len(new) : by = SubSeq(new, i, j)

\* The editor takes a replacement at a span, or ignores it.
Takes(f, o, span, by) ==
  LET model == Plain!Replace(f.model, span, by) IN
  [f EXCEPT !.model = model, !.text = IF f.prompt THEN model ELSE @,
            !.ops[o].times = @ + 1,
            !.twice = @ + (IF f.ops[o].times = 1 /\ model # f.model THEN 1 ELSE 0)]
Ignores(f) == [f EXCEPT !.ignored = TRUE]
Asked(f, o, span, by) ==
  {Ignores(f)} \cup (IF span.end <= Len(f.model) THEN {Takes(f, o, span, by)} ELSE {})

-----------------------------------------------------------------------------
(* What the operations make of its answer. *)

Meets(e, applied) ==
  \E a \in Range(applied) : \/ a.start < e.end /\ e.start < a.end
                            \/ a.start = a.end /\ a.start = e.start

\* An edit that landed is recorded; a single one is then done with.
Settle(f, o, landed) ==
  LET op  == f.ops[o]
      e   == op.item
      now == [text |-> op.before, typed |-> op.typed]
      \* what was recorded in this operation, or before it by others, began then
      on  == IF op.kind = "all" /\ op.batch # <<>> THEN op.since
             ELSE IF op.kind = "synonym" /\ f.applied # <<>> THEN f.since ELSE now
      \* nor has the user done what it would
      made == op.times > 0 \/ f.text = Plain!Replace(op.before, e, e.replacement)
      g   == [f EXCEPT !.unmade = @ + (IF landed /\ op.kind # "undo" /\ ~made THEN 1 ELSE 0)]
  IN  CASE op.kind = "undo" \/ (~landed /\ op.kind = "all") -> [g EXCEPT !.ops[o].at = "ready"]
        [] ~landed /\ op.kind \in {"one", "synonym"} -> [g EXCEPT !.ops[o] = Idle]
        [] landed /\ op.kind = "all" ->
             [g EXCEPT !.ops[o] = [op EXCEPT !.at = "ready", !.since = on,
                                             !.batch = Plain!AppendInverse(@, e)]]
        [] landed /\ op.kind = "one" ->
             [g EXCEPT !.ops[o] = Idle, !.since = on, !.applied = Plain!AppendInverse(<<>>, e)]
        [] landed /\ op.kind = "synonym" ->
             [g EXCEPT !.ops[o] = Idle, !.since = on, !.applied = Plain!AppendInverse(@, e),
                       !.nested = @ \/ Meets(e, f.applied)]

\* pollForTextChange looks at once, and then again and again.
Looked(f, o, at) ==
  IF f.text # f.ops[o].before THEN Settle(f, o, Landed(f.ops[o].before, f.text, f.ops[o].item))
  ELSE [f EXCEPT !.ops[o].at = at]

\* An edit of an operation: the editor is asked for it, at the span as it is now.
Ask(f, o, e) ==
  LET g == [f EXCEPT !.ops[o].item = e, !.ops[o].before = f.text, !.ops[o].typed = f.typed,
                     !.ops[o].times = 0]
      w == Widen(f.text, e)
  IN  IF w.end > Len(f.text) THEN {Settle(g, o, FALSE)}
      ELSE {Looked(h, o, "polling") : h \in Asked(g, o, w, w.replacement)}

Poll(o) ==
  /\ ed.ops[o].at \in {"polling", "polling again"} /\ ed.text # ed.ops[o].before
  /\ ed' = Looked(ed, o, ed.ops[o].at)

Slip_Early(o) == ed.text = ed.ops[o].before

\* Nothing changed until the window ended.
Expired(o) == ed.text = ed.ops[o].before /\ ed.model = ed.text

\* When nothing was to change, it landed; else the fallback: focus, select, and yield.
Select(o) ==
  /\ ed.ops[o].at = "polling" /\ Expired(o)
  /\ LET op == ed.ops[o]
         w  == Widen(ed.text, op.item)
     IN  ed' = IF Landed(op.before, ed.text, op.item) THEN Settle(ed, o, TRUE)
               ELSE [ed EXCEPT !.ops[o].at = "selected", !.selection = [start |-> w.start, end |-> w.end]]

\* execCommand inserts over whatever is selected by now, or after the caret.
Insert(o) ==
  /\ ed.ops[o].at = "selected"
  /\ LET by == Widen(ed.ops[o].before, ed.ops[o].item).replacement
     IN  \E f \in Asked(ed, o, ed.selection, by) : ed' = Looked(f, o, "polling again")

GiveUp(o) ==
  /\ ed.ops[o].at = "polling again" /\ Expired(o)
  /\ ed' = Settle(ed, o, FALSE)

-----------------------------------------------------------------------------
(* The operations. *)

Op(kind, queue) ==
  [kind |-> kind, queue |-> queue, at |-> "ready", item |-> Edit(0, 0, <<>>, <<>>),
   before |-> ed.text, typed |-> ed.typed, times |-> 0, batch |-> <<>>, since |-> ed.since]

Begun(o, op) ==
  LET others == {p \in Ops \ {o} : ed.ops[p].at # "idle"} IN
  [ed EXCEPT !.ops[o] = op, !.begun = @ + 1, !.last = "none",
             !.overlapped = @ \/ others # {},
             !.crossed = @ \/ \E p \in others : "undo" \in {op.kind, ed.ops[p].kind}]

May(o) == ed.ops[o].at = "idle" /\ ed.begun < MaxBegun

\* applyAllFor; or applyBatchFor, of some of the items.
ApplyAll(o, items) ==
  /\ May(o) /\ items # {}
  /\ ed' = Begun(o, Op("all", Plain!LastToFirst(items)))

\* applyItem, and onApply of the popover.
ApplyItem(o, item) ==
  /\ May(o) /\ Plain!SpanStillValid(ed.text, item)
  /\ ed' \in Ask(Begun(o, Op("one", <<>>)), o, item)

\* applySynonym, of a word that still is where it was chosen.
ApplySynonym(o, i, by) ==
  /\ May(o) /\ ed.text[i] \in {"good", "bad"}
  /\ ed' \in Ask(Begun(o, Op("synonym", <<>>)), o, Edit(i - 1, i, <<ed.text[i]>>, by))

\* undoFor: the plan is made of the text as it is now.
Undo(o) ==
  /\ May(o) /\ ed.applied # <<>>
  /\ LET plan == Plain!PlanUndo(ed.text, ed.applied)
     IN  ed' = [Begun(o, Op("undo", [i \in DOMAIN plan |->
                                       Edit(plan[i].start, plan[i].end, <<>>, plan[i].original)]))
                  EXCEPT !.applied = <<>>]

\* The next edit, when it is still valid; undo does not ask.
Proceed(o) ==
  /\ ed.ops[o].at = "ready" /\ ed.ops[o].queue # <<>>
  /\ LET e == Head(ed.ops[o].queue)
         f == [ed EXCEPT !.ops[o].queue = Tail(@)]
     IN  IF ed.ops[o].kind # "undo" /\ ~Plain!SpanStillValid(ed.text, e) THEN ed' = f
         ELSE ed' \in Ask(f, o, e)

\* What an operation recorded replaces what was recorded before.
Finish(o) ==
  LET op == ed.ops[o] IN
  /\ op.at = "ready" /\ op.queue = <<>>
  /\ ed' = [ed EXCEPT !.ops[o] = Idle,
                      !.last = IF op.kind = "undo" THEN "undone" ELSE "applied",
                      !.applied = IF op.batch = <<>> THEN @ ELSE op.batch,
                      !.since = IF op.batch = <<>> THEN @ ELSE op.since]

-----------------------------------------------------------------------------
(* The editor, the user and the checks. *)

Shows == ed.model # ed.text /\ ed' = [ed EXCEPT !.text = ed.model]

Undoing == \E o \in Ops : ed.ops[o].at # "idle" /\ ed.ops[o].kind = "undo"
Selected == {o \in Ops : ed.ops[o].at = "selected" /\ ed.text = ed.ops[o].before}

\* A selection ends with the text, whatever others made of that since.
Within(span, text) ==
  [start |-> Min({span.start, Len(text)}), end |-> Min({span.end, Len(text)})]

Typed(text, mine, selection) ==
  /\ ed.typed < MaxTyped
  /\ \A o \in Ops : ed.ops[o].at \in {"polling", "polling again"} =>
       ed.text = ed.ops[o].before /\ text # ed.text
  /\ ed' = [ed EXCEPT !.model = text, !.text = text, !.selection = selection, !.mine = mine,
                      !.typed = @ + 1, !.last = "none",
                      !.raced = @ \/ Undoing \/ Selected # {}]

\* A token is put in, or taken out; or goes over the selection.
Type ==
  IF Selected = {}
  THEN \/ \E i \in 0..Len(ed.model) :
            Typed(Plain!Replace(ed.model, [start |-> i, end |-> i], <<"mine">>), ed.mine + 1, ed.selection)
       \/ \E i \in DOMAIN ed.model :
            Typed(Plain!Replace(ed.model, [start |-> i - 1, end |-> i], <<>>),
                  IF ed.model[i] = "mine" THEN ed.mine - 1 ELSE ed.mine, ed.selection)
  ELSE LET span  == Within(ed.selection, ed.model)
           caret == span.start + 1
       IN  Typed(Plain!Replace(ed.model, span, <<"mine">>), ed.mine + 1,
                 [start |-> caret, end |-> caret])

\* A check of the text is answered.
Checked ==
  /\ ed.answers < MaxAnswers
  /\ \E items \in Plain!Answers(ed.text) :
       ed' = [ed EXCEPT !.items = items, !.answers = @ + 1, !.last = "none"]

\* togglePause: the items go, and what could be undone; operations go on.
Pause ==
  /\ ed.items # {} \/ ed.applied # <<>>
  /\ ed' = [ed EXCEPT !.items = {}, !.applied = <<>>, !.last = "none"]

Next ==
  \/ Shows \/ Type \/ Checked \/ Pause
  \/ \E o \in Ops :
       \/ Poll(o) \/ Select(o) \/ Insert(o) \/ GiveUp(o) \/ Proceed(o) \/ Finish(o) \/ Undo(o)
       \/ ApplyAll(o, ed.items)
       \/ \E item \in ed.items : ApplyItem(o, item) \/ ApplyAll(o, {item})
       \/ \E i \in DOMAIN ed.text, by \in {<<"other">>, <<"other", "other">>} : ApplySynonym(o, i, by)

Spec == Init /\ [][Next]_ed

-----------------------------------------------------------------------------
(* Safety. *)

\* Operations do not get into each other's way: one at a time, or an editor that
\* takes every event, and shows it at once.  Nor is the user in theirs, who types
\* into an undo, or over the span the fallback selected before it inserts.
Calm == (~ed.overlapped \/ (ed.prompt /\ ~ed.ignored)) /\ ~ed.raced

\* No edit is recorded, nor its suggestion reported as accepted, that the editor
\* did not make and the user did not, whatever was typed while it was waited for.
AcceptedWasMade == Calm => ed.unmade = 0

\* The fallback never makes an edit that the editor has taken.
MadeOnce == Calm => ed.twice = 0

\* What the user types, between the edits or while one is waited for, stays.  An undo
\* does not look again at what its plan found, so beside another operation, which may
\* move it, even an editor that shows its edits at once is left out.
TypedSurvives ==
  Calm /\ ~ed.crossed => Cardinality({i \in DOMAIN ed.model : ed.model[i] = "mine"}) = ed.mine

\* Undo gives back the text before what is recorded: of several edits, of one, or of
\* either and synonyms chosen since, if none was of a word that an edit had made or
\* of one a deletion had left there.
UndoRestores ==
  ed.last = "undone" /\ ~ed.overlapped /\ ~ed.ignored /\ ~ed.nested /\ ed.since.typed = ed.typed =>
    ed.text = ed.since.text
=============================================================================
