----------------------------- MODULE ContentField -----------------------------
(***************************************************************************)
(* The fields of a page under the browser content script (entrypoints/     *)
(* content/index.ts): createFieldObserver (input/observer.ts) discovers    *)
(* and releases them, attach, detach and createFieldAttachment (input/     *)
(* attachment.ts) make and end their states, rerunFor checks them, one     *)
(* popover is open at a time, and pausing the site tears the runtime down. *)
(*                                                                         *)
(* The n-th state of a field f is <<f, n>>.  A runtime's closures keep its *)
(* map of fields, so that states live on when the runtime is dropped.  The *)
(* background worker answers a stream with 501, so a check has one answer; *)
(* a new check aborts the one before.  Left out: positions, the pill, the  *)
(* review panel, tooltips, and dismissing a suggestion.                    *)
(***************************************************************************)
EXTENDS Naturals, FiniteSets

CONSTANTS
  Fields,
  Drafts,     \* texts of a field
  None,       \* no question, no field
  MaxStates,  \* bound on the attaches of a field
  MaxSteps,   \* bound on the checks started in a behaviour
  MaxMoves    \* bound on what the page and the settings do in a behaviour

VARIABLE page

States == Fields \X (1..MaxStates)

TypeOK ==
  page \in
    [dom: [Fields -> {"in", "unfit", "gone"}],           \* unfit: in the DOM, not editable
     text: [Fields -> Drafts],
     running: BOOLEAN,                                   \* runtime # null
     watch: [Fields -> {"unknown", "seen", "reported"}],
     leaving: SUBSET Fields,                             \* detachPending
     released: SUBSET Fields,                            \* detached, of the observer
     made: [Fields -> 0..MaxStates],
     kept: SUBSET States,                                \* in a runtime's fields
     past: [Fields -> 0..MaxStates],                     \* made by earlier runtimes
     shown: [States -> Drafts \cup {None}],              \* items: the question they answer
     drawn: SUBSET States,                               \* rendered, and not destroyed since
     check: [States -> Drafts \cup {None}],              \* the request under way
     debounce: SUBSET States, grace: SUBSET States,      \* timers
     popover: [Fields -> Drafts \cup {None}],            \* what the open popover is about
     active: Fields \cup {None},                         \* activePopoverField
     started: 0..MaxSteps, moves: 0..MaxMoves]

Sweep(dom) == [f \in Fields |-> IF dom[f] = "in" THEN "seen" ELSE "unknown"]

Init ==
  \E dom \in [Fields -> {"in", "gone"}], text \in [Fields -> Drafts] :
    page = [dom |-> dom, text |-> text, running |-> TRUE,
            watch |-> Sweep(dom), leaving |-> {}, released |-> {},
            made |-> [f \in Fields |-> 0], past |-> [f \in Fields |-> 0], kept |-> {},
            shown |-> [s \in States |-> None], drawn |-> {},
            check |-> [s \in States |-> None], debounce |-> {}, grace |-> {},
            popover |-> [f \in Fields |-> None], active |-> None,
            started |-> 0, moves |-> 0]

-----------------------------------------------------------------------------
(* Handlers, from a state of the page to the next.  Slip_... definitions   *)
(* are slips the definition after them could have; nothing uses them.      *)

Attached(p, f) == p.running /\ p.made[f] > p.past[f] /\ <<f, p.made[f]>> \in p.kept

\* The state that runtime.fields has for an attached field.
Current(p, f) == <<f, p.made[f]>>

Mine(p, s) == p.running /\ s[2] > p.past[s[1]]

Step(p) == p.started <= MaxSteps /\ p.moves <= MaxMoves /\ page' = p

Moved(p) == [p EXCEPT !.moves = @ + 1]

\* popoverHide of a state's handles; an earlier runtime has popovers of its own.
HidePopover(p, s) == IF Mine(p, s) THEN [p EXCEPT !.popover[s[1]] = None] ELSE p

ClosePopover(p, f) == [p EXCEPT !.popover[f] = None, !.active = IF @ = f THEN None ELSE @]

\* renderField: the handles of the state are set anew.
Render(p, s) == HidePopover([p EXCEPT !.drawn = @ \cup {s}], s)

\* rerunFor.  The older check is aborted, and seq says so too.
Rerun(p, s) ==
  IF s \notin p.kept THEN p
  ELSE IF p.dom[s[1]] = "gone"
  THEN HidePopover([p EXCEPT !.shown[s] = None, !.drawn = @ \ {s}], s)
  ELSE [p EXCEPT !.check[s] = p.text[s[1]], !.started = @ + 1]

\* attach; pendingInitialCheck is of at most one field.
Attach(p, fs, first) ==
  LET new  == {f \in fs : ~Attached(p, f)}
      q    == [p EXCEPT !.made = [f \in Fields |-> IF f \in new THEN @[f] + 1 ELSE @[f]],
                        !.kept = @ \cup {<<f, p.made[f] + 1>> : f \in new}]
  IN  IF first \in new THEN Rerun(q, Current(q, first)) ELSE q

\* detach, and detach of the attachment.
Detach(p, fs) ==
  LET left == {Current(p, f) : f \in {g \in fs : Attached(p, g)}}
  IN  [p EXCEPT !.kept = @ \ left, !.drawn = @ \ left,
                !.check = [s \in States |-> IF s \in left THEN None ELSE @[s]],
                !.debounce = @ \ left, !.grace = @ \ left,
                !.popover = [f \in Fields |-> IF Current(p, f) \in left THEN None ELSE @[f]],
                !.active = IF @ # None /\ Current(p, @) \in left THEN None ELSE @]

-----------------------------------------------------------------------------
(* The page, and the observer of its changes. *)

\* A field comes, or becomes editable: consider.
Comes(f) ==
  /\ page.dom[f] # "in"
  /\ Step(Moved([page EXCEPT !.dom[f] = "in",
                             !.watch[f] = IF @ = "unknown" /\ page.running THEN "seen" ELSE @]))

Slip_GoesUnnoticedBeforeDrain(f) ==
  \E dom \in {"unfit", "gone"} :
    /\ page.dom[f] = "in"
    /\ Step(Moved([page EXCEPT
         !.dom[f] = dom,
         !.watch[f] = IF @ = "reported" THEN "unknown" ELSE @,
         !.leaving = IF page.watch[f] = "reported" THEN @ \cup {f} ELSE @]))

\* It goes, or is no longer editable: a field not yet reported is forgotten.
Goes(f) ==
  \E dom \in {"unfit", "gone"} :
    /\ page.dom[f] = "in"
    /\ Step(Moved([page EXCEPT
         !.dom[f] = dom,
         !.watch[f] = "unknown",
         !.leaving = IF page.watch[f] = "reported" THEN @ \cup {f} ELSE @]))

\* The animation frame: first those that came, then those that went, each of
\* which is released once and never again.
Drain ==
  LET came == {f \in Fields : page.watch[f] = "seen"}
  IN  /\ page.running
      /\ came \cup page.leaving # {}
      /\ \A f \in came : Attached(page, f) \/ page.made[f] < MaxStates
      /\ \E first \in Fields \cup {None} :
           LET p == Attach(page, came, first)
           IN  Step([Detach(p, page.leaving \ page.released) EXCEPT
                       !.watch = [f \in Fields |-> IF f \in came THEN "reported" ELSE @[f]],
                       !.leaving = {},
                       !.released = @ \cup page.leaving])

-----------------------------------------------------------------------------
(* The user. *)

\* onInputEventFor: what an edit of a field does to states by the gate's decision.
\* Items before the caret are kept.
Edited(p, f, states, decision, keeps) ==
  LET q == [p EXCEPT
              !.shown = [s \in States |-> IF s \in states /\ ~keeps THEN None ELSE p.shown[s]],
              !.debounce = IF decision = "check" THEN @ \cup states ELSE @ \ states,
              !.grace = IF decision = "grace" THEN @ \cup states ELSE @ \ states]
  IN  IF p.popover[f] # None /\ \E s \in states : Mine(p, s) THEN ClosePopover(q, f) ELSE q

\* Every attachment of the field hears of the edit, also one whose runtime is gone,
\* and minds it while its state is in its runtime's fields.
Hear(p, f, decision, keeps) ==
  IF decision = "skip" THEN p ELSE Edited(p, f, {s \in p.kept : s[1] = f}, decision, keeps)

Type(f) ==
  \E text \in Drafts \ {page.text[f]}, decision \in {"check", "grace", "skip"}, keeps \in BOOLEAN :
    /\ page.dom[f] = "in"
    /\ Step(Hear([page EXCEPT !.text[f] = text], f, decision, keeps))

\* onFieldPaste: the check waits for the paste to settle.
Paste(f) ==
  /\ Attached(page, f)
  /\ Step([page EXCEPT !.debounce = @ \ {Current(page, f)}, !.grace = @ \cup {Current(page, f)}])

\* onFieldUndoRedo.
UndoKey(f) ==
  /\ Attached(page, f)
  /\ Step([page EXCEPT !.grace = @ \ {Current(page, f)}, !.debounce = @ \cup {Current(page, f)}])

Blur(f) ==
  /\ Attached(page, f)
  /\ LET p == [page EXCEPT !.shown[Current(page, f)] = None]
     IN  Step(IF p.popover[f] = None THEN p ELSE ClosePopover(p, f))

Slip_OpensBeside(f) ==
  /\ Attached(page, f)
  /\ page.shown[Current(page, f)] # None /\ Current(page, f) \in page.drawn
  /\ Step([ClosePopover(page, f) EXCEPT !.popover[f] = page.shown[Current(page, f)], !.active = f])

\* onFieldClick on a suggestion, and openPopoverFor.
Click(f) ==
  /\ Attached(page, f)
  /\ page.shown[Current(page, f)] # None /\ Current(page, f) \in page.drawn
  /\ LET p == IF page.active \in Fields \ {f} THEN ClosePopover(page, page.active) ELSE page
     IN  Step([ClosePopover(p, f) EXCEPT !.popover[f] = page.shown[Current(page, f)], !.active = f])

\* Applying, from the popover, the pill or the hotkey: the popover closes, what
\* still fits its span is replaced, and the field is checked.
Apply(f) ==
  /\ Attached(page, f)
  /\ page.shown[Current(page, f)] # None
  /\ \E text \in Drafts : Step(Rerun([ClosePopover(page, f) EXCEPT !.text[f] = text], Current(page, f)))

\* checkFocusedField, the pill's recheck, a word added to the dictionary.
Recheck(f) == Attached(page, f) /\ Step(Rerun(page, Current(page, f)))

NoPopover(p) == [p EXCEPT !.popover = [f \in Fields |-> None]]

\* dismissPopoversIn; a change of location also forgets the active popover.
Scroll == page.running /\ Step(NoPopover(page))
LocationChange == page.running /\ Step([NoPopover(page) EXCEPT !.active = None])

-----------------------------------------------------------------------------
(* Timers and answers, also of a runtime that is gone. *)

DebounceIsOver(s) == s \in page.debounce /\ Step(Rerun([page EXCEPT !.debounce = @ \ {s}], s))

GraceIsOver(s) == s \in page.grace /\ Step(Rerun([page EXCEPT !.grace = @ \ {s}], s))

\* renderStage; an answer may hold no suggestion.
Answered(s) ==
  /\ page.check[s] # None
  /\ \E question \in {page.check[s], None} :
       Step(Render([page EXCEPT !.shown[s] = question, !.check[s] = None], s))

\* With no preview shown, a failure changes nothing.
Fails(s) == page.check[s] # None /\ Step([page EXCEPT !.check[s] = None])

-----------------------------------------------------------------------------
(* The site is paused or switched off, and on again. *)

\* teardownRuntime: listeners, grace timers and what is drawn go.  The
\* attachments are not detached.
Teardown ==
  LET ends == {Current(page, f) : f \in {g \in Fields : Attached(page, g)}}
  IN  /\ page.running
      /\ Step(Moved([NoPopover(page) EXCEPT
                !.running = FALSE, !.active = None, !.past = page.made,
                !.grace = @ \ ends, !.drawn = @ \ ends,
                !.watch = [f \in Fields |-> "unknown"], !.leaving = {}, !.released = {}]))

\* initRuntime: a new runtime, whose observer sweeps the page.
Mount == ~page.running /\ Step(Moved([page EXCEPT !.running = TRUE, !.watch = Sweep(page.dom)]))

Next ==
  \/ \E f \in Fields : Comes(f) \/ Goes(f)
  \/ Drain
  \/ \E f \in Fields : Type(f) \/ Paste(f) \/ UndoKey(f) \/ Blur(f) \/ Click(f) \/ Apply(f) \/ Recheck(f)
  \/ Scroll \/ LocationChange
  \/ \E s \in States : DebounceIsOver(s) \/ GraceIsOver(s) \/ Answered(s) \/ Fails(s)
  \/ Teardown \/ Mount

Spec == Init /\ [][Next]_page

-----------------------------------------------------------------------------
(* Safety. *)

\* A field released with a check under way stays bare: no answer that comes
\* late, by whatever path, draws on a state that was detached.
DetachedStayBare == page.drawn \subseteq page.kept

\* One popover is open at a time, over a field that is attached, and about
\* suggestions the field still shows: typing, answers, blurs and removals of
\* fields, in whatever order, leave none about what was replaced.
PopoverIsLive ==
  \A f \in Fields : page.popover[f] # None =>
    /\ Attached(page, f) /\ page.active = f
    /\ page.popover[f] = page.shown[Current(page, f)]

\* Once the frame's mutations are reported, the fields that were not released
\* before are attached exactly if they are there to be edited.
FirstLifeIsRight ==
  \A f \in Fields \ page.released :
    page.running /\ f \notin page.leaving /\ page.watch[f] # "seen" =>
      (Attached(page, f) <=> page.dom[f] = "in")

\* The checks of one state, as any client promises them.
Latest(s) == INSTANCE LatestCheck WITH
  pending <- page.check[s],
  shown   <- page.shown[s]

LatestInit == \A s \in States : Latest(s)!Init
LatestStep == \A s \in States : Latest(s)!Step

-----------------------------------------------------------------------------
(* What a comment says, and the code does not keep. *)

\* index.ts:366-368: the listeners bound to a runtime are removed first "so a
\* late-firing input event doesn't reach a torn-down runtime"; :333-334: while
\* the site is paused there is "no checking, no bridge client".
PausedAsksNothing == [][~page.running => page'.started <= page.started]_page
=============================================================================
