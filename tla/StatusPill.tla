------------------------------ MODULE StatusPill ------------------------------
(***************************************************************************)
(* The pill (orb) by the field being edited, in the content script of the  *)
(* browser: the runtime's (renderField, onFieldFocus and onFieldBlur of    *)
(* entrypoints/content/index.ts), and the one of a paused site, which      *)
(* offers to check it again (entrypoints/content/pause.ts).  There is one  *)
(* at a time (overlay/status-button.ts), whichever fields have handles.    *)
(*                                                                         *)
(* A field comes once and goes once.  Focus is in a field, in the overlay, *)
(* elsewhere, or nowhere.  A focused field that goes may be blurred or not.*)
(* Left out: what the pill shows, its place, and dragging it.              *)
(***************************************************************************)
EXTENDS Naturals, FiniteSets

CONSTANTS
  Fields,
  None,
  MaxFlips  \* bound on changes of the mode

VARIABLE ui

Modes == {"off", "site-paused", "active"}

TypeOK ==
  ui \in
    [mode: Modes,
     dom: [Fields -> {"out", "in", "gone"}],
     focus: Fields \cup {None, "overlay", "elsewhere"},
     last: Fields \cup {None},                             \* lastFocusedField
     pill: [of: Fields, visible: BOOLEAN] \cup {None},
     pending: SUBSET Fields, leaving: SUBSET Fields,       \* of the observer
     known: SUBSET Fields,                                 \* fields of the mode
     hiding: BOOLEAN,                                      \* a focusout's timer runs
     drawn: Fields \cup {None},                            \* history: the last one rendered
     strayed: BOOLEAN,                                     \* history: focus left its field by the overlay
     seeded: BOOLEAN,                                      \* history: no focus event since mounted
     missed: SUBSET Fields,                                \* history: gone before reported
     flips: 0..MaxFlips]

There(u) == {f \in Fields : u.dom[f] = "in"}

\* The observer of a mode sweeps the page.
Mounted(u, mode) ==
  [u EXCEPT !.mode = mode, !.pill = None, !.known = {}, !.leaving = {}, !.hiding = FALSE,
            !.pending = IF mode = "off" THEN {} ELSE There(u),
            !.drawn = None, !.strayed = FALSE, !.seeded = TRUE, !.missed = {}]

Init ==
  \E dom \in [Fields -> {"out", "in"}], mode \in Modes :
    ui = Mounted([mode |-> mode, dom |-> dom, focus |-> None, last |-> None, pill |-> None,
                  pending |-> {}, leaving |-> {}, known |-> {}, hiding |-> FALSE,
                  drawn |-> None, strayed |-> FALSE, seeded |-> TRUE, missed |-> {},
                  flips |-> 0], mode)

-----------------------------------------------------------------------------
(* Handlers, from a state to the next.  Slip_... definitions are slips the *)
(* definition after them could have; nothing uses them.                    *)

\* showPillFor of a paused site.
Offered(u, f) == [u EXCEPT !.pill = [of |-> f, visible |-> TRUE]]

Slip_NothingSeeded(u) == Mounted(u, "site-paused")
\* mountPausedMode: the pill of the field last edited, if that is still there,
\* seeds it, whether it has the focus or not.
Paused(u) ==
  LET p == Mounted(u, "site-paused") IN IF p.last \in There(p) THEN Offered(p, p.last) ELSE p

\* reconcile to another mode
Reconciled(u, mode) == IF mode = "site-paused" THEN Paused(u) ELSE Mounted(u, mode)

Shows(u, f, visible) ==
  IF u.pill # None /\ u.pill.of = f THEN [u EXCEPT !.pill.visible = visible] ELSE u

Slip_UpdatesAnother(u, f) ==
  IF u.pill # None THEN [u EXCEPT !.drawn = f]
  ELSE [u EXCEPT !.drawn = f, !.pill = [of |-> f, visible |-> u.focus = f]]
\* renderField updates the pill of the field where it is, or puts it in place of
\* any other.
Rendered(u, f) ==
  IF u.pill # None /\ u.pill.of = f THEN [u EXCEPT !.drawn = f]
  ELSE [u EXCEPT !.drawn = f, !.pill = [of |-> f, visible |-> u.focus = f], !.strayed = FALSE]

\* onFieldBlur, but for a focus that goes into the overlay; onFocusOut
FocusOut(u, to) ==
  CASE u.mode = "active" /\ u.focus \in u.known /\ to # "overlay" -> Shows(u, u.focus, FALSE)
    [] u.mode = "site-paused" /\ u.focus # None -> [u EXCEPT !.hiding = TRUE, !.seeded = FALSE]
    [] OTHER -> u

\* trackFocus, in every mode
Tracked(u, to) == [u EXCEPT !.focus = to, !.last = IF to \in Fields THEN to ELSE @]

\* onFieldFocus of a field, or onFocusIn of a paused site
FocusIn(u, to) ==
  CASE u.mode = "active" /\ to \in u.known -> Shows(u, to, TRUE)
    [] u.mode = "site-paused" /\ to \in u.known -> Offered(u, to)
    [] OTHER -> u

\* A pill that shows without its field's focus: only the overlay's blur is unheard.
Strays(u, to) ==
  IF u.mode # "active" \/ u.pill = None THEN u
  ELSE [u EXCEPT !.strayed =
          to # u.pill.of /\ (@ \/ (u.focus = "overlay" /\ u.pill.visible))]

-----------------------------------------------------------------------------
(* Actions. *)

Focuses ==
  \E to \in There(ui) \cup {None, "elsewhere"} \cup (IF ui.mode = "active" THEN {"overlay"} ELSE {}) :
    /\ to # ui.focus
    /\ ui' = FocusIn(Tracked(FocusOut(Strays(ui, to), to), to), to)

\* renderField, of an answer to a check.
Renders(f) ==
  /\ ui.mode = "active" /\ f \in ui.known
  /\ ui' = Rendered(ui, f)

Comes(f) ==
  /\ ui.dom[f] = "out"
  /\ ui' = [ui EXCEPT !.dom[f] = "in", !.pending = IF ui.mode = "off" THEN @ ELSE @ \cup {f}]

\* A field goes, with or without a blur.
Leaves(f) ==
  /\ ui.dom[f] = "in"
  /\ \E blurred \in {ui, IF ui.focus = f THEN FocusOut(Strays(ui, None), None) ELSE ui} :
       ui' = [blurred EXCEPT
         !.dom[f] = "gone", !.pending = @ \ {f},
         !.leaving = IF f \in ui.known THEN @ \cup {f} ELSE @,
         !.missed = IF f \in ui.known \/ ui.mode = "off" THEN @ ELSE @ \cup {f},
         !.focus = IF @ = f THEN None ELSE @]

Slip_KeepsPill(u, came) == [u EXCEPT !.known = (@ \cup came) \ u.leaving, !.pending = {}, !.leaving = {}]
\* onFieldDiscovered and onFieldDetached, of either mode.
Observed(u, came) ==
  LET left == u.leaving
      v == [u EXCEPT !.known = (@ \cup came) \ left, !.pending = {}, !.leaving = {},
                     !.last = IF u.mode = "site-paused" /\ @ \in left THEN None ELSE @]
      w == IF u.mode = "site-paused" /\ u.focus \in came THEN Offered(v, u.focus) ELSE v
  IN  IF w.pill # None /\ w.pill.of \in left
      THEN [w EXCEPT !.pill = None, !.strayed = FALSE,
                     !.drawn = IF @ \in left THEN None ELSE @]
      ELSE [w EXCEPT !.drawn = IF @ \in left THEN None ELSE @]

\* The animation frame of the observer.
Frame ==
  /\ ui.pending \cup ui.leaving # {}
  /\ ui' = Observed(ui, ui.pending)

HideTimerFires ==
  /\ ui.hiding
  /\ ui' = [ui EXCEPT !.hiding = FALSE,
                      !.pill = IF @ # None /\ ui.focus # @.of THEN None ELSE @]

\* Another treatment of the page's spellcheck makes the runtime anew.
ModeChanges ==
  \E mode \in Modes \ ({ui.mode} \ {"active"}) :
    /\ ui.flips < MaxFlips
    /\ ui' = Reconciled([ui EXCEPT !.flips = @ + 1, !.focus = IF @ = "overlay" THEN None ELSE @], mode)

Next ==
  \/ Focuses \/ Frame \/ HideTimerFires \/ ModeChanges
  \/ \E f \in Fields : Renders(f) \/ Comes(f) \/ Leaves(f)

Spec == Init /\ [][Next]_ui

-----------------------------------------------------------------------------
(* Properties.  Invariants. *)

\* The field being edited shows its pill, if it was the last one rendered: another
\* field's answer takes the pill away though that field is not looked at.  No other
\* field shows one, but where its focus went on from the overlay.
PillHasTheFocus ==
  ui.mode = "active" =>
    /\ ui.focus \in ui.known /\ ui.drawn = ui.focus => ui.pill = [of |-> ui.focus, visible |-> TRUE]
    /\ ui.pill # None /\ ui.pill.visible /\ ui.pill.of \notin ui.leaving =>
         ui.focus \in {ui.pill.of, "overlay"} \/ ui.strayed

\* A paused site offers its pill by the field that has the focus, and takes it away
\* once that is left; until something is focused, by the field last edited.  A pill
\* by a field that went before the observer reported it stays.
PausedOffers ==
  ui.mode = "site-paused" /\ ui.pending \cup ui.leaving = {} =>
    /\ ui.focus \in Fields => ui.pill = [of |-> ui.focus, visible |-> TRUE]
    /\ ui.pill # None /\ ui.pill.of \notin ui.missed =>
         /\ ui.pill.of \in ui.known
         /\ ui.hiding \/ ui.seeded \/ ui.pill.of = ui.focus
    /\ ui.seeded /\ ui.last \in There(ui) /\ ui.focus \notin Fields => ui.pill # None /\ ui.pill.of = ui.last
=============================================================================
