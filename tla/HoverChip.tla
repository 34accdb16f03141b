------------------------------- MODULE HoverChip -------------------------------
(***************************************************************************)
(* The chip that previews a suggestion while the pointer is over it, and   *)
(* the aria-describedby that says so to a screen reader, in the browser    *)
(* content script (entrypoints/content/index.ts, overlay/tooltip.ts).      *)
(* The chip is of the runtime, not of a field; a timer of the runtime      *)
(* takes it away some time after the pointer is off.                       *)
(*                                                                         *)
(* A move is throttled or not as time has it.  A check's answer brings     *)
(* items of its own, at most one of which the pointer hits.  Left out:     *)
(* positions, and the stronger highlight under the pointer.                *)
(***************************************************************************)
EXTENDS FiniteSets

CONSTANTS
  Fields,
  Items,
  None

VARIABLE hover

Out == [at |-> "out"]
OnChip == [at |-> "chip"]
Over(f, item) == [at |-> f, item |-> item]
Of(f, item) == [field |-> f, item |-> item]

Fresh ==
  [pointer |-> Out, attached |-> Fields,
   items |-> [f \in Fields |-> {}],
   chip |-> None,          \* tooltip: what it previews
   item |-> None,          \* hoverItem
   field |-> None,         \* hoverField
   timer |-> None,         \* hoverTimer: the field it will undescribe
   popover |-> None,       \* the field whose popover is open
   described |-> {},       \* fields with aria-describedby of the chip
   left |-> {}]            \* history: fields left described

TypeOK ==
  /\ hover.attached \subseteq Fields /\ hover.described \subseteq Fields
  /\ hover.items \in [Fields -> SUBSET Items]
  /\ hover.field \in Fields \cup {None} /\ hover.popover \in Fields \cup {None}

Init == \E items \in [Fields -> SUBSET Items] : hover = [Fresh EXCEPT !.items = items]

-----------------------------------------------------------------------------
(* Showing and hiding, from a state to the next.  Slip_... definitions are *)
(* slips the definition after them could have; nothing uses them.          *)

Undescribed(h, f) == [h EXCEPT !.described = @ \ {f}, !.left = @ \ {f}]

\* hideTooltipNow, and what a timer does for the field it was set for.
Hidden(h, f) ==
  Undescribed([h EXCEPT !.chip = None, !.item = None, !.field = None, !.timer = None], f)

Slip_OnlyOverItems(h) == IF h.item = None THEN h ELSE [h EXCEPT !.timer = [of |-> h.field]]
\* scheduleTooltipHide
Scheduled(h) == [h EXCEPT !.timer = [of |-> h.field]]

\* The chip of another field is replaced, and that field left described.
Shown(h, f, hit) ==
  [h EXCEPT !.timer = None, !.item = Of(f, hit), !.field = f, !.chip = Of(f, hit),
            !.described = @ \cup {f},
            !.left = (@ \cup (h.described \ {f})) \ {f}]

\* onFieldMouseMove, not throttled
Moved(h, f, hit) ==
  IF h.popover = f THEN h
  ELSE IF hit = None THEN IF h.item # None THEN Scheduled(h) ELSE h
  ELSE IF h.item = Of(f, hit) /\ h.chip # None THEN [h EXCEPT !.timer = None]
  ELSE Shown(h, f, hit)

Slip_ChipMayStay(h, to) ==
  IF h.pointer \in {Out, OnChip} \/ h.pointer.at = to.at THEN h ELSE Scheduled(h)
\* onFieldMouseLeave and onPillMouseLeave
LeftBehind(h, to) ==
  IF h.pointer = Out \/ h.pointer.at = to.at THEN h ELSE Scheduled(h)

Goes(h, to, throttled) ==
  LET h1 == [LeftBehind(h, to) EXCEPT !.pointer = to] IN
  CASE to = OnChip -> [h1 EXCEPT !.timer = None]
    [] to = Out -> h1
    [] OTHER -> IF throttled THEN h1 ELSE Moved(h1, to.at, to.item)

\* The chip goes from under the pointer without a word to anyone, and its field
\* is left described.
FromUnder(h) ==
  IF h.pointer = OnChip
  THEN [h EXCEPT !.pointer = Out, !.left = IF h.field \in h.described THEN @ \cup {h.field} ELSE @]
  ELSE h

-----------------------------------------------------------------------------
(* Actions. *)

PointerMoves ==
  \E to \in {Out, OnChip} \cup {Over(f, i) : f \in hover.attached, i \in Items \cup {None}},
     throttled \in BOOLEAN :
    /\ to # hover.pointer
    /\ to = OnChip => hover.chip # None
    /\ to \notin {Out, OnChip} => to.item \in hover.items[to.at] \cup {None}
    /\ hover' = Goes(hover, to, throttled)

TimerFires ==
  /\ hover.timer # None
  /\ hover' = Hidden(hover, hover.timer.of)

\* onFieldClick: the popover opens, in place of any other.
Clicks ==
  /\ hover.pointer \notin {Out, OnChip} /\ hover.pointer.item # None
  /\ hover' = [Hidden(hover, hover.field) EXCEPT !.popover = hover.pointer.at]

PopoverCloses ==
  /\ hover.popover # None
  /\ hover' = [hover EXCEPT !.popover = None]

\* onAccept of the chip: what it applies is drawn later, with an answer.
Accepts ==
  /\ hover.pointer = OnChip /\ hover.chip # None
  /\ hover' = [FromUnder(hover) EXCEPT !.chip = None, !.item = None]

\* onScrollResize; a popover goes too.
Scrolls ==
  LET h == IF hover.chip # None
           THEN [FromUnder(hover) EXCEPT !.chip = None, !.item = None] ELSE hover
  IN  hover' = [h EXCEPT !.popover = None]

\* renderField: items of an answer, or of what was typed, in place of the others.
Renders(f) ==
  /\ f \in hover.attached
  /\ \E items \in SUBSET {i \in Items : hover.item # Of(f, i)} :
       \E under \in items \cup {None} :
         hover' = [hover EXCEPT
           !.items[f] = items,
           !.pointer = IF @.at = f THEN Over(f, under) ELSE @]

\* detach
Detaches(f) ==
  /\ f \in hover.attached
  /\ LET h == [hover EXCEPT !.attached = @ \ {f}, !.items[f] = {},
                            !.popover = IF @ = f THEN None ELSE @]
         g == IF h.pointer.at = f THEN [h EXCEPT !.pointer = Out] ELSE h
     IN  hover' = IF h.field # f THEN g
                  ELSE [Hidden(g, f) EXCEPT !.pointer = IF @ = OnChip THEN Out ELSE @]

\* onLocationChange: the field is left described.
Navigates ==
  hover' = [hover EXCEPT
    !.chip = None, !.item = None, !.field = None, !.timer = None, !.popover = None,
    !.pointer = IF @ = OnChip THEN Out ELSE @,
    !.left = hover.described]

\* teardownRuntime, and the runtime made after it, which finds the fields.
Restarts ==
  LET h == Undescribed(hover, hover.field) IN
  hover' = [Fresh EXCEPT !.attached = hover.attached, !.described = h.described,
                         !.left = h.left,
                         !.pointer = IF hover.pointer = OnChip THEN Out ELSE
                                     IF hover.pointer = Out THEN Out
                                     ELSE Over(hover.pointer.at, None)]

Next ==
  \/ PointerMoves \/ TimerFires \/ Clicks \/ PopoverCloses \/ Accepts \/ Scrolls
  \/ \E f \in Fields : Renders(f) \/ Detaches(f)
  \/ Navigates \/ Restarts

Spec == Init /\ [][Next]_hover

-----------------------------------------------------------------------------
(* Properties.  Invariants. *)

\* A chip stays while the pointer is on it, and goes in time once the pointer is
\* neither on it nor in its field, whichever fields it crossed since.
ChipFades ==
  /\ hover.pointer = OnChip => hover.chip # None /\ hover.timer = None
  /\ hover.chip # None /\ hover.pointer.at \notin {"chip", hover.chip.field} =>
       hover.timer # None

\* A field says it is described by the chip while the chip previews it or is
\* about to have gone, or the pointer is in it; but for fields whose chip another
\* field's replaced, went from under the pointer, or went with a navigation.
DescribedIsShown ==
  \A f \in hover.described \ hover.left :
    /\ hover.field = f
    /\ hover.chip # None \/ hover.timer = [of |-> f] \/ hover.pointer.at = f
=============================================================================
