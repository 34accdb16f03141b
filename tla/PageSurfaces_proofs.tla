------------------------- MODULE PageSurfaces_proofs -------------------------
(***************************************************************************)
(* What the browser shows beside and in fields, for any number of fields,  *)
(* suggestions, tabs, requests and changes: the page's spellcheck is off   *)
(* where it was turned off and is given back; the chip, the pill and the   *)
(* highlights are where they should be; what is offered for a selection is *)
(* of that selection, what is taken of it is written over it, and undone;  *)
(* and a change of settings is kept, and reaches every tab.  Each part has *)
(* an inductive invariant of its own.                                      *)
(***************************************************************************)
EXTENDS Naturals, Sequences, SequenceTheorems, FiniteSetTheorems, TLAPS

CONSTANTS
  Fields, Items, Categories, Places, Texts, Tabs, None,
  MaxAttached, MaxWritten, MaxRuns, MaxItems, MaxFlips, MaxTyped, MaxMoves, MaxAsked, MaxWrites

VARIABLES spell, hover, highlighter, ui, offers, settings

Spelling == INSTANCE SpellcheckOverride
Hover == INSTANCE HoverChip
Lit == INSTANCE NativeHighlights
Pill == INSTANCE StatusPill
Surfaces == INSTANCE SelectionSurfaces WITH page <- offers
Settings == INSTANCE SettingsStore

-----------------------------------------------------------------------------
(* The spellcheck attribute. *)

SpellValues == {"absent", "true", "false"}

SpellNames ==
  {"attr", "running", "on", "attached", "originals", "watchers", "due", "page", "spoilt", "written", "runs"}

\* The attribute, what is kept of it, and who observes it.
SpellType(s) ==
  /\ DOMAIN s = SpellNames
  /\ s.attr \in SpellValues /\ s.page \in SpellValues /\ s.originals \in Seq(SpellValues) /\
     s.watchers \in Nat

\* Whether two values of the attribute are the same to the page.
SpellAlike(v, w) == v = "false" <=> w = "false"

\* Only a runtime holds originals and observers, and only one that suppresses
\* observes.  What it holds, unless it is spoilt, is as good as what the page wrote
\* last, and so is the attribute while nothing suppresses it.
SpellInv(s) ==
  /\ SpellType(s)
  /\ ~s.running => s.originals = <<>> /\ ~s.attached /\ ~s.on
  /\ s.attached => s.originals # <<>>
  /\ s.on /\ s.originals # <<>> => s.watchers > 0
  /\ ~s.on => s.watchers = 0
  /\ s.due => s.watchers > 0
  /\ s.watchers > 0 => s.originals # <<>>
  /\ s.attached /\ s.on /\ ~s.due => s.attr = "false"
  /\ ~s.spoilt =>
       /\ \A i \in 1..Len(s.originals) : SpellAlike(s.originals[i], s.page)
       /\ ~s.on \/ s.originals = <<>> => SpellAlike(s.attr, s.page)

\* At first nothing suppresses, and the attribute is the page's.
LEMMA SpellInit == Spelling!Init => SpellInv(spell)
  <1> SUFFICES ASSUME Spelling!Init PROVE SpellInv(spell)
    OBVIOUS
  <1>1. /\ DOMAIN spell = SpellNames /\ spell.attr \in SpellValues /\ spell.page = spell.attr
        /\ spell.originals = <<>> /\ spell.watchers = 0 /\ spell.running = FALSE /\ spell.on = FALSE
        /\ spell.attached = FALSE /\ spell.due = FALSE /\ spell.spoilt = FALSE
    BY DEF Spelling!Init, Spelling!Values, SpellValues, SpellNames
  <1> QED
    BY <1>1 DEF SpellInv, SpellType, SpellAlike

\* What restoring the attribute comes to.
LEMMA SpellRestores ==
  ASSUME NEW s, DOMAIN s = SpellNames, NEW v
  PROVE  LET t == Spelling!Restored(s, v) IN
         /\ DOMAIN t = SpellNames
         /\ t.attr = IF v = "absent" THEN "true" ELSE v
         /\ t.due = (s.watchers > 0)
         /\ \A n \in SpellNames \ {"attr", "due"} : t[n] = s[n]
  BY DEF SpellNames, Spelling!Restored, Spelling!Set

\* Attaching again takes what there is for what will be restored.
LEMMA SpellAttaches ==
  ASSUME SpellInv(spell), Spelling!Attaches
  PROVE  SpellInv(spell')
  <1> DEFINE all == Append(spell.originals, spell.attr)
             s == [spell EXCEPT !.attached = TRUE, !.originals = all,
                                !.spoilt = @ \/ (spell.on /\ spell.originals # <<>>)]
  <1>1. /\ DOMAIN s = SpellNames /\ s.originals = all /\ s.attached
        /\ s.spoilt <=> spell.spoilt \/ (spell.on /\ spell.originals # <<>>)
        /\ \A n \in SpellNames \ {"attached", "originals", "spoilt"} : s[n] = spell[n]
    BY DEF SpellInv, SpellType, SpellNames
  <1>2. /\ all \in Seq(SpellValues) /\ all # <<>> /\ Len(all) = Len(spell.originals) + 1
        /\ \A i \in 1..Len(spell.originals) : all[i] = spell.originals[i]
        /\ all[Len(all)] = spell.attr
    BY DEF SpellInv, SpellType
  <1>3. spell' = IF spell.on THEN Spelling!Asserted(s) ELSE s
    BY DEF Spelling!Attaches
  <1>4. spell.running
    BY DEF Spelling!Attaches
  <1> HIDE DEF s, all
  <1>5. /\ s.attr = spell.attr /\ s.page = spell.page /\ s.watchers = spell.watchers /\ s.due = spell.due
        /\ s.running = spell.running /\ s.on = spell.on
    BY <1>1 DEF SpellNames
  <1>6. ASSUME ~s.spoilt, ~spell.on \/ spell.originals = <<>>
        PROVE  \A i \in 1..Len(all) : SpellAlike(all[i], s.page)
    <2>1. /\ \A i \in 1..Len(spell.originals) : SpellAlike(spell.originals[i], spell.page)
          /\ SpellAlike(spell.attr, spell.page)
      BY <1>1, <1>6 DEF SpellInv
    <2> QED
      BY <1>2, <1>5, <2>1 DEF SpellInv, SpellType
  <1>7. CASE spell.on
    <2>1. /\ DOMAIN spell' = SpellNames /\ spell'.attr = "false" /\ spell'.due = (s.watchers > 0)
          /\ spell'.watchers = s.watchers + 1
          /\ \A n \in SpellNames \ {"attr", "due", "watchers"} : spell'[n] = s[n]
      BY <1>1, <1>3, <1>7 DEF Spelling!Asserted, Spelling!Set, SpellNames
    <2>2. /\ spell'.originals = all /\ spell'.running = spell.running /\ spell'.on = spell.on
          /\ spell'.page = spell.page /\ spell'.spoilt = s.spoilt /\ spell'.attached
      BY <1>1, <1>5, <2>1 DEF SpellNames
    <2> QED
      BY <1>1, <1>2, <1>4, <1>5, <1>6, <1>7, <2>1, <2>2 DEF SpellInv, SpellType, SpellValues
  <1>8. CASE ~spell.on
    <2>1. spell' = s
      BY <1>3, <1>8
    <2> QED
      BY <1>1, <1>2, <1>4, <1>5, <1>6, <1>8, <2>1 DEF SpellInv, SpellType, SpellValues
  <1> QED
    BY <1>7, <1>8

\* Letting the field go restores what its last attach found, which observers undo.
LEMMA SpellDetaches ==
  ASSUME SpellInv(spell), Spelling!Detaches
  PROVE  SpellInv(spell')
  <1> DEFINE o == spell.originals[Len(spell.originals)]
  <1>1. /\ DOMAIN spell' = SpellNames /\ spell'.attached = FALSE
        /\ spell'.attr = (IF o = "absent" THEN "true" ELSE o)
        /\ spell'.due = (spell.watchers > 0)
        /\ \A n \in SpellNames \ {"attr", "due", "attached"} : spell'[n] = spell[n]
    BY SpellRestores DEF Spelling!Detaches, Spelling!Last, SpellInv, SpellType, SpellNames
  <1>2. o \in SpellValues /\ Len(spell.originals) \in 1..Len(spell.originals)
    BY DEF Spelling!Detaches, SpellInv, SpellType
  <1> HIDE DEF o
  <1>3. /\ spell'.originals = spell.originals /\ spell'.watchers = spell.watchers
        /\ spell'.running = spell.running /\ spell'.on = spell.on /\ spell'.page = spell.page
        /\ spell'.spoilt = spell.spoilt
    BY <1>1 DEF SpellNames
  <1>4. SpellType(spell')
    BY <1>1, <1>2, <1>3 DEF SpellInv, SpellType, SpellValues
  <1> QED
    BY <1>1, <1>2, <1>3, <1>4 DEF SpellInv, SpellType, SpellAlike, SpellValues, o

\* The cleanups restore what the page had, or had what was as good.
LEMMA SpellTornDown ==
  ASSUME SpellInv(spell), Spelling!TornDown
  PROVE  SpellInv(spell')
  <1> DEFINE c == Spelling!Cleaned(spell)
             o == spell.originals[Len(spell.originals)]
  <1>1. /\ DOMAIN c = SpellNames
        /\ c.attr = IF spell.originals = <<>> THEN spell.attr
                    ELSE IF o = "absent" THEN "true" ELSE o
        /\ c.page = spell.page /\ c.spoilt = spell.spoilt
    BY SpellRestores DEF Spelling!Cleaned, Spelling!Last, SpellInv, SpellType, SpellNames
  <1>2. spell.originals # <<>> => o \in SpellValues /\ Len(spell.originals) \in 1..Len(spell.originals)
    BY DEF SpellInv, SpellType
  <1>3. spell' = [c EXCEPT !.running = FALSE, !.on = FALSE, !.attached = FALSE, !.originals = <<>>,
                           !.watchers = 0, !.due = FALSE]
    BY DEF Spelling!TornDown
  <1> HIDE DEF c, o
  <1>4. /\ DOMAIN spell' = SpellNames /\ spell'.attr = c.attr /\ spell'.page = c.page
        /\ spell'.spoilt = c.spoilt /\ ~spell'.running /\ ~spell'.on /\ ~spell'.attached
        /\ spell'.originals = <<>> /\ spell'.watchers = 0 /\ ~spell'.due
    BY <1>1, <1>3 DEF SpellNames
  <1>5. spell'.attr \in SpellValues /\ spell'.page \in SpellValues
    BY <1>1, <1>2, <1>4 DEF SpellInv, SpellType, SpellValues
  <1>6. ~spell.spoilt => SpellAlike(spell'.attr, spell.page)
    <2>1. CASE spell.originals = <<>>
      BY <1>1, <1>4, <2>1 DEF SpellInv
    <2>2. CASE spell.originals # <<>>
      <3>1. ~spell.spoilt => SpellAlike(o, spell.page)
        BY <1>2, <2>2 DEF SpellInv, o
      <3> QED
        BY <1>1, <1>4, <2>2, <3>1 DEF SpellAlike
    <2> QED
      BY <2>1, <2>2
  <1> QED
    BY <1>1, <1>4, <1>5, <1>6 DEF SpellInv, SpellType

\* Every step keeps the invariant.
LEMMA SpellStep == SpellInv(spell) /\ [Spelling!Next]_spell => SpellInv(spell)'
  <1> SUFFICES ASSUME SpellInv(spell), [Spelling!Next]_spell PROVE SpellInv(spell')
    OBVIOUS
  <1>1. CASE Spelling!PageWrites
    <2>1. PICK value \in SpellValues :
            /\ DOMAIN spell' = SpellNames /\ spell'.attr = value /\ spell'.page = value
            /\ (spell'.due <=> spell.watchers > 0)
            /\ spell'.spoilt <=> spell.spoilt \/ spell.originals # <<>>
            /\ \A n \in SpellNames \ {"attr", "page", "due", "spoilt", "written"} : spell'[n] = spell[n]
      BY <1>1 DEF Spelling!PageWrites, Spelling!Set, Spelling!Values, SpellValues, SpellInv, SpellType,
         SpellNames
    <2>2. /\ spell'.originals = spell.originals /\ spell'.watchers = spell.watchers
          /\ spell'.running = spell.running /\ spell'.on = spell.on /\ spell'.attached = spell.attached
      BY <2>1 DEF SpellNames
    <2>3. ~spell'.spoilt => spell.originals = <<>> /\ Len(spell.originals) = 0
      BY <2>1
    <2> QED
      BY <2>1, <2>2, <2>3 DEF SpellInv, SpellType, SpellAlike
  <1>2. CASE Spelling!Heard
    <2>1. /\ DOMAIN spell' = SpellNames /\ spell'.attr = "false" /\ ~spell'.due
          /\ \A n \in SpellNames \ {"attr", "due"} : spell'[n] = spell[n]
      BY <1>2 DEF Spelling!Heard, SpellInv, SpellType, SpellNames
    <2>2. /\ spell'.originals = spell.originals /\ spell'.watchers = spell.watchers
          /\ spell'.running = spell.running /\ spell'.on = spell.on /\ spell'.page = spell.page
          /\ spell'.spoilt = spell.spoilt /\ spell'.attached = spell.attached
      BY <2>1 DEF SpellNames
    <2>3. spell.on /\ spell.originals # <<>>
      BY <1>2 DEF Spelling!Heard, SpellInv, SpellType
    <2> QED
      BY <2>1, <2>2, <2>3 DEF SpellInv, SpellType, SpellValues
  <1>3. ASSUME NEW on \in BOOLEAN, Spelling!Runs(on) PROVE SpellInv(spell')
    <2>1. /\ DOMAIN spell' = SpellNames /\ spell'.running
          /\ \A n \in SpellNames \ {"running", "on", "runs"} : spell'[n] = spell[n]
      BY <1>3 DEF Spelling!Runs, SpellInv, SpellType, SpellNames
    <2>2. /\ spell'.originals = spell.originals /\ spell'.watchers = spell.watchers
          /\ spell'.attr = spell.attr /\ spell'.page = spell.page /\ spell'.due = spell.due
          /\ spell'.spoilt = spell.spoilt /\ spell'.attached = spell.attached
      BY <2>1 DEF SpellNames
    <2>3. spell.originals = <<>> /\ ~spell.attached /\ spell.watchers = 0 /\ ~spell.due
      BY <1>3 DEF Spelling!Runs, SpellInv, SpellType
    <2>5. Len(spell.originals) = 0
      BY <2>3
    <2>4. ~spell.spoilt => SpellAlike(spell.attr, spell.page)
      BY <2>3 DEF SpellInv
    <2> QED
      BY <2>1, <2>2, <2>3, <2>4, <2>5 DEF SpellInv, SpellType
  <1> QED
    BY <1>1, <1>2, <1>3, SpellAttaches, SpellDetaches, SpellTornDown DEF Spelling!Next

\* What the invariant says of the two properties.
LEMMA SpellSuppresses == SpellInv(spell) => Spelling!Suppressed /\ Spelling!GivenBack
  BY DEF SpellInv, SpellType, SpellAlike, Spelling!Suppressed, Spelling!GivenBack

\* The page's spellcheck is off where it was turned off, and a field is given back with
\* the page's own, for any number of attaches, page writes and restarts.
THEOREM SpellingIsRight == Spelling!Spec => [](Spelling!Suppressed /\ Spelling!GivenBack)
  BY SpellInit, SpellStep, SpellSuppresses, PTL DEF Spelling!Spec

-----------------------------------------------------------------------------
(* The chip under the pointer. *)

\* None is neither a field nor what is kept of one, and no field is a name of where
\* else the pointer may be.
HoverApart ==
  /\ None \notin Fields /\ "out" \notin Fields /\ "chip" \notin Fields
  /\ \A f \in Fields, item \in Items : None # [field |-> f, item |-> item]
  /\ \A f \in Fields \cup {None} : None # [of |-> f]

HoverNames ==
  {"pointer", "attached", "items", "chip", "item", "field", "timer", "popover", "described", "left"}

\* Where the pointer and the chip may be.
HoverType(h) ==
  /\ DOMAIN h = HoverNames
  /\ h.attached \subseteq Fields /\ h.field \in Fields \cup {None}
  /\ \/ h.pointer = [at |-> "out"]
     \/ h.pointer = [at |-> "chip"]
     \/ \E f \in Fields, item \in Items \cup {None} : h.pointer = [at |-> f, item |-> item]

\* The chip is of the item and of the field that the runtime holds, and its timer is
\* set for that field.
HoverHeld(h) ==
  /\ h.item = h.chip
  /\ h.chip # None => h.field \in Fields /\ h.chip.field = h.field
  /\ h.timer # None => h.timer = [of |-> h.field]

\* A chip whose timer does not run has the pointer on it or on its field.
HoverFades(h) ==
  /\ h.pointer.at = "chip" => h.chip # None /\ h.timer = None
  /\ h.chip # None => h.timer # None \/ h.pointer.at = "chip" \/ h.pointer.at = h.field

\* A field that is described, and was not left behind, is the chip's.
HoverDescribed(h) ==
  /\ h.described \subseteq Fields
  /\ \A f \in h.described \ h.left :
       h.field = f /\ (h.chip # None \/ h.timer # None \/ h.pointer.at = f)

HoverInv(h) == HoverType(h) /\ HoverHeld(h) /\ HoverFades(h) /\ HoverDescribed(h)

\* At first there is no chip, and the pointer is out.
LEMMA HoverInit == HoverApart /\ Hover!Init => HoverInv(hover)
  <1> SUFFICES ASSUME HoverApart, Hover!Init PROVE HoverInv(hover)
    OBVIOUS
  <1>1. /\ DOMAIN hover = HoverNames /\ hover.pointer = [at |-> "out"] /\ hover.attached = Fields
        /\ hover.chip = None /\ hover.item = None /\ hover.field = None /\ hover.timer = None
        /\ hover.described = {} /\ hover.left = {}
    BY DEF Hover!Init, Hover!Fresh, Hover!Out, HoverNames
  <1> QED
    BY <1>1 DEF HoverInv, HoverType, HoverHeld, HoverFades, HoverDescribed, HoverApart

\* What a timer or a click takes away.
LEMMA HidesAll ==
  ASSUME HoverApart, NEW h, HoverInv(h), NEW t, DOMAIN t = HoverNames, HoverType(t), t.pointer.at # "chip",
         t.chip = None, t.item = None, t.timer = None,
         t.described = h.described \ {h.field}, t.left = h.left \ {h.field}
  PROVE  HoverInv(t)
  BY DEF HoverInv, HoverHeld, HoverFades, HoverDescribed, HoverApart

\* What hiding the chip of a field comes to.
LEMMA HoverHides ==
  ASSUME NEW h, DOMAIN h = HoverNames, NEW f
  PROVE  LET t == Hover!Hidden(h, f) IN
         /\ DOMAIN t = HoverNames /\ t.chip = None /\ t.item = None /\ t.field = None /\ t.timer = None
         /\ t.described = h.described \ {f} /\ t.left = h.left \ {f}
         /\ t.pointer = h.pointer /\ t.attached = h.attached /\ t.items = h.items /\ t.popover = h.popover
  BY DEF Hover!Hidden, Hover!Undescribed, HoverNames

\* The pointer is where it is said to be.
LEMMA PointerAt ==
  ASSUME HoverApart, NEW h, HoverType(h)
  PROVE  /\ h.pointer = Hover!OnChip <=> h.pointer.at = "chip"
         /\ h.pointer = Hover!Out <=> h.pointer.at = "out"
         /\ h.pointer.at \in {"chip", "out"} \cup Fields
  <1>1. CASE h.pointer = [at |-> "out"]
    BY <1>1 DEF Hover!OnChip, Hover!Out
  <1>2. CASE h.pointer = [at |-> "chip"]
    BY <1>2 DEF Hover!OnChip, Hover!Out
  <1>3. ASSUME NEW f \in Fields, NEW item \in Items \cup {None}, h.pointer = [at |-> f, item |-> item]
        PROVE  h.pointer.at = f /\ h.pointer # Hover!OnChip /\ h.pointer # Hover!Out
    <2>1. h.pointer.at = f /\ f # "out" /\ f # "chip"
      BY <1>3 DEF HoverApart
    <2>2. Hover!OnChip.at = "chip" /\ Hover!Out.at = "out"
      BY DEF Hover!OnChip, Hover!Out
    <2> QED
      BY <2>1, <2>2
  <1> QED
    BY <1>1, <1>2, <1>3 DEF HoverApart, HoverType

\* The pointer is in one place at a time.
LEMMA HoverPlaces == Hover!OnChip # Hover!Out
  <1>1. Hover!OnChip.at = "chip" /\ Hover!Out.at = "out"
    BY DEF Hover!OnChip, Hover!Out
  <1> QED
    BY <1>1

\* Leaving a place starts the timer that hides the chip.
LEMMA LeavesBehind ==
  ASSUME HoverApart, NEW h, HoverInv(h), NEW to
  PROVE  LET t == Hover!LeftBehind(h, to) IN
         /\ DOMAIN t = HoverNames
         /\ t.timer = IF h.pointer.at = "out" \/ h.pointer.at = to.at THEN h.timer ELSE [of |-> h.field]
         /\ \A n \in HoverNames \ {"timer"} : t[n] = h[n]
  <1>1. h.pointer = Hover!Out <=> h.pointer.at = "out"
    BY PointerAt DEF HoverInv
  <1> QED
    BY <1>1 DEF Hover!LeftBehind, Hover!Scheduled, HoverNames, HoverInv, HoverType

\* Where the pointer goes.
LEMMA HoverMoves ==
  ASSUME HoverApart, HoverInv(hover), Hover!PointerMoves
  PROVE  HoverInv(hover')
  <1>1. PICK to \in {Hover!Out, Hover!OnChip} \cup
                      {Hover!Over(f, i) : f \in hover.attached, i \in Items \cup {None}},
             throttled \in BOOLEAN :
          /\ to # hover.pointer
          /\ to = Hover!OnChip => hover.chip # None
          /\ to \notin {Hover!Out, Hover!OnChip} => to.item \in hover.items[to.at] \cup {None}
          /\ hover' = Hover!Goes(hover, to, throttled)
    BY DEF Hover!PointerMoves
  <1>2. \/ to = [at |-> "out"]
        \/ to = [at |-> "chip"]
        \/ \E f \in Fields, item \in Items \cup {None} : to = [at |-> f, item |-> item]
    BY <1>1 DEF HoverInv, HoverType, Hover!Out, Hover!OnChip, Hover!Over
  <1> DEFINE k == Hover!LeftBehind(hover, to)
             h == [k EXCEPT !.pointer = to]
  <1>3. /\ DOMAIN k = HoverNames
        /\ k.timer = IF hover.pointer.at = "out" \/ hover.pointer.at = to.at
                     THEN hover.timer ELSE [of |-> hover.field]
        /\ \A n \in HoverNames \ {"timer"} : k[n] = hover[n]
    BY LeavesBehind
  <1> HIDE DEF k
  <1>4. /\ DOMAIN h = HoverNames /\ h.pointer = to
        /\ h.timer = IF hover.pointer.at = "out" \/ hover.pointer.at = to.at
                     THEN hover.timer ELSE [of |-> hover.field]
        /\ h.attached = hover.attached /\ h.chip = hover.chip /\ h.item = hover.item
        /\ h.field = hover.field /\ h.described = hover.described /\ h.left = hover.left
        /\ h.popover = hover.popover
    BY <1>3 DEF HoverNames
  <1> HIDE DEF h
  <1>5. HoverType(h) /\ HoverHeld(h)
    <2>1. HoverType(h)
      BY <1>2, <1>4 DEF HoverInv, HoverType
    <2>2. h.timer = hover.timer \/ h.timer = [of |-> hover.field]
      BY <1>4
    <2>3. HoverHeld(h)
      BY <1>4, <2>2 DEF HoverInv, HoverHeld
    <2> QED
      BY <2>1, <2>3
  <1>6. /\ h.chip # None => h.timer # None \/ h.pointer.at = "chip" \/ h.pointer.at = h.field
        /\ HoverDescribed(h)
    <2>1. hover.pointer.at = "out" => to.at # "out"
      BY <1>1, <1>2, PointerAt DEF HoverInv, HoverApart, Hover!Out
    <2>2. [of |-> hover.field] # None
      BY DEF HoverInv, HoverType, HoverApart
    <2>3. CASE hover.pointer.at = "out" \/ hover.pointer.at = to.at
      BY <1>4, <2>1, <2>3 DEF HoverInv, HoverType, HoverHeld, HoverFades, HoverDescribed, HoverApart
    <2>4. CASE ~(hover.pointer.at = "out" \/ hover.pointer.at = to.at)
      BY <1>4, <2>2, <2>4 DEF HoverInv, HoverType, HoverHeld, HoverFades, HoverDescribed, HoverApart
    <2> QED
      BY <2>3, <2>4
  <1>7. CASE to.at = "chip"
    <2>1. to = Hover!OnChip
      BY <1>2, <1>7 DEF Hover!OnChip, HoverApart
    <2>2. /\ DOMAIN hover' = HoverNames /\ hover'.timer = None
          /\ \A n \in HoverNames \ {"timer"} : hover'[n] = h[n]
      <3>1. hover' = [h EXCEPT !.timer = None]
        BY <1>1, <2>1, HoverPlaces DEF Hover!Goes, h, k
      <3> QED
        BY <1>4, <3>1 DEF HoverNames
    <2>3. /\ hover'.pointer = to /\ hover'.attached = h.attached /\ hover'.chip = h.chip
          /\ hover'.item = h.item /\ hover'.field = h.field /\ hover'.described = h.described
          /\ hover'.left = h.left
      BY <1>4, <2>2 DEF HoverNames
    <2>4. h.chip # None
      BY <1>1, <1>4, <2>1
    <2> QED
      BY <1>4, <1>5, <1>6, <1>7, <2>2, <2>3, <2>4
      DEF HoverInv, HoverType, HoverHeld, HoverFades, HoverDescribed
  <1>8. CASE to.at = "out"
    <2>1. to = Hover!Out /\ to # Hover!OnChip
      BY <1>2, <1>8 DEF Hover!OnChip, Hover!Out, HoverApart
    <2>2. hover' = h
      BY <1>1, <2>1, HoverPlaces DEF Hover!Goes, h, k
    <2> QED
      BY <1>4, <1>5, <1>6, <1>8, <2>2 DEF HoverInv, HoverFades
  <1>9. CASE to.at \in Fields
    <2>1. to # Hover!Out /\ to # Hover!OnChip /\ to.item \in Items \cup {None}
      BY <1>2, <1>9 DEF Hover!OnChip, Hover!Out, HoverApart
    <2>2. HoverInv(h)
      BY <1>4, <1>5, <1>6, <1>9 DEF HoverInv, HoverFades, HoverApart
    <2>3. hover' = IF throttled THEN h ELSE Hover!Moved(h, to.at, to.item)
      BY <1>1, <2>1 DEF Hover!Goes, h, k
    <2>8. h.popover = to.at => Hover!Moved(h, to.at, to.item) = h
      BY DEF Hover!Moved
    <2>4. CASE throttled \/ h.popover = to.at
      BY <2>2, <2>3, <2>4, <2>8
    <2>5. ASSUME ~throttled, h.popover # to.at, to.item = None PROVE HoverInv(hover')
      <3>1. hover' = IF h.item # None THEN Hover!Scheduled(h) ELSE h
        BY <2>3, <2>5 DEF Hover!Moved
      <3>2. CASE h.item = None
        BY <2>2, <3>1, <3>2
      <3>3. CASE h.item # None
        <4>1. /\ DOMAIN hover' = HoverNames /\ hover'.timer = [of |-> h.field]
              /\ \A n \in HoverNames \ {"timer"} : hover'[n] = h[n]
          BY <1>4, <3>1, <3>3 DEF Hover!Scheduled, HoverNames
        <4>2. /\ hover'.pointer = to /\ hover'.attached = h.attached /\ hover'.chip = h.chip
              /\ hover'.item = h.item /\ hover'.field = h.field /\ hover'.described = h.described
              /\ hover'.left = h.left
          BY <1>4, <4>1 DEF HoverNames
        <4> QED
          BY <1>4, <1>9, <2>2, <4>1, <4>2
          DEF HoverInv, HoverType, HoverHeld, HoverFades, HoverDescribed, HoverApart
      <3> QED
        BY <3>2, <3>3
    <2>6. ASSUME ~throttled, h.popover # to.at, to.item # None,
                 h.item = Hover!Of(to.at, to.item), h.chip # None
          PROVE  HoverInv(hover')
      <3>1. hover' = [h EXCEPT !.timer = None]
        BY <2>3, <2>6 DEF Hover!Moved
      <3>2. /\ DOMAIN hover' = HoverNames /\ hover'.timer = None
            /\ hover'.pointer = to /\ hover'.attached = h.attached /\ hover'.chip = h.chip
            /\ hover'.item = h.item /\ hover'.field = h.field /\ hover'.described = h.described
            /\ hover'.left = h.left
        BY <1>4, <3>1 DEF HoverNames
      <3>3. h.field = to.at
        <4>1. h.chip.field = h.field
          BY <2>2, <2>6 DEF HoverInv, HoverHeld
        <4>2. h.chip = [field |-> to.at, item |-> to.item]
          BY <2>2, <2>6 DEF HoverInv, HoverHeld, Hover!Of
        <4> QED
          BY <4>1, <4>2
      <3>4. HoverType(hover') /\ HoverHeld(hover')
        BY <1>4, <2>2, <3>2 DEF HoverInv, HoverType, HoverHeld
      <3>5. HoverFades(hover') /\ HoverDescribed(hover')
        BY <1>4, <1>9, <2>2, <2>6, <3>2, <3>3 DEF HoverInv, HoverFades, HoverDescribed, HoverApart
      <3> QED
        BY <3>4, <3>5 DEF HoverInv
    <2>7. ASSUME ~throttled, h.popover # to.at, to.item # None,
                 ~(h.item = Hover!Of(to.at, to.item) /\ h.chip # None)
          PROVE  HoverInv(hover')
      <3>1. hover' = Hover!Shown(h, to.at, to.item)
        BY <2>3, <2>7 DEF Hover!Moved
      <3>2. /\ DOMAIN hover' = HoverNames /\ hover'.timer = None
            /\ hover'.pointer = to /\ hover'.attached = h.attached
            /\ hover'.chip = [field |-> to.at, item |-> to.item]
            /\ hover'.item = [field |-> to.at, item |-> to.item]
            /\ hover'.field = to.at /\ hover'.described = h.described \cup {to.at}
            /\ hover'.left = (h.left \cup (h.described \ {to.at})) \ {to.at}
        BY <1>4, <3>1 DEF HoverNames, Hover!Shown, Hover!Of
      <3>3. hover'.chip # None
        BY <1>9, <2>1, <2>7, <3>2 DEF HoverApart
      <3> QED
        BY <1>4, <1>9, <2>1, <2>2, <2>7, <3>2, <3>3
        DEF HoverInv, HoverType, HoverHeld, HoverFades, HoverDescribed, HoverApart
    <2> QED
      BY <2>4, <2>5, <2>6, <2>7
  <1> QED
    BY <1>2, <1>7, <1>8, <1>9

\* No step breaks the invariant of the chip.
LEMMA HoverStep == HoverApart /\ HoverInv(hover) /\ [Hover!Next]_hover => HoverInv(hover)'
  <1> SUFFICES ASSUME HoverApart, HoverInv(hover), [Hover!Next]_hover PROVE HoverInv(hover')
    OBVIOUS
  <1>0. /\ hover.pointer = Hover!OnChip <=> hover.pointer.at = "chip"
        /\ hover.pointer = Hover!Out <=> hover.pointer.at = "out"
        /\ hover.pointer.at \in {"chip", "out"} \cup Fields
        /\ DOMAIN hover = HoverNames
    BY PointerAt DEF HoverInv, HoverType
  <1>1. CASE Hover!TimerFires
    <2>1. hover' = Hover!Hidden(hover, hover.field) /\ hover.timer # None
      BY <1>1 DEF Hover!TimerFires, HoverInv, HoverHeld
    <2>2. hover.pointer.at # "chip"
      BY <2>1 DEF HoverInv, HoverFades
    <2>3. HoverType(hover')
      BY <1>0, <2>1, HoverHides DEF HoverType, HoverInv
    <2> QED
      BY <1>0, <2>1, <2>2, <2>3, HoverHides, HidesAll
  <1>2. CASE Hover!Clicks
    <2> DEFINE h == Hover!Hidden(hover, hover.field)
    <2>1. /\ DOMAIN h = HoverNames /\ h.chip = None /\ h.item = None /\ h.timer = None
          /\ h.described = hover.described \ {hover.field} /\ h.left = hover.left \ {hover.field}
          /\ h.pointer = hover.pointer /\ h.attached = hover.attached /\ h.field = None
      BY <1>0, HoverHides
    <2>2. hover' = [h EXCEPT !.popover = hover.pointer.at] /\ hover.pointer # Hover!OnChip
      BY <1>2 DEF Hover!Clicks
    <2> HIDE DEF h
    <2>3. /\ DOMAIN hover' = HoverNames /\ \A n \in HoverNames \ {"popover"} : hover'[n] = h[n]
      BY <2>1, <2>2 DEF HoverNames
    <2>4. /\ hover'.chip = None /\ hover'.item = None /\ hover'.timer = None
          /\ hover'.described = hover.described \ {hover.field} /\ hover'.left = hover.left \ {hover.field}
          /\ hover'.pointer = hover.pointer /\ hover'.attached = hover.attached /\ hover'.field = None
      BY <2>1, <2>3 DEF HoverNames
    <2>5. HoverType(hover')
      BY <2>3, <2>4 DEF HoverType, HoverInv
    <2> QED
      BY <1>0, <2>2, <2>3, <2>4, <2>5, HidesAll
  <1>3. CASE Hover!PopoverCloses
    <2>1. DOMAIN hover' = HoverNames /\ \A n \in HoverNames \ {"popover"} : hover'[n] = hover[n]
      BY <1>0, <1>3 DEF Hover!PopoverCloses, HoverNames
    <2>2. /\ hover'.chip = hover.chip /\ hover'.item = hover.item /\ hover'.timer = hover.timer
          /\ hover'.described = hover.described /\ hover'.left = hover.left
          /\ hover'.pointer = hover.pointer /\ hover'.attached = hover.attached /\ hover'.field = hover.field
      BY <2>1 DEF HoverNames
    <2> QED
      BY <2>1, <2>2 DEF HoverInv, HoverType, HoverHeld, HoverFades, HoverDescribed
  <1>4. ASSUME NEW h, h = Hover!FromUnder(hover)
        PROVE  /\ DOMAIN h = HoverNames
               /\ h.pointer = IF hover.pointer.at = "chip" THEN [at |-> "out"] ELSE hover.pointer
               /\ hover.pointer.at = "chip" => h.left = hover.left \cup (hover.described \cap {hover.field})
               /\ hover.pointer.at # "chip" => h.left = hover.left
               /\ \A n \in HoverNames \ {"pointer", "left"} : h[n] = hover[n]
    BY <1>0, <1>4 DEF Hover!FromUnder, Hover!Out, HoverNames
  <1>5. CASE Hover!Accepts
    <2> DEFINE h == Hover!FromUnder(hover)
    <2>1. /\ DOMAIN h = HoverNames /\ h.pointer = [at |-> "out"]
          /\ h.left = hover.left \cup (hover.described \cap {hover.field})
          /\ \A n \in HoverNames \ {"pointer", "left"} : h[n] = hover[n]
      BY <1>0, <1>4, <1>5 DEF Hover!Accepts
    <2>2. hover' = [h EXCEPT !.chip = None, !.item = None]
      BY <1>5 DEF Hover!Accepts
    <2> HIDE DEF h
    <2>3. /\ DOMAIN hover' = HoverNames /\ hover'.chip = None /\ hover'.item = None
          /\ hover'.pointer = [at |-> "out"] /\ hover'.attached = hover.attached
          /\ hover'.field = hover.field /\ hover'.timer = hover.timer
          /\ hover'.described = hover.described
          /\ hover'.left = hover.left \cup (hover.described \cap {hover.field})
      BY <2>1, <2>2 DEF HoverNames
    <2> QED
      BY <2>3 DEF HoverInv, HoverType, HoverHeld, HoverFades, HoverDescribed
  <1>6. CASE Hover!Scrolls
    <2>1. CASE hover.chip = None
      <3>1. hover' = [hover EXCEPT !.popover = None]
        BY <1>6, <2>1 DEF Hover!Scrolls
      <3>2. DOMAIN hover' = HoverNames /\ \A n \in HoverNames \ {"popover"} : hover'[n] = hover[n]
        BY <1>0, <3>1 DEF HoverNames
      <3>3. /\ hover'.chip = hover.chip /\ hover'.item = hover.item /\ hover'.timer = hover.timer
            /\ hover'.described = hover.described /\ hover'.left = hover.left
            /\ hover'.pointer = hover.pointer /\ hover'.attached = hover.attached /\
               hover'.field = hover.field
        BY <3>2 DEF HoverNames
      <3> QED
        BY <3>2, <3>3 DEF HoverInv, HoverType, HoverHeld, HoverFades, HoverDescribed
    <2>2. CASE hover.chip # None
      <3> DEFINE h == Hover!FromUnder(hover)
      <3>1. /\ DOMAIN h = HoverNames
            /\ h.pointer = IF hover.pointer.at = "chip" THEN [at |-> "out"] ELSE hover.pointer
            /\ hover.pointer.at = "chip" => h.left = hover.left \cup (hover.described \cap {hover.field})
            /\ hover.pointer.at # "chip" => h.left = hover.left
            /\ \A n \in HoverNames \ {"pointer", "left"} : h[n] = hover[n]
        BY <1>4
      <3>2. hover' = [[h EXCEPT !.chip = None, !.item = None] EXCEPT !.popover = None]
        BY <1>6, <2>2 DEF Hover!Scrolls
      <3> HIDE DEF h
      <3>3. /\ DOMAIN hover' = HoverNames /\ hover'.chip = None /\ hover'.item = None
            /\ hover'.pointer = h.pointer /\ hover'.left = h.left /\ hover'.attached = hover.attached
            /\ hover'.field = hover.field /\ hover'.timer = hover.timer
            /\ hover'.described = hover.described
        BY <3>1, <3>2 DEF HoverNames
      <3>4. HoverType(hover') /\ HoverHeld(hover')
        BY <3>1, <3>3 DEF HoverInv, HoverType, HoverHeld
      <3>5. HoverFades(hover')
        BY <3>1, <3>3 DEF HoverInv, HoverFades
      <3>6. HoverDescribed(hover')
        <4>1. CASE hover.pointer.at = "chip"
          BY <3>1, <3>3, <4>1 DEF HoverInv, HoverDescribed
        <4>2. CASE hover.pointer.at # "chip"
          BY <2>2, <3>1, <3>3, <4>2 DEF HoverInv, HoverFades, HoverDescribed
        <4> QED
          BY <4>1, <4>2
      <3> QED
        BY <3>4, <3>5, <3>6 DEF HoverInv
    <2> QED
      BY <2>1, <2>2
  <1>7. ASSUME NEW f \in Fields, Hover!Renders(f) PROVE HoverInv(hover')
    <2>1. PICK items \in SUBSET Items, under \in Items \cup {None} :
            hover' = [hover EXCEPT !.items[f] = items,
                                   !.pointer = IF @.at = f THEN Hover!Over(f, under) ELSE @]
      BY <1>7 DEF Hover!Renders
    <2>3. /\ DOMAIN hover' = HoverNames
          /\ hover'.pointer = IF hover.pointer.at = f THEN [at |-> f, item |-> under] ELSE hover.pointer
          /\ \A n \in HoverNames \ {"items", "pointer"} : hover'[n] = hover[n]
      BY <1>0, <2>1 DEF HoverNames, Hover!Over
    <2>4. /\ hover'.chip = hover.chip /\ hover'.item = hover.item /\ hover'.timer = hover.timer
          /\ hover'.described = hover.described /\ hover'.left = hover.left
          /\ hover'.attached = hover.attached /\ hover'.field = hover.field
          /\ hover'.pointer.at = hover.pointer.at
      BY <2>3 DEF HoverNames
    <2>5. HoverType(hover')
      BY <2>3, <2>4 DEF HoverInv, HoverType
    <2> QED
      BY <2>4, <2>5 DEF HoverInv, HoverHeld, HoverFades, HoverDescribed
  <1>8. ASSUME NEW f \in Fields, Hover!Detaches(f) PROVE HoverInv(hover')
    <2> DEFINE h == [hover EXCEPT !.attached = @ \ {f}, !.items[f] = {},
                                  !.popover = IF @ = f THEN None ELSE @]
               g == IF h.pointer.at = f THEN [h EXCEPT !.pointer = Hover!Out] ELSE h
    <2>1. /\ DOMAIN h = HoverNames /\ h.attached = hover.attached \ {f}
          /\ \A n \in HoverNames \ {"attached", "items", "popover"} : h[n] = hover[n]
      BY <1>0 DEF HoverNames
    <2>2. hover' = IF h.field # f THEN g
                   ELSE [Hover!Hidden(g, f) EXCEPT !.pointer = IF @ = Hover!OnChip THEN Hover!Out ELSE @]
      BY <1>8 DEF Hover!Detaches
    <2> HIDE DEF h
    <2>3. /\ DOMAIN g = HoverNames /\ g.attached = hover.attached \ {f}
          /\ g.pointer = (IF hover.pointer.at = f THEN [at |-> "out"] ELSE hover.pointer)
          /\ g.chip = hover.chip /\ g.item = hover.item /\ g.timer = hover.timer
          /\ g.described = hover.described /\ g.left = hover.left /\ g.field = hover.field
      BY <2>1 DEF HoverNames, Hover!Out
    <2> HIDE DEF g
    <2>4. HoverType(g)
      BY <2>3 DEF HoverInv, HoverType
    <2>5. h.field = hover.field
      BY <2>1 DEF HoverNames
    <2>6. CASE hover.field # f
      <3>1. hover' = g
        BY <2>2, <2>5, <2>6
      <3> QED
        BY <2>3, <2>4, <2>6, <3>1 DEF HoverInv, HoverHeld, HoverFades, HoverDescribed, HoverApart
    <2>7. CASE hover.field = f
      <3> DEFINE d == Hover!Hidden(g, f)
      <3>1. /\ DOMAIN d = HoverNames /\ d.chip = None /\ d.item = None /\ d.field = None /\ d.timer = None
            /\ d.described = hover.described \ {f} /\ d.left = hover.left \ {f}
            /\ d.pointer = g.pointer /\ d.attached = g.attached
        BY <2>3, HoverHides
      <3>2. hover' = [d EXCEPT !.pointer = IF @ = Hover!OnChip THEN Hover!Out ELSE @]
        BY <2>2, <2>5, <2>7
      <3> HIDE DEF d
      <3>3. /\ DOMAIN hover' = HoverNames /\ hover'.chip = None /\ hover'.item = None /\ hover'.field = None
            /\ hover'.timer = None
            /\ hover'.described = hover.described \ {f} /\ hover'.left = hover.left \ {f}
            /\ hover'.pointer = (IF g.pointer.at = "chip" THEN [at |-> "out"] ELSE g.pointer)
            /\ hover'.attached = g.attached
        BY <2>4, <3>1, <3>2, PointerAt DEF HoverNames, Hover!Out
      <3>4. HoverType(hover') /\ hover'.pointer.at # "chip"
        BY <2>4, <3>3 DEF HoverType
      <3> QED
        BY <2>7, <3>3, <3>4, HidesAll
    <2> QED
      BY <2>6, <2>7
  <1>9. CASE Hover!Navigates
    <2>1. /\ DOMAIN hover' = HoverNames /\ hover'.chip = None /\ hover'.item = None /\ hover'.field = None
          /\ hover'.timer = None /\ hover'.left = hover.described /\ hover'.described = hover.described
          /\ hover'.attached = hover.attached
          /\ hover'.pointer = (IF hover.pointer.at = "chip" THEN [at |-> "out"] ELSE hover.pointer)
      BY <1>0, <1>9 DEF Hover!Navigates, HoverNames, Hover!Out
    <2> QED
      BY <2>1 DEF HoverInv, HoverType, HoverHeld, HoverFades, HoverDescribed
  <1>10. CASE Hover!Restarts
    <2>1. /\ DOMAIN hover' = HoverNames /\ hover'.chip = None /\ hover'.item = None /\ hover'.field = None
          /\ hover'.timer = None /\ hover'.described = hover.described \ {hover.field}
          /\ hover'.left = hover.left \ {hover.field} /\ hover'.attached = hover.attached
          /\ hover'.pointer = IF hover.pointer.at \in {"chip", "out"} THEN [at |-> "out"]
                              ELSE [at |-> hover.pointer.at, item |-> None]
      BY <1>0, <1>10 DEF Hover!Restarts, Hover!Undescribed, Hover!Fresh, HoverNames, Hover!Out, Hover!Over
    <2>2. HoverType(hover') /\ hover'.pointer.at # "chip"
      <3>1. CASE hover.pointer.at \in {"chip", "out"}
        BY <2>1, <3>1 DEF HoverInv, HoverType
      <3>2. CASE hover.pointer.at \in Fields
        <4>1. hover.pointer.at \notin {"chip", "out"}
          BY <3>2 DEF HoverApart
        <4>2. hover'.pointer = [at |-> hover.pointer.at, item |-> None]
          BY <2>1, <4>1
        <4>3. /\ DOMAIN hover'.pointer = {"at", "item"} /\ hover'.pointer.at = hover.pointer.at
              /\ hover'.pointer.item = None
          BY <4>2
        <4> QED
          BY <1>0, <2>1, <3>2, <4>1, <4>3 DEF HoverInv, HoverType
      <3> QED
        BY <1>0, <3>1, <3>2
    <2> QED
      BY <2>1, <2>2, HidesAll
  <1> QED
    BY <1>1, <1>2, <1>3, <1>5, <1>6, <1>7, <1>8, <1>9, <1>10, HoverMoves DEF Hover!Next

\* What the invariant says of the two properties.
LEMMA HoverShows == HoverApart /\ HoverInv(hover) => Hover!ChipFades /\ Hover!DescribedIsShown
  <1> SUFFICES ASSUME HoverApart, HoverInv(hover) PROVE Hover!ChipFades /\ Hover!DescribedIsShown
    OBVIOUS
  <1>1. hover.pointer = Hover!OnChip <=> hover.pointer.at = "chip"
    BY PointerAt DEF HoverInv
  <1>2. hover.chip # None => hover.chip.field = hover.field
    BY DEF HoverInv, HoverHeld
  <1>3. Hover!ChipFades
    BY <1>1, <1>2 DEF HoverInv, HoverFades, Hover!ChipFades
  <1>4. Hover!DescribedIsShown
    BY DEF HoverInv, HoverHeld, HoverDescribed, Hover!DescribedIsShown
  <1> QED
    BY <1>3, <1>4

\* The chip is up only while the pointer is on it or its field or its timer runs, and a
\* field that is described by it is the one it is of, for any fields and items.
THEOREM ChipIsRight == HoverApart /\ Hover!Spec => [](Hover!ChipFades /\ Hover!DescribedIsShown)
  <1> SUFFICES ASSUME HoverApart PROVE Hover!Spec => [](Hover!ChipFades /\ Hover!DescribedIsShown)
    OBVIOUS
  <1>1. Hover!Init => HoverInv(hover)
    BY HoverInit
  <1>2. HoverInv(hover) /\ [Hover!Next]_hover => HoverInv(hover)'
    BY HoverStep
  <1>3. HoverInv(hover) => Hover!ChipFades /\ Hover!DescribedIsShown
    BY HoverShows
  <1> QED
    BY <1>1, <1>2, <1>3, PTL DEF Hover!Spec

-----------------------------------------------------------------------------
(* The highlights of fields. *)

LitNames == {"items", "shown", "focused", "hover", "hoverRange", "painted", "hovered"}

\* What the highlighter has of each field.
LitType(h) ==
  /\ DOMAIN h = LitNames
  /\ h.items \in [Fields -> Seq(Lit!Item)] /\ h.shown \subseteq Fields
  /\ h.hover \in [el : Fields, index : Nat \ {0}] \cup {Lit!NoHover}

\* The hover is kept where the hovered item is, and painted there.
Hovers(h) ==
  h.hoverRange = IF h.hover = Lit!NoHover THEN None ELSE Lit!RangeAt(h, h.hover.el, h.hover.index)

\* What is painted is what the items come to, and the hovered range is that of the
\* hovered item.
LitInv(h) ==
  /\ LitType(h) /\ Hovers(h)
  /\ h.painted = Lit!Buckets(h, Categories)
  /\ h.hovered = h.hoverRange

\* A range of an item, as the registry has it.
LitPaint(h, el, i) ==
  [key |-> <<h.items[el][i].category, IF el = h.focused THEN "strong" ELSE "idle">>,
   el |-> el, index |-> i, range |-> h.items[el][i].range]

\* What is painted in a category, item by item.
LEMMA InBuckets ==
  ASSUME NEW h, NEW categories, NEW p
  PROVE  p \in Lit!Buckets(h, categories) <=>
           \E el \in h.shown : \E i \in DOMAIN h.items[el] :
             /\ h.items[el][i].category \in categories /\ h.items[el][i].range # None
             /\ p = LitPaint(h, el, i)
  BY DEF Lit!Buckets, LitPaint

\* To rebuild every category leaves what the items come to, whatever was painted.
LEMMA Rebuilt ==
  ASSUME NEW h, DOMAIN h = LitNames, h.items \in [Fields -> Seq(Lit!Item)], h.shown \subseteq Fields,
         \A p \in h.painted : p.key[1] \in Categories
  PROVE  LET t == Lit!Rebuild(h, Categories) IN
         /\ DOMAIN t = LitNames /\ \A n \in LitNames \ {"painted"} : t[n] = h[n]
         /\ t.painted = Lit!Buckets(h, Categories)
  <1>1. /\ DOMAIN Lit!Rebuild(h, Categories) = LitNames
        /\ \A n \in LitNames \ {"painted"} : Lit!Rebuild(h, Categories)[n] = h[n]
        /\ Lit!Rebuild(h, Categories).painted =
             IF h.shown = {} THEN {}
             ELSE {p \in h.painted : p.key[1] \notin Categories} \cup Lit!Buckets(h, Categories)
    BY DEF Lit!Rebuild, LitNames
  <1>2. h.shown = {} => Lit!Buckets(h, Categories) = {}
    BY DEF Lit!Buckets
  <1> QED
    BY <1>1, <1>2

\* What is painted is of the categories.
LEMMA PaintedHere ==
  ASSUME NEW h, LitInv(h)
  PROVE  \A p \in h.painted : p.key[1] \in Categories
  <1>1. ASSUME NEW p \in h.painted PROVE p.key[1] \in Categories
    <2>1. PICK el \in h.shown : \E i \in DOMAIN h.items[el] :
             h.items[el][i].category \in Categories /\ p = LitPaint(h, el, i)
      BY InBuckets DEF LitInv
    <2>2. PICK i \in DOMAIN h.items[el] : h.items[el][i].category \in Categories /\ p = LitPaint(h, el, i)
      BY <2>1
    <2>3. p.key = <<h.items[el][i].category, IF el = h.focused THEN "strong" ELSE "idle">>
      BY <2>2 DEF LitPaint
    <2> QED
      BY <2>2, <2>3
  <1> QED
    BY <1>1

\* The buckets are of the items, the fields shown and the focus.
LEMMA BucketsOf ==
  ASSUME NEW s, NEW t, NEW categories, s.items = t.items, s.shown = t.shown, s.focused = t.focused
  PROVE  Lit!Buckets(s, categories) = Lit!Buckets(t, categories)
  BY DEF Lit!Buckets

\* A range is a matter of the items of its field and of whether they are shown.
LEMMA RangesOf ==
  ASSUME NEW s, NEW t, NEW el, NEW index, s.items[el] = t.items[el], el \in s.shown <=> el \in t.shown
  PROVE  Lit!RangeAt(s, el, index) = Lit!RangeAt(t, el, index)
  BY DEF Lit!RangeAt

\* To paint everything from a state whose hover is right is right.
LEMMA PaintsAll ==
  ASSUME NEW h, LitType(h), Hovers(h), \A p \in h.painted : p.key[1] \in Categories,
         NEW t, t = Lit!ApplyHover(Lit!Rebuild(h, Categories))
  PROVE  LitInv(t)
  <1> DEFINE r == Lit!Rebuild(h, Categories)
  <1>1. /\ DOMAIN r = LitNames /\ \A n \in LitNames \ {"painted"} : r[n] = h[n]
        /\ r.painted = Lit!Buckets(h, Categories)
    BY Rebuilt DEF LitType
  <1>2. t = [r EXCEPT !.hovered = r.hoverRange]
    BY DEF Lit!ApplyHover
  <1> HIDE DEF r
  <1>3. /\ DOMAIN t = LitNames /\ t.items = h.items /\ t.shown = h.shown /\ t.focused = h.focused
        /\ t.hover = h.hover /\ t.hoverRange = h.hoverRange /\ t.hovered = h.hoverRange
        /\ t.painted = Lit!Buckets(h, Categories)
    BY <1>1, <1>2 DEF LitNames
  <1>4. Lit!Buckets(t, Categories) = Lit!Buckets(h, Categories)
    BY <1>3, BucketsOf
  <1>5. Lit!RangeAt(t, t.hover.el, t.hover.index) = Lit!RangeAt(h, h.hover.el, h.hover.index)
    BY <1>3, RangesOf
  <1> QED
    BY <1>3, <1>4, <1>5 DEF LitInv, LitType, Hovers

\* A highlighter that has nothing paints nothing.
LEMMA LitFresh ==
  ASSUME NEW h, h = [items |-> [el \in Fields |-> <<>>], shown |-> {}, focused |-> None,
                     hover |-> Lit!NoHover, hoverRange |-> None, painted |-> {}, hovered |-> None]
  PROVE  LitInv(h)
  <1>1. /\ DOMAIN h = LitNames /\ h.items = [el \in Fields |-> <<>>]
        /\ h.shown = {} /\ h.hover = Lit!NoHover /\ h.hoverRange = None
        /\ h.painted = {} /\ h.hovered = None
    BY DEF LitNames
  <1>2. Lit!Buckets(h, Categories) = {}
    BY <1>1 DEF Lit!Buckets
  <1>3. h.items \in [Fields -> Seq(Lit!Item)]
    BY <1>1
  <1> QED
    BY <1>1, <1>2, <1>3 DEF LitInv, LitType, Hovers

\* One item of a field is another: what it leaves and enters is rebuilt.
LEMMA ItemChanges ==
  ASSUME None \notin Fields, LitInv(highlighter), NEW el \in highlighter.shown, NEW index \in Nat \ {0},
         index <= Len(highlighter.items[el]), NEW item \in Lit!Item, NEW touched,
         {highlighter.items[el][index].category, item.category} \subseteq touched,
         touched \subseteq Categories, Lit!Changed(el, index, item, touched)
  PROVE  LitInv(highlighter')
  <1> DEFINE h == [highlighter EXCEPT !.items[el][index] = item]
             r == Lit!Rebuild(h, touched)
  <1>1. /\ el \in Fields /\ DOMAIN highlighter = LitNames
        /\ highlighter.items \in [Fields -> Seq(Lit!Item)] /\ highlighter.shown \subseteq Fields
        /\ highlighter.items[el] \in Seq(Lit!Item) /\ index \in 1..Len(highlighter.items[el])
        /\ index \in DOMAIN highlighter.items[el]
    BY DEF LitInv, LitType
  <1>2. /\ DOMAIN h = LitNames
        /\ h.items = [highlighter.items EXCEPT ![el] = [@ EXCEPT ![index] = item]]
        /\ \A n \in LitNames \ {"items"} : h[n] = highlighter[n]
    BY <1>1 DEF LitNames
  <1> HIDE DEF h
  <1>3. /\ h.items \in [Fields -> Seq(Lit!Item)]
        /\ \A f \in Fields \ {el} : h.items[f] = highlighter.items[f]
        /\ h.items[el] = [highlighter.items[el] EXCEPT ![index] = item]
    <2>1. [highlighter.items[el] EXCEPT ![index] = item] \in Seq(Lit!Item)
      BY <1>1
    <2> QED
      BY <1>1, <1>2, <2>1
  <1>4. /\ DOMAIN h.items[el] = DOMAIN highlighter.items[el] /\ Len(h.items[el]) = Len(highlighter.items[el])
        /\ h.items[el][index] = item
        /\ \A i \in DOMAIN h.items[el] \ {index} : h.items[el][i] = highlighter.items[el][i]
    BY <1>1, <1>3
  <1>5. /\ h.shown = highlighter.shown /\ h.focused = highlighter.focused /\ h.hover = highlighter.hover
        /\ h.hoverRange = highlighter.hoverRange /\ h.painted = highlighter.painted
    BY <1>2 DEF LitNames
  <1>6. /\ DOMAIN r = LitNames /\ \A n \in LitNames \ {"painted"} : r[n] = h[n]
        /\ r.painted = {p \in h.painted : p.key[1] \notin touched} \cup Lit!Buckets(h, touched)
    BY <1>2, <1>5 DEF Lit!Rebuild, LitNames
  <1> HIDE DEF r
  <1>7. r.painted = Lit!Buckets(h, Categories)
    <2>1. ASSUME NEW p, p \in r.painted PROVE p \in Lit!Buckets(h, Categories)
      <3>1. CASE p \in Lit!Buckets(h, touched)
        BY <3>1, InBuckets
      <3>2. CASE p \in highlighter.painted /\ p.key[1] \notin touched
        <4>1. PICK f \in highlighter.shown : \E i \in DOMAIN highlighter.items[f] :
                /\ highlighter.items[f][i].category \in Categories /\ highlighter.items[f][i].range # None
                /\ p = LitPaint(highlighter, f, i)
          BY <3>2, InBuckets DEF LitInv
        <4>6. PICK i \in DOMAIN highlighter.items[f] :
                /\ highlighter.items[f][i].category \in Categories /\ highlighter.items[f][i].range # None
                /\ p = LitPaint(highlighter, f, i)
          BY <4>1
        <4>2. p.key[1] = highlighter.items[f][i].category
          BY <4>6 DEF LitPaint
        <4>3. f # el \/ i # index
          BY <3>2, <4>2
        <4>4. i \in DOMAIN h.items[f] /\ h.items[f][i] = highlighter.items[f][i]
          BY <1>1, <1>3, <1>4, <4>6, <4>3
        <4>5. p = LitPaint(h, f, i)
          BY <1>5, <4>6, <4>4 DEF LitPaint
        <4> QED
          BY <1>5, <4>6, <4>4, <4>5, InBuckets
      <3> QED
        BY <1>5, <1>6, <2>1, <3>1, <3>2
    <2>2. ASSUME NEW p, p \in Lit!Buckets(h, Categories) PROVE p \in r.painted
      <3>1. PICK f \in h.shown : \E i \in DOMAIN h.items[f] :
              /\ h.items[f][i].category \in Categories /\ h.items[f][i].range # None
              /\ p = LitPaint(h, f, i)
        BY <2>2, InBuckets
      <3>2. PICK i \in DOMAIN h.items[f] :
              /\ h.items[f][i].category \in Categories /\ h.items[f][i].range # None
              /\ p = LitPaint(h, f, i)
        BY <3>1
      <3>3. p.key[1] = h.items[f][i].category
        BY <3>2 DEF LitPaint
      <3>4. CASE h.items[f][i].category \in touched
        BY <1>6, <3>2, <3>4, InBuckets
      <3>5. CASE h.items[f][i].category \notin touched
        <4>1. f # el \/ i # index
          BY <1>4, <3>5
        <4>2. i \in DOMAIN highlighter.items[f] /\ h.items[f][i] = highlighter.items[f][i]
          BY <1>1, <1>3, <1>4, <1>5, <3>2, <4>1
        <4>3. p = LitPaint(highlighter, f, i)
          BY <1>5, <3>2, <4>2 DEF LitPaint
        <4>4. p \in highlighter.painted
          BY <1>5, <3>2, <4>2, <4>3, InBuckets DEF LitInv
        <4> QED
          BY <1>5, <1>6, <3>3, <3>5, <4>4
      <3> QED
        BY <3>4, <3>5
    <2> QED
      BY <2>1, <2>2
  <1>8. highlighter' = Lit!ApplyHover(IF r.hover = [el |-> el, index |-> index]
                                      THEN Lit!Rehover(r, item.range) ELSE r)
    BY DEF Lit!Changed, h, r
  <1>9. /\ r.items = h.items /\ r.shown = h.shown /\ r.focused = h.focused /\ r.hover = highlighter.hover
        /\ r.hoverRange = highlighter.hoverRange
    BY <1>5, <1>6 DEF LitNames
  <1>10. highlighter.hover \in [el : Fields, index : Nat \ {0}] \cup {Lit!NoHover} /\ Hovers(highlighter)
    BY DEF LitInv, LitType
  <1>11. CASE r.hover = [el |-> el, index |-> index]
    <2>1. /\ DOMAIN highlighter' = LitNames /\ highlighter'.items = h.items /\ highlighter'.shown = h.shown
          /\ highlighter'.focused = h.focused /\ highlighter'.painted = r.painted
          /\ highlighter'.hoverRange = item.range /\ highlighter'.hovered = item.range
          /\ highlighter'.hover = IF item.range = None THEN Lit!NoHover ELSE [el |-> el, index |-> index]
      BY <1>6, <1>8, <1>9, <1>11 DEF Lit!ApplyHover, Lit!Rehover, LitNames
    <2>2. Lit!Buckets(highlighter', Categories) = Lit!Buckets(h, Categories)
      BY <2>1, BucketsOf
    <2>3. Lit!RangeAt(highlighter', el, index) = item.range
      BY <1>1, <1>4, <1>5, <2>1 DEF Lit!RangeAt
    <2>4. [el |-> el, index |-> index] # Lit!NoHover
      BY <1>1 DEF Lit!NoHover
    <2>5. LitType(highlighter')
      BY <1>1, <1>3, <1>5, <2>1 DEF LitType, Lit!NoHover
    <2>6. Hovers(highlighter')
      BY <2>1, <2>3, <2>4 DEF Hovers
    <2> QED
      BY <1>7, <2>1, <2>2, <2>5, <2>6 DEF LitInv
  <1>12. CASE r.hover # [el |-> el, index |-> index]
    <2>1. /\ DOMAIN highlighter' = LitNames /\ highlighter'.items = h.items /\ highlighter'.shown = h.shown
          /\ highlighter'.focused = h.focused /\ highlighter'.painted = r.painted
          /\ highlighter'.hoverRange = highlighter.hoverRange /\ highlighter'.hovered = highlighter.hoverRange
          /\ highlighter'.hover = highlighter.hover
      BY <1>6, <1>8, <1>9, <1>12 DEF Lit!ApplyHover, LitNames
    <2>2. Lit!Buckets(highlighter', Categories) = Lit!Buckets(h, Categories)
      BY <2>1, BucketsOf
    <2>3. ASSUME highlighter.hover # Lit!NoHover
          PROVE Lit!RangeAt(highlighter', highlighter.hover.el, highlighter.hover.index) =
                Lit!RangeAt(highlighter, highlighter.hover.el, highlighter.hover.index)
      <3> DEFINE f == highlighter.hover.el
                 i == highlighter.hover.index
      <3>1. i \in Nat \ {0} /\ f \in Fields /\ (f # el \/ i # index)
        BY <1>9, <1>10, <1>12, <2>3
      <3> HIDE DEF f, i
      <3>2. CASE f # el
        <4>1. f \in highlighter.shown => f \in Fields \ {el}
          BY <1>1, <3>2
        <4> QED
          BY <1>3, <1>5, <2>1, <4>1 DEF Lit!RangeAt, f
      <3>3. CASE f = el
        <4>1. i # index /\ Len(h.items[el]) = Len(highlighter.items[el])
          BY <1>4, <3>1, <3>3
        <4>2. i \in 1..Len(highlighter.items[el]) => h.items[el][i] = highlighter.items[el][i]
          BY <1>1, <1>3, <4>1
        <4> QED
          BY <1>1, <1>5, <2>1, <3>1, <3>3, <4>1, <4>2 DEF Lit!RangeAt, f, i
      <3> QED
        BY <3>2, <3>3
    <2>4. LitType(highlighter')
      BY <1>1, <1>3, <1>5, <1>10, <2>1 DEF LitType
    <2>5. Hovers(highlighter')
      BY <1>10, <2>1, <2>3 DEF Hovers
    <2> QED
      BY <1>7, <2>1, <2>2, <2>4, <2>5 DEF LitInv
  <1> QED
    BY <1>11, <1>12

\* The hovered item has this range now.
LEMMA Rehovers ==
  ASSUME NEW h, DOMAIN h = LitNames, NEW range
  PROVE  LET t == Lit!Rehover(h, range) IN
         /\ DOMAIN t = LitNames /\ t.items = h.items /\ t.shown = h.shown /\ t.focused = h.focused
         /\ t.painted = h.painted /\ t.hovered = h.hovered /\ t.hoverRange = range
         /\ t.hover = IF range = None THEN Lit!NoHover ELSE h.hover
  BY DEF Lit!Rehover, LitNames

\* The items of a field, or the field, are others: the hover goes with them.
LEMMA FieldChanges ==
  ASSUME None \notin Fields, LitInv(highlighter), NEW el \in Fields, NEW h, DOMAIN h = LitNames,
         h.items \in [Fields -> Seq(Lit!Item)], h.shown \subseteq Fields,
         \A f \in Fields \ {el} : h.items[f] = highlighter.items[f] /\
             (f \in h.shown <=> f \in highlighter.shown),
         h.hover = highlighter.hover, h.hoverRange = highlighter.hoverRange, h.painted = highlighter.painted,
         NEW range, range = None \/ range = Lit!RangeAt(h, el, h.hover.index),
         highlighter' = Lit!ApplyHover(Lit!Rebuild(IF h.hover.el = el THEN Lit!Rehover(h, range)
                                                   ELSE h, Categories))
  PROVE  LitInv(highlighter')
  <1> DEFINE g == IF h.hover.el = el THEN Lit!Rehover(h, range) ELSE h
  <1>1. /\ DOMAIN g = LitNames /\ g.items = h.items /\ g.shown = h.shown /\ g.painted = h.painted
        /\ h.hover.el = el =>
             g.hoverRange = range /\ g.hover = IF range = None THEN Lit!NoHover ELSE h.hover
        /\ h.hover.el # el => g.hoverRange = h.hoverRange /\ g.hover = h.hover
    BY Rehovers
  <1> HIDE DEF g
  <1>2. LitType(g)
    BY <1>1 DEF LitInv, LitType
  <1>3. Hovers(g)
    <2>1. CASE h.hover.el = el
      <3>1. range # None => Lit!RangeAt(g, el, h.hover.index) = range
        BY <1>1, RangesOf
      <3>2. h.hover # Lit!NoHover
        BY <2>1 DEF Lit!NoHover
      <3> QED
        BY <1>1, <2>1, <3>1, <3>2 DEF Hovers
    <2>2. CASE h.hover.el # el
      <3>1. h.hover # Lit!NoHover => h.hover.el \in Fields \ {el}
        BY <2>2 DEF LitInv, LitType
      <3>2. h.hover # Lit!NoHover => Lit!RangeAt(g, h.hover.el, h.hover.index) =
                                     Lit!RangeAt(highlighter, h.hover.el, h.hover.index)
        BY <1>1, <3>1, RangesOf
      <3> QED
        BY <1>1, <2>2, <3>2 DEF LitInv, Hovers
    <2> QED
      BY <2>1, <2>2
  <1>4. \A p \in g.painted : p.key[1] \in Categories
    BY <1>1, PaintedHere
  <1> QED
    BY <1>2, <1>3, <1>4, PaintsAll DEF g

\* No step breaks the invariant of the highlighter.
LEMMA LitStep == None \notin Fields /\ LitInv(highlighter) /\ [Lit!Next]_highlighter => LitInv(highlighter)'
  <1> SUFFICES ASSUME None \notin Fields, LitInv(highlighter), [Lit!Next]_highlighter
               PROVE LitInv(highlighter')
    OBVIOUS
  <1>0. /\ DOMAIN highlighter = LitNames /\ highlighter.items \in [Fields -> Seq(Lit!Item)]
        /\ highlighter.shown \subseteq Fields
    BY DEF LitInv, LitType
  <1>1. ASSUME NEW el \in Fields, NEW n \in 0..MaxItems, NEW items \in [1..n -> Lit!Item],
               Lit!SetFieldHighlights(el, items)
        PROVE  LitInv(highlighter')
    <2> DEFINE h == [highlighter EXCEPT !.items[el] = items, !.shown = @ \cup {el}]
    <2>1. /\ DOMAIN h = LitNames /\ h.items = [highlighter.items EXCEPT ![el] = items]
          /\ h.shown = highlighter.shown \cup {el}
          /\ h.hover = highlighter.hover /\ h.hoverRange = highlighter.hoverRange
          /\ h.painted = highlighter.painted
      BY <1>0 DEF LitNames
    <2>2. highlighter' = Lit!ApplyHover(Lit!Rebuild(
            IF h.hover.el = el THEN Lit!Rehover(h, Lit!RangeAt(h, el, h.hover.index)) ELSE h, Categories))
      BY <1>1 DEF Lit!SetFieldHighlights
    <2> HIDE DEF h
    <2>3. items \in Seq(Lit!Item)
      OBVIOUS
    <2>4. h.items \in [Fields -> Seq(Lit!Item)] /\ \A f \in Fields \ {el} : h.items[f] = highlighter.items[f]
      BY <1>0, <2>1, <2>3
    <2> QED
      BY <1>0, <2>1, <2>2, <2>4, FieldChanges
  <1>2. ASSUME NEW el \in Fields \cup {None}, Lit!SetFocusedField(el) PROVE LitInv(highlighter')
    <2> DEFINE h == [highlighter EXCEPT !.focused = el]
    <2>1. /\ DOMAIN h = LitNames /\ h.items = highlighter.items /\ h.shown = highlighter.shown
          /\ h.hover = highlighter.hover /\ h.hoverRange = highlighter.hoverRange
          /\ h.painted = highlighter.painted /\ h.hovered = highlighter.hovered
      BY <1>0 DEF LitNames
    <2>2. highlighter' = Lit!Rebuild(h, Categories)
      BY <1>2 DEF Lit!SetFocusedField
    <2> HIDE DEF h
    <2>3. /\ DOMAIN highlighter' = LitNames /\ \A n \in LitNames \ {"painted"} : highlighter'[n] = h[n]
          /\ highlighter'.painted = Lit!Buckets(h, Categories)
      BY <1>0, <2>1, <2>2, PaintedHere, Rebuilt
    <2>4. /\ highlighter'.items = h.items /\ highlighter'.shown = h.shown /\ highlighter'.focused = h.focused
          /\ highlighter'.hover = h.hover /\ highlighter'.hoverRange = h.hoverRange
          /\ highlighter'.hovered = h.hovered
      BY <2>3 DEF LitNames
    <2>5. Lit!Buckets(highlighter', Categories) = Lit!Buckets(h, Categories)
      BY <2>4, BucketsOf
    <2>6. Lit!RangeAt(highlighter', h.hover.el, h.hover.index) = Lit!RangeAt(highlighter, h.hover.el,
                                                                             h.hover.index)
      BY <2>1, <2>4, RangesOf
    <2> QED
      BY <2>1, <2>3, <2>4, <2>5, <2>6 DEF LitInv, LitType, Hovers
  <1>3. ASSUME NEW pointed, pointed \in [el : Fields, index : Nat \ {0}] \cup {Lit!NoHover}, NEW range,
               range = IF pointed = Lit!NoHover THEN None
                       ELSE Lit!RangeAt(highlighter, pointed.el, pointed.index),
               highlighter' = Lit!ApplyHover([highlighter EXCEPT !.hover = pointed, !.hoverRange = range])
        PROVE  LitInv(highlighter')
    <2>1. /\ DOMAIN highlighter' = LitNames /\ highlighter'.items = highlighter.items
          /\ highlighter'.shown = highlighter.shown /\ highlighter'.focused = highlighter.focused
          /\ highlighter'.hover = pointed /\ highlighter'.hoverRange = range /\ highlighter'.hovered = range
          /\ highlighter'.painted = highlighter.painted
      BY <1>0, <1>3 DEF Lit!ApplyHover, LitNames
    <2>2. Lit!Buckets(highlighter', Categories) = Lit!Buckets(highlighter, Categories)
      BY <2>1, BucketsOf
    <2>3. Lit!RangeAt(highlighter', pointed.el, pointed.index) = Lit!RangeAt(highlighter, pointed.el,
                                                                             pointed.index)
      BY <2>1, RangesOf
    <2> QED
      BY <1>0, <1>3, <2>1, <2>2, <2>3 DEF LitInv, LitType, Hovers
  <1>4. ASSUME NEW el \in Fields, NEW index \in 1..MaxItems, Lit!SetHoverItem(el, index)
        PROVE  LitInv(highlighter')
    <2> DEFINE pointed == [el |-> el, index |-> index]
    <2>1. /\ pointed \in [el : Fields, index : Nat \ {0}] /\ pointed # Lit!NoHover
          /\ pointed.el = el /\ pointed.index = index
      BY DEF Lit!NoHover
    <2>2. highlighter' = Lit!ApplyHover([highlighter EXCEPT !.hover = pointed,
                                           !.hoverRange = Lit!RangeAt(highlighter, el, index)])
      BY <1>4 DEF Lit!SetHoverItem
    <2> HIDE DEF pointed
    <2> QED
      BY <1>3, <2>1, <2>2
  <1>5. CASE Lit!EndHover
    <2>1. Lit!Rehover(highlighter, None) = [highlighter EXCEPT !.hover = Lit!NoHover, !.hoverRange = None]
      BY <1>0 DEF Lit!Rehover, LitNames
    <2>2. highlighter' = Lit!ApplyHover([highlighter EXCEPT !.hover = Lit!NoHover, !.hoverRange = None])
      BY <1>5, <2>1 DEF Lit!EndHover
    <2> QED
      BY <1>3, <2>2
  <1>6. ASSUME NEW el \in Fields, Lit!ClearField(el) PROVE LitInv(highlighter')
    <2> DEFINE h == [highlighter EXCEPT !.items[el] = <<>>, !.shown = @ \ {el},
                                        !.focused = IF @ = el THEN None ELSE @]
    <2>1. /\ DOMAIN h = LitNames /\ h.items = [highlighter.items EXCEPT ![el] = <<>>]
          /\ h.shown = highlighter.shown \ {el}
          /\ h.hover = highlighter.hover /\ h.hoverRange = highlighter.hoverRange
          /\ h.painted = highlighter.painted
      BY <1>0 DEF LitNames
    <2>2. highlighter' = Lit!ApplyHover(Lit!Rebuild(
            IF h.hover.el = el THEN Lit!Rehover(h, None) ELSE h, Categories))
      BY <1>6 DEF Lit!ClearField
    <2> HIDE DEF h
    <2>3. h.items \in [Fields -> Seq(Lit!Item)] /\ \A f \in Fields \ {el} : h.items[f] = highlighter.items[f]
      BY <1>0, <2>1
    <2> QED
      BY <1>0, <2>1, <2>2, <2>3, FieldChanges
  <1>7. ASSUME NEW el \in Fields, NEW index \in 1..MaxItems, NEW item \in Lit!Item,
               Lit!UpdateItem(el, index, item)
        PROVE  LitInv(highlighter')
    <2>1. el \in highlighter.shown /\ index <= Len(highlighter.items[el]) /\ index \in Nat \ {0}
      BY <1>7 DEF Lit!UpdateItem
    <2>2. highlighter.items[el][index] \in Lit!Item
      BY <1>0, <2>1
    <2>3. {highlighter.items[el][index].category, item.category} \subseteq Categories
      BY <2>2 DEF Lit!Item
    <2> QED
      BY <1>7, <2>1, <2>3, ItemChanges DEF Lit!UpdateItem
  <1>8. ASSUME NEW el \in Fields, NEW index \in 1..MaxItems, Lit!ClearItem(el, index)
        PROVE LitInv(highlighter')
    <2> DEFINE item == [highlighter.items[el][index] EXCEPT !.range = None]
    <2>1. el \in highlighter.shown /\ index <= Len(highlighter.items[el]) /\ index \in Nat \ {0}
      BY <1>8 DEF Lit!ClearItem
    <2>2. highlighter.items[el][index] \in Lit!Item
      BY <1>0, <2>1
    <2>3. item \in Lit!Item /\ item.category = highlighter.items[el][index].category /\
          item.category \in Categories
      BY <2>2 DEF Lit!Item
    <2>4. Lit!Changed(el, index, item, {item.category})
      BY <1>8 DEF Lit!ClearItem
    <2> HIDE DEF item
    <2> QED
      BY <2>1, <2>3, <2>4, ItemChanges
  <1>9. CASE Lit!Destroy
    BY <1>9, LitFresh DEF Lit!Destroy
  <1> QED
    BY <1>1, <1>2, <1>4, <1>5, <1>6, <1>7, <1>8, <1>9 DEF Lit!Next

\* It has nothing at first.
LEMMA LitInit == Lit!Init => LitInv(highlighter)
  BY LitFresh DEF Lit!Init

\* What the invariant says of what is painted.
LEMMA LitPaints == LitInv(highlighter) => Lit!PaintedIsCurrent
  BY DEF LitInv, Hovers, Lit!PaintedIsCurrent, Lit!Painted

\* Whatever is rebuilt in part, what is painted is what the items come to, for any
\* number of fields and of items.
THEOREM PaintedIsRight == None \notin Fields /\ Lit!Spec => []Lit!PaintedIsCurrent
  <1> SUFFICES ASSUME None \notin Fields PROVE Lit!Spec => []Lit!PaintedIsCurrent
    OBVIOUS
  <1>1. LitInv(highlighter) /\ [Lit!Next]_highlighter => LitInv(highlighter)'
    BY LitStep
  <1> QED
    BY <1>1, LitInit, LitPaints, PTL DEF Lit!Spec

-----------------------------------------------------------------------------
(* The pill. *)

\* Focus nowhere, in the overlay or elsewhere is in no field, and no pill is None.
PillApart ==
  /\ None \notin Fields \cup {"overlay", "elsewhere"} /\ "overlay" \notin Fields /\ "elsewhere" \notin Fields
  /\ \A f \in Fields, v \in BOOLEAN : None # [of |-> f, visible |-> v]

PillNames ==
  {"mode", "dom", "focus", "last", "pill", "pending", "leaving", "known", "hiding", "drawn", "strayed",
   "seeded", "missed", "flips"}

\* The pill of a field, visible.
PillShown(f) == [of |-> f, visible |-> TRUE]

\* Where the fields are, and what the observer has of them.
PillPlaces(u) ==
  /\ DOMAIN u = PillNames
  /\ u.mode \in {"off", "site-paused", "active"}
  /\ u.focus \in Fields \cup {None, "overlay", "elsewhere"}
  /\ u.pill # None => DOMAIN u.pill = {"of", "visible"} /\ u.pill.of \in Fields
  /\ u.dom \in [Fields -> {"out", "in", "gone"}]
  /\ \A f \in u.pending : f \in Fields /\ u.dom[f] = "in"
  /\ \A f \in u.leaving \cup u.missed : f \in Fields /\ u.dom[f] = "gone"
  /\ u.leaving \subseteq u.known
  /\ \A f \in u.known : f \in Fields /\ (u.dom[f] = "in" \/ f \in u.leaving)
  /\ u.mode # "off" => \A f \in Fields : u.dom[f] = "in" => f \in u.known \cup u.pending
  /\ u.focus \in Fields => u.dom[u.focus] = "in" /\ u.last = u.focus
  /\ u.last \in Fields => u.dom[u.last] # "out"

\* The pill is of the field that was rendered last, which is known; it shows while
\* that has the focus.
ActivePill(u) ==
  u.mode = "active" =>
    /\ ~u.hiding
    /\ u.pill # None => u.pill.of \in u.known
    /\ u.drawn # None => u.pill # None /\ u.pill.of = u.drawn
    /\ u.pill # None /\ u.pill.of = u.focus => u.pill = PillShown(u.focus)
    /\ u.pill # None /\ u.pill.visible /\ u.pill.of \notin u.leaving =>
         u.focus = u.pill.of \/ u.focus = "overlay" \/ u.strayed

\* The pill of a paused site is of a field the observer has, or will be told of.
PausedPill(u) ==
  u.mode = "site-paused" =>
    /\ u.hiding => ~u.seeded
    /\ u.focus \in u.known => u.pill = PillShown(u.focus)
    /\ u.pill # None => u.pill.of \in u.missed \cup u.known \cup u.pending
    /\ u.pill # None /\ u.pill.of \notin u.missed \cup u.leaving =>
         u.hiding \/ u.seeded \/ u.pill.of = u.focus
    /\ u.seeded /\ u.last \in Fields /\ u.focus \notin Fields /\ u.dom[u.last] = "in" =>
         u.pill # None /\ u.pill.of = u.last

\* The pill is where the mode wants it.
PillInv(u) == PillPlaces(u) /\ ActivePill(u) /\ PausedPill(u)

\* A mode that has just been entered.
LEMMA PillMounted ==
  ASSUME PillApart, NEW u, DOMAIN u = PillNames, u.dom \in [Fields -> {"out", "in", "gone"}],
         u.focus \in Fields \cup {None, "overlay", "elsewhere"},
         u.focus \in Fields => u.dom[u.focus] = "in" /\ u.last = u.focus,
         u.last \in Fields => u.dom[u.last] # "out",
         NEW mode \in {"off", "site-paused", "active"}
  PROVE  PillInv(Pill!Reconciled(u, mode))
  <1> DEFINE m == Pill!Mounted(u, mode)
             t == Pill!Reconciled(u, mode)
  <1>1. /\ DOMAIN m = PillNames /\ m.mode = mode /\ m.pill = None /\ m.known = {} /\ m.leaving = {}
        /\ m.hiding = FALSE /\ m.drawn = None /\ m.strayed = FALSE /\ m.seeded = TRUE /\ m.missed = {}
        /\ m.pending = IF mode = "off" THEN {} ELSE {f \in Fields : u.dom[f] = "in"}
        /\ m.dom = u.dom /\ m.focus = u.focus /\ m.last = u.last
    BY DEF Pill!Mounted, Pill!There, PillNames
  <1>2. CASE mode # "site-paused"
    <2>1. t = m
      BY <1>2 DEF Pill!Reconciled
    <2> HIDE DEF m, t
    <2>2. PillInv(t)
      BY <1>1, <1>2, <2>1 DEF PillInv, PillPlaces, ActivePill, PausedPill
    <2> QED
      BY <2>2 DEF t
  <1>3. CASE mode = "site-paused"
    <2>1. t = IF m.last \in Pill!There(m) THEN [m EXCEPT !.pill = PillShown(m.last)] ELSE m
      BY <1>3 DEF Pill!Reconciled, Pill!Paused, Pill!Offered, PillShown
    <2> HIDE DEF m, t
    <2>2. m.last \in Pill!There(m) <=> u.last \in Fields /\ u.dom[u.last] = "in"
      BY <1>1 DEF Pill!There
    <2>3. /\ DOMAIN t = PillNames /\ t.mode = mode /\ t.known = {} /\ t.leaving = {}
          /\ t.hiding = FALSE /\ t.drawn = None /\ t.strayed = FALSE /\ t.seeded = TRUE /\ t.missed = {}
          /\ t.pending = {f \in Fields : u.dom[f] = "in"}
          /\ t.dom = u.dom /\ t.focus = u.focus /\ t.last = u.last
          /\ t.pill = IF u.last \in Fields /\ u.dom[u.last] = "in" THEN PillShown(u.last) ELSE None
      BY <1>1, <1>3, <2>1, <2>2 DEF PillNames
    <2>4. ASSUME NEW f \in Fields PROVE PillShown(f) # None /\ PillShown(f).of = f
      BY DEF PillShown, PillApart
    <2>5. PillPlaces(t)
      BY <1>3, <2>3 DEF PillPlaces, PillShown
    <2>6. PausedPill(t)
      BY <2>3, <2>4 DEF PausedPill
    <2>7. PillInv(t)
      BY <1>3, <2>3, <2>5, <2>6 DEF PillInv, ActivePill
    <2> QED
      BY <2>7 DEF t
  <1> QED
    BY <1>2, <1>3

\* At first no field is known and there is no pill.
LEMMA PillInit == PillApart /\ Pill!Init => PillInv(ui)
  <1> SUFFICES ASSUME PillApart, Pill!Init PROVE PillInv(ui)
    OBVIOUS
  <1>1. PICK dom \in [Fields -> {"out", "in"}], mode \in Pill!Modes :
          ui = Pill!Mounted([mode |-> mode, dom |-> dom, focus |-> None, last |-> None, pill |-> None,
                  pending |-> {}, leaving |-> {}, known |-> {}, hiding |-> FALSE,
                  drawn |-> None, strayed |-> FALSE, seeded |-> TRUE, missed |-> {},
                  flips |-> 0], mode)
    BY DEF Pill!Init
  <1> DEFINE u == [mode |-> mode, dom |-> dom, focus |-> None, last |-> None, pill |-> None,
                  pending |-> {}, leaving |-> {}, known |-> {}, hiding |-> FALSE,
                  drawn |-> None, strayed |-> FALSE, seeded |-> TRUE, missed |-> {},
                  flips |-> 0]
  <1>2. /\ DOMAIN u = PillNames /\ u.dom = dom /\ u.focus = None /\ u.last = None
    BY DEF PillNames
  <1>3. mode = "site-paused" => Pill!Mounted(u, mode).last = None
    BY DEF Pill!Mounted
  <1>4. Pill!Reconciled(u, mode) = Pill!Mounted(u, mode)
    BY <1>3 DEF Pill!Reconciled, Pill!Paused, Pill!There, PillApart
  <1>5. PillInv(Pill!Reconciled(u, mode))
    <2> HIDE DEF u
    <2> QED
      BY <1>2, PillMounted DEF Pill!Modes, PillApart
  <1> QED
    BY <1>1, <1>4, <1>5

\* What showing or hiding the pill of a field comes to.
LEMMA ShowsPill ==
  ASSUME NEW u, DOMAIN u = PillNames, NEW f, NEW v,
         u.pill # None => DOMAIN u.pill = {"of", "visible"}
  PROVE  LET t == Pill!Shows(u, f, v) IN
         /\ DOMAIN t = PillNames /\ \A n \in PillNames \ {"pill"} : t[n] = u[n]
         /\ t.pill = IF u.pill # None /\ u.pill.of = f THEN [of |-> f, visible |-> v] ELSE u.pill
  <1>1. CASE u.pill # None /\ u.pill.of = f
    <2>1. [u.pill EXCEPT !.visible = v] = [of |-> f, visible |-> v]
      BY <1>1
    <2> QED
      BY <1>1, <2>1 DEF Pill!Shows, PillNames
  <1>2. CASE ~(u.pill # None /\ u.pill.of = f)
    BY <1>2 DEF Pill!Shows
  <1> QED
    BY <1>1, <1>2

\* Losing the focus, or what has it, to something else or to nothing.
LEMMA LosesFocus ==
  ASSUME PillApart, PillInv(ui), NEW to
  PROVE  LET t == Pill!FocusOut(Pill!Strays(ui, to), to) IN
         /\ DOMAIN t = PillNames
         /\ \A n \in PillNames \ {"pill", "strayed", "hiding", "seeded"} : t[n] = ui[n]
         /\ ui.mode = "active" =>
              /\ t.hiding = ui.hiding
              /\ t.strayed <=> IF ui.pill = None THEN ui.strayed
                               ELSE to # ui.pill.of /\ (ui.strayed \/
                                                        (ui.focus = "overlay" /\ ui.pill.visible))
              /\ t.pill = IF ui.focus \in ui.known /\ to # "overlay" /\ ui.pill # None /\
                 ui.pill.of = ui.focus
                          THEN [of |-> ui.focus, visible |-> FALSE] ELSE ui.pill
         /\ ui.mode = "site-paused" =>
              /\ t.pill = ui.pill
              /\ t.hiding <=> ui.hiding \/ ui.focus # None
              /\ t.seeded <=> ui.seeded /\ ui.focus = None
  <1> DEFINE s == Pill!Strays(ui, to)
             t == Pill!FocusOut(s, to)
  <1>0. DOMAIN ui = PillNames
    BY DEF PillInv, PillPlaces
  <1>1. /\ DOMAIN s = PillNames /\ \A n \in PillNames \ {"strayed"} : s[n] = ui[n]
        /\ ui.mode = "active" =>
             (s.strayed <=> IF ui.pill = None THEN ui.strayed
                            ELSE to # ui.pill.of /\ (ui.strayed \/ (ui.focus = "overlay" /\ ui.pill.visible)))
    BY <1>0 DEF Pill!Strays, PillNames
  <1> HIDE DEF s
  <1>2. /\ s.mode = ui.mode /\ s.focus = ui.focus /\ s.known = ui.known /\ s.pill = ui.pill
        /\ s.hiding = ui.hiding /\ s.seeded = ui.seeded
    BY <1>1 DEF PillNames
  <1>3. CASE ui.mode = "active" /\ ui.focus \in ui.known /\ to # "overlay"
    <2>1. t = Pill!Shows(s, ui.focus, FALSE)
      BY <1>2, <1>3 DEF Pill!FocusOut
    <2>2. /\ DOMAIN t = PillNames /\ \A n \in PillNames \ {"pill"} : t[n] = s[n]
          /\ t.pill = IF s.pill # None /\ s.pill.of = ui.focus THEN [of |-> ui.focus, visible |-> FALSE]
                      ELSE s.pill
      <3>1. s.pill # None => DOMAIN s.pill = {"of", "visible"}
        BY <1>2 DEF PillInv, PillPlaces
      <3> DEFINE k == Pill!Shows(s, ui.focus, FALSE)
      <3>2. /\ DOMAIN k = PillNames /\ \A n \in PillNames \ {"pill"} : k[n] = s[n]
            /\ k.pill = IF s.pill # None /\ s.pill.of = ui.focus THEN [of |-> ui.focus, visible |-> FALSE]
                        ELSE s.pill
        <4>1. ASSUME NEW v
              PROVE  /\ DOMAIN Pill!Shows(s, ui.focus, v) = PillNames
                     /\ \A n \in PillNames \ {"pill"} : Pill!Shows(s, ui.focus, v)[n] = s[n]
                     /\ Pill!Shows(s, ui.focus, v).pill =
                          IF s.pill # None /\ s.pill.of = ui.focus THEN [of |-> ui.focus, visible |-> v]
                          ELSE s.pill
          BY <1>1, <3>1, ShowsPill
        <4> QED
          BY <4>1, Zenon
      <3> HIDE DEF k
      <3> QED
        BY <2>1, <3>2 DEF k
    <2> HIDE DEF t
    <2>3. t.hiding = ui.hiding /\ t.strayed = s.strayed
      BY <1>2, <2>2 DEF PillNames
    <2>4. \A n \in PillNames \ {"pill", "strayed", "hiding", "seeded"} : t[n] = ui[n]
      BY <1>1, <2>2
    <2> QED
      BY <1>1, <1>2, <1>3, <2>2, <2>3, <2>4 DEF t, s
  <1>4. CASE ui.mode = "site-paused" /\ ui.focus # None
    <2>1. t = [s EXCEPT !.hiding = TRUE, !.seeded = FALSE]
      BY <1>2, <1>4 DEF Pill!FocusOut
    <2>2. /\ DOMAIN t = PillNames /\ t.hiding = TRUE /\ t.seeded = FALSE /\ t.pill = ui.pill
          /\ \A n \in PillNames \ {"hiding", "seeded"} : t[n] = s[n]
      BY <1>1, <1>2, <2>1 DEF PillNames
    <2> HIDE DEF t
    <2>3. \A n \in PillNames \ {"pill", "strayed", "hiding", "seeded"} : t[n] = ui[n]
      BY <1>1, <2>2
    <2> QED
      BY <1>4, <2>2, <2>3 DEF t, s
  <1>5. CASE ~(ui.mode = "active" /\ ui.focus \in ui.known /\ to # "overlay")
             /\ ~(ui.mode = "site-paused" /\ ui.focus # None)
    <2>1. t = s
      BY <1>2, <1>5 DEF Pill!FocusOut
    <2>2. \A n \in PillNames \ {"pill", "strayed", "hiding", "seeded"} : s[n] = ui[n]
      BY <1>1
    <2> HIDE DEF t
    <2> QED
      BY <1>1, <1>2, <1>5, <2>1, <2>2 DEF t, s
  <1> QED
    BY <1>3, <1>4, <1>5

\* And what then gains it.
LEMMA GainsFocus ==
  ASSUME PillApart, PillInv(ui), NEW to, NEW o, DOMAIN o = PillNames, o.mode = ui.mode, o.known = ui.known,
         o.pill # None => DOMAIN o.pill = {"of", "visible"}
  PROVE  LET t == Pill!FocusIn(Pill!Tracked(o, to), to) IN
         /\ DOMAIN t = PillNames /\ t.focus = to /\ t.last = IF to \in Fields THEN to ELSE o.last
         /\ \A n \in PillNames \ {"pill", "focus", "last"} : t[n] = o[n]
         /\ ui.mode = "active" =>
              t.pill = IF to \in ui.known /\ o.pill # None /\ o.pill.of = to THEN PillShown(to) ELSE o.pill
         /\ ui.mode = "site-paused" => t.pill = IF to \in ui.known THEN PillShown(to) ELSE o.pill
         /\ ui.mode = "off" => t.pill = o.pill
  <1> DEFINE k == Pill!Tracked(o, to)
             t == Pill!FocusIn(k, to)
  <1>1. /\ DOMAIN k = PillNames /\ k.focus = to /\ k.last = IF to \in Fields THEN to ELSE o.last
        /\ \A n \in PillNames \ {"focus", "last"} : k[n] = o[n]
    BY DEF Pill!Tracked, PillNames
  <1> HIDE DEF k
  <1>2. k.mode = ui.mode /\ k.known = ui.known /\ k.pill = o.pill
    BY <1>1 DEF PillNames
  <1>3. CASE ui.mode = "active" /\ to \in ui.known
    <2>1. t = Pill!Shows(k, to, TRUE)
      BY <1>2, <1>3 DEF Pill!FocusIn
    <2>2. /\ DOMAIN Pill!Shows(k, to, TRUE) = PillNames
          /\ \A n \in PillNames \ {"pill"} : Pill!Shows(k, to, TRUE)[n] = k[n]
          /\ Pill!Shows(k, to, TRUE).pill =
               IF k.pill # None /\ k.pill.of = to THEN [of |-> to, visible |-> TRUE] ELSE k.pill
      <3>1. ASSUME NEW v
            PROVE  /\ DOMAIN Pill!Shows(k, to, v) = PillNames
                   /\ \A n \in PillNames \ {"pill"} : Pill!Shows(k, to, v)[n] = k[n]
                   /\ Pill!Shows(k, to, v).pill =
                        IF k.pill # None /\ k.pill.of = to THEN [of |-> to, visible |-> v] ELSE k.pill
        BY <1>1, <1>2, ShowsPill
      <3> QED
        BY <3>1, Zenon
    <2> HIDE DEF t
    <2>3. t.focus = to /\ t.last = k.last
      BY <1>1, <2>1, <2>2 DEF PillNames
    <2>4. \A n \in PillNames \ {"pill", "focus", "last"} : t[n] = o[n]
      BY <1>1, <2>1, <2>2
    <2>5. t.pill = IF k.pill # None /\ k.pill.of = to THEN PillShown(to) ELSE k.pill
      BY <2>1, <2>2, Zenon DEF PillShown
    <2> QED
      BY <1>1, <1>2, <1>3, <2>1, <2>2, <2>3, <2>4, <2>5 DEF t, k
  <1>4. CASE ui.mode = "site-paused" /\ to \in ui.known
    <2>1. t = [k EXCEPT !.pill = PillShown(to)]
      BY <1>2, <1>4 DEF Pill!FocusIn, Pill!Offered, PillShown
    <2> HIDE DEF t
    <2>2. DOMAIN t = PillNames /\ t.pill = PillShown(to) /\ \A n \in PillNames \ {"pill"} : t[n] = k[n]
      BY <1>1, <2>1 DEF PillNames
    <2>3. t.focus = to /\ t.last = k.last
      BY <1>1, <2>2 DEF PillNames
    <2>4. \A n \in PillNames \ {"pill", "focus", "last"} : t[n] = o[n]
      BY <1>1, <2>2
    <2> QED
      BY <1>1, <1>2, <1>4, <2>2, <2>3, <2>4 DEF t, k
  <1>5. CASE ~(ui.mode = "active" /\ to \in ui.known) /\ ~(ui.mode = "site-paused" /\ to \in ui.known)
    <2>1. t = k
      BY <1>2, <1>5 DEF Pill!FocusIn
    <2>4. \A n \in PillNames \ {"pill", "focus", "last"} : k[n] = o[n]
      BY <1>1
    <2> HIDE DEF t
    <2> QED
      BY <1>1, <1>2, <1>5, <2>1, <2>4 DEF t, k
  <1> QED
    BY <1>3, <1>4, <1>5

\* The focus moves, out of one place and into another.
LEMMA PillFocuses ==
  ASSUME PillApart, PillInv(ui), Pill!Focuses
  PROVE  PillInv(ui')
  <1>1. PICK to : /\ to \in Fields => ui.dom[to] = "in"
                  /\ to \in Fields \cup {None, "elsewhere", "overlay"} /\ to # ui.focus
                  /\ ui' = Pill!FocusIn(Pill!Tracked(Pill!FocusOut(Pill!Strays(ui, to), to), to), to)
    BY DEF Pill!Focuses, Pill!There, PillApart
  <1> DEFINE o == Pill!FocusOut(Pill!Strays(ui, to), to)
  <1>2. /\ DOMAIN o = PillNames
        /\ \A n \in PillNames \ {"pill", "strayed", "hiding", "seeded"} : o[n] = ui[n]
        /\ ui.mode = "active" =>
             /\ o.hiding = ui.hiding
             /\ o.strayed <=> IF ui.pill = None THEN ui.strayed
                              ELSE to # ui.pill.of /\ (ui.strayed \/
                                                       (ui.focus = "overlay" /\ ui.pill.visible))
             /\ o.pill = IF ui.focus \in ui.known /\ to # "overlay" /\ ui.pill # None /\ ui.pill.of = ui.focus
                         THEN [of |-> ui.focus, visible |-> FALSE] ELSE ui.pill
        /\ ui.mode = "site-paused" =>
             /\ o.pill = ui.pill
             /\ o.hiding <=> ui.hiding \/ ui.focus # None
             /\ o.seeded <=> ui.seeded /\ ui.focus = None
    BY LosesFocus
  <1>3. ui.mode = "off" => o.pill = ui.pill
    <2>1. ASSUME ui.mode = "off" PROVE o = Pill!Strays(ui, to) /\ Pill!Strays(ui, to) = ui
      BY <2>1 DEF Pill!FocusOut, Pill!Strays
    <2> QED
      BY <2>1
  <1> HIDE DEF o
  <1>4. /\ o.mode = ui.mode /\ o.known = ui.known /\ o.dom = ui.dom /\ o.last = ui.last
        /\ o.pending = ui.pending /\ o.leaving = ui.leaving /\ o.missed = ui.missed /\ o.drawn = ui.drawn
    BY <1>2 DEF PillNames
  <1>5. o.pill # None => DOMAIN o.pill = {"of", "visible"} /\ o.pill.of \in Fields
    <2>1. ui.mode \in {"off", "active", "site-paused"}
      BY DEF PillInv, PillPlaces
    <2>2. CASE ui.mode = "active" /\ ui.focus \in ui.known /\ to # "overlay" /\ ui.pill # None /\
               ui.pill.of = ui.focus
      <3>1. o.pill = [of |-> ui.focus, visible |-> FALSE] /\ ui.focus \in Fields
        BY <1>2, <2>2 DEF PillInv, PillPlaces
      <3> QED
        BY <3>1
    <2>3. CASE ~(ui.mode = "active" /\ ui.focus \in ui.known /\ to # "overlay" /\ ui.pill # None /\
                 ui.pill.of = ui.focus)
      <3>1. o.pill = ui.pill
        BY <1>2, <1>3, <2>1, <2>3
      <3> QED
        BY <3>1 DEF PillInv, PillPlaces
    <2> QED
      BY <2>2, <2>3
  <1>6. /\ DOMAIN ui' = PillNames /\ ui'.focus = to /\ ui'.last = IF to \in Fields THEN to ELSE ui.last
        /\ \A n \in PillNames \ {"pill", "focus", "last"} : ui'[n] = o[n]
        /\ ui.mode = "active" =>
             ui'.pill = IF to \in ui.known /\ o.pill # None /\ o.pill.of = to THEN PillShown(to) ELSE o.pill
        /\ ui.mode = "site-paused" => ui'.pill = IF to \in ui.known THEN PillShown(to) ELSE o.pill
        /\ ui.mode = "off" => ui'.pill = o.pill
    <2>1. ui' = Pill!FocusIn(Pill!Tracked(o, to), to)
      BY <1>1 DEF o
    <2> QED
      BY <1>2, <1>4, <1>5, <2>1, GainsFocus
  <1>7. /\ ui'.mode = ui.mode /\ ui'.known = ui.known /\ ui'.dom = ui.dom
        /\ ui'.pending = ui.pending /\ ui'.leaving = ui.leaving /\ ui'.missed = ui.missed /\
           ui'.drawn = ui.drawn
        /\ ui'.strayed = o.strayed /\ ui'.hiding = o.hiding /\ ui'.seeded = o.seeded
    BY <1>4, <1>6 DEF PillNames
  <1>8. \A f : DOMAIN PillShown(f) = {"of", "visible"} /\ PillShown(f).of = f /\ PillShown(f).visible
    BY DEF PillShown
  <1>9. ui'.pill # None => DOMAIN ui'.pill = {"of", "visible"} /\ ui'.pill.of \in Fields
    BY <1>5, <1>6, <1>8 DEF PillInv, PillPlaces
  <1>10. PillPlaces(ui')
    BY <1>1, <1>6, <1>7, <1>9 DEF PillInv, PillPlaces
  <1>11. ASSUME ui.mode = "active" PROVE ActivePill(ui')
    <2>1. /\ ~ui.hiding
          /\ ui.pill # None => ui.pill.of \in ui.known /\ ui.pill.of \in Fields
          /\ ui.drawn # None => ui.pill # None /\ ui.pill.of = ui.drawn
          /\ ui.pill # None /\ ui.pill.visible /\ ui.pill.of \notin ui.leaving =>
               ui.focus = ui.pill.of \/ ui.focus = "overlay" \/ ui.strayed
      BY <1>11 DEF PillInv, PillPlaces, ActivePill
    <2>2. o.pill # None <=> ui.pill # None
      <3>1. CASE ui.focus \in ui.known /\ to # "overlay" /\ ui.pill # None /\ ui.pill.of = ui.focus
        <4>1. ui.focus \in Fields
          BY <2>1, <3>1
        <4>2. [of |-> ui.focus, visible |-> FALSE] # None
          BY <4>1, Zenon DEF PillApart
        <4> QED
          BY <1>2, <1>11, <3>1, <4>2
      <3> QED
        BY <1>2, <1>11, <3>1
    <2>3. o.pill # None => o.pill.of = ui.pill.of
      <3>1. CASE ui.focus \in ui.known /\ to # "overlay" /\ ui.pill # None /\ ui.pill.of = ui.focus
        <4>1. o.pill = [of |-> ui.focus, visible |-> FALSE]
          BY <1>2, <1>11, <3>1
        <4> QED
          BY <3>1, <4>1
      <3> QED
        BY <1>2, <1>11, <3>1
    <2>4. o.pill # None /\ o.pill.visible =>
            o.pill = ui.pill /\ (ui.pill.of = ui.focus => to = "overlay")
      <3>1. CASE ui.focus \in ui.known /\ to # "overlay" /\ ui.pill # None /\ ui.pill.of = ui.focus
        <4>1. o.pill = [of |-> ui.focus, visible |-> FALSE]
          BY <1>2, <1>11, <3>1
        <4> QED
          BY <4>1
      <3>2. CASE ~(ui.focus \in ui.known /\ to # "overlay" /\ ui.pill # None /\ ui.pill.of = ui.focus)
        <4>1. o.pill = ui.pill
          BY <1>2, <1>11, <3>2
        <4> QED
          BY <2>1, <3>2, <4>1
      <3> QED
        BY <3>1, <3>2
    <2>5. CASE to \in ui.known /\ o.pill # None /\ o.pill.of = to
      <3>1. ui'.pill = PillShown(to)
        BY <1>6, <1>11, <2>5
      <3>2. ~ui'.hiding /\ ui'.focus = to /\ ui'.pill.of = to /\ to \in ui'.known
        BY <1>2, <1>6, <1>7, <1>8, <1>11, <2>1, <2>5, <3>1
      <3>3. ui'.drawn # None => ui'.drawn = to /\ ui'.pill # None
        <4>1. to \in Fields
          BY <2>5 DEF PillInv, PillPlaces
        <4>2. PillShown(to) # None
          BY <4>1 DEF PillApart, PillShown
        <4> QED
          BY <1>7, <2>1, <2>3, <2>5, <3>1, <4>2
      <3> QED
        BY <3>1, <3>2, <3>3 DEF ActivePill
    <2>6. CASE ~(to \in ui.known /\ o.pill # None /\ o.pill.of = to)
      <3>1. ui'.pill = o.pill
        BY <1>6, <1>11, <2>6
      <3>2. o.pill # None => o.pill.of # to
        BY <2>1, <2>2, <2>3, <2>6
      <3>3. ui'.pill # None /\ ui'.pill.visible /\ ui'.pill.of \notin ui'.leaving =>
              ui'.focus = "overlay" \/ ui'.strayed
        BY <1>2, <1>6, <1>7, <1>11, <2>1, <2>2, <2>3, <2>4, <3>1, <3>2
      <3> QED
        BY <1>2, <1>6, <1>7, <1>11, <2>1, <2>2, <2>3, <3>1, <3>2, <3>3 DEF ActivePill
    <2> QED
      BY <2>5, <2>6
  <1>12. ASSUME ui.mode = "site-paused" PROVE PausedPill(ui')
    <2>1. /\ ui.hiding => ~ui.seeded
          /\ ui.focus \in ui.known => ui.pill = PillShown(ui.focus)
          /\ ui.pill # None => ui.pill.of \in ui.missed \cup ui.known \cup ui.pending
          /\ ui.pill # None /\ ui.pill.of \notin ui.missed \cup ui.leaving =>
               ui.hiding \/ ui.seeded \/ ui.pill.of = ui.focus
          /\ ui.seeded /\ ui.last \in Fields /\ ui.focus \notin Fields /\ ui.dom[ui.last] = "in" =>
               ui.pill # None /\ ui.pill.of = ui.last
      BY <1>12 DEF PillInv, PausedPill
    <2>2. ui.pill # None => ui.pill.of # None
      BY DEF PillInv, PillPlaces, PillApart
    <2>3. CASE to \in ui.known
      <3>1. ui'.pill = PillShown(to) /\ to \in Fields
        BY <1>6, <1>12, <2>3 DEF PillInv, PillPlaces
      <3> QED
        BY <1>2, <1>6, <1>7, <1>8, <1>12, <2>1, <2>3, <3>1 DEF PausedPill
    <2>4. CASE to \notin ui.known
      <3>1. ui'.pill = ui.pill
        BY <1>2, <1>6, <1>12, <2>4
      <3> QED
        BY <1>2, <1>6, <1>7, <1>12, <2>1, <2>2, <2>4, <3>1 DEF PausedPill, PillApart
    <2> QED
      BY <2>3, <2>4
  <1> QED
    BY <1>7, <1>10, <1>11, <1>12 DEF PillInv, ActivePill, PausedPill

\* The suggestions of a field are drawn.
LEMMA PillRenders ==
  ASSUME PillApart, PillInv(ui), NEW f \in Fields, Pill!Renders(f)
  PROVE  PillInv(ui')
  <1>1. ui.mode = "active" /\ f \in ui.known /\ ui' = Pill!Rendered(ui, f) /\ DOMAIN ui = PillNames
    BY DEF Pill!Renders, PillInv, PillPlaces
  <1>2. CASE ui.pill # None /\ ui.pill.of = f
    <2>1. DOMAIN ui' = PillNames /\ ui'.drawn = f /\ \A n \in PillNames \ {"drawn"} : ui'[n] = ui[n]
      BY <1>1, <1>2 DEF Pill!Rendered, PillNames
    <2>2. /\ ui'.mode = ui.mode /\ ui'.known = ui.known /\ ui'.dom = ui.dom /\ ui'.pending = ui.pending
          /\ ui'.leaving = ui.leaving /\ ui'.missed = ui.missed /\ ui'.strayed = ui.strayed
          /\ ui'.hiding = ui.hiding /\ ui'.seeded = ui.seeded /\ ui'.pill = ui.pill
          /\ ui'.focus = ui.focus /\ ui'.last = ui.last
      BY <2>1 DEF PillNames
    <2>3. PillPlaces(ui')
      BY <2>1, <2>2 DEF PillInv, PillPlaces
    <2>4. ActivePill(ui')
      BY <1>1, <1>2, <2>1, <2>2 DEF PillInv, ActivePill
    <2> QED
      BY <1>1, <2>2, <2>3, <2>4 DEF PillInv, PausedPill
  <1>3. CASE ~(ui.pill # None /\ ui.pill.of = f)
    <2> DEFINE v == ui.focus = f
    <2>1. ui' = [ui EXCEPT !.drawn = f, !.pill = [of |-> f, visible |-> v], !.strayed = FALSE]
      BY <1>1, <1>3 DEF Pill!Rendered
    <2>2. /\ DOMAIN ui' = PillNames /\ ui'.drawn = f /\ ~ui'.strayed
          /\ \A n \in PillNames \ {"drawn", "pill", "strayed"} : ui'[n] = ui[n]
      <3> HIDE DEF v
      <3> QED
        BY <1>1, <2>1 DEF PillNames
    <2>3. ui'.pill = [of |-> f, visible |-> v]
      <3> HIDE DEF v
      <3> QED
        BY <1>1, <2>1 DEF PillNames
    <2>4. /\ ui'.mode = ui.mode /\ ui'.known = ui.known /\ ui'.dom = ui.dom /\ ui'.pending = ui.pending
          /\ ui'.leaving = ui.leaving /\ ui'.missed = ui.missed
          /\ ui'.hiding = ui.hiding /\ ui'.seeded = ui.seeded
          /\ ui'.focus = ui.focus /\ ui'.last = ui.last
      BY <2>2 DEF PillNames
    <2>5. ui'.pill.of = f /\ DOMAIN ui'.pill = {"of", "visible"} /\ ui'.pill # None /\ ui'.pill.visible = v
      <3>0. v \in BOOLEAN
        OBVIOUS
      <3> HIDE DEF v
      <3>1. [of |-> f, visible |-> v] # None
        BY <1>1, <3>0 DEF PillApart, PillInv, PillPlaces
      <3> QED
        BY <2>3, <3>1
    <2>6. ui.focus = f => ui'.pill = PillShown(f)
      BY <2>3, Zenon DEF PillShown
    <2>7. ui'.pill.visible <=> ui.focus = f
      BY <2>5, Zenon
    <2>8. PillPlaces(ui')
      BY <2>2, <2>4, <2>5 DEF PillInv, PillPlaces
    <2>9. ActivePill(ui')
      BY <1>1, <2>2, <2>4, <2>5, <2>6, <2>7 DEF PillInv, ActivePill
    <2> QED
      BY <1>1, <2>4, <2>8, <2>9 DEF PillInv, PausedPill
  <1> QED
    BY <1>2, <1>3

\* A field comes to be in the page.
LEMMA PillComes ==
  ASSUME PillApart, PillInv(ui), NEW f \in Fields, Pill!Comes(f)
  PROVE  PillInv(ui')
  <1>1. /\ ui.dom[f] = "out" /\ DOMAIN ui' = PillNames
        /\ ui'.dom = [ui.dom EXCEPT ![f] = "in"]
        /\ ui'.pending = IF ui.mode = "off" THEN ui.pending ELSE ui.pending \cup {f}
        /\ \A n \in PillNames \ {"dom", "pending"} : ui'[n] = ui[n]
    BY DEF Pill!Comes, PillInv, PillPlaces, PillNames
  <1>2. /\ ui'.mode = ui.mode /\ ui'.known = ui.known /\ ui'.pill = ui.pill
        /\ ui'.leaving = ui.leaving /\ ui'.missed = ui.missed /\ ui'.strayed = ui.strayed
        /\ ui'.hiding = ui.hiding /\ ui'.seeded = ui.seeded /\ ui'.drawn = ui.drawn
        /\ ui'.focus = ui.focus /\ ui'.last = ui.last
    BY <1>1 DEF PillNames
  <1>3. /\ ui'.dom \in [Fields -> {"out", "in", "gone"}] /\ ui'.dom[f] = "in"
        /\ \A g \in Fields \ {f} : ui'.dom[g] = ui.dom[g]
    BY <1>1 DEF PillInv, PillPlaces
  <1>4. PillPlaces(ui')
    BY <1>1, <1>2, <1>3 DEF PillInv, PillPlaces
  <1>5. ActivePill(ui')
    BY <1>2 DEF PillInv, ActivePill
  <1>6. PausedPill(ui')
    <2>1. ui.last # f
      BY <1>1 DEF PillInv, PillPlaces
    <2> QED
      BY <1>1, <1>2, <1>3, <2>1 DEF PillInv, PausedPill
  <1> QED
    BY <1>4, <1>5, <1>6 DEF PillInv

\* A field goes from the page, and the focus with it, at once or later.
LEMMA PillLeaves ==
  ASSUME PillApart, PillInv(ui), NEW f \in Fields, Pill!Leaves(f)
  PROVE  PillInv(ui')
  <1>1. PICK blurred : /\ blurred = ui \/
                          (ui.focus = f /\ blurred = Pill!FocusOut(Pill!Strays(ui, None), None))
                       /\ ui.dom[f] = "in"
                       /\ ui' = [blurred EXCEPT
                              !.dom[f] = "gone", !.pending = @ \ {f},
                              !.leaving = IF f \in ui.known THEN @ \cup {f} ELSE @,
                              !.missed = IF f \in ui.known \/ ui.mode = "off" THEN @ ELSE @ \cup {f},
                              !.focus = IF @ = f THEN None ELSE @]
    BY DEF Pill!Leaves
  <1>0. DOMAIN ui = PillNames
    BY DEF PillInv, PillPlaces
  <1>2. /\ DOMAIN blurred = PillNames
        /\ \A n \in PillNames \ {"pill", "strayed", "hiding", "seeded"} : blurred[n] = ui[n]
    BY <1>0, <1>1, LosesFocus
  <1>3. ui.mode = "active" =>
          /\ blurred.hiding = ui.hiding
          /\ ui.focus # f => (blurred.strayed <=> ui.strayed) /\ blurred.pill = ui.pill
          /\ ui.focus = f =>
               /\ ui.pill # None /\ ui.strayed => blurred.strayed
               /\ blurred.pill = ui.pill \/ (f \in ui.known /\ ui.pill # None /\ ui.pill.of = f /\
                                           blurred.pill = [of |-> f, visible |-> FALSE])
    <2>1. CASE blurred = ui
      BY <2>1
    <2>2. CASE ui.focus = f /\ blurred = Pill!FocusOut(Pill!Strays(ui, None), None)
      <3>1. ui.mode = "active" =>
              /\ blurred.hiding = ui.hiding
              /\ blurred.strayed <=> IF ui.pill = None THEN ui.strayed
                               ELSE None # ui.pill.of /\ (ui.strayed \/
                                                          (ui.focus = "overlay" /\ ui.pill.visible))
              /\ blurred.pill = IF ui.focus \in ui.known /\ None # "overlay" /\ ui.pill # None /\
                 ui.pill.of = ui.focus
                          THEN [of |-> ui.focus, visible |-> FALSE] ELSE ui.pill
        BY <2>2, LosesFocus
      <3>2. ui.pill # None => ui.pill.of # None
        BY DEF PillInv, PillPlaces, PillApart
      <3>3. ui.mode = "active" => blurred.pill = ui.pill \/
            (f \in ui.known /\ ui.pill # None /\ ui.pill.of = f /\
                                           blurred.pill = [of |-> f, visible |-> FALSE])
        BY <2>2, <3>1, Zenon
      <3> QED
        BY <2>2, <3>1, <3>2, <3>3
    <2> QED
      BY <1>1, <2>1, <2>2
  <1>4. ui.mode # "active" => blurred.pill = ui.pill
    <2>1. CASE ui.mode = "site-paused"
      BY <1>1, <2>1, LosesFocus
    <2>2. CASE ui.mode = "off"
      BY <1>1, <2>2 DEF Pill!FocusOut, Pill!Strays
    <2> QED
      BY <2>1, <2>2 DEF PillInv, PillPlaces
  <1>5. ui.mode = "site-paused" =>
          \/ (blurred.hiding <=> ui.hiding) /\ (blurred.seeded <=> ui.seeded)
          \/ ui.focus = f /\ blurred.hiding /\ ~blurred.seeded
    <2>1. CASE blurred = ui
      BY <2>1
    <2>2. CASE ui.focus = f /\ blurred = Pill!FocusOut(Pill!Strays(ui, None), None)
      BY <2>2, LosesFocus DEF PillApart
    <2> QED
      BY <1>1, <2>1, <2>2
  <1>6. /\ blurred.mode = ui.mode /\ blurred.known = ui.known /\ blurred.dom = ui.dom
        /\ blurred.pending = ui.pending /\ blurred.leaving = ui.leaving /\ blurred.missed = ui.missed
        /\ blurred.drawn = ui.drawn /\ blurred.focus = ui.focus /\ blurred.last = ui.last
    BY <1>2 DEF PillNames
  <1>7. /\ DOMAIN ui' = PillNames /\ ui'.dom = [ui.dom EXCEPT ![f] = "gone"]
        /\ ui'.pending = ui.pending \ {f}
        /\ ui'.leaving = IF f \in ui.known THEN ui.leaving \cup {f} ELSE ui.leaving
        /\ ui'.missed = (IF f \in ui.known \/ ui.mode = "off" THEN ui.missed ELSE ui.missed \cup {f})
        /\ ui'.focus = IF ui.focus = f THEN None ELSE ui.focus
        /\ \A n \in PillNames \ {"dom", "pending", "leaving", "missed", "focus"} : ui'[n] = blurred[n]
    BY <1>1, <1>2, <1>6 DEF PillNames
  <1>8. /\ ui'.mode = ui.mode /\ ui'.known = ui.known /\ ui'.drawn = ui.drawn /\ ui'.last = ui.last
        /\ ui'.pill = blurred.pill /\ ui'.strayed = blurred.strayed
        /\ ui'.hiding = blurred.hiding /\ ui'.seeded = blurred.seeded
    BY <1>6, <1>7 DEF PillNames
  <1>9. /\ ui'.dom \in [Fields -> {"out", "in", "gone"}] /\ ui'.dom[f] = "gone"
        /\ \A g \in Fields \ {f} : ui'.dom[g] = ui.dom[g]
    BY <1>7 DEF PillInv, PillPlaces
  <1>10. /\ blurred.pill # None <=> ui.pill # None
         /\ blurred.pill # None => DOMAIN blurred.pill = {"of", "visible"} /\ blurred.pill.of = ui.pill.of
         /\ blurred.pill # ui.pill => ui.mode = "active" /\ f \in ui.known /\ ui.pill.of = f /\ ui.focus = f
    <2>1. CASE blurred.pill = ui.pill
      BY <2>1 DEF PillInv, PillPlaces
    <2>2. CASE blurred.pill # ui.pill
      <3>1. /\ ui.mode = "active" /\ f \in ui.known /\ ui.pill # None /\ ui.pill.of = f /\ ui.focus = f
            /\ blurred.pill = [of |-> f, visible |-> FALSE]
        BY <1>3, <1>4, <2>2, Zenon
      <3>2. [of |-> f, visible |-> FALSE] # None
        BY Zenon DEF PillApart
      <3> QED
        BY <3>1, <3>2
    <2> QED
      BY <2>1, <2>2
  <1>11. PillPlaces(ui')
    BY <1>1, <1>7, <1>8, <1>9, <1>10 DEF PillInv, PillPlaces, PillApart
  <1>12. ActivePill(ui')
    <2> SUFFICES ASSUME ui.mode = "active" PROVE ActivePill(ui')
      BY <1>8 DEF ActivePill
    <2>1. /\ ~ui.hiding
          /\ ui.pill # None => ui.pill.of \in ui.known /\ ui.pill.of \in Fields
          /\ ui.drawn # None => ui.pill # None /\ ui.pill.of = ui.drawn
          /\ ui.pill # None /\ ui.pill.of = ui.focus => ui.pill = PillShown(ui.focus)
          /\ ui.pill # None /\ ui.pill.visible /\ ui.pill.of \notin ui.leaving =>
               ui.focus = ui.pill.of \/ ui.focus = "overlay" \/ ui.strayed
      BY DEF PillInv, PillPlaces, ActivePill
    <2>2. ui.pill # None /\ ui.pill.of = f => ui.pill.of \in ui'.leaving
      BY <1>7, <2>1
    <2>3. ui'.pill # None /\ ui'.pill.of = ui'.focus => ui'.pill = PillShown(ui'.focus)
      BY <1>7, <1>8, <1>10, <2>1 DEF PillApart
    <2>4. ui'.pill # None /\ ui'.pill.visible /\ ui'.pill.of \notin ui'.leaving =>
            ui'.focus = ui'.pill.of \/ ui'.focus = "overlay" \/ ui'.strayed
      BY <1>3, <1>7, <1>8, <1>10, <2>1, <2>2 DEF PillApart
    <2> QED
      BY <1>3, <1>8, <1>10, <2>1, <2>3, <2>4 DEF ActivePill
  <1>13. PausedPill(ui')
    <2> SUFFICES ASSUME ui.mode = "site-paused" PROVE PausedPill(ui')
      BY <1>8 DEF PausedPill
    <2>1. /\ ui.hiding => ~ui.seeded
          /\ ui.focus \in ui.known => ui.pill = PillShown(ui.focus)
          /\ ui.pill # None => ui.pill.of \in ui.missed \cup ui.known \cup ui.pending
          /\ ui.pill # None /\ ui.pill.of \notin ui.missed \cup ui.leaving =>
               ui.hiding \/ ui.seeded \/ ui.pill.of = ui.focus
          /\ ui.seeded /\ ui.last \in Fields /\ ui.focus \notin Fields /\ ui.dom[ui.last] = "in" =>
               ui.pill # None /\ ui.pill.of = ui.last
          /\ ui.focus \in Fields => ui.last = ui.focus
          /\ ui.pill # None => ui.pill.of \in Fields
          /\ ui.known \subseteq Fields
      BY DEF PillInv, PillPlaces, PausedPill
    <2>2. ui'.pill = ui.pill
      BY <1>4, <1>8
    <2>3. ui'.hiding => ~ui'.seeded
      BY <1>5, <1>8, <2>1
    <2>4. ui'.focus \in ui'.known => ui'.pill = PillShown(ui'.focus)
      BY <1>7, <1>8, <2>1, <2>2 DEF PillApart
    <2>5. ui'.pill # None => ui'.pill.of \in ui'.missed \cup ui'.known \cup ui'.pending
      BY <1>7, <1>8, <2>1, <2>2
    <2>6. ui'.pill # None /\ ui'.pill.of \notin ui'.missed \cup ui'.leaving =>
            ui'.hiding \/ ui'.seeded \/ ui'.pill.of = ui'.focus
      BY <1>5, <1>7, <1>8, <2>1, <2>2
    <2>7. ui'.seeded /\ ui'.last \in Fields /\ ui'.focus \notin Fields /\ ui'.dom[ui'.last] = "in" =>
            ui'.pill # None /\ ui'.pill.of = ui'.last
      BY <1>5, <1>7, <1>8, <1>9, <2>1, <2>2
    <2> QED
      BY <2>3, <2>4, <2>5, <2>6, <2>7 DEF PausedPill
  <1> QED
    BY <1>11, <1>12, <1>13 DEF PillInv

\* The observer reports what came and went.
LEMMA PillFrame ==
  ASSUME PillApart, PillInv(ui), Pill!Frame
  PROVE  PillInv(ui')
  <1> DEFINE paused == ui.mode = "site-paused"
             v == [ui EXCEPT !.known = (@ \cup ui.pending) \ ui.leaving, !.pending = {}, !.leaving = {},
                             !.last = IF ui.mode = "site-paused" /\ @ \in ui.leaving THEN None ELSE @]
             w == IF ui.mode = "site-paused" /\ ui.focus \in ui.pending
                  THEN [v EXCEPT !.pill = PillShown(ui.focus)] ELSE v
             gone == w.pill # None /\ w.pill.of \in ui.leaving
  <1>0. DOMAIN ui = PillNames
    BY DEF PillInv, PillPlaces
  <1>1. ui' = IF gone THEN [w EXCEPT !.pill = None, !.strayed = FALSE,
                                     !.drawn = IF @ \in ui.leaving THEN None ELSE @]
              ELSE [w EXCEPT !.drawn = IF @ \in ui.leaving THEN None ELSE @]
    BY DEF Pill!Frame, Pill!Observed, Pill!Offered, PillShown
  <1>2. /\ DOMAIN v = PillNames /\ v.known = (ui.known \cup ui.pending) \ ui.leaving
        /\ v.pending = {} /\ v.leaving = {}
        /\ v.last = IF paused /\ ui.last \in ui.leaving THEN None ELSE ui.last
        /\ \A n \in PillNames \ {"known", "pending", "leaving", "last"} : v[n] = ui[n]
    BY <1>0 DEF PillNames
  <1> HIDE DEF v
  <1>3. /\ DOMAIN w = PillNames
        /\ w.pill = IF paused /\ ui.focus \in ui.pending THEN PillShown(ui.focus) ELSE v.pill
        /\ \A n \in PillNames \ {"pill"} : w[n] = v[n]
    BY <1>2 DEF PillNames
  <1> HIDE DEF w
  <1>4. /\ DOMAIN ui' = PillNames
        /\ ui'.pill = IF gone THEN None ELSE w.pill
        /\ ui'.drawn = IF w.drawn \in ui.leaving THEN None ELSE w.drawn
        /\ \A n \in PillNames \ {"pill", "drawn", "strayed"} : ui'[n] = w[n]
    <2> HIDE DEF gone
    <2> QED
      BY <1>1, <1>3 DEF PillNames
  <1>5. ~gone => ui'.strayed = w.strayed
    BY <1>1, <1>3 DEF PillNames
  <1>6. /\ v.mode = ui.mode /\ v.dom = ui.dom /\ v.focus = ui.focus /\ v.hiding = ui.hiding
        /\ v.seeded = ui.seeded /\ v.missed = ui.missed /\ v.drawn = ui.drawn /\ v.strayed = ui.strayed
        /\ v.pill = ui.pill
    BY <1>2 DEF PillNames
  <1>7. /\ w.mode = ui.mode /\ w.dom = ui.dom /\ w.focus = ui.focus /\ w.hiding = ui.hiding
        /\ w.seeded = ui.seeded /\ w.missed = ui.missed /\ w.drawn = ui.drawn /\ w.strayed = ui.strayed
        /\ w.known = v.known /\ w.pending = {} /\ w.leaving = {} /\ w.last = v.last
    BY <1>2, <1>3, <1>6 DEF PillNames
  <1>8. /\ ui'.mode = ui.mode /\ ui'.dom = ui.dom /\ ui'.focus = ui.focus /\ ui'.hiding = ui.hiding
        /\ ui'.seeded = ui.seeded /\ ui'.missed = ui.missed
        /\ ui'.known = (ui.known \cup ui.pending) \ ui.leaving /\ ui'.pending = {} /\ ui'.leaving = {}
        /\ ui'.last = v.last
    BY <1>2, <1>4, <1>7 DEF PillNames
  <1> HIDE DEF gone
  <1>9. ASSUME NEW f \in Fields
        PROVE  PillShown(f) # None /\ DOMAIN PillShown(f) = {"of", "visible"} /\ PillShown(f).of = f
    BY DEF PillShown, PillApart
  <1>10. w.pill # None => DOMAIN w.pill = {"of", "visible"} /\ w.pill.of \in Fields
    BY <1>3, <1>6, <1>9 DEF PillInv, PillPlaces
  <1>11. \A f \in Fields : ui.dom[f] = "in" => f \notin ui.leaving /\ f \notin ui.missed
    BY DEF PillInv, PillPlaces
  <1>12. PillPlaces(ui')
    <2>1. ui'.pill # None => DOMAIN ui'.pill = {"of", "visible"} /\ ui'.pill.of \in Fields
      BY <1>4, <1>10
    <2>2. /\ \A f \in ui'.known : f \in Fields /\ ui'.dom[f] = "in"
          /\ ui'.mode # "off" => \A f \in Fields : ui'.dom[f] = "in" => f \in ui'.known
      BY <1>8, <1>11 DEF PillInv, PillPlaces
    <2>3. /\ ui'.focus \in Fields => ui'.dom[ui'.focus] = "in" /\ ui'.last = ui'.focus
          /\ ui'.last \in Fields => ui'.dom[ui'.last] # "out"
      BY <1>2, <1>8, <1>11 DEF PillInv, PillPlaces, PillApart
    <2> QED
      BY <1>4, <1>8, <2>1, <2>2, <2>3 DEF PillInv, PillPlaces
  <1>13. ActivePill(ui')
    <2> SUFFICES ASSUME ui.mode = "active" PROVE ActivePill(ui')
      BY <1>8 DEF ActivePill
    <2>1. /\ ~ui.hiding
          /\ ui.pill # None => ui.pill.of \in ui.known
          /\ ui.drawn # None => ui.pill # None /\ ui.pill.of = ui.drawn
          /\ ui.pill # None /\ ui.pill.of = ui.focus => ui.pill = PillShown(ui.focus)
          /\ ui.pill # None /\ ui.pill.visible /\ ui.pill.of \notin ui.leaving =>
               ui.focus = ui.pill.of \/ ui.focus = "overlay" \/ ui.strayed
      BY DEF PillInv, ActivePill
    <2>2. w.pill = ui.pill
      BY <1>3, <1>6
    <2>3. CASE gone
      <3>1. /\ ui'.pill = None /\ (ui.drawn # None => ui.drawn \in ui.leaving)
        BY <1>4, <2>1, <2>2, <2>3 DEF gone
      <3>2. ui'.drawn = None
        BY <1>4, <1>7, <3>1
      <3> QED
        BY <1>8, <2>1, <3>1, <3>2 DEF ActivePill
    <2>4. CASE ~gone
      <3>1. /\ ui'.pill = ui.pill /\ (ui.pill # None => ui.pill.of \notin ui.leaving)
            /\ ui'.strayed = ui.strayed
        BY <1>4, <1>5, <1>7, <2>2, <2>4 DEF gone
      <3>2. ui'.drawn # None => ui'.drawn = ui.drawn
        BY <1>4, <1>7
      <3> QED
        BY <1>8, <2>1, <3>1, <3>2 DEF ActivePill
    <2> QED
      BY <2>3, <2>4
  <1>14. PausedPill(ui')
    <2> SUFFICES ASSUME ui.mode = "site-paused" PROVE PausedPill(ui')
      BY <1>8 DEF PausedPill
    <2>1. /\ ui.hiding => ~ui.seeded
          /\ ui.focus \in ui.known => ui.pill = PillShown(ui.focus)
          /\ ui.pill # None => ui.pill.of \in ui.missed \cup ui.known \cup ui.pending
          /\ ui.pill # None /\ ui.pill.of \notin ui.missed \cup ui.leaving =>
               ui.hiding \/ ui.seeded \/ ui.pill.of = ui.focus
          /\ ui.seeded /\ ui.last \in Fields /\ ui.focus \notin Fields /\ ui.dom[ui.last] = "in" =>
               ui.pill # None /\ ui.pill.of = ui.last
          /\ ui.focus \in Fields => ui.dom[ui.focus] = "in"
          /\ ui.known \subseteq Fields /\ ui.pending \subseteq Fields
      BY DEF PillInv, PillPlaces, PausedPill
    <2>2. CASE ui.focus \in ui.pending
      <3>1. w.pill = PillShown(ui.focus) /\ ui.focus \in Fields /\ ui.focus \notin ui.leaving
        BY <1>3, <1>11, <2>1, <2>2
      <3>2. ~gone
        BY <1>9, <3>1 DEF gone
      <3>3. ui'.pill = PillShown(ui.focus) /\ PillShown(ui.focus).of = ui.focus
        BY <1>4, <1>9, <3>1, <3>2
      <3> QED
        BY <1>8, <2>1, <2>2, <3>1, <3>3 DEF PausedPill
    <2>3. CASE ui.focus \notin ui.pending
      <3>1. w.pill = ui.pill
        BY <1>3, <1>6, <2>3
      <3>2. ui'.focus \in ui'.known => ui'.pill = PillShown(ui'.focus)
        <4>1. ASSUME ui.focus \in ui.known PROVE ~gone
          BY <1>9, <1>11, <2>1, <3>1, <4>1 DEF gone
        <4> QED
          BY <1>4, <1>8, <2>1, <2>3, <3>1, <4>1
      <3>3. /\ ui'.pill # None => ui'.pill.of \in ui'.missed \cup ui'.known \cup ui'.pending
            /\ ui'.pill # None /\ ui'.pill.of \notin ui'.missed \cup ui'.leaving =>
                 ui'.hiding \/ ui'.seeded \/ ui'.pill.of = ui'.focus
        BY <1>4, <1>8, <2>1, <3>1 DEF gone
      <3>4. ui'.seeded /\ ui'.last \in Fields /\ ui'.focus \notin Fields /\ ui'.dom[ui'.last] = "in" =>
              ui'.pill # None /\ ui'.pill.of = ui'.last
        <4>1. ASSUME ui'.seeded, ui'.last \in Fields, ui'.focus \notin Fields, ui'.dom[ui'.last] = "in"
              PROVE  ui'.pill # None /\ ui'.pill.of = ui'.last
          <5>1. ui'.last = ui.last
            BY <1>2, <1>8, <4>1 DEF PillApart
          <5>2. ui.pill # None /\ ui.pill.of = ui.last /\ ui.last \notin ui.leaving
            BY <1>8, <1>11, <2>1, <4>1, <5>1
          <5> QED
            BY <1>4, <3>1, <5>1, <5>2 DEF gone
        <4> QED
          BY <4>1
      <3> QED
        BY <1>8, <2>1, <3>2, <3>3, <3>4 DEF PausedPill
    <2> QED
      BY <2>2, <2>3
  <1> QED
    BY <1>12, <1>13, <1>14 DEF PillInv

\* No step breaks the invariant of the pill.
LEMMA PillStep == PillApart /\ PillInv(ui) /\ [Pill!Next]_ui => PillInv(ui)'
  <1> SUFFICES ASSUME PillApart, PillInv(ui), [Pill!Next]_ui PROVE PillInv(ui')
    OBVIOUS
  <1>1. CASE Pill!HideTimerFires
    <2>1. /\ DOMAIN ui' = PillNames /\ ~ui'.hiding
          /\ ui'.pill = IF ui.pill # None /\ ui.focus # ui.pill.of THEN None ELSE ui.pill
          /\ \A n \in PillNames \ {"hiding", "pill"} : ui'[n] = ui[n]
      BY <1>1 DEF Pill!HideTimerFires, PillInv, PillPlaces, PillNames
    <2>2. /\ ui'.mode = ui.mode /\ ui'.known = ui.known /\ ui'.dom = ui.dom /\ ui'.pending = ui.pending
          /\ ui'.leaving = ui.leaving /\ ui'.missed = ui.missed /\ ui'.seeded = ui.seeded
          /\ ui'.focus = ui.focus /\ ui'.last = ui.last
      BY <2>1 DEF PillNames
    <2>3. ui.hiding
      BY <1>1 DEF Pill!HideTimerFires
    <2>4. PillPlaces(ui')
      BY <2>1, <2>2 DEF PillInv, PillPlaces
    <2>5. ActivePill(ui')
      BY <2>2, <2>3 DEF PillInv, ActivePill
    <2>6. PausedPill(ui')
      <3>1. \A f : PillShown(f).of = f
        BY DEF PillShown
      <3> QED
        BY <2>1, <2>2, <2>3, <3>1 DEF PillInv, PausedPill
    <2> QED
      BY <2>4, <2>5, <2>6 DEF PillInv
  <1>2. CASE Pill!ModeChanges
    <2>1. PICK mode \in Pill!Modes :
            ui' = Pill!Reconciled([ui EXCEPT !.flips = @ + 1, !.focus = IF @ = "overlay" THEN None ELSE @],
                                  mode)
      BY <1>2 DEF Pill!ModeChanges
    <2> DEFINE u == [ui EXCEPT !.flips = @ + 1, !.focus = IF @ = "overlay" THEN None ELSE @]
    <2>2. /\ DOMAIN u = PillNames /\ u.focus = IF ui.focus = "overlay" THEN None ELSE ui.focus
          /\ u.dom = ui.dom /\ u.last = ui.last
      BY DEF PillInv, PillPlaces, PillNames
    <2> HIDE DEF u
    <2>3. ui' = Pill!Reconciled(u, mode)
      BY <2>1 DEF u
    <2>4. /\ u.dom \in [Fields -> {"out", "in", "gone"}]
          /\ u.focus \in Fields \cup {None, "overlay", "elsewhere"}
          /\ u.focus \in Fields => u.dom[u.focus] = "in" /\ u.last = u.focus
          /\ u.last \in Fields => u.dom[u.last] # "out"
      BY <2>2 DEF PillInv, PillPlaces, PillApart
    <2> QED
      BY <2>2, <2>3, <2>4, PillMounted DEF Pill!Modes
  <1>3. CASE UNCHANGED ui
    BY <1>3
  <1> QED
    BY <1>1, <1>2, <1>3, PillFocuses, PillFrame, PillRenders, PillComes, PillLeaves DEF Pill!Next

\* What the invariant says of the two properties.
LEMMA PillIsLive == PillApart /\ PillInv(ui) => Pill!PillHasTheFocus /\ Pill!PausedOffers
  <1> SUFFICES ASSUME PillApart, PillInv(ui) PROVE Pill!PillHasTheFocus /\ Pill!PausedOffers
    OBVIOUS
  <1>1. Pill!PillHasTheFocus
    BY DEF PillInv, PillPlaces, ActivePill, PillShown, PillApart, Pill!PillHasTheFocus
  <1>2. Pill!PausedOffers
    BY DEF PillInv, PillPlaces, PausedPill, PillShown, Pill!PausedOffers, Pill!There
  <1> QED
    BY <1>1, <1>2

\* The one pill is by the field that has the focus, and a paused page has its own, for
\* any number of fields and of changes of mode.
THEOREM PillIsRight == PillApart /\ Pill!Spec => [](Pill!PillHasTheFocus /\ Pill!PausedOffers)
  <1> SUFFICES ASSUME PillApart PROVE Pill!Spec => [](Pill!PillHasTheFocus /\ Pill!PausedOffers)
    OBVIOUS
  <1>1. Pill!Init => PillInv(ui)
    BY PillInit
  <1>2. PillInv(ui) /\ [Pill!Next]_ui => PillInv(ui)'
    BY PillStep
  <1>3. PillInv(ui) => Pill!PillHasTheFocus /\ Pill!PausedOffers
    BY PillIsLive
  <1> QED
    BY <1>1, <1>2, <1>3, PTL DEF Pill!Spec

-----------------------------------------------------------------------------
(* Texts of which spans are written over, and what undo takes back.        *)

\* The smallest of some numbers.
LEMMA Least ==
  ASSUME NEW S \in SUBSET Nat, S # {}
  PROVE  \E n \in S : \A m \in S : n <= m
  <1>1. PICK n \in S : \A m \in S : <<m, n>> \notin OpToRel(<, Nat)
    BY NatLessThanWellFounded, WFMin
  <1>2. ASSUME NEW m \in S PROVE n <= m
    <2>1. m \in Nat /\ n \in Nat
      OBVIOUS
    <2>2. ~ (m < n)
      BY <1>1, <2>1 DEF OpToRel
    <2> QED
      BY ONLY <2>1, <2>2
  <1> QED
    BY <1>2

\* A text of which a span is written over, and how much follows the span.
Over(t, start, end, by) == SubSeq(t, 1, start) \o by \o SubSeq(t, end + 1, Len(t))
Rest(t, end) == IF end < Len(t) THEN Len(t) - end ELSE 0

\* What it takes to write over a span, and what the text is then.
Fits(W, t, start, end, by) ==
  t \in Seq(W) /\ by \in Seq(W) /\ start \in Nat /\ end \in Nat /\ start <= end /\ start <= Len(t)
Reads(W, u, t, start, end, by) ==
  /\ u \in Seq(W) /\ Len(u) = start + Len(by) + Rest(t, end)
  /\ \A i \in 1..start : u[i] = t[i]
  /\ \A i \in 1..Len(by) : u[start + i] = by[i]
  /\ \A i \in 1..Rest(t, end) : u[start + Len(by) + i] = t[end + i]

\* What is written over a span is read there, and the rest as before.
LEMMA Written ==
  ASSUME NEW W, NEW t, NEW start, NEW end, NEW by, Fits(W, t, start, end, by)
  PROVE  Reads(W, Over(t, start, end, by), t, start, end, by)
  <1> DEFINE rest == Rest(t, end)
             u == Over(t, start, end, by)
  <1>a. t \in Seq(W) /\ by \in Seq(W) /\ start \in Nat /\ end \in Nat /\ start <= end /\ start <= Len(t)
    BY DEF Fits
  <1> HIDE DEF rest, u
  <1> DEFINE a == SubSeq(t, 1, start)
             c == SubSeq(t, end + 1, Len(t))
  <1>1. Len(t) \in Nat /\ Len(by) \in Nat /\ \A i \in 1..Len(t) : t[i] \in W
    BY <1>a, LenProperties, ElementOfSeq
  <1>2. a \in Seq(W) /\ Len(a) = start /\ \A i \in 1..start : a[i] = t[i]
    <2>1. \A i \in 1..start : t[i] \in W
      BY <1>a, <1>1
    <2> QED
      BY <1>a, <2>1, SubSeqProperties
  <1>3. c \in Seq(W) /\ Len(c) = rest /\ \A i \in 1..rest : c[i] = t[end + i]
    <2>1. \A i \in (end + 1)..Len(t) : t[i] \in W
      BY <1>a, <1>1
    <2>2. /\ c \in Seq(W) /\ Len(c) = IF end + 1 <= Len(t) THEN Len(t) - (end + 1) + 1 ELSE 0
          /\ \A i \in 1..(Len(t) - (end + 1) + 1) : c[i] = t[(end + 1) + i - 1]
      BY <1>a, <1>1, <2>1, SubSeqProperties
    <2>3. Len(c) = rest
      BY <1>a, <1>1, <2>2 DEF rest, Rest
    <2>4. ASSUME NEW i \in 1..rest PROVE c[i] = t[end + i]
      <3>1. i \in 1..(Len(t) - (end + 1) + 1) /\ (end + 1) + i - 1 = end + i
        BY <1>a, <1>1 DEF rest, Rest
      <3> QED
        BY <2>2, <3>1
    <2> QED
      BY <2>2, <2>3, <2>4
  <1> HIDE DEF a, c
  <1> DEFINE d == a \o by
  <1>4. u = d \o c
    BY DEF a, c, u, Over
  <1>5. /\ d \in Seq(W) /\ Len(d) = start + Len(by)
        /\ \A i \in 1..(start + Len(by)) : d[i] = IF i <= start THEN a[i] ELSE by[i - start]
    BY <1>a, <1>1, <1>2, ConcatProperties
  <1> HIDE DEF d
  <1>6. /\ u \in Seq(W) /\ Len(u) = start + Len(by) + rest
        /\ \A i \in 1..(start + Len(by) + rest) :
             u[i] = IF i <= start + Len(by) THEN d[i] ELSE c[i - (start + Len(by))]
    <2> DEFINE e == d \o c
    <2>1. d \in Seq(W) /\ c \in Seq(W)
      BY <1>3, <1>5
    <2>2. /\ e \in Seq(W) /\ Len(e) = Len(d) + Len(c)
          /\ \A i \in 1..(Len(d) + Len(c)) : e[i] = IF i <= Len(d) THEN d[i] ELSE c[i - Len(d)]
      BY ONLY <2>1, ConcatProperties
    <2> HIDE DEF e
    <2>3. /\ u \in Seq(W) /\ Len(u) = Len(d) + Len(c)
          /\ \A i \in 1..(Len(d) + Len(c)) : u[i] = IF i <= Len(d) THEN d[i] ELSE c[i - Len(d)]
      BY <1>4, <2>2 DEF e
    <2>4. Len(d) = start + Len(by) /\ Len(c) = rest
      BY <1>3, <1>5
    <2> QED
      BY ONLY <2>3, <2>4
  <1>7. rest \in Nat
    BY <1>a, <1>1 DEF rest, Rest
  <1>8. ASSUME NEW i \in 1..start PROVE u[i] = t[i]
    <2>1. i \in 1..(start + Len(by) + rest) /\ i <= start + Len(by) /\ i \in 1..(start + Len(by)) /\ i <= start
      BY <1>a, <1>1, <1>7
    <2> QED
      BY <1>2, <1>5, <1>6, <2>1
  <1>9. ASSUME NEW i \in 1..Len(by) PROVE u[start + i] = by[i]
    <2>1. /\ start + i \in 1..(start + Len(by) + rest) /\ start + i <= start + Len(by)
          /\ start + i \in 1..(start + Len(by)) /\ ~(start + i <= start) /\ (start + i) - start = i
      BY <1>a, <1>1, <1>7
    <2> QED
      BY <1>5, <1>6, <2>1
  <1>10. ASSUME NEW i \in 1..rest PROVE u[start + Len(by) + i] = t[end + i]
    <2> DEFINE j == start + Len(by) + i
    <2>1. j \in 1..(start + Len(by) + rest) /\ ~(j <= start + Len(by)) /\ j - (start + Len(by)) = i
      BY <1>a, <1>1, <1>7
    <2> HIDE DEF j
    <2>2. u[j] = c[i]
      BY <1>6, <2>1
    <2> QED
      BY <1>3, <2>2 DEF j
  <1> QED
    BY <1>6, <1>8, <1>9, <1>10 DEF Reads, rest, u

\* To write over a span, and what was there over that, changes nothing.
LEMMA PutBack ==
  ASSUME NEW W, NEW t \in Seq(W), NEW by \in Seq(W), NEW start \in Nat, NEW end \in Nat,
         start <= end, end <= Len(t)
  PROVE  Over(Over(t, start, end, by), start, start + Len(by), SubSeq(t, start + 1, end)) = t
  <1> DEFINE u == Over(t, start, end, by)
             was == SubSeq(t, start + 1, end)
             then == start + Len(by)
             v == Over(u, start, then, was)
             rest == Len(t) - end
  <1>1. Len(t) \in Nat /\ Len(by) \in Nat /\ rest \in Nat /\ then \in Nat /\ \A i \in 1..Len(t) : t[i] \in W
    BY LenProperties, ElementOfSeq
  <1>2. /\ u \in Seq(W) /\ Len(u) = then + rest
        /\ \A i \in 1..start : u[i] = t[i]
        /\ \A i \in 1..rest : u[then + i] = t[end + i]
    <2>1. rest = Rest(t, end)
      BY <1>1 DEF Rest
    <2>2. start <= Len(t)
      BY <1>1
    <2>3. Fits(W, t, start, end, by)
      BY <2>2 DEF Fits
    <2>4. Reads(W, u, t, start, end, by)
      BY <2>3, Written
    <2> QED
      BY <2>1, <2>4 DEF Reads
  <1>3. was \in Seq(W) /\ Len(was) = end - start /\ \A i \in 1..(end - start) : was[i] = t[start + i]
    <2>1. \A i \in (start + 1)..end : t[i] \in W
      BY <1>1
    <2>2. /\ was \in Seq(W) /\ Len(was) = IF start + 1 <= end THEN end - (start + 1) + 1 ELSE 0
          /\ \A i \in 1..(end - (start + 1) + 1) : was[i] = t[(start + 1) + i - 1]
      BY <2>1, SubSeqProperties
    <2>3. Len(was) = end - start /\ end - (start + 1) + 1 = end - start
      BY <2>2
    <2>4. ASSUME NEW i \in 1..(end - start) PROVE was[i] = t[start + i]
      <3>1. (start + 1) + i - 1 = start + i
        OBVIOUS
      <3> QED
        BY <2>2, <2>3, <3>1
    <2> QED
      BY <2>2, <2>3, <2>4
  <1> HIDE DEF u, was
  <1>4. start <= then /\ then <= Len(u) /\ start <= Len(u)
    BY <1>1, <1>2
  <1>5. rest = Rest(u, then)
    BY <1>1, <1>2 DEF Rest
  <1>6. /\ v \in Seq(W) /\ Len(v) = start + Len(was) + rest
        /\ \A i \in 1..start : v[i] = u[i]
        /\ \A i \in 1..Len(was) : v[start + i] = was[i]
        /\ \A i \in 1..rest : v[start + Len(was) + i] = u[then + i]
    <2>1. Fits(W, u, start, then, was)
      BY <1>1, <1>2, <1>3, <1>4 DEF Fits
    <2>2. Reads(W, v, u, start, then, was)
      BY <2>1, Written
    <2> QED
      BY <1>5, <2>2 DEF Reads
  <1> HIDE DEF v, then
  <1>7. Len(v) = Len(t) /\ start + Len(was) = end
    BY <1>1, <1>3, <1>6
  <1>8. ASSUME NEW i \in 1..Len(t) PROVE v[i] = t[i]
    <2>1. CASE i <= start
      <3>1. i \in 1..start
        BY <1>1, <2>1
      <3> QED
        BY <1>2, <1>6, <3>1
    <2>2. CASE i > start /\ i <= end
      <3>1. i - start \in 1..(end - start) /\ start + (i - start) = i /\ i - start \in 1..Len(was)
        BY <1>1, <1>3, <2>2
      <3>2. v[start + (i - start)] = was[i - start] /\ was[i - start] = t[start + (i - start)]
        BY <1>3, <1>6, <3>1
      <3> QED
        BY <3>1, <3>2
    <2>3. CASE i > end
      <3>1. i - end \in 1..rest /\ end + (i - end) = i
        BY <1>1, <2>3
      <3>2. v[end + (i - end)] = u[then + (i - end)] /\ u[then + (i - end)] = t[end + (i - end)]
        BY <1>2, <1>6, <1>7, <3>1
      <3> QED
        BY <3>1, <3>2
    <2> QED
      BY <1>1, <2>1, <2>2, <2>3
  <1>9. v = t
    BY <1>6, <1>7, <1>8, SeqEqual
  <1> QED
    BY <1>9 DEF v, u, was, then

\* What stands above a record: the records that start after it, and those of the same
\* start that were recorded before it.
Above(S, records, i) ==
  {j \in S : \/ records[j].start > records[i].start
             \/ records[j].start = records[i].start /\ j < i}
Rank(S, records, i) == Surfaces!Plain!Cardinality(Above(S, records, i))

\* The instance counts as the library does.
LEMMA PlainCounts == \A S : Surfaces!Plain!Cardinality(S) = Cardinality(S)
  BY Zenon DEF Surfaces!Plain!Cardinality, Cardinality

\* Records have their ranks: as many as there are, each another,
LEMMA Ranks ==
  ASSUME NEW S \in SUBSET Nat, IsFiniteSet(S), NEW records, \A i \in S : records[i].start \in Nat,
         NEW i \in S
  PROVE  /\ Rank(S, records, i) \in 0..(Cardinality(S) - 1)
         /\ \A j \in Above(S, records, i) : Rank(S, records, j) < Rank(S, records, i)
  <1> DEFINE A(j) == Above(S, records, j)
  <1>1. ASSUME NEW j \in S PROVE A(j) \in SUBSET (S \ {j}) /\ IsFiniteSet(A(j)) /\ Cardinality(A(j)) \in Nat
    <2>1. A(j) \in SUBSET (S \ {j})
      BY DEF Above
    <2>2. IsFiniteSet(A(j))
      BY <2>1, FS_Subset
    <2> QED
      BY <2>1, <2>2, FS_CardinalityType
  <1>2. Cardinality(A(i)) <= Cardinality(S) - 1
    <2>1. IsFiniteSet(S \ {i}) /\ Cardinality(S \ {i}) = Cardinality(S) - 1
      BY FS_RemoveElement
    <2> QED
      BY <1>1, <2>1, FS_Subset
  <1>3. ASSUME NEW j \in A(i) PROVE Cardinality(A(j)) < Cardinality(A(i))
    <2>1. j \in S /\ j \notin A(j)
      BY DEF Above
    <2>2. ASSUME NEW l \in A(j) PROVE l \in A(i)
      <3>1. l \in S /\ l \in Nat /\ j \in Nat /\ i \in Nat
        BY <2>1 DEF Above
      <3>2. records[l].start \in Nat /\ records[j].start \in Nat /\ records[i].start \in Nat
        BY <2>1, <3>1
      <3>3. records[l].start > records[j].start \/ (records[l].start = records[j].start /\ l < j)
        BY DEF Above
      <3>4. records[j].start > records[i].start \/ (records[j].start = records[i].start /\ j < i)
        BY DEF Above
      <3>5. records[l].start > records[i].start \/ (records[l].start = records[i].start /\ l < i)
        BY ONLY <3>1, <3>2, <3>3, <3>4
      <3> QED
        BY <3>1, <3>5 DEF Above
    <2>3. Cardinality(A(j)) <= Cardinality(A(i)) /\ Cardinality(A(j)) # Cardinality(A(i))
      BY <1>1, <2>1, <2>2, FS_Subset
    <2> QED
      BY <1>1, <2>1, <2>3
  <1>4. Cardinality(S) \in Nat
    BY FS_CardinalityType
  <1> QED
    BY <1>1, <1>2, <1>3, <1>4, PlainCounts DEF Rank

\* and so every rank is somebody's.
LEMMA RankTaken ==
  ASSUME NEW S \in SUBSET Nat, IsFiniteSet(S), NEW records, \A i \in S : records[i].start \in Nat,
         NEW k \in 1..Cardinality(S)
  PROVE  \E i \in S : Rank(S, records, i) = k - 1
  <1> SUFFICES ASSUME \A i \in S : Rank(S, records, i) # k - 1 PROVE FALSE
    OBVIOUS
  <1> DEFINE n == Cardinality(S)
             T == (0..(n - 1)) \ {k - 1}
             f == [i \in S |-> Rank(S, records, i)]
  <1>1. n \in Nat
    BY FS_CardinalityType
  <1>2. IsFiniteSet(T) /\ Cardinality(T) = n - 1
    <2>1. IsFiniteSet(0..(n - 1)) /\ Cardinality(0..(n - 1)) = n
      <3>1. 0 \in Int /\ n - 1 \in Int
        BY <1>1
      <3>2. ~(0 > n - 1) /\ (n - 1) - 0 + 1 = n
        BY <1>1
      <3> HIDE DEF n
      <3> QED
        BY <3>1, <3>2, FS_Interval
    <2>2. k - 1 \in 0..(n - 1)
      BY <1>1
    <2> HIDE DEF n
    <2>3. IsFiniteSet(T) /\ Cardinality(T) = Cardinality(0..(n - 1)) - 1
      <3> DEFINE I == 0..(n - 1)
      <3>1. IsFiniteSet(I) /\ k - 1 \in I
        BY <2>1, <2>2
      <3> HIDE DEF I
      <3>2. IsFiniteSet(I \ {k - 1}) /\ Cardinality(I \ {k - 1}) = Cardinality(I) - 1
        BY ONLY <3>1, FS_RemoveElement
      <3> QED
        BY <3>2 DEF I
    <2> QED
      BY <2>1, <2>3
  <1>3. f \in [S -> T]
    BY Ranks
  <1>4. PICK i \in S, j \in S : i # j /\ Rank(S, records, i) = Rank(S, records, j)
    <2>1. Cardinality(T) < Cardinality(S)
      BY <1>1, <1>2
    <2> HIDE DEF T
    <2>2. \E x, y \in S : x # y /\ f[x] = f[y]
      <3> HIDE DEF f
      <3> QED
        BY <1>2, <1>3, <2>1, FS_PigeonHole
    <2> QED
      BY <2>2
  <1>5. i \in Above(S, records, j) \/ j \in Above(S, records, i)
    <2>1. i \in Nat /\ j \in Nat /\ records[i].start \in Nat /\ records[j].start \in Nat
      OBVIOUS
    <2>2. \/ records[i].start > records[j].start \/ (records[i].start = records[j].start /\ i < j)
          \/ records[j].start > records[i].start \/ (records[j].start = records[i].start /\ j < i)
      BY <1>4, <2>1
    <2> QED
      BY <2>2 DEF Above
  <1>6. Rank(S, records, i) \in Int /\ Rank(S, records, j) \in Int
    BY Ranks
  <1> QED
    BY <1>4, <1>5, <1>6, Ranks

\* The higher rank starts no later.
LEMMA RankOrder ==
  ASSUME NEW S \in SUBSET Nat, IsFiniteSet(S), NEW records, \A i \in S : records[i].start \in Nat,
         NEW i \in S, NEW j \in S, Rank(S, records, i) < Rank(S, records, j)
  PROVE  records[j].start <= records[i].start
  <1>1. Rank(S, records, i) \in Int /\ Rank(S, records, j) \in Int
    BY Ranks
  <1>2. j \in Above(S, records, i) => FALSE
    BY <1>1, Ranks
  <1> QED
    BY <1>2 DEF Above

\* What is recorded of a swap.
Records(W) ==
  {e \in [start : Nat, end : Nat, applied : Seq(W), original : Seq(W)] :
     e.applied # <<>> /\ e.end = e.start + Len(e.applied)}

\* Replacing is writing over,
LEMMA ReplaceOver ==
  \A t, span, by : Surfaces!Replace(t, span, by) = Over(t, span.start, span.end, by)
  BY DEF Surfaces!Replace, Surfaces!Plain!Replace, Over

\* and a slice of a text is a text.
LEMMA SliceIs ==
  ASSUME NEW W, NEW t \in Seq(W), NEW start \in Nat, NEW end \in Nat, start <= end
  PROVE  /\ Surfaces!Plain!Slice(t, start, end) \in Seq(W)
         /\ start < end /\ Len(Surfaces!Plain!Slice(t, start, end)) = end - start => end <= Len(t)
         /\ end <= Len(t) => /\ Surfaces!Plain!Slice(t, start, end) = SubSeq(t, start + 1, end)
                             /\ Len(Surfaces!Plain!Slice(t, start, end)) = end - start
  <1> DEFINE to == IF end < Len(t) THEN end ELSE Len(t)
             s == SubSeq(t, start + 1, to)
  <1>1. Len(t) \in Nat /\ to \in Nat /\ to <= Len(t) /\ to <= end /\ \A i \in 1..Len(t) : t[i] \in W
    BY LenProperties, ElementOfSeq
  <1>2. \A i \in (start + 1)..to : t[i] \in W
    BY <1>1
  <1>3. s \in Seq(W) /\ Len(s) = IF start + 1 <= to THEN to - (start + 1) + 1 ELSE 0
    <2> HIDE DEF to
    <2> QED
      BY <1>1, <1>2, SubSeqProperties
  <1>4. Surfaces!Plain!Slice(t, start, end) = s
    BY DEF Surfaces!Plain!Slice
  <1>5. start < end /\ Len(s) = end - start => end <= Len(t)
    <2> HIDE DEF s
    <2> QED
      BY <1>1, <1>3
  <1>6. end <= Len(t) => to = end /\ Len(s) = end - start
    <2> HIDE DEF s
    <2> QED
      BY <1>1, <1>3
  <1> QED
    BY <1>3, <1>4, <1>5, <1>6

\* The records that still stand.
Standing(text, records) ==
  {i \in DOMAIN records :
     Surfaces!Plain!Slice(text, records[i].start, records[i].end) = records[i].applied}

\* They end in the text.
LEMMA StandingIs ==
  ASSUME NEW W, NEW text \in Seq(W), NEW records \in Seq(Records(W))
  PROVE  /\ Standing(text, records) \in SUBSET Nat /\ IsFiniteSet(Standing(text, records))
         /\ \A i \in Standing(text, records) :
              records[i] \in Records(W) /\ records[i].start \in Nat /\ records[i].end <= Len(text)
  <1> DEFINE S == Standing(text, records)
  <1>1. Len(records) \in Nat /\ DOMAIN records = 1..Len(records)
    BY LenProperties
  <1>2. S \in SUBSET (1..Len(records))
    BY <1>1 DEF Standing
  <1>3. IsFiniteSet(1..Len(records))
    BY <1>1, FS_Interval
  <1>4. IsFiniteSet(S)
    BY <1>2, <1>3, FS_Subset
  <1>5. ASSUME NEW i \in S
        PROVE  records[i] \in Records(W) /\ records[i].start \in Nat /\ records[i].end <= Len(text)
    <2> DEFINE e == records[i]
    <2>1. e \in Records(W)
      BY <1>2, ElementOfSeq
    <2>2. Surfaces!Plain!Slice(text, e.start, e.end) = e.applied
      BY DEF Standing
    <2> HIDE DEF e
    <2>3. /\ e.start \in Nat /\ e.end \in Nat /\ e.applied \in Seq(W) /\ e.applied # <<>>
          /\ e.end = e.start + Len(e.applied)
      BY <2>1 DEF Records
    <2>4. Len(e.applied) \in Nat /\ Len(e.applied) # 0
      BY <2>3, LenProperties, EmptySeq
    <2>5. e.start < e.end /\ e.start <= e.end /\ e.end - e.start = Len(e.applied)
      BY <2>3, <2>4
    <2>6. e.end <= Len(text)
      BY <2>2, <2>3, <2>5, SliceIs
    <2> QED
      BY <2>1, <2>3, <2>6 DEF e
  <1> QED
    BY <1>2, <1>4, <1>5

\* What undo has to take back: the records that stand, of every rank one.
LEMMA PlanIs ==
  ASSUME NEW W, NEW text \in Seq(W), NEW records \in Seq(Records(W)), NEW plan,
         plan = Surfaces!Plain!PlanUndo(text, records)
  PROVE  /\ Len(plan) = Cardinality(Standing(text, records)) /\ DOMAIN plan = 1..Len(plan)
         /\ \A k \in 1..Len(plan) : \E i \in Standing(text, records) :
              plan[k] = records[i] /\ Rank(Standing(text, records), records, i) = k - 1
         /\ plan \in Seq(Records(W))
  <1> DEFINE S == Standing(text, records)
             n == Cardinality(S)
             pick(k) == CHOOSE i \in S : Rank(S, records, i) = k - 1
  <1>1. S \in SUBSET Nat /\ IsFiniteSet(S) /\ \A i \in S : records[i].start \in Nat /\ records[i] \in Records(W)
    BY StandingIs
  <1>2. n \in Nat
    BY <1>1, FS_CardinalityType
  <1>3. plan = [k \in 1..Surfaces!Plain!Cardinality(S) |-> records[pick(k)]]
    BY Zenon DEF Surfaces!Plain!PlanUndo, Standing, Rank, Above
  <1>4. plan = [k \in 1..n |-> records[pick(k)]]
    BY <1>3, PlainCounts
  <1> HIDE DEF S, n
  <1>5. ASSUME NEW k \in 1..n PROVE pick(k) \in S /\ Rank(S, records, pick(k)) = k - 1
    <2>1. \E i \in S : Rank(S, records, i) = k - 1
      BY <1>1, RankTaken DEF n
    <2> QED
      BY <2>1
  <1>6. ASSUME NEW k \in 1..n
        PROVE  plan[k] = records[pick(k)] /\ plan[k] \in Records(W)
    BY <1>1, <1>4, <1>5
  <1> HIDE DEF pick
  <1>7. DOMAIN plan = 1..n
    BY <1>4
  <1>8. plan \in Seq(Records(W)) /\ Len(plan) = n
    <2>1. plan \in [1..n -> Records(W)]
      BY <1>4, <1>6
    <2> HIDE DEF n
    <2> QED
      BY <1>2, <2>1, SeqDef, LenProperties
  <1> QED
    BY <1>5, <1>6, <1>7, <1>8 DEF S, n

\* The plan goes from the last to the first, and none of it reaches past the text.
LEMMA PlanFalls ==
  ASSUME NEW W, NEW text \in Seq(W), NEW records \in Seq(Records(W)), NEW plan,
         plan = Surfaces!Plain!PlanUndo(text, records)
  PROVE  /\ \A k \in 1..Len(plan) : plan[k] \in Records(W) /\ plan[k].end <= Len(text)
         /\ \A k, m \in 1..Len(plan) : k < m => plan[m].start <= plan[k].start
  <1> DEFINE S == Standing(text, records)
  <1>1. /\ \A k \in 1..Len(plan) : \E i \in S : plan[k] = records[i] /\ Rank(S, records, i) = k - 1
        /\ plan \in Seq(Records(W))
    BY PlanIs
  <1>2. /\ S \in SUBSET Nat /\ IsFiniteSet(S)
        /\ \A i \in S : records[i] \in Records(W) /\ records[i].start \in Nat /\ records[i].end <= Len(text)
    BY StandingIs
  <1> HIDE DEF S
  <1>3. ASSUME NEW k \in 1..Len(plan) PROVE plan[k] \in Records(W) /\ plan[k].end <= Len(text)
    BY <1>1, <1>2
  <1>4. ASSUME NEW k \in 1..Len(plan), NEW m \in 1..Len(plan), k < m PROVE plan[m].start <= plan[k].start
    <2>1. PICK i \in S : plan[k] = records[i] /\ Rank(S, records, i) = k - 1
      BY <1>1
    <2>2. PICK j \in S : plan[m] = records[j] /\ Rank(S, records, j) = m - 1
      BY <1>1
    <2>3. Rank(S, records, i) < Rank(S, records, j)
      <3>1. k \in Int /\ m \in Int
        OBVIOUS
      <3> QED
        BY ONLY <1>4, <2>1, <2>2, <3>1
    <2>4. records[j].start <= records[i].start
      BY <1>2, <2>3, RankOrder
    <2> QED
      BY <2>1, <2>2, <2>4
  <1> QED
    BY <1>3, <1>4

\* The texts of an undo, one after the other.
Backs(text, plan, back, n) ==
  [k \in 0..n |-> IF k = 0 THEN text ELSE Surfaces!Replace(back[k - 1], plan[k], plan[k].original)]

\* There are as many as it has steps,
LEMMA BacksExist ==
  ASSUME NEW text, NEW plan, NEW n \in Nat
  PROVE  \E back : back = Backs(text, plan, back, n)
  <1> DEFINE Bad == {m \in Nat : ~ \E back : back = Backs(text, plan, back, m)}
  <1> SUFFICES ASSUME Bad # {} PROVE FALSE
    OBVIOUS
  <1>1. PICK m \in Bad : \A l \in Bad : m <= l
    <2>1. Bad \in SUBSET Nat
      OBVIOUS
    <2> HIDE DEF Bad
    <2> QED
      BY <2>1, Least
  <1>2. CASE m = 0
    <2> DEFINE g == [k \in 0..0 |-> text]
    <2>1. g = Backs(text, plan, g, 0)
      BY DEF Backs
    <2> QED
      BY <1>2, <2>1
  <1>3. CASE m # 0
    <2>1. m - 1 \in Nat /\ ~(m <= m - 1) /\ m - 1 \notin Bad
      BY <1>1, <1>3
    <2>2. PICK g : g = Backs(text, plan, g, m - 1)
      BY <2>1
    <2> DEFINE h == [k \in 0..m |-> IF k = 0 THEN text
                                    ELSE Surfaces!Replace(g[k - 1], plan[k], plan[k].original)]
    <2>3. ASSUME NEW k \in 0..(m - 1) PROVE h[k] = g[k]
      <3>1. k \in 0..m
        BY <2>1
      <3> QED
        BY <2>2, <3>1 DEF Backs
    <2>4. ASSUME NEW k \in 0..m
          PROVE  h[k] = IF k = 0 THEN text ELSE Surfaces!Replace(h[k - 1], plan[k], plan[k].original)
      <3>1. k # 0 => k - 1 \in 0..(m - 1)
        BY <2>1
      <3>2. k # 0 => h[k - 1] = g[k - 1]
        BY <2>3, <3>1
      <3> QED
        BY <3>2
    <2>5. DOMAIN h = 0..m /\ h = [k \in 0..m |-> h[k]]
      OBVIOUS
    <2> HIDE DEF h
    <2>6. h = Backs(text, plan, h, m)
      BY <2>4, <2>5 DEF Backs
    <2> QED
      BY <2>6
  <1> QED
    BY <1>2, <1>3

\* and they are the texts that TakenBack goes through.
LEMMA BacksAre ==
  ASSUME NEW text, NEW plan, Len(plan) \in Nat
  PROVE  \E back : back = Backs(text, plan, back, Len(plan)) /\ Surfaces!TakenBack(text, plan) = back[Len(plan)]
  <1> DEFINE back == CHOOSE b : b = Backs(text, plan, b, Len(plan))
  <1>1. back = Backs(text, plan, back, Len(plan))
    BY BacksExist
  <1>2. Surfaces!TakenBack(text, plan) = back[Len(plan)]
    BY Zenon DEF Surfaces!TakenBack, Backs
  <1> QED
    BY <1>1, <1>2

\* A plan that can be taken back: its records start where there is text, from the last
\* to the first.
Falls(W, text, plan) ==
  /\ plan \in Seq(Records(W))
  /\ \A k \in 1..Len(plan) : plan[k] \in Records(W) /\ plan[k].end <= Len(text)
  /\ \A k, m \in 1..Len(plan) : k < m => plan[m].start <= plan[k].start

\* Where one of its texts stands: it is a text, what was put back last is in it, and what
\* is still to do starts in it.
BackOK(W, plan, t, k) ==
  /\ t \in Seq(W)
  /\ k > 0 => plan[k].start + Len(plan[k].original) <= Len(t)
  /\ \A m \in 1..Len(plan) : k < m => plan[m].start <= Len(t)

\* To put one record back leaves the rest of the plan where there is text.
LEMMA BackGoesOn ==
  ASSUME NEW W, NEW text, NEW plan, Falls(W, text, plan), NEW k \in 1..Len(plan), NEW t, BackOK(W, plan, t, k - 1)
  PROVE  BackOK(W, plan, Surfaces!Replace(t, plan[k], plan[k].original), k)
  <1> DEFINE e == plan[k]
             u == Over(t, e.start, e.end, e.original)
  <1>1. /\ e \in Records(W) /\ t \in Seq(W) /\ e.start <= Len(t)
        /\ \A m \in 1..Len(plan) : k < m => plan[m].start <= e.start
    <2>1. k \in Int /\ k - 1 < k
      OBVIOUS
    <2> QED
      BY <2>1 DEF Falls, BackOK
  <1>2. /\ e.start \in Nat /\ e.end \in Nat /\ e.original \in Seq(W) /\ e.applied \in Seq(W)
        /\ e.end = e.start + Len(e.applied)
    BY <1>1 DEF Records
  <1>3. ASSUME NEW m \in 1..Len(plan) PROVE plan[m].start \in Nat
    BY DEF Falls, Records
  <1> HIDE DEF e
  <1>4. Len(e.applied) \in Nat /\ Len(e.original) \in Nat /\ Len(t) \in Nat
    BY <1>1, <1>2, LenProperties
  <1>5. e.start <= e.end
    BY <1>2, <1>4
  <1>6. Fits(W, t, e.start, e.end, e.original)
    BY <1>1, <1>2, <1>5 DEF Fits
  <1>7. Reads(W, u, t, e.start, e.end, e.original)
    BY <1>6, Written
  <1> HIDE DEF u
  <1>8. u \in Seq(W) /\ Len(u) = e.start + Len(e.original) + Rest(t, e.end) /\ Rest(t, e.end) \in Nat
    BY <1>2, <1>4, <1>7 DEF Reads, Rest
  <1>9. e.start + Len(e.original) <= Len(u) /\ e.start <= Len(u)
    BY <1>2, <1>4, <1>8
  <1>10. ASSUME NEW m \in 1..Len(plan), k < m PROVE plan[m].start <= Len(u)
    <2>1. plan[m].start <= e.start /\ plan[m].start \in Nat
      BY <1>1, <1>3, <1>10
    <2>2. Len(u) \in Nat
      BY <1>8, LenProperties
    <2> QED
      BY <1>2, <1>9, <2>1, <2>2
  <1>11. Surfaces!Replace(t, plan[k], plan[k].original) = u
    BY ReplaceOver DEF u, e
  <1> QED
    BY <1>8, <1>9, <1>10, <1>11 DEF BackOK, e

\* What is taken back is a text, and the caret after it is in it.
LEMMA TakenBackIs ==
  ASSUME NEW W, NEW text \in Seq(W), NEW plan, Falls(W, text, plan)
  PROVE  /\ BackOK(W, plan, Surfaces!TakenBack(text, plan), Len(plan))
         /\ Len(plan) = 1 =>
              Surfaces!TakenBack(text, plan) = Over(text, plan[1].start, plan[1].end, plan[1].original)
  <1> DEFINE n == Len(plan)
  <1>1. n \in Nat
    BY LenProperties DEF Falls
  <1>2. PICK back : back = Backs(text, plan, back, n) /\ Surfaces!TakenBack(text, plan) = back[n]
    BY <1>1, BacksAre
  <1> HIDE DEF n
  <1>3. back[0] = text
    <2>1. 0 \in 0..n
      BY <1>1
    <2> QED
      BY <1>2, <2>1 DEF Backs
  <1>4. ASSUME NEW k \in 1..n PROVE back[k] = Surfaces!Replace(back[k - 1], plan[k], plan[k].original)
    <2>1. k \in 0..n /\ k # 0
      BY <1>1
    <2> QED
      BY <1>2, <2>1 DEF Backs
  <1>5. BackOK(W, plan, text, 0)
    <2>1. ASSUME NEW m \in 1..Len(plan) PROVE plan[m].start <= Len(text)
      <3>1. plan[m].end <= Len(text) /\ plan[m].start \in Nat /\ plan[m].end \in Nat /\ plan[m].applied \in Seq(W)
            /\ plan[m].end = plan[m].start + Len(plan[m].applied)
        BY DEF Falls, Records
      <3>2. Len(plan[m].applied) \in Nat /\ Len(text) \in Nat
        BY <3>1, LenProperties
      <3> QED
        BY <3>1, <3>2
    <2> QED
      BY <2>1 DEF BackOK
  <1> DEFINE Bad == {k \in 0..n : ~ BackOK(W, plan, back[k], k)}
  <1>6. Bad = {}
    <2> SUFFICES ASSUME Bad # {} PROVE FALSE
      OBVIOUS
    <2>1. PICK k \in Bad : \A l \in Bad : k <= l
      <3>1. Bad \in SUBSET Nat
        BY <1>1
      <3> HIDE DEF Bad
      <3> QED
        BY <3>1, Least
    <2>2. k # 0 /\ k \in 1..n
      BY <1>1, <1>3, <1>5, <2>1
    <2>3. k - 1 \in 0..n /\ ~(k <= k - 1)
      BY <1>1, <2>2
    <2>4. BackOK(W, plan, back[k - 1], k - 1)
      BY <2>1, <2>3
    <2>5. BackOK(W, plan, back[k], k)
      BY <1>4, <2>2, <2>4, BackGoesOn DEF n
    <2> QED
      BY <2>1, <2>5
  <1>7. n \in 0..n
    BY <1>1
  <1>8. n = 1 => back[1] = Over(text, plan[1].start, plan[1].end, plan[1].original)
    <2>1. n = 1 => 1 \in 1..n /\ 1 - 1 = 0
      OBVIOUS
    <2>2. n = 1 => back[1] = Surfaces!Replace(text, plan[1], plan[1].original)
      BY <1>3, <1>4, <2>1
    <2> QED
      BY <2>2, ReplaceOver
  <1> QED
    BY <1>2, <1>6, <1>7, <1>8 DEF n

-----------------------------------------------------------------------------
(* What is offered for a selection. *)

PageNames ==
  {"client", "text", "selection", "debounce", "control", "opening", "out", "card", "popover", "toast",
   "applied",
   "typed", "moves", "asked", "wrote", "before", "undone", "since", "crossed", "closed"}

\* Cards are of rephrases and popovers of searches for synonyms, and wait for their own.
AskedOK(f) ==
  /\ DOMAIN f = PageNames
  /\ \A r \in f.opening : r.kind = "rephrase"
  /\ f.card.is = "pending" => f.card.of \in f.out /\ f.card.of.kind = "rephrase"
  /\ f.popover.is = "loading" => f.popover.of \in f.out /\ f.popover.of.kind = "synonyms"
  /\ f.closed => f.popover = Surfaces!Gone

\* Once the debounce is over, the control is of what is selected.
ControlOK(f) ==
  f.control # Surfaces!Gone /\ ~f.debounce =>
    f.control.span = f.selection /\ Surfaces!StillSaid(f.text, f.control)

\* What is offered.
PageInv(f) == AskedOK(f) /\ ControlOK(f)

\* What a step may change, and all else is history.
AskedNames == {"opening", "out", "card", "popover", "closed"}
ControlNames == {"text", "selection", "debounce", "control"}

\* What waits is a matter of these names alone,
LEMMA AskedAlike ==
  ASSUME NEW f, NEW u, AskedOK(f), DOMAIN u = PageNames, \A n \in AskedNames : u[n] = f[n]
  PROVE  AskedOK(u)
  <1>1. u.opening = f.opening /\ u.out = f.out /\ u.card = f.card /\ u.popover = f.popover /\
        u.closed = f.closed
    BY DEF AskedNames
  <1> QED
    BY <1>1 DEF AskedOK

\* and so is the invariant of these.
LEMMA CardAlike ==
  ASSUME NEW f, NEW u, PageInv(f), DOMAIN u = PageNames, \A n \in AskedNames \cup ControlNames : u[n] = f[n]
  PROVE  PageInv(u)
  <1>1. u.text = f.text /\ u.selection = f.selection /\ u.debounce = f.debounce /\ u.control = f.control
    BY DEF ControlNames
  <1>2. AskedOK(u)
    BY AskedAlike DEF PageInv
  <1> QED
    BY <1>1, <1>2 DEF PageInv, ControlOK

\* Whatever was selected, a selection is offered nothing until its debounce is over.
LEMMA Selects ==
  ASSUME NEW f, AskedOK(f), NEW span
  PROVE  PageInv(Surfaces!Selected(f, span))
  <1> DEFINE u == Surfaces!Selected(f, span)
             gone == Surfaces!Gone
  <1>1. gone.is = "gone" /\ gone = Surfaces!Gone
    BY DEF Surfaces!Gone
  <1> HIDE DEF gone
  <1>2. /\ DOMAIN u = PageNames /\ u.debounce = TRUE
        /\ u.popover = IF f.client = "browser" THEN gone ELSE f.popover
        /\ u.closed <=> f.closed \/ f.client = "browser"
        /\ u.opening = f.opening /\ u.out = f.out /\ u.card = f.card
    BY <1>1 DEF Surfaces!Selected, AskedOK, PageNames
  <1> HIDE DEF u
  <1>3. AskedOK(u) /\ ControlOK(u)
    BY <1>1, <1>2 DEF AskedOK, ControlOK
  <1> QED
    BY <1>3 DEF PageInv, u

\* An edit moves the selection.
LEMMA Edits ==
  ASSUME NEW f, AskedOK(f), NEW text, NEW span
  PROVE  PageInv(Surfaces!Selected([f EXCEPT !.text = text], span))
  <1> DEFINE u == [f EXCEPT !.text = text]
  <1>1. DOMAIN u = PageNames /\ \A n \in AskedNames : u[n] = f[n]
    BY DEF AskedOK, PageNames, AskedNames
  <1> HIDE DEF u
  <1>2. PageInv(Surfaces!Selected(u, span))
    BY <1>1, AskedAlike, Selects
  <1> QED
    BY <1>2 DEF u

\* To press outside a card closes it, and its popover.
LEMMA CardLeaves ==
  ASSUME NEW f, PageInv(f)
  PROVE  PageInv(Surfaces!Outside(f))
  <1> DEFINE u == Surfaces!Outside(f)
             gone == Surfaces!Gone
  <1>1. gone.is = "gone" /\ gone = Surfaces!Gone
    BY DEF Surfaces!Gone
  <1> HIDE DEF gone
  <1>2. /\ DOMAIN u = PageNames /\ u.card = gone /\ u.popover = gone /\ u.opening = f.opening /\ u.out = f.out
        /\ u.text = f.text /\ u.selection = f.selection /\ u.debounce = f.debounce /\ u.control = f.control
    BY <1>1 DEF Surfaces!Outside, PageInv, AskedOK, PageNames
  <1> HIDE DEF u
  <1>3. AskedOK(u) /\ ControlOK(u)
    BY <1>1, <1>2 DEF PageInv, AskedOK, ControlOK
  <1> QED
    BY <1>3 DEF PageInv, u

\* The control goes, whatever else is.
LEMMA CardHides ==
  ASSUME NEW f, AskedOK(f)
  PROVE  PageInv([f EXCEPT !.control = Surfaces!Gone])
  <1> DEFINE u == [f EXCEPT !.control = Surfaces!Gone]
  <1>1. DOMAIN u = PageNames /\ (\A n \in AskedNames : u[n] = f[n]) /\ u.control = Surfaces!Gone
    BY DEF AskedOK, PageNames, AskedNames
  <1> HIDE DEF u
  <1>2. PageInv(u)
    BY <1>1, AskedAlike DEF PageInv, ControlOK
  <1> QED
    BY <1>2 DEF u

\* To ask for a rephrasing is to wait for it.
LEMMA Rephrases ==
  ASSUME NEW f, PageInv(f), NEW span, NEW said
  PROVE  PageInv(Surfaces!Rephrase(f, span, said))
  <1> DEFINE r == Surfaces!Request(f, "rephrase", span, said)
             c == Surfaces!Card("pending", r)
             u == Surfaces!Rephrase(f, span, said)
  <1>1. r.kind = "rephrase"
    BY DEF Surfaces!Request
  <1>2. u = IF f.client = "browser" THEN [f EXCEPT !.asked = @ + 1, !.opening = @ \cup {r}]
            ELSE [f EXCEPT !.asked = @ + 1, !.out = @ \cup {r}, !.card = c]
    BY DEF Surfaces!Rephrase
  <1>3. c.is = "pending" /\ c.of = r
    BY DEF Surfaces!Card
  <1> HIDE DEF u, r, c
  <1>4. CASE f.client = "browser"
    <2>1. /\ DOMAIN u = PageNames /\ u.opening = f.opening \cup {r} /\ u.out = f.out /\ u.card = f.card
          /\ u.popover = f.popover /\ u.closed = f.closed
          /\ u.text = f.text /\ u.selection = f.selection /\ u.debounce = f.debounce /\ u.control = f.control
      BY <1>2, <1>4 DEF PageInv, AskedOK, PageNames
    <2> QED
      BY <1>1, <2>1 DEF PageInv, AskedOK, ControlOK, u
  <1>5. CASE f.client # "browser"
    <2>1. /\ DOMAIN u = PageNames /\ u.opening = f.opening /\ u.out = f.out \cup {r} /\ u.card = c
          /\ u.popover = f.popover /\ u.closed = f.closed
          /\ u.text = f.text /\ u.selection = f.selection /\ u.debounce = f.debounce /\ u.control = f.control
      BY <1>2, <1>5 DEF PageInv, AskedOK, PageNames
    <2> QED
      BY <1>1, <1>3, <2>1 DEF PageInv, AskedOK, ControlOK, u
  <1> QED
    BY <1>4, <1>5

\* Text is swapped as an edit, and the control goes.
LEMMA Swaps ==
  ASSUME NEW f, PageInv(f), NEW r, NEW by, NEW how
  PROVE  PageInv(Surfaces!Swapped(f, r, by, how))
  <1> DEFINE g == IF r.span.end <= Len(f.text) THEN Surfaces!Edited(f, r.span, by) ELSE f
             u == Surfaces!Swapped(f, r, by, how)
  <1>1. PageInv(Surfaces!Edited(f, r.span, by))
    BY Edits DEF Surfaces!Edited, PageInv
  <1>2. PageInv(g)
    BY <1>1
  <1>3. \E b, s, w : u = [g EXCEPT !.before = b, !.since = s, !.undone = FALSE, !.wrote = w]
    BY DEF Surfaces!Swapped
  <1> HIDE DEF g, u
  <1>4. DOMAIN u = PageNames /\ \A n \in AskedNames \cup ControlNames : u[n] = g[n]
    BY <1>2, <1>3 DEF PageInv, AskedOK, PageNames, AskedNames, ControlNames
  <1>5. PageInv(u)
    BY <1>2, <1>4, CardAlike
  <1> QED
    BY <1>5 DEF u

\* Selecting, typing and scrolling.
LEMMA UserSteps ==
  ASSUME PageInv(offers),
         Surfaces!SelectionMoves \/ Surfaces!Type \/ Surfaces!Scroll \/ Surfaces!Debounced
  PROVE  PageInv(offers')
  <1>1. CASE Surfaces!SelectionMoves
    <2>1. PICK span, mouse :
            offers' = [Surfaces!Selected(IF mouse THEN Surfaces!Outside(offers)
                                         ELSE offers, span) EXCEPT !.moves = @ + 1]
      BY <1>1, Zenon DEF Surfaces!SelectionMoves
    <2> DEFINE f == IF mouse THEN Surfaces!Outside(offers) ELSE offers
               g == Surfaces!Selected(f, span)
    <2>2. PageInv(f)
      BY CardLeaves
    <2> HIDE DEF f
    <2>3. PageInv(g)
      BY <2>2, Selects DEF PageInv
    <2>4. offers' = [g EXCEPT !.moves = @ + 1]
      BY <2>1 DEF f
    <2> HIDE DEF g
    <2>5. DOMAIN offers' = PageNames /\ \A n \in AskedNames \cup ControlNames : offers'[n] = g[n]
      BY <2>3, <2>4 DEF PageInv, AskedOK, PageNames, AskedNames, ControlNames
    <2> QED
      BY <2>3, <2>5, CardAlike
  <1>2. CASE Surfaces!Type
    <2>1. PICK by :
            offers' = [Surfaces!Edited(offers, offers.selection, by) EXCEPT !.typed = @ + 1, !.since = TRUE,
                       !.undone = FALSE]
      BY <1>2 DEF Surfaces!Type
    <2> DEFINE g == Surfaces!Edited(offers, offers.selection, by)
    <2>2. PageInv(g)
      BY Edits DEF Surfaces!Edited, PageInv
    <2>3. offers' = [g EXCEPT !.typed = @ + 1, !.since = TRUE, !.undone = FALSE]
      BY <2>1
    <2> HIDE DEF g
    <2>4. DOMAIN offers' = PageNames /\ \A n \in AskedNames \cup ControlNames : offers'[n] = g[n]
      BY <2>2, <2>3 DEF PageInv, AskedOK, PageNames, AskedNames, ControlNames
    <2> QED
      BY <2>2, <2>4, CardAlike
  <1>3. CASE Surfaces!Scroll
    <2>1. AskedOK(Surfaces!Outside(offers))
      BY CardLeaves DEF PageInv
    <2> QED
      BY <1>3, <2>1, CardHides DEF Surfaces!Scroll
  <1>4. CASE Surfaces!Debounced
    <2>1. PICK control \in Surfaces!Shown(offers) :
               offers' = [offers EXCEPT !.debounce = FALSE, !.control = control]
      BY <1>4 DEF Surfaces!Debounced
    <2>2. /\ DOMAIN offers' = PageNames /\ \A n \in AskedNames : offers'[n] = offers[n]
          /\ offers'.control = control /\ offers'.text = offers.text /\ offers'.selection = offers.selection
      BY <2>1 DEF PageInv, AskedOK, PageNames, AskedNames
    <2>3. control # Surfaces!Gone =>
            control.span = offers.selection /\ control.said = Surfaces!Slice(offers.text, offers.selection)
      BY <2>1 DEF Surfaces!Shown
    <2>4. AskedOK(offers')
      BY <2>2, AskedAlike DEF PageInv
    <2>5. ControlOK(offers')
      BY <2>2, <2>3 DEF ControlOK, Surfaces!StillSaid
    <2> QED
      BY <2>4, <2>5 DEF PageInv
  <1> QED
    BY <1>1, <1>2, <1>3, <1>4

\* Asking for a rephrase, by the control, the hotkey or the card.
LEMMA RephraseSteps ==
  ASSUME PageInv(offers),
         \/ Surfaces!ClickRephrase \/ Surfaces!RephraseHotkey \/ Surfaces!Reissue \/ Surfaces!Retry
         \/ \E r \in offers.opening : Surfaces!SettingsRead(r)
  PROVE  PageInv(offers')
  <1>1. CASE Surfaces!ClickRephrase
    <2> DEFINE g == Surfaces!Rephrase(Surfaces!Outside(offers), offers.control.span, offers.control.said)
    <2>1. PageInv(g)
      BY CardLeaves, Rephrases
    <2>2. offers' = [g EXCEPT !.control = Surfaces!Gone]
      BY <1>1 DEF Surfaces!ClickRephrase
    <2> HIDE DEF g
    <2> QED
      BY <2>1, <2>2, CardHides DEF PageInv
  <1>2. CASE Surfaces!RephraseHotkey
    BY <1>2, Rephrases DEF Surfaces!RephraseHotkey
  <1>3. CASE Surfaces!Reissue
    <2> DEFINE f == [offers EXCEPT !.popover = Surfaces!Gone, !.closed = TRUE]
    <2>1. Surfaces!Gone.is = "gone"
      BY DEF Surfaces!Gone
    <2>2. /\ DOMAIN f = PageNames /\ f.popover = Surfaces!Gone /\ f.opening = offers.opening /\
             f.out = offers.out
          /\ f.card = offers.card
          /\ f.text = offers.text /\ f.selection = offers.selection /\ f.debounce = offers.debounce
          /\ f.control = offers.control
      BY DEF PageInv, AskedOK, PageNames
    <2>3. offers' = Surfaces!Rephrase(f, offers.card.of.span, offers.card.of.said)
      BY <1>3 DEF Surfaces!Reissue
    <2> HIDE DEF f
    <2>4. PageInv(f)
      BY <2>1, <2>2 DEF PageInv, AskedOK, ControlOK
    <2> QED
      BY <2>3, <2>4, Rephrases
  <1>4. CASE Surfaces!Retry
    BY <1>4, CardLeaves, Rephrases DEF Surfaces!Retry
  <1>5. CASE \E r \in offers.opening : Surfaces!SettingsRead(r)
    <2>1. PICK r \in offers.opening :
            offers' = [offers EXCEPT !.opening = @ \ {r}, !.out = @ \cup {r}, !.control = Surfaces!Gone,
                                 !.card = Surfaces!Card("pending", r)]
      BY <1>5 DEF Surfaces!SettingsRead
    <2> DEFINE c == Surfaces!Card("pending", r)
    <2>2. c.is = "pending" /\ c.of = r
      BY DEF Surfaces!Card
    <2>3. offers' = [offers EXCEPT !.opening = @ \ {r}, !.out = @ \cup {r}, !.control = Surfaces!Gone,
                     !.card = c]
      BY <2>1
    <2> HIDE DEF c
    <2>4. /\ DOMAIN offers' = PageNames /\ offers'.opening = offers.opening \ {r} /\
             offers'.out = offers.out \cup {r}
          /\ offers'.control = Surfaces!Gone /\ offers'.card = c /\ offers'.popover = offers.popover
          /\ offers'.closed = offers.closed
      BY <2>3 DEF PageInv, AskedOK, PageNames
    <2> QED
      BY <2>2, <2>4 DEF PageInv, AskedOK, ControlOK
  <1> QED
    BY <1>1, <1>2, <1>3, <1>4, <1>5

\* A search for synonyms begins.
LEMMA SynonymSteps ==
  ASSUME PageInv(offers), Surfaces!ClickSynonyms
  PROVE  PageInv(offers')
  <1> DEFINE r == Surfaces!Request(offers, "synonyms", offers.control.span, offers.control.said)
             p == Surfaces!Popover("loading", r)
             f == Surfaces!Outside(offers)
  <1>1. PageInv(f) /\ r.kind = "synonyms" /\ p.is = "loading" /\ p.of = r
    BY CardLeaves DEF Surfaces!Request, Surfaces!Popover
  <1>2. \/ \E x : offers' = [f EXCEPT !.control = Surfaces!Gone, !.asked = @ + 1, !.out = @ \cup {r},
                             !.closed = FALSE,
                                    !.popover = p, !.crossed = x]
        \/ offers' = [f EXCEPT !.control = Surfaces!Gone]
    BY Zenon DEF Surfaces!ClickSynonyms
  <1> HIDE DEF r, p, f
  <1>3. CASE offers' = [f EXCEPT !.control = Surfaces!Gone]
    BY <1>1, <1>3, CardHides DEF PageInv
  <1>4. CASE \E x : offers' = [f EXCEPT !.control = Surfaces!Gone, !.asked = @ + 1, !.out = @ \cup {r},
                               !.closed = FALSE,
                                      !.popover = p, !.crossed = x]
    <2>1. /\ DOMAIN offers' = PageNames /\ offers'.control = Surfaces!Gone /\ offers'.out = f.out \cup {r}
          /\ offers'.closed = FALSE /\ offers'.popover = p /\ offers'.card = f.card /\
             offers'.opening = f.opening
      BY <1>1, <1>4 DEF PageInv, AskedOK, PageNames
    <2> QED
      BY <1>1, <2>1 DEF PageInv, AskedOK, ControlOK
  <1> QED
    BY <1>2, <1>3, <1>4

\* The bridge answers or does not: what waited for it waits no more, and a popover
\* that was closed stays so.
LEMMA BridgeSteps ==
  ASSUME PageInv(offers), NEW r \in offers.out, Surfaces!Answer(r) \/ Surfaces!Fail(r)
  PROVE  PageInv(offers')
  <1> DEFINE f == [offers EXCEPT !.out = @ \ {r}]
             gone == Surfaces!Gone
  <1>1. gone.is = "gone" /\ gone = Surfaces!Gone
    BY DEF Surfaces!Gone
  <1>2. \A is : Surfaces!Card(is, r).is = is /\ Surfaces!Popover(is, r).is = is
    BY DEF Surfaces!Card, Surfaces!Popover
  <1>3. /\ DOMAIN f = PageNames /\ f.out = offers.out \ {r} /\ \A n \in PageNames \ {"out"} : f[n] = offers[n]
    BY DEF PageInv, AskedOK, PageNames
  <1> HIDE DEF gone
  <1>4. \/ /\ r.kind = "rephrase"
           /\ \E is \in {"result", "error"} : offers' = [f EXCEPT !.card = Surfaces!Card(is, r)]
        \/ /\ r.kind = "synonyms"
           /\ \E is \in {"loaded", "empty"} : offers' = [f EXCEPT !.popover = Surfaces!Loaded(f, r, is)]
        \/ r.kind = "synonyms" /\ offers' = [f EXCEPT !.popover = gone]
    BY <1>1 DEF Surfaces!Answer, Surfaces!Fail
  <1>5. \A is : Surfaces!Loaded(f, r, is) = IF f.popover = gone THEN gone ELSE Surfaces!Popover(is, r)
    BY <1>1 DEF Surfaces!Loaded
  <1> HIDE DEF f
  <1>6. /\ f.opening = offers.opening /\ f.card = offers.card /\ f.popover = offers.popover /\
           (f.closed <=> offers.closed)
        /\ f.text = offers.text /\ f.selection = offers.selection /\ (f.debounce <=> offers.debounce)
        /\ f.control = offers.control
    BY <1>3 DEF PageNames
  <1>7. CASE r.kind = "rephrase" /\ \E is \in {"result", "error"} :
             offers' = [f EXCEPT !.card = Surfaces!Card(is, r)]
    <2>1. PICK c : offers' = [f EXCEPT !.card = c] /\ c.is \in {"result", "error"}
      BY <1>2, <1>7
    <2>2. /\ DOMAIN offers' = PageNames /\ offers'.card = c /\ offers'.out = offers.out \ {r} /\
             offers'.popover = offers.popover
          /\ offers'.opening = offers.opening /\ (offers'.closed <=> offers.closed)
          /\ offers'.text = offers.text /\ offers'.selection = offers.selection /\
             (offers'.debounce <=> offers.debounce)
          /\ offers'.control = offers.control
      BY <1>3, <1>6, <2>1 DEF PageNames
    <2> QED
      BY <1>7, <2>1, <2>2 DEF PageInv, AskedOK, ControlOK
  <1>8. CASE \/ r.kind = "synonyms" /\ \E is \in {"loaded", "empty"} :
                offers' = [f EXCEPT !.popover = Surfaces!Loaded(f, r, is)]
             \/ r.kind = "synonyms" /\ offers' = [f EXCEPT !.popover = gone]
    <2>1. PICK p : /\ offers' = [f EXCEPT !.popover = p] /\ p.is \in {"gone", "loaded", "empty"}
                   /\ offers.popover = gone => p = gone
      BY <1>1, <1>2, <1>5, <1>6, <1>8
    <2>2. /\ DOMAIN offers' = PageNames /\ offers'.card = offers.card /\ offers'.out = offers.out \ {r} /\
             offers'.popover = p
          /\ offers'.opening = offers.opening /\ (offers'.closed <=> offers.closed)
          /\ offers'.text = offers.text /\ offers'.selection = offers.selection /\
             (offers'.debounce <=> offers.debounce)
          /\ offers'.control = offers.control
      BY <1>3, <1>6, <2>1 DEF PageNames
    <2> QED
      BY <1>1, <1>8, <2>1, <2>2 DEF PageInv, AskedOK, ControlOK
  <1> QED
    BY <1>4, <1>7, <1>8

\* A card or popover that goes.
LEMMA Closes ==
  ASSUME NEW f, PageInv(f), NEW u, DOMAIN u = PageNames,
         u.card = Surfaces!Gone \/ u.card = f.card,
         u.popover = Surfaces!Gone \/ (u.popover = f.popover /\ (u.closed <=> f.closed)),
         u.opening = f.opening, u.out = f.out, u.text = f.text, u.selection = f.selection,
         u.debounce <=> f.debounce, u.control = f.control
  PROVE  PageInv(u)
  <1>1. Surfaces!Gone.is = "gone"
    BY DEF Surfaces!Gone
  <1> QED
    BY <1>1 DEF PageInv, AskedOK, ControlOK

\* To close a surface leaves the others as they are.
LEMMA CloseSteps ==
  ASSUME PageInv(offers), Surfaces!CloseCard \/ Surfaces!ClosePopover \/ Surfaces!ToastGoes
  PROVE  PageInv(offers')
  <1> DEFINE u == offers'
  <1>1. /\ DOMAIN u = PageNames
        /\ u.card = Surfaces!Gone \/ u.card = offers.card
        /\ u.popover = Surfaces!Gone \/ (u.popover = offers.popover /\ (u.closed <=> offers.closed))
        /\ u.opening = offers.opening /\ u.out = offers.out /\ u.text = offers.text /\
           u.selection = offers.selection
        /\ (u.debounce <=> offers.debounce) /\ u.control = offers.control
    <2>1. DOMAIN offers = PageNames
      BY DEF PageInv, AskedOK
    <2>2. CASE Surfaces!CloseCard
      BY <2>1, <2>2 DEF Surfaces!CloseCard, PageNames
    <2>3. CASE Surfaces!ClosePopover
      BY <2>1, <2>3 DEF Surfaces!ClosePopover, PageNames
    <2>4. CASE Surfaces!ToastGoes
      BY <2>1, <2>4 DEF Surfaces!ToastGoes, PageNames
    <2> QED
      BY <2>2, <2>3, <2>4
  <1> QED
    BY <1>1, Closes

\* A rephrasing is accepted.
LEMMA AcceptSteps ==
  ASSUME PageInv(offers), Surfaces!Accept
  PROVE  PageInv(offers')
  <1> DEFINE f == [offers EXCEPT !.card = Surfaces!Gone, !.popover = Surfaces!Gone, !.closed = TRUE]
             r == offers.card.of
  <1>1. /\ DOMAIN f = PageNames /\ f.card = Surfaces!Gone /\ f.popover = Surfaces!Gone
        /\ f.opening = offers.opening /\ f.out = offers.out /\ f.text = offers.text /\
           f.selection = offers.selection
        /\ (f.debounce <=> offers.debounce) /\ f.control = offers.control
    BY DEF PageInv, AskedOK, PageNames
  <1>2. PICK by \in Surfaces!Rephrasings :
          \/ offers' = f
          \/ offers' = Surfaces!Swapped(f, r, by, "rephrasing")
          \/ offers' = [Surfaces!Swapped(f, r, by, "rephrasing") EXCEPT !.toast = [is |-> "rephrased",
                                                                                   of |-> r, by |-> by]]
    BY Zenon DEF Surfaces!Accept
  <1> HIDE DEF f
  <1>3. PageInv(f)
    BY <1>1, Closes
  <1> DEFINE g == Surfaces!Swapped(f, r, by, "rephrasing")
             toast == [is |-> "rephrased", of |-> r, by |-> by]
  <1>4. PageInv(g)
    BY <1>3, Swaps
  <1>5. offers' = f \/ offers' = g \/ offers' = [g EXCEPT !.toast = toast]
    BY <1>2
  <1> HIDE DEF g, toast
  <1>6. ASSUME offers' = [g EXCEPT !.toast = toast] PROVE PageInv(offers')
    <2>1. DOMAIN offers' = PageNames /\ \A n \in AskedNames \cup ControlNames : offers'[n] = g[n]
      BY <1>4, <1>6 DEF PageInv, AskedOK, PageNames, AskedNames, ControlNames
    <2> QED
      BY <1>4, <2>1, CardAlike
  <1> QED
    BY <1>3, <1>4, <1>5, <1>6

\* A synonym is picked.
LEMMA PickSteps ==
  ASSUME PageInv(offers), Surfaces!Pick
  PROVE  PageInv(offers')
  <1> DEFINE f == [offers EXCEPT !.card = Surfaces!Gone]
             r == offers.popover.of
  <1>1. PICK by, taken : offers' = Surfaces!PickInField(f, r, by) \/
             offers' = Surfaces!PickInComposer(f, r, by, taken)
    BY Zenon DEF Surfaces!Pick
  <1>2. /\ DOMAIN f = PageNames /\ f.card = Surfaces!Gone /\ f.popover = offers.popover /\
           (f.closed <=> offers.closed)
        /\ f.opening = offers.opening /\ f.out = offers.out /\ f.text = offers.text /\
           f.selection = offers.selection
        /\ (f.debounce <=> offers.debounce) /\ f.control = offers.control
    BY DEF PageInv, AskedOK, PageNames
  <1> HIDE DEF f
  <1>3. PageInv(f)
    BY <1>2, Closes
  <1>4. CASE offers' = Surfaces!PickInField(f, r, by)
    <2> DEFINE h == [f EXCEPT !.popover = Surfaces!Gone, !.closed = TRUE]
               g == Surfaces!Swapped(h, r, by, "synonym")
    <2>1. /\ DOMAIN h = PageNames /\ h.card = f.card /\ h.popover = Surfaces!Gone
          /\ h.opening = f.opening /\ h.out = f.out /\ h.text = f.text /\ h.selection = f.selection
          /\ (h.debounce <=> f.debounce) /\ h.control = f.control
      BY <1>2 DEF PageNames
    <2>2. \E a, toast : offers' = [g EXCEPT !.applied = a, !.toast = toast]
      BY <1>4 DEF Surfaces!PickInField
    <2> HIDE DEF h
    <2>3. PageInv(g)
      BY <1>3, <2>1, Closes, Swaps
    <2> HIDE DEF g
    <2>4. DOMAIN offers' = PageNames /\ \A n \in AskedNames \cup ControlNames : offers'[n] = g[n]
      BY <2>2, <2>3 DEF PageInv, AskedOK, PageNames, AskedNames, ControlNames
    <2> QED
      BY <2>3, <2>4, CardAlike
  <1>5. CASE offers' = Surfaces!PickInComposer(f, r, by, taken)
    <2> DEFINE g == Surfaces!Swapped(f, r, by, "synonym")
    <2>1. PageInv(g)
      BY <1>3, Swaps
    <2>2. \/ offers' = f
          \/ \E a, toast : offers' = [g EXCEPT !.popover = Surfaces!Gone, !.closed = TRUE, !.applied = a,
                                      !.toast = toast]
      BY <1>5 DEF Surfaces!PickInComposer
    <2> HIDE DEF g
    <2>3. CASE \E a, toast : offers' = [g EXCEPT !.popover = Surfaces!Gone, !.closed = TRUE, !.applied = a,
                                        !.toast = toast]
      <3> DEFINE u == offers'
      <3>1. /\ DOMAIN u = PageNames /\ u.card = g.card /\ u.popover = Surfaces!Gone
            /\ u.opening = g.opening /\ u.out = g.out /\ u.text = g.text /\ u.selection = g.selection
            /\ (u.debounce <=> g.debounce) /\ u.control = g.control
        BY <2>1, <2>3 DEF PageInv, AskedOK, PageNames
      <3> QED
        BY <2>1, <3>1, Closes
    <2> QED
      BY <1>3, <2>2, <2>3
  <1> QED
    BY <1>1, <1>4, <1>5

\* What undo leaves: its plan taken back, and nothing more to undo.
UndoneTo(f, plan, o, u) ==
  \E g, w :
    /\ g = IF plan = <<>> THEN f
           ELSE Surfaces!Selected([f EXCEPT !.text = Surfaces!TakenBack(f.text, plan)],
                                  Surfaces!Caret(Surfaces!Last(plan).start
                                                 + Len(Surfaces!Last(plan).original)))
    /\ w = IF Len(plan) # 1 THEN Surfaces!Gone
           ELSE [is |-> "undo", found |-> Surfaces!Slice(f.text, plan[1]), of |-> plan[1]]
    /\ u = [g EXCEPT !.applied = <<>>, !.toast = Surfaces!Gone, !.wrote = w,
                     !.undone = ~ o.since /\ o.wrote.is = "synonym" /\ Len(o.applied) = 1]

LEMMA UndoIs ==
  ASSUME NEW f, f = Surfaces!Outside(offers), NEW plan,
         plan = Surfaces!Plain!PlanUndo(f.text, f.applied), Surfaces!Undo
  PROVE  UndoneTo(f, plan, offers, offers')
  <1>1. offers' = [(IF plan = <<>> THEN f
                    ELSE Surfaces!Selected([f EXCEPT !.text = Surfaces!TakenBack(@, plan)],
                                           Surfaces!Caret(Surfaces!Last(plan).start
                                                          + Len(Surfaces!Last(plan).original)))) EXCEPT
                     !.applied = <<>>, !.toast = Surfaces!Gone,
                     !.wrote = IF Len(plan) # 1 THEN Surfaces!Gone
                               ELSE [is |-> "undo", found |-> Surfaces!Slice(f.text, plan[1]), of |-> plan[1]],
                     !.undone = ~ offers.since /\ offers.wrote.is = "synonym" /\ Len(offers.applied) = 1]
    BY Zenon DEF Surfaces!Undo
  <1> DEFINE t == Surfaces!TakenBack(f.text, plan)
  <1>2. [f EXCEPT !.text = Surfaces!TakenBack(@, plan)] = [f EXCEPT !.text = t]
    OBVIOUS
  <1> QED
    BY Zenon, <1>1, <1>2 DEF UndoneTo

\* A swap is taken back.
LEMMA UndoSteps ==
  ASSUME PageInv(offers), Surfaces!Undo \/ Surfaces!UndoRephrase
  PROVE  PageInv(offers')
  <1> DEFINE f == Surfaces!Outside(offers)
  <1>1. PageInv(f)
    BY CardLeaves
  <1>2. CASE Surfaces!Undo
    <2> DEFINE plan == Surfaces!Plain!PlanUndo(f.text, f.applied)
    <2>1. UndoneTo(f, plan, offers, offers')
      BY <1>2, UndoIs
    <2> HIDE DEF f, plan
    <2> DEFINE text == Surfaces!TakenBack(f.text, plan)
               caret == Surfaces!Caret(Surfaces!Last(plan).start + Len(Surfaces!Last(plan).original))
               undone == ~ offers.since /\ offers.wrote.is = "synonym" /\ Len(offers.applied) = 1
               gone == Surfaces!Gone
    <2>2. PICK g, w :
            /\ g = IF plan = <<>> THEN f ELSE Surfaces!Selected([f EXCEPT !.text = text], caret)
            /\ offers' = [g EXCEPT !.applied = <<>>, !.toast = gone, !.wrote = w, !.undone = undone]
      BY <2>1, Zenon DEF UndoneTo
    <2> HIDE DEF text, caret, undone, gone
    <2>3. PageInv(g)
      BY <1>1, <2>2, Edits DEF PageInv
    <2>4. DOMAIN offers' = PageNames /\ \A n \in AskedNames \cup ControlNames : offers'[n] = g[n]
      BY <2>2, <2>3 DEF PageInv, AskedOK, PageNames, AskedNames, ControlNames
    <2> QED
      BY <2>3, <2>4, CardAlike
  <1>3. CASE Surfaces!UndoRephrase
    <2> DEFINE r == offers.toast.of
               h == [f EXCEPT !.toast = Surfaces!Gone]
               g == Surfaces!Edited(h, r.span, r.said)
    <2>1. \/ offers' = h
          \/ \E a : offers' = [g EXCEPT !.since = TRUE, !.wrote = Surfaces!Gone, !.undone = a]
      BY <1>3, Zenon DEF Surfaces!UndoRephrase
    <2> HIDE DEF f
    <2>2. DOMAIN h = PageNames /\ \A n \in AskedNames \cup ControlNames : h[n] = f[n]
      BY <1>1 DEF PageInv, AskedOK, PageNames, AskedNames, ControlNames
    <2> HIDE DEF h
    <2>3. PageInv(h)
      BY <1>1, <2>2, CardAlike
    <2>4. PageInv(g)
      BY <2>3, Edits DEF Surfaces!Edited, PageInv
    <2> HIDE DEF g
    <2>5. CASE \E a : offers' = [g EXCEPT !.since = TRUE, !.wrote = Surfaces!Gone, !.undone = a]
      <3>1. DOMAIN offers' = PageNames /\ \A n \in AskedNames \cup ControlNames : offers'[n] = g[n]
        BY <2>4, <2>5 DEF PageInv, AskedOK, PageNames, AskedNames, ControlNames
      <3> QED
        BY <2>4, <3>1, CardAlike
    <2> QED
      BY <2>1, <2>3, <2>5
  <1> QED
    BY <1>2, <1>3

\* At first nothing is offered.
LEMMA PageInit == Surfaces!Init => PageInv(offers)
  <1> SUFFICES ASSUME Surfaces!Init PROVE PageInv(offers)
    OBVIOUS
  <1>1. /\ DOMAIN offers = PageNames /\ offers.opening = {} /\ offers.card = Surfaces!Gone /\
           offers.popover = Surfaces!Gone
        /\ offers.control = Surfaces!Gone
    BY DEF Surfaces!Init, PageNames
  <1>2. Surfaces!Gone.is = "gone"
    BY DEF Surfaces!Gone
  <1> QED
    BY <1>1, <1>2 DEF PageInv, AskedOK, ControlOK

\* No step breaks the invariant of what is offered.
LEMMA PageStep == PageInv(offers) /\ [Surfaces!Next]_offers => PageInv(offers)'
  <1> SUFFICES ASSUME PageInv(offers), [Surfaces!Next]_offers PROVE PageInv(offers')
    OBVIOUS
  <1>1. CASE UNCHANGED offers
    BY <1>1
  <1>2. CASE Surfaces!Next
    BY <1>2, UserSteps, RephraseSteps, SynonymSteps, BridgeSteps, CloseSteps, AcceptSteps, PickSteps,
       UndoSteps
    DEF Surfaces!Next
  <1> QED
    BY <1>1, <1>2

-----------------------------------------------------------------------------
(* What the surfaces write, and what undo puts back. *)

\* A request is of a span that is not empty, and says as much as that; a search for
\* synonyms is of one word.
SpanSaid(W, span, said) ==
  /\ span.start \in Nat /\ span.end \in Nat /\ span.start < span.end
  /\ said \in Seq(W) /\ Len(said) = span.end - span.start
OneWord(span) == span.end = span.start + 1
RequestOK(W, r) ==
  SpanSaid(W, r.span, r.said) /\ r.original \in Seq(W) /\ (r.kind = "synonyms" => OneWord(r.span))
WordOK(W, r) == RequestOK(W, r) /\ r.kind = "synonyms"
ShownOK(W, c) == SpanSaid(W, c.span, c.said) /\ (c.clean => OneWord(c.span))

\* What the surfaces are of.
OffersOK(W, f) ==
  /\ \A r \in f.opening : RequestOK(W, r)
  /\ \A r \in f.out : RequestOK(W, r)
  /\ f.card # Surfaces!Gone => RequestOK(W, f.card.of)
  /\ f.popover # Surfaces!Gone => WordOK(W, f.popover.of)
  /\ f.toast.is = "rephrased" => RequestOK(W, f.toast.of) /\ f.toast.by \in Seq(W)
  /\ f.control # Surfaces!Gone => ShownOK(W, f.control)

\* The texts, the selection, and what undo has of them.
TextsOK(W, f) ==
  /\ DOMAIN f = PageNames /\ f.client \in {"browser", "vencord"}
  /\ f.text \in Seq(W) /\ f.before \in Seq(W) /\ f.selection \in Surfaces!Spans(f.text)
  /\ f.applied \in Seq(Records(W))

\* Where two searches never crossed in the browser, the popover is of the only one that
\* is out, and of a word as it still is.
Sure(f) == f.client = "browser" => ~f.crossed
HeldOK(f) ==
  f.client = "browser" /\ ~f.crossed =>
    /\ \A q, r \in f.out : q.kind = "synonyms" /\ r.kind = "synonyms" => q = r
    /\ f.popover # Surfaces!Gone =>
         /\ f.popover.of.original = Surfaces!Slice(f.text, f.popover.of.span)
         /\ \A r \in f.out : r.kind = "synonyms" => f.popover.of = r

\* A text is the one before with a span written over, and that was there.
TookOver(before, text, start, end, by, was) ==
  /\ start \in Nat /\ end \in Nat /\ start <= end /\ end <= Len(before)
  /\ text = Over(before, start, end, by) /\ was = SubSeq(before, start + 1, end)

\* What was done last is what undo has: if it is a synonym and all that undo has, or a
\* rephrasing in a composer that has a toast.
TookOK(f) ==
  /\ f.client = "browser" => f.toast.is # "rephrased"
  /\ f.wrote.is = "synonym" /\ ~f.since /\ Sure(f) /\ Len(f.applied) = 1 =>
       \E end : TookOver(f.before, f.text, f.applied[1].start, end, f.applied[1].applied, f.applied[1].original)
  /\ f.toast.is = "rephrased" /\ ~f.since =>
       TookOver(f.before, f.text, f.toast.of.span.start, f.toast.of.span.end, f.toast.by, f.toast.of.said)

\* What was written over was what its surface is of, and what was undone is as before.
OwnOK(f) ==
  /\ f.wrote.is = "rephrasing" => f.wrote.found = f.wrote.of.said
  /\ f.wrote.is = "undo" => f.wrote.found = f.wrote.of.applied
  /\ f.wrote.is = "synonym" /\ (f.client = "browser" => ~f.crossed /\ f.wrote.of.said = f.wrote.of.original) =>
       f.wrote.found = f.wrote.of.said
  /\ f.undone /\ Sure(f) => f.text = f.before

\* All of it.
SwapInv(W, f) == TextsOK(W, f) /\ OffersOK(W, f) /\ HeldOK(f) /\ TookOK(f) /\ OwnOK(f)

\* What is written, and what is told of it, are as they were.
Quiet(f, u) ==
  /\ u.client = f.client /\ u.text = f.text /\ u.before = f.before /\ u.applied = f.applied
  /\ u.wrote = f.wrote /\ (u.since <=> f.since) /\ (u.crossed <=> f.crossed) /\ (u.undone <=> f.undone)

\* A step that writes nothing, asks for no synonyms and offers none that were not there
\* keeps the invariant.
LEMMA Keeps ==
  ASSUME NEW W, NEW f, SwapInv(W, f), NEW u, DOMAIN u = PageNames, Quiet(f, u),
         u.selection \in Surfaces!Spans(f.text), OffersOK(W, u),
         u.toast = f.toast \/ u.toast = Surfaces!Gone, u.popover = f.popover \/ u.popover = Surfaces!Gone,
         \A r \in u.out : r \in f.out \/ r.kind = "rephrase"
  PROVE  SwapInv(W, u)
  <1>1. Surfaces!Gone.is = "gone"
    BY DEF Surfaces!Gone
  <1>2. TextsOK(W, u)
    BY DEF SwapInv, TextsOK, Quiet
  <1>3. HeldOK(u)
    <2>1. CASE f.client = "browser" /\ ~f.crossed
      <3>1. /\ \A q, r \in f.out : q.kind = "synonyms" /\ r.kind = "synonyms" => q = r
            /\ f.popover # Surfaces!Gone =>
                 /\ f.popover.of.original = Surfaces!Slice(f.text, f.popover.of.span)
                 /\ \A r \in f.out : r.kind = "synonyms" => f.popover.of = r
        BY <2>1 DEF SwapInv, HeldOK
      <3>2. \A r \in u.out : r.kind = "synonyms" => r \in f.out
        OBVIOUS
      <3> QED
        BY <3>1, <3>2 DEF HeldOK, Quiet
    <2> QED
      BY <2>1 DEF HeldOK, Quiet
  <1>4. TookOK(u)
    BY <1>1 DEF SwapInv, TookOK, Quiet, Sure
  <1>5. OwnOK(u)
    BY DEF SwapInv, OwnOK, Quiet, Sure
  <1> QED
    BY <1>2, <1>3, <1>4, <1>5 DEF SwapInv

\* What the steps are made of: a selection,
LEMMA SelectedIs ==
  ASSUME NEW f, DOMAIN f = PageNames, NEW span, NEW u, u = Surfaces!Selected(f, span)
  PROVE  /\ DOMAIN u = PageNames /\ Quiet(f, u) /\ u.selection = span /\ u.control = f.control
         /\ u.opening = f.opening /\ u.out = f.out /\ u.card = f.card /\ u.toast = f.toast
         /\ u.popover = IF f.client = "browser" THEN Surfaces!Gone ELSE f.popover
  <1> DEFINE gone == Surfaces!Gone
             p == IF f.client = "browser" THEN gone ELSE f.popover
  <1>1. u = [f EXCEPT !.selection = span, !.debounce = TRUE, !.popover = p,
                      !.closed = f.closed \/ f.client = "browser"]
    BY DEF Surfaces!Selected
  <1>2. p = IF f.client = "browser" THEN Surfaces!Gone ELSE f.popover
    OBVIOUS
  <1> HIDE DEF gone, p
  <1> QED
    BY <1>1, <1>2 DEF PageNames, Quiet

\* a press outside,
LEMMA OutsideIs ==
  ASSUME NEW f, DOMAIN f = PageNames, NEW u, u = Surfaces!Outside(f)
  PROVE  /\ DOMAIN u = PageNames /\ Quiet(f, u) /\ u.selection = f.selection /\ u.control = f.control
         /\ u.opening = f.opening /\ u.out = f.out /\ u.card = Surfaces!Gone /\ u.toast = f.toast
         /\ u.popover = Surfaces!Gone
  <1> DEFINE gone == Surfaces!Gone
  <1>1. u = [f EXCEPT !.card = gone, !.popover = gone, !.closed = TRUE]
    BY DEF Surfaces!Outside
  <1>2. gone = Surfaces!Gone
    OBVIOUS
  <1> HIDE DEF gone
  <1> QED
    BY <1>1, <1>2 DEF PageNames, Quiet

\* a rephrasing that is asked for,
LEMMA RephraseIs ==
  ASSUME NEW f, DOMAIN f = PageNames, NEW span, NEW said, NEW u, u = Surfaces!Rephrase(f, span, said)
  PROVE  \E r :
           /\ r.kind = "rephrase" /\ r.span = span /\ r.said = said /\ r.original = Surfaces!Slice(f.text, span)
           /\ DOMAIN u = PageNames /\ Quiet(f, u) /\ u.selection = f.selection /\ u.control = f.control
           /\ \A q \in u.opening : q \in f.opening \/ q = r
           /\ \A q \in u.out : q \in f.out \/ q = r
           /\ u.card = f.card \/ u.card.of = r
           /\ u.toast = f.toast /\ u.popover = f.popover
  <1> DEFINE r == Surfaces!Request(f, "rephrase", span, said)
             c == Surfaces!Card("pending", r)
  <1>1. r.kind = "rephrase" /\ r.span = span /\ r.said = said /\ r.original = Surfaces!Slice(f.text, span)
    BY DEF Surfaces!Request
  <1>2. c.of = r
    BY DEF Surfaces!Card
  <1>3. u = IF f.client = "browser" THEN [f EXCEPT !.asked = @ + 1, !.opening = @ \cup {r}]
            ELSE [f EXCEPT !.asked = @ + 1, !.out = @ \cup {r}, !.card = c]
    BY DEF Surfaces!Rephrase
  <1> HIDE DEF r, c
  <1>4. /\ DOMAIN u = PageNames /\ Quiet(f, u) /\ u.selection = f.selection /\ u.control = f.control
        /\ \A q \in u.opening : q \in f.opening \/ q = r
        /\ \A q \in u.out : q \in f.out \/ q = r
        /\ u.card = f.card \/ u.card = c
        /\ u.toast = f.toast /\ u.popover = f.popover
    <2>1. CASE f.client = "browser"
      BY <1>3, <2>1 DEF PageNames, Quiet
    <2>2. CASE f.client # "browser"
      BY <1>3, <2>2 DEF PageNames, Quiet
    <2> QED
      BY <2>1, <2>2
  <1> QED
    BY <1>1, <1>2, <1>4

\* and an edit.
LEMMA EditedIs ==
  ASSUME NEW f, DOMAIN f = PageNames, NEW span, NEW by, NEW u, u = Surfaces!Edited(f, span, by)
  PROVE  /\ DOMAIN u = PageNames
         /\ u.text = Over(f.text, span.start, span.end, by)
         /\ u.selection = Surfaces!Caret(span.start + Len(by))
         /\ u.client = f.client /\ u.before = f.before /\ u.applied = f.applied /\ u.wrote = f.wrote
         /\ (u.since <=> f.since) /\ (u.crossed <=> f.crossed) /\ (u.undone <=> f.undone)
         /\ u.control = f.control /\ u.opening = f.opening /\ u.out = f.out /\ u.card = f.card
         /\ u.toast = f.toast /\ u.popover = IF f.client = "browser" THEN Surfaces!Gone ELSE f.popover
  <1> DEFINE t == Surfaces!Replace(f.text, span, by)
             s == Surfaces!Caret(span.start + Len(by))
             g == [f EXCEPT !.text = t]
  <1>1. u = Surfaces!Selected(g, s)
    BY DEF Surfaces!Edited
  <1>2. t = Over(f.text, span.start, span.end, by)
    BY ReplaceOver
  <1>3. s = Surfaces!Caret(span.start + Len(by))
    OBVIOUS
  <1> HIDE DEF t, s
  <1>4. /\ DOMAIN g = PageNames /\ g.text = t
        /\ g.client = f.client /\ g.before = f.before /\ g.applied = f.applied /\ g.wrote = f.wrote
        /\ (g.since <=> f.since) /\ (g.crossed <=> f.crossed) /\ (g.undone <=> f.undone)
        /\ g.control = f.control /\ g.opening = f.opening /\ g.out = f.out /\ g.card = f.card
        /\ g.toast = f.toast /\ g.popover = f.popover
    BY DEF PageNames
  <1> HIDE DEF g
  <1>5. /\ DOMAIN u = PageNames /\ Quiet(g, u) /\ u.selection = s /\ u.control = g.control
        /\ u.opening = g.opening /\ u.out = g.out /\ u.card = g.card /\ u.toast = g.toast
        /\ u.popover = IF g.client = "browser" THEN Surfaces!Gone ELSE g.popover
    BY <1>1, <1>4, SelectedIs
  <1> QED
    BY <1>2, <1>3, <1>4, <1>5 DEF Quiet

\* An edit leaves a text, and the caret in it.
LEMMA EditFits ==
  ASSUME NEW W, NEW t, NEW start, NEW end, NEW by, Fits(W, t, start, end, by)
  PROVE  /\ Over(t, start, end, by) \in Seq(W)
         /\ Surfaces!Caret(start + Len(by)) \in Surfaces!Spans(Over(t, start, end, by))
  <1> DEFINE u == Over(t, start, end, by)
             i == start + Len(by)
  <1>1. Reads(W, u, t, start, end, by)
    BY Written
  <1> HIDE DEF u
  <1>2. t \in Seq(W) /\ by \in Seq(W) /\ start \in Nat /\ end \in Nat
    BY DEF Fits
  <1>3. Len(t) \in Nat /\ Len(by) \in Nat
    BY <1>2, LenProperties
  <1>4. u \in Seq(W) /\ Len(u) \in Nat /\ i \in 0..Len(u)
    <2>1. u \in Seq(W) /\ Len(u) = start + Len(by) + Rest(t, end)
      BY <1>1 DEF Reads
    <2>2. Rest(t, end) \in Nat
      BY <1>2, <1>3 DEF Rest
    <2> QED
      BY <1>2, <1>3, <2>1, <2>2
  <1> HIDE DEF i
  <1>5. Surfaces!Caret(i) \in Surfaces!Spans(u)
    BY <1>4 DEF Surfaces!Caret, Surfaces!Spans
  <1> QED
    BY <1>4, <1>5 DEF u, i

\* What is selected is in the text.
LEMMA SpanIn ==
  ASSUME NEW W, NEW t \in Seq(W), NEW s \in Surfaces!Spans(t)
  PROVE  s.start \in Nat /\ s.end \in Nat /\ s.start <= s.end /\ s.end <= Len(t) /\ s.start <= Len(t)
  <1>1. Len(t) \in Nat
    BY LenProperties
  <1>2. s.start \in 0..Len(t) /\ s.end \in 0..Len(t) /\ s.start <= s.end
    BY DEF Surfaces!Spans
  <1> QED
    BY <1>1, <1>2

\* What is sliced is a text, as long as the span if the span is in it, and no other way.
LEMMA Slices ==
  ASSUME NEW W, NEW t \in Seq(W), NEW span, span.start \in Nat, span.end \in Nat, span.start <= span.end
  PROVE  /\ Surfaces!Slice(t, span) \in Seq(W)
         /\ span.start < span.end /\ Len(Surfaces!Slice(t, span)) = span.end - span.start => span.end <= Len(t)
         /\ span.end <= Len(t) => /\ Surfaces!Slice(t, span) = SubSeq(t, span.start + 1, span.end)
                                  /\ Len(Surfaces!Slice(t, span)) = span.end - span.start
  <1> DEFINE a == span.start
             b == span.end
  <1>1. a \in Nat /\ b \in Nat /\ a <= b /\ Surfaces!Slice(t, span) = Surfaces!Plain!Slice(t, a, b)
    BY DEF Surfaces!Slice
  <1> HIDE DEF a, b
  <1>2. /\ Surfaces!Plain!Slice(t, a, b) \in Seq(W)
        /\ a < b /\ Len(Surfaces!Plain!Slice(t, a, b)) = b - a => b <= Len(t)
        /\ b <= Len(t) => /\ Surfaces!Plain!Slice(t, a, b) = SubSeq(t, a + 1, b)
                          /\ Len(Surfaces!Plain!Slice(t, a, b)) = b - a
    BY <1>1, SliceIs
  <1> QED
    BY <1>1, <1>2 DEF a, b

\* The words that are written are words.
LEMMA WordsAre ==
  /\ <<>> \in Seq(Surfaces!Words) /\ <<"mine">> \in Seq(Surfaces!Words)
  /\ \A by \in Surfaces!Rephrasings : by \in Seq(Surfaces!Words)
  /\ \A by \in Surfaces!Synonyms : by \in Seq(Surfaces!Words) /\ Len(by) \in Nat \ {0}
  <1>1. "mine" \in Surfaces!Words /\ "re" \in Surfaces!Words /\ "syn" \in Surfaces!Words
    BY Zenon DEF Surfaces!Words
  <1> QED
    BY <1>1 DEF Surfaces!Rephrasings, Surfaces!Synonyms

\* A surface stays, goes, or is of a request.
LEMMA OffersKeep ==
  ASSUME NEW W, NEW f, OffersOK(W, f), NEW u,
         \A r \in u.opening : r \in f.opening \/ RequestOK(W, r),
         \A r \in u.out : r \in f.out \/ r \in f.opening \/ RequestOK(W, r),
         u.card = f.card \/ u.card = Surfaces!Gone \/ RequestOK(W, u.card.of),
         u.popover = f.popover \/ u.popover = Surfaces!Gone \/ WordOK(W, u.popover.of),
         u.toast = f.toast \/ u.toast = Surfaces!Gone,
         u.control = f.control \/ u.control = Surfaces!Gone \/ ShownOK(W, u.control)
  PROVE  OffersOK(W, u)
  <1>1. Surfaces!Gone.is = "gone"
    BY DEF Surfaces!Gone
  <1> QED
    BY <1>1 DEF OffersOK

\* Selecting, scrolling, and the control that the debounce shows.
LEMMA SwapUserSteps ==
  ASSUME NEW W, SwapInv(W, offers),
         Surfaces!SelectionMoves \/ Surfaces!Scroll \/ Surfaces!Debounced
  PROVE  SwapInv(W, offers')
  <1> DEFINE u == offers'
  <1>0. /\ DOMAIN offers = PageNames /\ OffersOK(W, offers) /\ offers.text \in Seq(W)
        /\ offers.selection \in Surfaces!Spans(offers.text)
    BY DEF SwapInv, TextsOK
  <1>1. CASE Surfaces!SelectionMoves
    <2>1. PICK span \in Surfaces!Spans(offers.text), mouse \in BOOLEAN :
            u = [Surfaces!Selected(IF mouse THEN Surfaces!Outside(offers) ELSE offers, span)
                   EXCEPT !.moves = @ + 1]
      BY <1>1, Zenon DEF Surfaces!SelectionMoves
    <2> DEFINE f == IF mouse THEN Surfaces!Outside(offers) ELSE offers
               g == Surfaces!Selected(f, span)
    <2>2. /\ DOMAIN f = PageNames /\ Quiet(offers, f) /\ f.control = offers.control
          /\ f.opening = offers.opening /\ f.out = offers.out /\ f.toast = offers.toast
          /\ f.card = offers.card \/ f.card = Surfaces!Gone
          /\ f.popover = offers.popover \/ f.popover = Surfaces!Gone
      <3>1. CASE mouse
        BY <1>0, <3>1, OutsideIs
      <3>2. CASE ~mouse
        BY <1>0, <3>2 DEF Quiet
      <3> QED
        BY <3>1, <3>2
    <2> HIDE DEF f
    <2>3. /\ DOMAIN g = PageNames /\ Quiet(f, g) /\ g.selection = span /\ g.control = f.control
          /\ g.opening = f.opening /\ g.out = f.out /\ g.card = f.card /\ g.toast = f.toast
          /\ g.popover = IF f.client = "browser" THEN Surfaces!Gone ELSE f.popover
      BY <2>2, SelectedIs
    <2>4. u = [g EXCEPT !.moves = @ + 1]
      BY <2>1 DEF f
    <2> HIDE DEF g
    <2>5. /\ DOMAIN u = PageNames /\ Quiet(g, u) /\ u.selection = g.selection /\ u.control = g.control
          /\ u.opening = g.opening /\ u.out = g.out /\ u.card = g.card /\ u.toast = g.toast
          /\ u.popover = g.popover
      BY <2>3, <2>4 DEF PageNames, Quiet
    <2> HIDE DEF u
    <2>6. OffersOK(W, u)
      BY <1>0, <2>2, <2>3, <2>5, OffersKeep
    <2>7. Quiet(offers, u)
      BY <2>2, <2>3, <2>5 DEF Quiet
    <2>8. /\ u.toast = offers.toast /\ u.out = offers.out /\ u.selection \in Surfaces!Spans(offers.text)
          /\ u.popover = offers.popover \/ u.popover = Surfaces!Gone
      BY <2>1, <2>2, <2>3, <2>5
    <2>9. SwapInv(W, u)
      BY <2>5, <2>6, <2>7, <2>8, Keeps
    <2> QED
      BY <2>9 DEF u
  <1>2. CASE Surfaces!Scroll
    <2> DEFINE f == Surfaces!Outside(offers)
    <2>1. u = [f EXCEPT !.control = Surfaces!Gone]
      BY <1>2 DEF Surfaces!Scroll
    <2>2. /\ DOMAIN f = PageNames /\ Quiet(offers, f) /\ f.selection = offers.selection
          /\ f.opening = offers.opening /\ f.out = offers.out /\ f.card = Surfaces!Gone
          /\ f.toast = offers.toast /\ f.popover = Surfaces!Gone
      BY <1>0, OutsideIs
    <2> HIDE DEF f
    <2>3. /\ DOMAIN u = PageNames /\ Quiet(f, u) /\ u.selection = f.selection
          /\ u.control = Surfaces!Gone
          /\ u.opening = f.opening /\ u.out = f.out /\ u.card = f.card /\ u.toast = f.toast
          /\ u.popover = f.popover
      BY <2>1, <2>2 DEF PageNames, Quiet
    <2> HIDE DEF u
    <2>4. OffersOK(W, u)
      BY <1>0, <2>2, <2>3, OffersKeep
    <2>5. Quiet(offers, u)
      BY <2>2, <2>3 DEF Quiet
    <2>6. SwapInv(W, u)
      BY <1>0, <2>2, <2>3, <2>4, <2>5, Keeps
    <2> QED
      BY <2>6 DEF u
  <1>3. CASE Surfaces!Debounced
    <2>1. PICK control \in Surfaces!Shown(offers) : u = [offers EXCEPT !.debounce = FALSE, !.control = control]
      BY <1>3 DEF Surfaces!Debounced
    <2>2. /\ DOMAIN u = PageNames /\ Quiet(offers, u) /\ u.selection = offers.selection
          /\ u.control = control
          /\ u.opening = offers.opening /\ u.out = offers.out /\ u.card = offers.card
          /\ u.toast = offers.toast /\ u.popover = offers.popover
      BY <1>0, <2>1 DEF PageNames, Quiet
    <2>3. control = Surfaces!Gone \/ ShownOK(W, control)
      <3> DEFINE s == offers.selection
      <3>1. \/ control = Surfaces!Gone
            \/ ~ Surfaces!Empty(s) /\ \E clean \in Surfaces!CleanWord(s) :
                 control = [is |-> "shown", span |-> s, said |-> Surfaces!Slice(offers.text, s), clean |-> clean]
        BY <2>1 DEF Surfaces!Shown
      <3>2. s.start \in Nat /\ s.end \in Nat /\ s.start <= s.end /\ s.end <= Len(offers.text)
        BY <1>0, SpanIn
      <3> HIDE DEF s
      <3>3. ASSUME ~ Surfaces!Empty(s), NEW clean \in Surfaces!CleanWord(s), NEW c,
                   c = [is |-> "shown", span |-> s, said |-> Surfaces!Slice(offers.text, s), clean |-> clean]
            PROVE  ShownOK(W, c)
        <4>1. s.start < s.end
          BY <3>2, <3>3 DEF Surfaces!Empty
        <4>2. /\ Surfaces!Slice(offers.text, s) \in Seq(W)
              /\ Len(Surfaces!Slice(offers.text, s)) = s.end - s.start
          BY <1>0, <3>2, Slices
        <4>3. clean => OneWord(s)
          BY DEF Surfaces!CleanWord, OneWord
        <4>4. c.span = s /\ c.said = Surfaces!Slice(offers.text, s) /\ (c.clean <=> clean)
          BY <3>3
        <4> QED
          BY <3>2, <4>1, <4>2, <4>3, <4>4 DEF ShownOK, SpanSaid
      <3> QED
        BY <3>1, <3>3
    <2> HIDE DEF u
    <2>4. OffersOK(W, u)
      BY <1>0, <2>2, <2>3, OffersKeep
    <2>5. SwapInv(W, u)
      BY <1>0, <2>2, <2>4, Keeps
    <2> QED
      BY <2>5 DEF u
  <1> QED
    BY <1>1, <1>2, <1>3

\* A rephrasing that is asked for is of a request,
LEMMA SwapRephrases ==
  ASSUME NEW W, NEW f, SwapInv(W, f), NEW span, NEW said, SpanSaid(W, span, said)
  PROVE  SwapInv(W, Surfaces!Rephrase(f, span, said))
  <1> DEFINE u == Surfaces!Rephrase(f, span, said)
  <1>1. /\ DOMAIN f = PageNames /\ OffersOK(W, f) /\ f.text \in Seq(W)
        /\ f.selection \in Surfaces!Spans(f.text)
    BY DEF SwapInv, TextsOK
  <1>2. PICK r :
           /\ r.kind = "rephrase" /\ r.span = span /\ r.said = said /\ r.original = Surfaces!Slice(f.text, span)
           /\ DOMAIN u = PageNames /\ Quiet(f, u) /\ u.selection = f.selection /\ u.control = f.control
           /\ \A q \in u.opening : q \in f.opening \/ q = r
           /\ \A q \in u.out : q \in f.out \/ q = r
           /\ u.card = f.card \/ u.card.of = r
           /\ u.toast = f.toast /\ u.popover = f.popover
    BY <1>1, RephraseIs
  <1> HIDE DEF u
  <1>3. RequestOK(W, r)
    <2>1. span.start \in Nat /\ span.end \in Nat /\ span.start <= span.end
      BY DEF SpanSaid
    <2>2. Surfaces!Slice(f.text, span) \in Seq(W)
      BY <1>1, <2>1, Slices
    <2> QED
      BY <1>2, <2>2 DEF RequestOK
  <1>4. OffersOK(W, u)
    BY <1>1, <1>2, <1>3, OffersKeep
  <1>5. SwapInv(W, u)
    BY <1>1, <1>2, <1>4, Keeps
  <1> QED
    BY <1>5 DEF u

\* a press outside takes offers away,
LEMMA SwapLeaves ==
  ASSUME NEW W, NEW f, SwapInv(W, f)
  PROVE  SwapInv(W, Surfaces!Outside(f))
  <1> DEFINE u == Surfaces!Outside(f)
  <1>1. DOMAIN f = PageNames /\ OffersOK(W, f) /\ f.selection \in Surfaces!Spans(f.text)
    BY DEF SwapInv, TextsOK
  <1>2. /\ DOMAIN u = PageNames /\ Quiet(f, u) /\ u.selection = f.selection /\ u.control = f.control
        /\ u.opening = f.opening /\ u.out = f.out /\ u.card = Surfaces!Gone /\ u.toast = f.toast
        /\ u.popover = Surfaces!Gone
    BY <1>1, OutsideIs
  <1> HIDE DEF u
  <1>3. OffersOK(W, u)
    BY <1>1, <1>2, OffersKeep
  <1>4. SwapInv(W, u)
    BY <1>1, <1>2, <1>3, Keeps
  <1> QED
    BY <1>4 DEF u

\* and so does a control that goes.
LEMMA SwapHides ==
  ASSUME NEW W, NEW f, SwapInv(W, f)
  PROVE  SwapInv(W, [f EXCEPT !.control = Surfaces!Gone])
  <1> DEFINE u == [f EXCEPT !.control = Surfaces!Gone]
  <1>1. DOMAIN f = PageNames /\ OffersOK(W, f) /\ f.selection \in Surfaces!Spans(f.text)
    BY DEF SwapInv, TextsOK
  <1>2. /\ DOMAIN u = PageNames /\ Quiet(f, u) /\ u.selection = f.selection /\ u.control = Surfaces!Gone
        /\ u.opening = f.opening /\ u.out = f.out /\ u.card = f.card /\ u.toast = f.toast
        /\ u.popover = f.popover
    BY <1>1 DEF PageNames, Quiet
  <1> HIDE DEF u
  <1>3. OffersOK(W, u)
    BY <1>1, <1>2, OffersKeep
  <1>4. SwapInv(W, u)
    BY <1>1, <1>2, <1>3, Keeps
  <1> QED
    BY <1>4 DEF u

\* Rephrasings are asked for of a selection, of the text, or of what a card is of.
LEMMA SwapRephraseSteps ==
  ASSUME NEW W, SwapInv(W, offers), PageInv(offers),
         \/ Surfaces!ClickRephrase \/ Surfaces!RephraseHotkey \/ Surfaces!Reissue \/ Surfaces!Retry
         \/ \E r \in offers.opening : Surfaces!SettingsRead(r)
  PROVE  SwapInv(W, offers')
  <1>0. /\ DOMAIN offers = PageNames /\ OffersOK(W, offers) /\ offers.text \in Seq(W)
        /\ offers.selection \in Surfaces!Spans(offers.text)
    BY DEF SwapInv, TextsOK
  <1>1. CASE Surfaces!ClickRephrase
    <2> DEFINE f == Surfaces!Outside(offers)
               g == Surfaces!Rephrase(f, offers.control.span, offers.control.said)
    <2>1. offers' = [g EXCEPT !.control = Surfaces!Gone] /\ offers.control # Surfaces!Gone
      BY <1>1 DEF Surfaces!ClickRephrase
    <2>2. SpanSaid(W, offers.control.span, offers.control.said)
      BY <1>0, <2>1 DEF OffersOK, ShownOK
    <2>3. SwapInv(W, f)
      BY SwapLeaves
    <2> HIDE DEF f
    <2>4. SwapInv(W, g)
      BY <2>2, <2>3, SwapRephrases
    <2> HIDE DEF g
    <2> QED
      BY <2>1, <2>4, SwapHides
  <1>2. CASE Surfaces!RephraseHotkey
    <2> DEFINE span == Surfaces!Target(offers)
               said == Surfaces!Slice(offers.text, span)
    <2>1. offers' = Surfaces!Rephrase(offers, span, said) /\ offers.text # <<>>
      BY <1>2 DEF Surfaces!RephraseHotkey
    <2>2. span.start \in Nat /\ span.end \in Nat /\ span.start < span.end /\ span.end <= Len(offers.text)
      <3> DEFINE s == offers.selection
      <3>1. s.start \in Nat /\ s.end \in Nat /\ s.start <= s.end /\ s.end <= Len(offers.text)
        BY <1>0, SpanIn
      <3>2. Len(offers.text) \in Nat /\ Len(offers.text) # 0
        BY <1>0, <2>1, LenProperties, EmptySeq
      <3>3. CASE Surfaces!Empty(s)
        <4>1. span.start = 0 /\ span.end = Len(offers.text)
          BY <3>3 DEF Surfaces!Target
        <4> QED
          BY <3>2, <4>1
      <3>4. CASE ~ Surfaces!Empty(s)
        <4>1. span = s
          BY <3>4 DEF Surfaces!Target
        <4>2. s.start # s.end
          BY <3>4 DEF Surfaces!Empty
        <4> QED
          BY <3>1, <4>1, <4>2
      <3> QED
        BY <3>3, <3>4
    <2> HIDE DEF span
    <2>3. said \in Seq(W) /\ Len(said) = span.end - span.start
      BY <1>0, <2>2, Slices
    <2> HIDE DEF said
    <2>4. SpanSaid(W, span, said)
      BY <2>2, <2>3 DEF SpanSaid
    <2> QED
      BY <2>1, <2>4, SwapRephrases
  <1>3. CASE Surfaces!Reissue
    <2> DEFINE f == [offers EXCEPT !.popover = Surfaces!Gone, !.closed = TRUE]
    <2>1. offers' = Surfaces!Rephrase(f, offers.card.of.span, offers.card.of.said)
          /\ offers.card # Surfaces!Gone
      BY <1>3 DEF Surfaces!Reissue, Surfaces!Gone
    <2>2. SpanSaid(W, offers.card.of.span, offers.card.of.said)
      BY <1>0, <2>1 DEF OffersOK, RequestOK
    <2>3. /\ DOMAIN f = PageNames /\ Quiet(offers, f) /\ f.selection = offers.selection
          /\ f.control = offers.control
          /\ f.opening = offers.opening /\ f.out = offers.out /\ f.card = offers.card
          /\ f.toast = offers.toast /\ f.popover = Surfaces!Gone
      <3> DEFINE gone == Surfaces!Gone
      <3>1. f = [offers EXCEPT !.popover = gone, !.closed = TRUE] /\ gone = Surfaces!Gone
        OBVIOUS
      <3> HIDE DEF gone, f
      <3> QED
        BY <1>0, <3>1 DEF PageNames, Quiet
    <2> HIDE DEF f
    <2>4. OffersOK(W, f)
      BY <1>0, <2>3, OffersKeep
    <2>5. SwapInv(W, f)
      BY <1>0, <2>3, <2>4, Keeps
    <2> QED
      BY <2>1, <2>2, <2>5, SwapRephrases
  <1>4. CASE Surfaces!Retry
    <2> DEFINE f == Surfaces!Outside(offers)
    <2>1. offers' = Surfaces!Rephrase(f, offers.card.of.span, offers.card.of.said)
          /\ offers.card # Surfaces!Gone
      BY <1>4 DEF Surfaces!Retry, Surfaces!Gone
    <2>2. SpanSaid(W, offers.card.of.span, offers.card.of.said)
      BY <1>0, <2>1 DEF OffersOK, RequestOK
    <2>3. SwapInv(W, f)
      BY SwapLeaves
    <2> HIDE DEF f
    <2> QED
      BY <2>1, <2>2, <2>3, SwapRephrases
  <1>5. CASE \E r \in offers.opening : Surfaces!SettingsRead(r)
    <2> DEFINE u == offers'
    <2>1. PICK r \in offers.opening :
            u = [offers EXCEPT !.opening = @ \ {r}, !.out = @ \cup {r}, !.control = Surfaces!Gone,
                               !.card = Surfaces!Card("pending", r)]
      BY <1>5 DEF Surfaces!SettingsRead
    <2>2. RequestOK(W, r) /\ r.kind = "rephrase"
      BY <1>0 DEF OffersOK, PageInv, AskedOK
    <2> DEFINE c == Surfaces!Card("pending", r)
               gone == Surfaces!Gone
    <2>3. c.of = r /\ gone = Surfaces!Gone
      BY DEF Surfaces!Card
    <2>4. u = [offers EXCEPT !.opening = @ \ {r}, !.out = @ \cup {r}, !.control = gone, !.card = c]
      BY <2>1
    <2> HIDE DEF c, gone, u
    <2>5. /\ DOMAIN u = PageNames /\ Quiet(offers, u) /\ u.selection = offers.selection
          /\ u.control = gone
          /\ u.opening = offers.opening \ {r} /\ u.out = offers.out \cup {r} /\ u.card = c
          /\ u.toast = offers.toast /\ u.popover = offers.popover
      BY <1>0, <2>4 DEF PageNames, Quiet
    <2>6. OffersOK(W, u)
      BY <1>0, <2>2, <2>3, <2>5, OffersKeep
    <2>7. SwapInv(W, u)
      BY <1>0, <2>2, <2>5, <2>6, Keeps
    <2> QED
      BY <2>7 DEF u
  <1> QED
    BY <1>1, <1>2, <1>3, <1>4, <1>5

\* A search for synonyms is of the word as it is, and of no other if it does not cross one.
LEMMA SwapSynonyms ==
  ASSUME NEW W, SwapInv(W, offers), Surfaces!ClickSynonyms
  PROVE  SwapInv(W, offers')
  <1> DEFINE u == offers'
             r == Surfaces!Request(offers, "synonyms", offers.control.span, offers.control.said)
             p == Surfaces!Popover("loading", r)
             c == offers.crossed \/ \E q \in offers.out : q.kind = "synonyms"
             f == Surfaces!Outside(offers)
             gone == Surfaces!Gone
  <1>1. /\ DOMAIN offers = PageNames /\ OffersOK(W, offers) /\ offers.text \in Seq(W)
        /\ offers.selection \in Surfaces!Spans(offers.text)
    BY DEF SwapInv, TextsOK
  <1>2. /\ r.kind = "synonyms" /\ r.span = offers.control.span /\ r.said = offers.control.said
        /\ r.original = Surfaces!Slice(offers.text, r.span)
    BY DEF Surfaces!Request
  <1>3. p.of = r /\ gone = Surfaces!Gone
    BY DEF Surfaces!Popover
  <1>4. /\ DOMAIN f = PageNames /\ Quiet(offers, f) /\ f.selection = offers.selection
        /\ f.control = offers.control
        /\ f.opening = offers.opening /\ f.out = offers.out /\ f.card = gone /\ f.toast = offers.toast
        /\ f.popover = gone
    BY <1>1, OutsideIs
  <1>5. offers.control # Surfaces!Gone /\ offers.control.clean
    BY Zenon DEF Surfaces!ClickSynonyms
  <1>6. \/ offers' = [Surfaces!Outside(offers) EXCEPT
                        !.control = Surfaces!Gone, !.asked = @ + 1, !.out = @ \cup {r}, !.closed = FALSE,
                        !.popover = p, !.crossed = @ \/ \E q \in offers.out : q.kind = "synonyms"]
        \/ offers' = [Surfaces!Outside(offers) EXCEPT !.control = Surfaces!Gone]
    BY Zenon DEF Surfaces!ClickSynonyms
  <1>7. RequestOK(W, r)
    <2>1. ShownOK(W, offers.control)
      BY <1>1, <1>5 DEF OffersOK
    <2>2. SpanSaid(W, r.span, r.said) /\ OneWord(r.span)
      BY <1>2, <1>5, <2>1 DEF ShownOK
    <2>3. r.span.start \in Nat /\ r.span.end \in Nat /\ r.span.start <= r.span.end
      BY <2>2 DEF SpanSaid
    <2> HIDE DEF r
    <2>4. r.original \in Seq(W)
      BY <1>1, <1>2, <2>3, Slices
    <2> QED
      BY <2>2, <2>4 DEF RequestOK
  <1>8. CASE offers' = [Surfaces!Outside(offers) EXCEPT !.control = Surfaces!Gone]
    <2>1. SwapInv(W, f)
      BY SwapLeaves
    <2> HIDE DEF f
    <2>2. SwapInv(W, [f EXCEPT !.control = Surfaces!Gone])
      BY <2>1, SwapHides
    <2> QED
      BY <1>8, <2>2 DEF f
  <1>9. CASE offers' = [Surfaces!Outside(offers) EXCEPT
                          !.control = Surfaces!Gone, !.asked = @ + 1, !.out = @ \cup {r}, !.closed = FALSE,
                          !.popover = p, !.crossed = @ \/ \E q \in offers.out : q.kind = "synonyms"]
    <2>1. u = [f EXCEPT !.control = gone, !.asked = @ + 1, !.out = @ \cup {r}, !.closed = FALSE,
                        !.popover = p, !.crossed = @ \/ \E q \in offers.out : q.kind = "synonyms"]
      BY <1>9
    <2> HIDE DEF f, r, p, gone, u
    <2>2. /\ DOMAIN u = PageNames /\ u.client = f.client /\ u.text = f.text /\ u.before = f.before
          /\ u.applied = f.applied /\ u.wrote = f.wrote /\ (u.since <=> f.since)
          /\ (u.undone <=> f.undone) /\ u.selection = f.selection /\ u.control = gone
          /\ (u.crossed <=> f.crossed \/ \E q \in offers.out : q.kind = "synonyms")
          /\ u.opening = f.opening /\ u.out = f.out \cup {r} /\ u.card = f.card /\ u.toast = f.toast
          /\ u.popover = p
      BY <1>4, <2>1 DEF PageNames
    <2> HIDE DEF c
    <2>3. /\ u.client = offers.client /\ u.text = offers.text /\ u.before = offers.before
          /\ u.applied = offers.applied /\ u.wrote = offers.wrote /\ (u.since <=> offers.since)
          /\ (u.undone <=> offers.undone) /\ u.selection = offers.selection
          /\ (u.crossed <=> offers.crossed \/ \E q \in offers.out : q.kind = "synonyms")
          /\ u.out = offers.out \cup {r} /\ u.opening = offers.opening /\ u.toast = offers.toast
          /\ u.card = gone
      BY <1>4, <2>2 DEF Quiet
    <2>4. TextsOK(W, u)
      BY <2>2, <2>3 DEF SwapInv, TextsOK
    <2>5. OffersOK(W, u)
      <3>1. WordOK(W, r)
        BY <1>2, <1>7 DEF WordOK
      <3> QED
        BY <1>1, <1>3, <1>7, <2>2, <2>3, <3>1, OffersKeep
    <2>6. HeldOK(u)
      <3>1. ASSUME ~ u.crossed
            PROVE  /\ u.popover.of.original = Surfaces!Slice(u.text, u.popover.of.span)
                   /\ \A q \in u.out : q.kind = "synonyms" => q = r
        BY <1>2, <1>3, <2>2, <2>3, <3>1
      <3>2. u.popover.of = r
        BY <1>3, <2>2
      <3> QED
        BY <3>1, <3>2 DEF HeldOK
    <2>7. Sure(u) => Sure(offers)
      BY <2>3 DEF Sure
    <2>8. TookOK(u)
      BY <2>3, <2>7 DEF SwapInv, TookOK
    <2>9. OwnOK(u)
      BY <2>3, <2>7 DEF SwapInv, OwnOK
    <2>10. SwapInv(W, u)
      BY <2>4, <2>5, <2>6, <2>8, <2>9 DEF SwapInv
    <2> QED
      BY <2>10 DEF u
  <1> QED
    BY <1>6, <1>8, <1>9

\* An answer leaves one request fewer, and a popover of it where one was open.
LEMMA SwapBridge ==
  ASSUME NEW W, SwapInv(W, offers), NEW r \in offers.out, Surfaces!Answer(r) \/ Surfaces!Fail(r)
  PROVE  SwapInv(W, offers')
  <1> DEFINE f == [offers EXCEPT !.out = @ \ {r}]
             gone == Surfaces!Gone
             u == offers'
  <1>0. /\ DOMAIN offers = PageNames /\ OffersOK(W, offers) /\ offers.text \in Seq(W)
        /\ offers.selection \in Surfaces!Spans(offers.text) /\ RequestOK(W, r)
    BY DEF SwapInv, TextsOK, OffersOK
  <1>1. gone = Surfaces!Gone
    OBVIOUS
  <1>2. \A is : Surfaces!Card(is, r).of = r /\ Surfaces!Popover(is, r).of = r
    BY DEF Surfaces!Card, Surfaces!Popover
  <1>3. /\ DOMAIN f = PageNames /\ f.out = offers.out \ {r} /\ Quiet(offers, f)
        /\ f.selection = offers.selection /\ f.control = offers.control /\ f.opening = offers.opening
        /\ f.card = offers.card /\ f.toast = offers.toast /\ f.popover = offers.popover
    BY <1>0 DEF PageNames, Quiet
  <1> HIDE DEF gone
  <1>4. \/ \E is : u = [f EXCEPT !.card = Surfaces!Card(is, r)]
        \/ /\ r.kind = "synonyms"
           /\ \E is : u = [f EXCEPT !.popover = Surfaces!Loaded(f, r, is)]
        \/ u = [f EXCEPT !.popover = gone]
    BY <1>1 DEF Surfaces!Answer, Surfaces!Fail
  <1>5. \A is : Surfaces!Loaded(f, r, is) = IF f.popover = gone THEN gone ELSE Surfaces!Popover(is, r)
    BY <1>1 DEF Surfaces!Loaded
  <1> HIDE DEF f, u
  <1>6. CASE \E is : u = [f EXCEPT !.card = Surfaces!Card(is, r)]
    <2>1. PICK c : u = [f EXCEPT !.card = c] /\ c.of = r
      BY <1>2, <1>6
    <2>2. /\ DOMAIN u = PageNames /\ u.out = f.out /\ Quiet(f, u) /\ u.selection = f.selection
          /\ u.control = f.control /\ u.opening = f.opening /\ u.card = c
          /\ u.toast = f.toast /\ u.popover = f.popover
      BY <1>3, <2>1 DEF PageNames, Quiet
    <2>3. Quiet(offers, u)
      BY <1>3, <2>2 DEF Quiet
    <2>4. OffersOK(W, u)
      BY <1>0, <1>3, <2>1, <2>2, OffersKeep
    <2>5. SwapInv(W, u)
      BY <1>0, <1>3, <2>2, <2>3, <2>4, Keeps
    <2> QED
      BY <2>5 DEF u
  <1>7. CASE \/ r.kind = "synonyms" /\ \E is : u = [f EXCEPT !.popover = Surfaces!Loaded(f, r, is)]
             \/ u = [f EXCEPT !.popover = gone]
    <2>1. PICK p : /\ u = [f EXCEPT !.popover = p]
                   /\ p = gone \/ (r.kind = "synonyms" /\ offers.popover # gone /\ p.of = r)
      <3>1. CASE u = [f EXCEPT !.popover = gone]
        BY <3>1
      <3>2. CASE r.kind = "synonyms" /\ \E is : u = [f EXCEPT !.popover = Surfaces!Loaded(f, r, is)]
        <4>1. PICK is : u = [f EXCEPT !.popover = Surfaces!Loaded(f, r, is)]
          BY <3>2
        <4> DEFINE p == Surfaces!Loaded(f, r, is)
        <4>2. p = IF f.popover = gone THEN gone ELSE Surfaces!Popover(is, r)
          BY <1>5
        <4>3. p = gone \/ (offers.popover # gone /\ p.of = r)
          <5>1. CASE f.popover = gone
            BY <4>2, <5>1
          <5>2. CASE f.popover # gone
            BY <1>2, <1>3, <4>2, <5>2
          <5> QED
            BY <5>1, <5>2
        <4>4. u = [f EXCEPT !.popover = p]
          BY <4>1
        <4> HIDE DEF p
        <4> QED
          BY <3>2, <4>3, <4>4
      <3> QED
        BY <1>7, <3>1, <3>2
    <2>2. /\ DOMAIN u = PageNames /\ u.out = f.out /\ Quiet(f, u) /\ u.selection = f.selection
          /\ u.control = f.control /\ u.opening = f.opening /\ u.card = f.card
          /\ u.toast = f.toast /\ u.popover = p
      BY <1>3, <2>1 DEF PageNames, Quiet
    <2>3. Quiet(offers, u)
      BY <1>3, <2>2 DEF Quiet
    <2>4. OffersOK(W, u)
      <3>1. u.popover = Surfaces!Gone \/ WordOK(W, u.popover.of)
        BY <1>0, <1>1, <2>1, <2>2 DEF WordOK
      <3>2. /\ u.opening = offers.opening /\ u.card = offers.card /\ u.toast = offers.toast
            /\ u.control = offers.control /\ \A q \in u.out : q \in offers.out
        BY <1>3, <2>2
      <3> QED
        BY <1>0, <3>1, <3>2, OffersKeep
    <2>5. CASE p = gone
      <3>1. SwapInv(W, u)
        BY <1>0, <1>1, <1>3, <2>2, <2>3, <2>4, <2>5, Keeps
      <3> QED
        BY <3>1 DEF u
    <2>6. CASE r.kind = "synonyms" /\ offers.popover # gone /\ p.of = r
      <3>1. TextsOK(W, u)
        BY <1>0, <1>3, <2>2, <2>3 DEF SwapInv, TextsOK, Quiet
      <3>2. HeldOK(u)
        <4>1. u.client = offers.client /\ u.text = offers.text /\ (u.crossed <=> offers.crossed)
              /\ u.out = offers.out \ {r} /\ u.popover.of = r
          BY <1>3, <2>2, <2>3, <2>6 DEF Quiet
        <4>2. ASSUME offers.client = "browser", ~ offers.crossed
              PROVE  /\ \A q \in offers.out : q.kind = "synonyms" => q = r
                     /\ r.original = Surfaces!Slice(offers.text, r.span)
          <5>1. \A q, s \in offers.out : q.kind = "synonyms" /\ s.kind = "synonyms" => q = s
            BY <4>2 DEF SwapInv, HeldOK
          <5>2. /\ offers.popover.of.original = Surfaces!Slice(offers.text, offers.popover.of.span)
                /\ \A q \in offers.out : q.kind = "synonyms" => offers.popover.of = q
            BY <1>1, <2>6, <4>2 DEF SwapInv, HeldOK
          <5>3. offers.popover.of = r
            BY <2>6, <5>2
          <5> QED
            BY <2>6, <5>1, <5>2, <5>3
        <4> QED
          BY <4>1, <4>2 DEF HeldOK
      <3>3. TookOK(u)
        BY <1>3, <2>2, <2>3 DEF SwapInv, TookOK, Quiet, Sure
      <3>4. OwnOK(u)
        BY <2>3 DEF SwapInv, OwnOK, Quiet, Sure
      <3>5. SwapInv(W, u)
        BY <2>4, <3>1, <3>2, <3>3, <3>4 DEF SwapInv
      <3> QED
        BY <3>5 DEF u
    <2> QED
      BY <2>1, <2>5, <2>6
  <1> QED
    BY <1>4, <1>6, <1>7

\* Surfaces that are closed.
LEMMA SwapCloses ==
  ASSUME NEW W, SwapInv(W, offers), Surfaces!CloseCard \/ Surfaces!ClosePopover \/ Surfaces!ToastGoes
  PROVE  SwapInv(W, offers')
  <1> DEFINE gone == Surfaces!Gone
             u == offers'
  <1>1. /\ DOMAIN offers = PageNames /\ OffersOK(W, offers)
        /\ offers.selection \in Surfaces!Spans(offers.text)
    BY DEF SwapInv, TextsOK
  <1>2. \/ u = [offers EXCEPT !.card = gone]
        \/ u = [offers EXCEPT !.popover = gone, !.closed = TRUE]
        \/ u = [offers EXCEPT !.toast = gone]
    BY DEF Surfaces!CloseCard, Surfaces!ClosePopover, Surfaces!ToastGoes
  <1>3. gone = Surfaces!Gone
    OBVIOUS
  <1> HIDE DEF gone, u
  <1>4. /\ DOMAIN u = PageNames /\ Quiet(offers, u) /\ u.selection = offers.selection
        /\ u.control = offers.control /\ u.opening = offers.opening /\ u.out = offers.out
        /\ u.card = offers.card \/ u.card = gone
        /\ u.popover = offers.popover \/ u.popover = gone
        /\ u.toast = offers.toast \/ u.toast = gone
    <2>1. CASE u = [offers EXCEPT !.card = gone]
      BY <1>1, <2>1 DEF PageNames, Quiet
    <2>2. CASE u = [offers EXCEPT !.popover = gone, !.closed = TRUE]
      BY <1>1, <2>2 DEF PageNames, Quiet
    <2>3. CASE u = [offers EXCEPT !.toast = gone]
      BY <1>1, <2>3 DEF PageNames, Quiet
    <2> QED
      BY <1>2, <2>1, <2>2, <2>3
  <1>5. OffersOK(W, u)
    BY <1>1, <1>3, <1>4, OffersKeep
  <1>6. SwapInv(W, u)
    BY <1>1, <1>3, <1>4, <1>5, Keeps
  <1> QED
    BY <1>6 DEF u

\* A record that is moved keeps what it is of, and the new one is of the swap.
LEMMA Appends ==
  ASSUME NEW W, NEW batch \in Seq(Records(W)), NEW edit, edit.start \in Nat, edit.end = edit.start + 1,
         edit.replacement \in Seq(W), Len(edit.replacement) \in Nat \ {0}, edit.original \in Seq(W),
         NEW u, u = Surfaces!Plain!AppendInverse(batch, edit)
  PROVE  /\ u \in Seq(Records(W)) /\ Len(u) = Len(batch) + 1
         /\ Len(u) = 1 => /\ u[1].start = edit.start /\ u[1].applied = edit.replacement
                          /\ u[1].original = edit.original
  <1> DEFINE delta == Len(edit.replacement) - (edit.end - edit.start)
             moved == [i \in DOMAIN batch |->
                         IF batch[i].start >= edit.start
                         THEN [batch[i] EXCEPT !.start = @ + delta, !.end = @ + delta] ELSE batch[i]]
             e == Surfaces!Plain!Inverse_(edit)
  <1>1. u = Append(moved, e)
    BY DEF Surfaces!Plain!AppendInverse
  <1>2. /\ e.start = edit.start /\ e.applied = edit.replacement /\ e.original = edit.original
        /\ e = [start |-> edit.start, end |-> edit.start + Len(edit.replacement),
                applied |-> edit.replacement, original |-> edit.original]
    BY DEF Surfaces!Plain!Inverse_
  <1>3. e \in Records(W)
    <2>1. edit.replacement # <<>>
      <3>1. Len(edit.replacement) # 0
        OBVIOUS
      <3> QED
        BY <3>1, EmptySeq
    <2> HIDE DEF e
    <2> QED
      BY <1>2, <2>1 DEF Records
  <1>4. delta \in Nat
    <2>1. delta = Len(edit.replacement) - 1
      OBVIOUS
    <2> HIDE DEF delta
    <2> QED
      BY <2>1
  <1> HIDE DEF e, delta
  <1>5. Len(batch) \in Nat /\ DOMAIN batch = 1..Len(batch)
    BY LenProperties
  <1>6. ASSUME NEW i \in 1..Len(batch)
        PROVE  (IF batch[i].start >= edit.start
                THEN [batch[i] EXCEPT !.start = @ + delta, !.end = @ + delta] ELSE batch[i]) \in Records(W)
    <2> DEFINE b == batch[i]
    <2>1. b \in Records(W)
      BY ElementOfSeq
    <2> HIDE DEF b
    <2> DEFINE st == b.start + delta
               en == b.end + delta
               c == [b EXCEPT !.start = st, !.end = en]
    <2>2. /\ b \in [start : Nat, end : Nat, applied : Seq(W), original : Seq(W)]
          /\ b.applied # <<>> /\ b.end = b.start + Len(b.applied)
      BY <2>1 DEF Records
    <2>3. st \in Nat /\ en \in Nat /\ en = st + Len(b.applied)
      <3>1. Len(b.applied) \in Nat /\ b.start \in Nat /\ b.end \in Nat
        BY <2>2, LenProperties
      <3> QED
        BY <1>4, <2>2, <3>1
    <2> HIDE DEF st, en
    <2>4. /\ c \in [start : Nat, end : Nat, applied : Seq(W), original : Seq(W)]
          /\ c.applied = b.applied /\ c.start = st /\ c.end = en
      BY <2>2, <2>3
    <2> HIDE DEF c
    <2>5. c \in Records(W)
      BY <2>2, <2>3, <2>4 DEF Records
    <2>6. c = [b EXCEPT !.start = @ + delta, !.end = @ + delta]
      BY <2>2 DEF c, st, en
    <2> QED
      BY <2>1, <2>5, <2>6 DEF b
  <1>7. moved \in Seq(Records(W)) /\ Len(moved) = Len(batch)
    <2>1. moved \in [1..Len(batch) -> Records(W)]
      BY <1>5, <1>6
    <2> HIDE DEF moved
    <2>2. moved \in Seq(Records(W)) /\ DOMAIN moved = 1..Len(batch)
      BY <1>5, <2>1, SeqDef
    <2> QED
      BY <1>5, <2>2, LenProperties
  <1> HIDE DEF moved
  <1>8. /\ u \in Seq(Records(W)) /\ Len(u) = Len(batch) + 1
        /\ u[Len(batch) + 1] = e
    BY <1>1, <1>3, <1>7, AppendProperties
  <1>9. Len(u) = 1 => u[1] = e
    <2>1. Len(u) = 1 => Len(batch) + 1 = 1
      BY <1>5, <1>8
    <2> QED
      BY <1>8, <2>1
  <1> QED
    BY <1>2, <1>8, <1>9

\* What a swap comes to: the text with the span written over where it is in it, what was
\* there, and nothing that is known to be undone.
LEMMA SwappedIs ==
  ASSUME NEW W, NEW f, TextsOK(W, f), NEW r, RequestOK(W, r), NEW by \in Seq(W), NEW how,
         NEW u, u = Surfaces!Swapped(f, r, by, how)
  PROVE  /\ DOMAIN u = PageNames /\ u.client = f.client /\ u.before = f.text /\ u.applied = f.applied
         /\ u.text \in Seq(W) /\ u.selection \in Surfaces!Spans(u.text)
         /\ (u.since <=> ~ Surfaces!StillSaid(f.text, r)) /\ (u.crossed <=> f.crossed) /\ ~ u.undone
         /\ u.wrote.is = how /\ u.wrote.of = r /\ u.wrote.found = Surfaces!Slice(f.text, r.span)
         /\ u.control = f.control /\ u.opening = f.opening /\ u.out = f.out /\ u.card = f.card
         /\ u.toast = f.toast
         /\ u.popover = f.popover \/ u.popover = Surfaces!Gone
         /\ Surfaces!StillSaid(f.text, r) =>
              TookOver(f.text, u.text, r.span.start, r.span.end, by, r.said)
  <1> DEFINE g == IF r.span.end <= Len(f.text) THEN Surfaces!Edited(f, r.span, by) ELSE f
             w == [is |-> how, found |-> Surfaces!Slice(f.text, r.span), of |-> r]
             s == ~ Surfaces!StillSaid(f.text, r)
  <1>1. u = [g EXCEPT !.before = f.text, !.since = s, !.undone = FALSE, !.wrote = w]
    BY DEF Surfaces!Swapped
  <1>2. w.is = how /\ w.of = r /\ w.found = Surfaces!Slice(f.text, r.span)
    OBVIOUS
  <1>3. /\ DOMAIN f = PageNames /\ f.text \in Seq(W) /\ f.selection \in Surfaces!Spans(f.text)
        /\ Len(f.text) \in Nat
    BY LenProperties DEF TextsOK
  <1>4. /\ r.span.start \in Nat /\ r.span.end \in Nat /\ r.span.start < r.span.end
        /\ r.said \in Seq(W) /\ Len(r.said) = r.span.end - r.span.start
    BY DEF RequestOK, SpanSaid
  <1>5. /\ DOMAIN g = PageNames /\ g.client = f.client /\ g.applied = f.applied
        /\ g.text \in Seq(W) /\ g.selection \in Surfaces!Spans(g.text)
        /\ (g.crossed <=> f.crossed)
        /\ g.control = f.control /\ g.opening = f.opening /\ g.out = f.out /\ g.card = f.card
        /\ g.toast = f.toast
        /\ g.popover = f.popover \/ g.popover = Surfaces!Gone
        /\ r.span.end <= Len(f.text) => g.text = Over(f.text, r.span.start, r.span.end, by)
    <2>1. CASE r.span.end <= Len(f.text)
      <3>1. g = Surfaces!Edited(f, r.span, by)
        BY <2>1
      <3> HIDE DEF g
      <3>2. /\ DOMAIN g = PageNames
            /\ g.text = Over(f.text, r.span.start, r.span.end, by)
            /\ g.selection = Surfaces!Caret(r.span.start + Len(by))
            /\ g.client = f.client /\ g.applied = f.applied
            /\ (g.crossed <=> f.crossed)
            /\ g.control = f.control /\ g.opening = f.opening /\ g.out = f.out /\ g.card = f.card
            /\ g.toast = f.toast
            /\ g.popover = f.popover \/ g.popover = Surfaces!Gone
        BY <1>3, <3>1, EditedIs
      <3>3. Fits(W, f.text, r.span.start, r.span.end, by)
        <4>1. r.span.start <= r.span.end /\ r.span.start <= Len(f.text)
          BY <1>3, <1>4, <2>1
        <4> QED
          BY <1>3, <1>4, <4>1 DEF Fits
      <3>4. g.text \in Seq(W) /\ g.selection \in Surfaces!Spans(g.text)
        BY <3>2, <3>3, EditFits
      <3> QED
        BY <3>2, <3>4
    <2>2. CASE ~(r.span.end <= Len(f.text))
      <3>1. g = f
        BY <2>2
      <3> HIDE DEF g
      <3> QED
        BY <1>3, <2>2, <3>1
    <2> QED
      BY <2>1, <2>2
  <1> HIDE DEF g, w
  <1>6. /\ DOMAIN u = PageNames /\ u.client = g.client /\ u.before = f.text /\ u.applied = g.applied
        /\ u.text = g.text /\ u.selection = g.selection
        /\ (u.since <=> s) /\ (u.crossed <=> g.crossed) /\ ~ u.undone /\ u.wrote = w
        /\ u.control = g.control /\ u.opening = g.opening /\ u.out = g.out /\ u.card = g.card
        /\ u.toast = g.toast /\ u.popover = g.popover
    <2> HIDE DEF s
    <2> QED
      BY <1>1, <1>5 DEF PageNames
  <1>7. Surfaces!StillSaid(f.text, r) => TookOver(f.text, u.text, r.span.start, r.span.end, by, r.said)
    <2>1. ASSUME Surfaces!StillSaid(f.text, r)
          PROVE  r.span.end <= Len(f.text) /\ r.said = SubSeq(f.text, r.span.start + 1, r.span.end)
      <3>1. Surfaces!Slice(f.text, r.span) = r.said /\ r.span.start <= r.span.end
        BY <1>4, <2>1 DEF Surfaces!StillSaid
      <3>2. Len(Surfaces!Slice(f.text, r.span)) = r.span.end - r.span.start
        BY <1>4, <3>1
      <3>3. r.span.end <= Len(f.text)
        BY <1>3, <1>4, <3>1, <3>2, Slices
      <3> QED
        BY <1>3, <1>4, <3>1, <3>3, Slices
    <2>2. r.span.start <= r.span.end
      BY <1>4
    <2> QED
      BY <1>4, <1>5, <1>6, <2>1, <2>2 DEF TookOver
  <1> QED
    BY <1>2, <1>5, <1>6, <1>7

\* What is typed is written over the selection, and is something done since.
LEMMA SwapTypes ==
  ASSUME NEW W, W = Surfaces!Words, SwapInv(W, offers), Surfaces!Type
  PROVE  SwapInv(W, offers')
  <1> DEFINE u == offers'
             span == offers.selection
  <1>1. /\ DOMAIN offers = PageNames /\ OffersOK(W, offers) /\ offers.text \in Seq(W)
        /\ span \in Surfaces!Spans(offers.text)
    BY DEF SwapInv, TextsOK
  <1>2. PICK by \in {<<>>, <<"mine">>} :
          u = [Surfaces!Edited(offers, span, by) EXCEPT !.typed = @ + 1, !.since = TRUE, !.undone = FALSE]
    BY Zenon DEF Surfaces!Type
  <1>3. by \in Seq(W)
    BY WordsAre
  <1> DEFINE g == Surfaces!Edited(offers, span, by)
  <1>4. u = [g EXCEPT !.typed = @ + 1, !.since = TRUE, !.undone = FALSE]
    BY <1>2
  <1>5. /\ DOMAIN g = PageNames
        /\ g.text = Over(offers.text, span.start, span.end, by)
        /\ g.selection = Surfaces!Caret(span.start + Len(by))
        /\ g.client = offers.client /\ g.before = offers.before /\ g.applied = offers.applied
        /\ g.wrote = offers.wrote /\ (g.crossed <=> offers.crossed)
        /\ g.control = offers.control /\ g.opening = offers.opening /\ g.out = offers.out
        /\ g.card = offers.card /\ g.toast = offers.toast
        /\ g.popover = IF offers.client = "browser" THEN Surfaces!Gone ELSE offers.popover
    BY <1>1, EditedIs
  <1>6. Fits(W, offers.text, span.start, span.end, by)
    BY <1>1, <1>3, SpanIn DEF Fits
  <1>7. g.text \in Seq(W) /\ g.selection \in Surfaces!Spans(g.text)
    BY <1>5, <1>6, EditFits
  <1> HIDE DEF g, u
  <1>8. /\ DOMAIN u = PageNames /\ u.text = g.text /\ u.selection = g.selection
        /\ u.client = g.client /\ u.before = g.before /\ u.applied = g.applied
        /\ u.wrote = g.wrote /\ (u.crossed <=> g.crossed) /\ u.since /\ ~ u.undone
        /\ u.control = g.control /\ u.opening = g.opening /\ u.out = g.out
        /\ u.card = g.card /\ u.toast = g.toast /\ u.popover = g.popover
    BY <1>4, <1>5 DEF PageNames
  <1>9. TextsOK(W, u)
    BY <1>5, <1>7, <1>8 DEF SwapInv, TextsOK
  <1>10. OffersOK(W, u)
    BY <1>1, <1>5, <1>8, OffersKeep
  <1>11. HeldOK(u)
    BY <1>5, <1>8 DEF SwapInv, HeldOK
  <1>12. TookOK(u)
    BY <1>5, <1>8 DEF SwapInv, TookOK
  <1>13. OwnOK(u)
    BY <1>5, <1>8 DEF SwapInv, OwnOK
  <1>14. SwapInv(W, u)
    BY <1>9, <1>10, <1>11, <1>12, <1>13 DEF SwapInv
  <1> QED
    BY <1>14 DEF u

\* A rephrasing is written over what it is of, and in a composer its toast has what was there.
LEMMA SwapAccepts ==
  ASSUME NEW W, W = Surfaces!Words, SwapInv(W, offers), Surfaces!Accept
  PROVE  SwapInv(W, offers')
  <1> DEFINE f == [offers EXCEPT !.card = Surfaces!Gone, !.popover = Surfaces!Gone, !.closed = TRUE]
             r == offers.card.of
             u == offers'
             gone == Surfaces!Gone
  <1>1. /\ DOMAIN offers = PageNames /\ OffersOK(W, offers) /\ offers.text \in Seq(W)
        /\ offers.selection \in Surfaces!Spans(offers.text)
    BY DEF SwapInv, TextsOK
  <1>2. gone = Surfaces!Gone /\ gone.is = "gone" /\ f = [offers EXCEPT !.card = gone, !.popover = gone, !.closed = TRUE]
    BY DEF Surfaces!Gone
  <1>3. offers.card.is = "result" /\ RequestOK(W, r)
    BY <1>1, <1>2 DEF Surfaces!Accept, OffersOK
  <1>4. PICK by \in Surfaces!Rephrasings, taken \in BOOLEAN :
          u = IF ~Surfaces!StillSaid(f.text, r) \/ ~taken THEN f
              ELSE IF f.client = "browser" THEN Surfaces!Swapped(f, r, by, "rephrasing")
              ELSE [Surfaces!Swapped(f, r, by, "rephrasing") EXCEPT
                      !.toast = [is |-> "rephrased", of |-> r, by |-> by]]
    BY Zenon DEF Surfaces!Accept
  <1>5. by \in Seq(W)
    BY WordsAre
  <1> DEFINE g == Surfaces!Swapped(f, r, by, "rephrasing")
             toast == [is |-> "rephrased", of |-> r, by |-> by]
  <1>6. /\ toast.is = "rephrased" /\ toast.of = r /\ toast.by = by
        /\ u = f \/ (Surfaces!StillSaid(f.text, r) /\ u = IF f.client = "browser" THEN g ELSE [g EXCEPT !.toast = toast])
    BY <1>4
  <1> HIDE DEF gone
  <1>7. /\ DOMAIN f = PageNames /\ Quiet(offers, f) /\ f.selection = offers.selection
        /\ f.control = offers.control /\ f.opening = offers.opening /\ f.out = offers.out
        /\ f.card = gone /\ f.toast = offers.toast /\ f.popover = gone
    <2> HIDE DEF f
    <2> QED
      BY <1>1, <1>2 DEF PageNames, Quiet
  <1> HIDE DEF f, toast, u
  <1>8. SwapInv(W, f)
    <2>1. OffersOK(W, f)
      BY <1>1, <1>2, <1>7, OffersKeep
    <2> QED
      BY <1>1, <1>2, <1>7, <2>1, Keeps
  <1>9. ASSUME Surfaces!StillSaid(f.text, r), u = IF f.client = "browser" THEN g ELSE [g EXCEPT !.toast = toast]
        PROVE  SwapInv(W, u)
    <2>1. TextsOK(W, f) /\ OffersOK(W, f)
      BY <1>8 DEF SwapInv
    <2> HIDE DEF r
    <2>2. /\ DOMAIN g = PageNames /\ g.client = f.client /\ g.before = f.text /\ g.applied = f.applied
          /\ g.text \in Seq(W) /\ g.selection \in Surfaces!Spans(g.text)
          /\ (g.since <=> ~ Surfaces!StillSaid(f.text, r)) /\ (g.crossed <=> f.crossed) /\ ~ g.undone
          /\ g.wrote.is = "rephrasing" /\ g.wrote.of = r /\ g.wrote.found = Surfaces!Slice(f.text, r.span)
          /\ g.control = f.control /\ g.opening = f.opening /\ g.out = f.out /\ g.card = f.card
          /\ g.toast = f.toast
          /\ g.popover = f.popover \/ g.popover = Surfaces!Gone
          /\ Surfaces!StillSaid(f.text, r) =>
               TookOver(f.text, g.text, r.span.start, r.span.end, by, r.said)
      BY <1>3, <1>5, <2>1, SwappedIs
    <2> HIDE DEF g
    <2>3. /\ DOMAIN u = PageNames /\ u.client = g.client /\ u.before = g.before /\ u.applied = g.applied
          /\ u.text = g.text /\ u.selection = g.selection /\ (u.since <=> g.since)
          /\ (u.crossed <=> g.crossed) /\ (u.undone <=> g.undone) /\ u.wrote = g.wrote
          /\ u.control = g.control /\ u.opening = g.opening /\ u.out = g.out /\ u.card = g.card
          /\ u.popover = g.popover
          /\ u.toast = IF f.client = "browser" THEN g.toast ELSE toast
      <3>1. CASE f.client = "browser"
        BY <1>9, <2>2, <3>1
      <3>2. CASE f.client # "browser"
        BY <1>9, <2>2, <3>2 DEF PageNames
      <3> QED
        BY <3>1, <3>2
    <2>4. TextsOK(W, u)
      BY <2>1, <2>2, <2>3 DEF TextsOK
    <2>5. OffersOK(W, u)
      <3>1. OffersOK(W, g)
        BY <2>1, <2>2, OffersKeep
      <3>2. u.toast.is = "rephrased" => RequestOK(W, u.toast.of) /\ u.toast.by \in Seq(W)
        BY <1>3, <1>5, <1>6, <2>3, <3>1 DEF OffersOK
      <3> QED
        BY <2>3, <3>1, <3>2 DEF OffersOK
    <2>6. HeldOK(u)
      <3>1. u.client = f.client /\ (u.crossed <=> f.crossed) /\ u.out = f.out /\ u.popover = Surfaces!Gone
        BY <1>2, <1>7, <2>2, <2>3
      <3> QED
        BY <1>8, <3>1 DEF SwapInv, HeldOK
    <2>7. TookOK(u)
      <3>1. u.wrote.is # "synonym"
        BY <2>2, <2>3
      <3>2. u.client = "browser" => u.toast.is # "rephrased"
        BY <1>8, <2>2, <2>3 DEF SwapInv, TookOK
      <3>3. u.toast.is = "rephrased" =>
              TookOver(u.before, u.text, u.toast.of.span.start, u.toast.of.span.end, u.toast.by, u.toast.of.said)
        <4>1. TookOver(f.text, g.text, r.span.start, r.span.end, by, r.said)
          BY <1>9, <2>2
        <4>2. u.toast.is = "rephrased" => u.toast = toast
          BY <2>2, <2>3, <3>2
        <4> QED
          BY <1>6, <2>2, <2>3, <4>1, <4>2
      <3> QED
        BY <3>1, <3>2, <3>3 DEF TookOK
    <2>8. OwnOK(u)
      <3>1. u.wrote.is = "rephrasing" /\ u.wrote.found = u.wrote.of.said /\ ~ u.undone
        BY <1>9, <2>2, <2>3 DEF Surfaces!StillSaid
      <3> QED
        BY <3>1 DEF OwnOK
    <2> QED
      BY <2>4, <2>5, <2>6, <2>7, <2>8 DEF SwapInv
  <1>10. SwapInv(W, u)
    BY <1>6, <1>8, <1>9
  <1> QED
    BY <1>10 DEF u

\* The edit that is recorded of a swap, and what else is as the swap left it.
EditOf(r, by, was) == [start |-> r.span.start, end |-> r.span.end, replacement |-> by, original |-> was]
AsLeft(g, u) ==
  /\ u.client = g.client /\ u.text = g.text /\ u.before = g.before /\ u.selection = g.selection
  /\ u.wrote = g.wrote /\ (u.since <=> g.since) /\ (u.crossed <=> g.crossed)
  /\ (u.undone <=> g.undone) /\ u.control = g.control /\ u.opening = g.opening
  /\ u.out = g.out /\ u.card = g.card

\* What undo has of the edit.
LEMMA AppendsOf ==
  ASSUME NEW W, NEW r, RequestOK(W, r), OneWord(r.span), NEW by \in Seq(W), Len(by) \in Nat \ {0},
         NEW was \in Seq(W), NEW batch \in Seq(Records(W)),
         NEW a, a = Surfaces!Plain!AppendInverse(batch, EditOf(r, by, was))
  PROVE  /\ a \in Seq(Records(W))
         /\ Len(a) = 1 => a[1].start = r.span.start /\ a[1].applied = by /\ a[1].original = was
  <1> DEFINE edit == EditOf(r, by, was)
  <1>1. /\ edit.start = r.span.start /\ edit.end = r.span.end /\ edit.replacement = by
        /\ edit.original = was
    BY DEF EditOf
  <1> HIDE DEF edit
  <1>2. edit.start \in Nat /\ edit.end = edit.start + 1
    BY <1>1 DEF RequestOK, SpanSaid, OneWord
  <1>3. edit.replacement \in Seq(W) /\ Len(edit.replacement) \in Nat \ {0} /\ edit.original \in Seq(W)
    BY <1>1
  <1>4. a = Surfaces!Plain!AppendInverse(batch, edit)
    BY DEF edit
  <1>5. /\ a \in Seq(Records(W))
        /\ Len(a) = 1 => /\ a[1].start = edit.start /\ a[1].applied = edit.replacement
                         /\ a[1].original = edit.original
    BY <1>2, <1>3, <1>4, Appends
  <1> QED
    BY <1>1, <1>5

\* A synonym is written over its word, and undo has what was there.
LEMMA SwapPicked ==
  ASSUME NEW W, NEW h, SwapInv(W, h), NEW r, RequestOK(W, r), OneWord(r.span),
         NEW by \in Seq(W), Len(by) \in Nat \ {0}, NEW was \in Seq(W), NEW batch \in Seq(Records(W)),
         NEW g, g = Surfaces!Swapped(h, r, by, "synonym"),
         NEW u, DOMAIN u = PageNames, u.applied = Surfaces!Plain!AppendInverse(batch, EditOf(r, by, was)),
         u.toast.is = "undo", u.popover = Surfaces!Gone, AsLeft(g, u),
         h.client = "browser" /\ ~ h.crossed => Surfaces!Slice(h.text, r.span) = r.original,
         h.client # "browser" => Surfaces!StillSaid(h.text, r),
         Surfaces!StillSaid(h.text, r) /\ Sure(h) => was = r.said
  PROVE  SwapInv(W, u)
  <1>1. TextsOK(W, h) /\ OffersOK(W, h) /\ HeldOK(h)
    BY DEF SwapInv
  <1>2. /\ u.client = h.client /\ u.before = h.text
        /\ u.text \in Seq(W) /\ u.selection \in Surfaces!Spans(u.text)
        /\ (u.since <=> ~ Surfaces!StillSaid(h.text, r)) /\ (u.crossed <=> h.crossed) /\ ~ u.undone
        /\ u.wrote.is = "synonym" /\ u.wrote.of = r /\ u.wrote.found = Surfaces!Slice(h.text, r.span)
        /\ u.control = h.control /\ u.opening = h.opening /\ u.out = h.out /\ u.card = h.card
        /\ Surfaces!StillSaid(h.text, r) =>
             TookOver(h.text, u.text, r.span.start, r.span.end, by, r.said)
    <2>1. /\ g.client = h.client /\ g.before = h.text
          /\ g.text \in Seq(W) /\ g.selection \in Surfaces!Spans(g.text)
          /\ (g.since <=> ~ Surfaces!StillSaid(h.text, r)) /\ (g.crossed <=> h.crossed) /\ ~ g.undone
          /\ g.wrote.is = "synonym" /\ g.wrote.of = r /\ g.wrote.found = Surfaces!Slice(h.text, r.span)
          /\ g.control = h.control /\ g.opening = h.opening /\ g.out = h.out /\ g.card = h.card
          /\ Surfaces!StillSaid(h.text, r) =>
               TookOver(h.text, g.text, r.span.start, r.span.end, by, r.said)
      BY <1>1, SwappedIs
    <2> QED
      BY <2>1 DEF AsLeft
  <1>3. /\ u.applied \in Seq(Records(W))
        /\ Len(u.applied) = 1 => /\ u.applied[1].start = r.span.start /\ u.applied[1].applied = by
                                 /\ u.applied[1].original = was
    BY AppendsOf
  <1>4. TextsOK(W, u)
    BY <1>1, <1>2, <1>3 DEF TextsOK
  <1>5. u.toast.is = "undo"
    OBVIOUS
  <1>6. OffersOK(W, u)
    BY <1>1, <1>2, <1>5 DEF OffersOK
  <1>7. HeldOK(u)
    BY <1>1, <1>2 DEF HeldOK
  <1>8. TookOK(u)
    <2>1. ASSUME ~ u.since, Sure(u), Len(u.applied) = 1
          PROVE  \E end : TookOver(u.before, u.text, u.applied[1].start, end, u.applied[1].applied,
                                   u.applied[1].original)
      <3>1. Surfaces!StillSaid(h.text, r) /\ Sure(h)
        BY <1>2, <2>1 DEF Sure
      <3>2. TookOver(u.before, u.text, r.span.start, r.span.end, by, was)
        BY <1>2, <3>1
      <3> QED
        BY <1>3, <2>1, <3>2
    <2> QED
      BY <1>5, <2>1 DEF TookOK
  <1>9. OwnOK(u)
    <2>1. ASSUME u.client = "browser" => ~ u.crossed /\ u.wrote.of.said = u.wrote.of.original
          PROVE  u.wrote.found = u.wrote.of.said
      <3>1. CASE u.client = "browser"
        BY <1>2, <2>1, <3>1
      <3>2. CASE u.client # "browser"
        BY <1>2, <3>2 DEF Surfaces!StillSaid
      <3> QED
        BY <3>1, <3>2
    <2> QED
      BY <1>2, <2>1 DEF OwnOK
  <1> QED
    BY <1>4, <1>6, <1>7, <1>8, <1>9 DEF SwapInv

\* A synonym is picked.
LEMMA SwapPicks ==
  ASSUME NEW W, W = Surfaces!Words, SwapInv(W, offers), Surfaces!Pick
  PROVE  SwapInv(W, offers')
  <1> DEFINE gone == Surfaces!Gone
             f == [offers EXCEPT !.card = Surfaces!Gone]
             r == offers.popover.of
             u == offers'
  <1>1. /\ DOMAIN offers = PageNames /\ OffersOK(W, offers) /\ offers.text \in Seq(W)
        /\ offers.selection \in Surfaces!Spans(offers.text) /\ offers.applied \in Seq(Records(W))
        /\ offers.client \in {"browser", "vencord"}
    BY DEF SwapInv, TextsOK
  <1>2. gone = Surfaces!Gone /\ gone.is = "gone" /\ f = [offers EXCEPT !.card = gone]
    BY DEF Surfaces!Gone
  <1>3. PICK by \in Surfaces!Synonyms, taken \in BOOLEAN :
          \/ offers.client = "browser" /\ taken /\ u = Surfaces!PickInField(f, r, by)
          \/ offers.client = "vencord" /\ u = Surfaces!PickInComposer(f, r, by, taken)
    BY Zenon DEF Surfaces!Pick
  <1>4. by \in Seq(W) /\ Len(by) \in Nat \ {0}
    BY WordsAre
  <1>5. offers.popover # gone
    BY <1>2 DEF Surfaces!Pick
  <1>6. RequestOK(W, r) /\ OneWord(r.span) /\ r.said \in Seq(W) /\ r.original \in Seq(W)
    <2>1. WordOK(W, r)
      BY <1>1, <1>2, <1>5 DEF OffersOK
    <2> QED
      BY <2>1 DEF WordOK, RequestOK, SpanSaid
  <1>7. offers.client = "browser" /\ ~ offers.crossed => Surfaces!Slice(offers.text, r.span) = r.original
    BY <1>2, <1>5 DEF SwapInv, HeldOK
  <1> HIDE DEF gone
  <1>8. /\ DOMAIN f = PageNames /\ Quiet(offers, f) /\ f.selection = offers.selection
        /\ f.control = offers.control /\ f.opening = offers.opening /\ f.out = offers.out
        /\ f.card = gone /\ f.toast = offers.toast /\ f.popover = offers.popover
    <2> HIDE DEF f
    <2> QED
      BY <1>1, <1>2 DEF PageNames, Quiet
  <1> HIDE DEF f, u, r
  <1>9. SwapInv(W, f)
    <2>1. OffersOK(W, f)
      BY <1>1, <1>2, <1>8, OffersKeep
    <2> QED
      BY <1>1, <1>2, <1>8, <2>1, Keeps
  <1>10. ASSUME offers.client = "browser", u = Surfaces!PickInField(f, r, by)
         PROVE  SwapInv(W, u)
    <2> DEFINE h == [f EXCEPT !.popover = Surfaces!Gone, !.closed = TRUE]
               g == Surfaces!Swapped(h, r, by, "synonym")
               edit == EditOf(r, by, r.original)
               applied == Surfaces!Plain!AppendInverse(<<>>, edit)
               toast == [is |-> "undo"]
    <2>1. u = [g EXCEPT !.applied = applied, !.toast = toast]
      BY <1>10 DEF Surfaces!PickInField, EditOf
    <2>2. h = [f EXCEPT !.popover = gone, !.closed = TRUE]
      BY <1>2
    <2> HIDE DEF h
    <2>3. /\ DOMAIN h = PageNames /\ Quiet(f, h) /\ h.selection = f.selection
          /\ h.control = f.control /\ h.opening = f.opening /\ h.out = f.out
          /\ h.card = f.card /\ h.toast = f.toast /\ h.popover = gone
      BY <1>8, <2>2 DEF PageNames, Quiet
    <2>4. SwapInv(W, h)
      <3>1. OffersOK(W, f) /\ f.selection \in Surfaces!Spans(f.text)
        BY <1>9 DEF SwapInv, TextsOK
      <3>2. OffersOK(W, h)
        BY <1>2, <2>3, <3>1, OffersKeep
      <3> QED
        BY <1>2, <1>9, <2>3, <3>1, <3>2, Keeps
    <2>5. /\ h.client = "browser" /\ h.text = offers.text /\ (h.crossed <=> offers.crossed)
      BY <1>8, <1>10, <2>3 DEF Quiet
    <2>6. DOMAIN g = PageNames /\ g.popover = gone
      <3>1. TextsOK(W, h)
        BY <2>4 DEF SwapInv
      <3>2. DOMAIN g = PageNames /\ (g.popover = h.popover \/ g.popover = Surfaces!Gone)
        BY <1>4, <1>6, <3>1, SwappedIs
      <3> QED
        BY <1>2, <2>3, <3>2
    <2> HIDE DEF g
    <2>7. /\ DOMAIN u = PageNames /\ u.applied = applied /\ u.toast = toast /\ u.popover = gone /\ AsLeft(g, u)
      <3> HIDE DEF applied, toast
      <3> QED
        BY <2>1, <2>6 DEF PageNames, AsLeft
    <2>8. Surfaces!StillSaid(h.text, r) /\ Sure(h) => r.original = r.said
      BY <1>7, <1>10, <2>5 DEF Sure, Surfaces!StillSaid
    <2>9. <<>> \in Seq(Records(W))
      BY EmptySeq
    <2>10. g = Surfaces!Swapped(h, r, by, "synonym") /\ u.toast.is = "undo" /\ u.popover = Surfaces!Gone
      BY <1>2, <2>7 DEF g
    <2>11. h.client = "browser" /\ ~ h.crossed => Surfaces!Slice(h.text, r.span) = r.original
      BY <1>7, <1>10, <2>5
    <2>12. h.client # "browser" => Surfaces!StillSaid(h.text, r)
      BY <2>5
    <2>13. u.applied = Surfaces!Plain!AppendInverse(<<>>, EditOf(r, by, r.original))
      BY <2>7
    <2> HIDE DEF applied, toast, edit, g, h
    <2> QED
      BY <1>4, <1>6, <2>4, <2>7, <2>8, <2>9, <2>10, <2>11, <2>12, <2>13, SwapPicked
  <1>11. ASSUME offers.client = "vencord", u = Surfaces!PickInComposer(f, r, by, taken)
         PROVE  SwapInv(W, u)
    <2> DEFINE g == Surfaces!Swapped(f, r, by, "synonym")
               edit == EditOf(r, by, r.said)
               applied == Surfaces!Plain!AppendInverse(g.applied, edit)
               toast == [is |-> "undo"]
    <2>1. CASE u = f
      BY <1>9, <2>1
    <2>2. CASE u # f
      <3>1. /\ Surfaces!StillSaid(f.text, r)
            /\ u = [g EXCEPT !.popover = Surfaces!Gone, !.closed = TRUE,
                             !.applied = Surfaces!Plain!AppendInverse(@, edit), !.toast = toast]
        BY <1>11, <2>2, Zenon DEF Surfaces!PickInComposer, EditOf
      <3>2. DOMAIN g = PageNames /\ g.applied \in Seq(Records(W))
        <4>1. TextsOK(W, f)
          BY <1>9 DEF SwapInv
        <4>2. DOMAIN g = PageNames /\ g.applied = f.applied
          BY <1>4, <1>6, <4>1, SwappedIs
        <4> QED
          BY <4>1, <4>2 DEF TextsOK
      <3> HIDE DEF g
      <3>3. u = [g EXCEPT !.popover = gone, !.closed = TRUE, !.applied = applied, !.toast = toast]
        BY <1>2, <3>1, <3>2 DEF PageNames
      <3>4. /\ DOMAIN u = PageNames /\ u.applied = applied /\ u.toast = toast /\ u.popover = gone /\ AsLeft(g, u)
        <4> HIDE DEF applied, toast
        <4> QED
          BY <3>2, <3>3 DEF PageNames, AsLeft
      <3>5. g = Surfaces!Swapped(f, r, by, "synonym") /\ u.toast.is = "undo" /\ u.popover = Surfaces!Gone
        BY <1>2, <3>4 DEF g
      <3>6. f.client # "browser"
        BY <1>8, <1>11 DEF Quiet
      <3>7. u.applied = Surfaces!Plain!AppendInverse(g.applied, EditOf(r, by, r.said))
        BY <3>4
      <3>8. f.client = "browser" /\ ~ f.crossed => Surfaces!Slice(f.text, r.span) = r.original
        BY <3>6
      <3>9. Surfaces!StillSaid(f.text, r)
        BY <3>1
      <3> HIDE DEF applied, toast, edit
      <3> QED
        BY <1>4, <1>6, <1>9, <3>2, <3>4, <3>5, <3>7, <3>8, <3>9, SwapPicked
    <2> QED
      BY <2>1, <2>2
  <1>12. SwapInv(W, u)
    BY <1>3, <1>10, <1>11
  <1> QED
    BY <1>12 DEF u

\* What took the place of a span can be told to stand there, and be taken back.
LEMMA TookOverIs ==
  ASSUME NEW W, NEW before \in Seq(W), NEW text, NEW start, NEW end, NEW by \in Seq(W), NEW was,
         TookOver(before, text, start, end, by, was)
  PROVE  /\ Over(text, start, start + Len(by), was) = before
         /\ Surfaces!Plain!Slice(text, start, start + Len(by)) = by
  <1>1. /\ start \in Nat /\ end \in Nat /\ start <= end /\ end <= Len(before)
        /\ text = Over(before, start, end, by) /\ was = SubSeq(before, start + 1, end)
    BY DEF TookOver
  <1>2. Len(before) \in Nat /\ Len(by) \in Nat
    BY LenProperties
  <1>3. Over(text, start, start + Len(by), was) = before
    BY <1>1, PutBack
  <1> DEFINE to == start + Len(by)
  <1>4. text \in Seq(W) /\ to \in Nat /\ start <= to /\ to <= Len(text)
        /\ \A i \in 1..Len(by) : text[start + i] = by[i]
    <2>1. start <= Len(before)
      BY <1>1, <1>2
    <2>2. Fits(W, before, start, end, by)
      BY <1>1, <2>1 DEF Fits
    <2>3. Reads(W, text, before, start, end, by)
      BY <1>1, <2>2, Written
    <2>4. Rest(before, end) \in Nat
      BY <1>1, <1>2 DEF Rest
    <2> QED
      BY <1>1, <1>2, <2>3, <2>4 DEF Reads
  <1> DEFINE s == SubSeq(text, start + 1, to)
  <1>5. Surfaces!Plain!Slice(text, start, to) = s
    BY <1>1, <1>4, SliceIs
  <1>6. s \in Seq(W) /\ Len(s) = Len(by) /\ \A i \in 1..Len(by) : s[i] = text[start + i]
    <2>1. Len(text) \in Nat /\ \A i \in 1..Len(text) : text[i] \in W
      BY <1>4, LenProperties, ElementOfSeq
    <2>2. \A i \in (start + 1)..to : text[i] \in W
      BY <1>1, <1>4, <2>1
    <2>3. /\ s \in Seq(W) /\ Len(s) = IF start + 1 <= to THEN to - (start + 1) + 1 ELSE 0
          /\ \A i \in 1..(to - (start + 1) + 1) : s[i] = text[(start + 1) + i - 1]
      <3> HIDE DEF to
      <3> QED
        BY <1>1, <1>4, <2>2, SubSeqProperties
    <2> HIDE DEF s
    <2>4. to - (start + 1) + 1 = Len(by) /\ Len(s) = Len(by)
      BY <1>1, <1>2, <2>3
    <2>5. ASSUME NEW i \in 1..Len(by) PROVE s[i] = text[start + i]
      <3>1. (start + 1) + i - 1 = start + i
        BY <1>1
      <3> QED
        BY <2>3, <2>4, <3>1
    <2> QED
      BY <2>3, <2>4, <2>5
  <1> HIDE DEF s, to
  <1>7. s = by
    BY <1>4, <1>6, SeqEqual
  <1> QED
    BY <1>3, <1>5, <1>7 DEF to

\* A plan of one has a record that stands, and a record that is all there is and stands
\* is the plan.
LEMMA PlanOfOne ==
  ASSUME NEW W, NEW text \in Seq(W), NEW records \in Seq(Records(W)), NEW plan,
         plan = Surfaces!Plain!PlanUndo(text, records)
  PROVE  /\ Len(plan) = 1 => Surfaces!Plain!Slice(text, plan[1].start, plan[1].end) = plan[1].applied
         /\ /\ Len(records) = 1
            /\ Surfaces!Plain!Slice(text, records[1].start, records[1].end) = records[1].applied
            => Len(plan) = 1 /\ plan[1] = records[1]
  <1> DEFINE S == Standing(text, records)
  <1>1. /\ Len(plan) = Cardinality(S)
        /\ \A k \in 1..Len(plan) : \E i \in S : plan[k] = records[i]
    BY PlanIs
  <1>2. \A i \in S : Surfaces!Plain!Slice(text, records[i].start, records[i].end) = records[i].applied
    BY DEF Standing
  <1>3. Len(plan) = 1 => Surfaces!Plain!Slice(text, plan[1].start, plan[1].end) = plan[1].applied
    <2> SUFFICES ASSUME Len(plan) = 1
                 PROVE  Surfaces!Plain!Slice(text, plan[1].start, plan[1].end) = plan[1].applied
      OBVIOUS
    <2> HIDE DEF S
    <2>1. 1 \in 1..Len(plan)
      OBVIOUS
    <2>2. PICK i \in S : plan[1] = records[i]
      BY <1>1, <2>1
    <2> QED
      BY <1>2, <2>2
  <1>4. ASSUME Len(records) = 1,
               Surfaces!Plain!Slice(text, records[1].start, records[1].end) = records[1].applied
        PROVE  Len(plan) = 1 /\ plan[1] = records[1]
    <2>1. DOMAIN records = 1..1
      BY <1>4, LenProperties
    <2>2. S = {1}
      BY <1>4, <2>1 DEF Standing
    <2> HIDE DEF S
    <2>3. Cardinality(S) = 1
      BY <2>2, FS_Singleton
    <2>4. 1 \in 1..Len(plan)
      BY <1>1, <2>3
    <2>5. PICK i \in S : plan[1] = records[i]
      BY <1>1, <2>4
    <2> QED
      BY <1>1, <2>2, <2>3, <2>5
  <1> QED
    BY <1>3, <1>4

\* What undo takes back: a text, with the caret in it, and the one before if nothing was
\* done since.
LEMMA SwapUndoes ==
  ASSUME NEW W, SwapInv(W, offers), Surfaces!Undo
  PROVE  SwapInv(W, offers')
  <1> DEFINE f == Surfaces!Outside(offers)
             plan == Surfaces!Plain!PlanUndo(f.text, f.applied)
             u == offers'
             back == Surfaces!TakenBack(f.text, plan)
             last == Surfaces!Last(plan)
             caret == Surfaces!Caret(last.start + Len(last.original))
             undone == ~ offers.since /\ offers.wrote.is = "synonym" /\ Len(offers.applied) = 1
             gone == Surfaces!Gone
  <1>1. PICK g, w :
          /\ g = IF plan = <<>> THEN f ELSE Surfaces!Selected([f EXCEPT !.text = back], caret)
          /\ w = IF Len(plan) # 1 THEN gone
                 ELSE [is |-> "undo", found |-> Surfaces!Slice(f.text, plan[1]), of |-> plan[1]]
          /\ u = [g EXCEPT !.applied = <<>>, !.toast = gone, !.wrote = w, !.undone = undone]
    <2>1. f = Surfaces!Outside(offers) /\ plan = Surfaces!Plain!PlanUndo(f.text, f.applied)
      OBVIOUS
    <2> HIDE DEF f, plan
    <2> QED
      <3>1. UndoneTo(f, plan, offers, u)
        BY <2>1, UndoIs
      <3> QED
        BY <3>1, Zenon DEF UndoneTo
  <1>2. DOMAIN offers = PageNames
    BY DEF SwapInv, TextsOK
  <1>3. gone = Surfaces!Gone /\ gone.is = "gone"
    BY DEF Surfaces!Gone
  <1>4. SwapInv(W, f)
    BY SwapLeaves
  <1>5. /\ DOMAIN f = PageNames /\ Quiet(offers, f) /\ f.opening = offers.opening /\ f.out = offers.out
        /\ f.control = offers.control /\ f.card = gone /\ f.popover = gone
    BY <1>2, OutsideIs
  <1>6. TextsOK(W, f) /\ OffersOK(W, f) /\ HeldOK(f) /\ TookOK(f) /\ OwnOK(f)
    BY <1>4 DEF SwapInv
  <1>7. f.text \in Seq(W) /\ f.applied \in Seq(Records(W)) /\ f.selection \in Surfaces!Spans(f.text)
        /\ f.before \in Seq(W) /\ f.client \in {"browser", "vencord"}
    BY <1>6 DEF TextsOK
  <1> HIDE DEF f, gone
  <1>8. plan \in Seq(Records(W)) /\ Falls(W, f.text, plan) /\ Len(plan) \in Nat
    <2>1. plan \in Seq(Records(W))
      BY <1>7, PlanIs
    <2>2. /\ \A k \in 1..Len(plan) : plan[k] \in Records(W) /\ plan[k].end <= Len(f.text)
          /\ \A k, m \in 1..Len(plan) : k < m => plan[m].start <= plan[k].start
      BY <1>7, PlanFalls
    <2> HIDE DEF plan
    <2> QED
      BY <2>1, <2>2, LenProperties DEF Falls
  <1>9. /\ Len(plan) = 1 => Surfaces!Plain!Slice(f.text, plan[1].start, plan[1].end) = plan[1].applied
        /\ /\ Len(f.applied) = 1
           /\ Surfaces!Plain!Slice(f.text, f.applied[1].start, f.applied[1].end) = f.applied[1].applied
           => Len(plan) = 1 /\ plan[1] = f.applied[1]
    BY <1>7, PlanOfOne
  <1> HIDE DEF plan
  <1>10. /\ BackOK(W, plan, back, Len(plan))
         /\ Len(plan) = 1 => back = Over(f.text, plan[1].start, plan[1].end, plan[1].original)
    BY <1>7, <1>8, TakenBackIs
  <1>11. last = plan[Len(plan)]
    BY DEF Surfaces!Last
  <1> HIDE DEF back, last
  <1>12. plan # <<>> => back \in Seq(W) /\ caret \in Surfaces!Spans(back)
    <2> SUFFICES ASSUME plan # <<>> PROVE back \in Seq(W) /\ caret \in Surfaces!Spans(back)
      OBVIOUS
    <2>1. Len(plan) > 0 /\ Len(plan) \in 1..Len(plan)
      <3>1. Len(plan) # 0
        BY <1>8, EmptySeq
      <3> QED
        BY <1>8, <3>1
    <2>2. back \in Seq(W) /\ last.start + Len(last.original) <= Len(back)
      BY <1>10, <1>11, <2>1 DEF BackOK
    <2>3. last.start \in Nat /\ Len(last.original) \in Nat /\ Len(back) \in Nat
      <3>1. last \in Records(W)
        BY <1>8, <1>11, <2>1 DEF Falls
      <3>2. last.start \in Nat /\ last.original \in Seq(W)
        BY <3>1 DEF Records
      <3> QED
        BY <2>2, <3>2, LenProperties
    <2> DEFINE i == last.start + Len(last.original)
    <2>4. i \in 0..Len(back) /\ i <= i
      BY <2>2, <2>3
    <2> HIDE DEF i
    <2>5. Surfaces!Caret(i) \in Surfaces!Spans(back)
      BY <2>4 DEF Surfaces!Caret, Surfaces!Spans
    <2> QED
      BY <2>2, <2>5 DEF i
  <1> HIDE DEF caret
  <1>13. /\ DOMAIN g = PageNames /\ g.client = f.client /\ g.before = f.before
         /\ (g.since <=> f.since) /\ (g.crossed <=> f.crossed)
         /\ g.control = f.control /\ g.opening = f.opening /\ g.out = f.out /\ g.card = f.card
         /\ g.popover = gone
         /\ g.text = IF plan = <<>> THEN f.text ELSE back
         /\ g.selection = IF plan = <<>> THEN f.selection ELSE caret
    <2>1. CASE plan = <<>>
      BY <1>1, <1>5, <2>1
    <2>2. CASE plan # <<>>
      <3> DEFINE h == [f EXCEPT !.text = back]
      <3>1. /\ DOMAIN h = PageNames /\ h.text = back /\ h.client = f.client /\ h.before = f.before
            /\ (h.since <=> f.since) /\ (h.crossed <=> f.crossed)
            /\ h.control = f.control /\ h.opening = f.opening /\ h.out = f.out /\ h.card = f.card
            /\ h.popover = gone
        BY <1>5 DEF PageNames
      <3>2. g = Surfaces!Selected(h, caret)
        BY <1>1, <2>2
      <3> HIDE DEF h
      <3>3. /\ DOMAIN g = PageNames /\ Quiet(h, g) /\ g.selection = caret /\ g.control = h.control
            /\ g.opening = h.opening /\ g.out = h.out /\ g.card = h.card
            /\ g.popover = IF h.client = "browser" THEN Surfaces!Gone ELSE h.popover
        BY <3>1, <3>2, SelectedIs
      <3> QED
        BY <1>3, <2>2, <3>1, <3>3 DEF Quiet
    <2> QED
      BY <2>1, <2>2
  <1> HIDE DEF undone, u
  <1>14. /\ DOMAIN u = PageNames /\ u.client = f.client /\ u.before = f.before
         /\ (u.since <=> f.since) /\ (u.crossed <=> f.crossed) /\ (u.undone <=> undone)
         /\ u.control = f.control /\ u.opening = f.opening /\ u.out = f.out /\ u.card = f.card
         /\ u.popover = gone /\ u.toast = gone /\ u.wrote = w /\ u.applied = <<>>
         /\ u.text = g.text /\ u.selection = g.selection
    BY <1>1, <1>13 DEF PageNames
  <1>15. TextsOK(W, u)
    <2>1. u.text \in Seq(W) /\ u.selection \in Surfaces!Spans(u.text)
      BY <1>7, <1>12, <1>13, <1>14
    <2>2. u.applied \in Seq(Records(W))
      BY <1>14, EmptySeq
    <2> QED
      BY <1>7, <1>14, <2>1, <2>2 DEF TextsOK
  <1>16. OffersOK(W, u)
    BY <1>3, <1>6, <1>14, OffersKeep
  <1>17. HeldOK(u)
    BY <1>3, <1>6, <1>14 DEF HeldOK
  <1>18. w.is \in {"gone", "undo"} /\ (w.is = "undo" => w.found = w.of.applied)
    <2>1. CASE Len(plan) # 1
      BY <1>1, <1>3, <2>1
    <2>2. CASE Len(plan) = 1
      <3>1. w.is = "undo" /\ w.found = Surfaces!Slice(f.text, plan[1]) /\ w.of = plan[1]
        BY <1>1, <2>2
      <3>2. Surfaces!Slice(f.text, plan[1]) = Surfaces!Plain!Slice(f.text, plan[1].start, plan[1].end)
        BY DEF Surfaces!Slice
      <3> QED
        BY <1>9, <2>2, <3>1, <3>2
    <2> QED
      BY <2>1, <2>2
  <1>19. TookOK(u)
    BY <1>3, <1>14, <1>18 DEF TookOK
  <1>20. ASSUME undone, Sure(u) PROVE u.text = u.before
    <2> DEFINE e == f.applied[1]
    <2>1. /\ ~ f.since /\ f.wrote.is = "synonym" /\ Len(f.applied) = 1 /\ Sure(f)
      BY <1>5, <1>14, <1>20 DEF undone, Quiet, Sure
    <2>2. PICK end : TookOver(f.before, f.text, e.start, end, e.applied, e.original)
      BY <1>6, <2>1 DEF TookOK
    <2>3. e \in Records(W)
      BY <1>7, <2>1, ElementOfSeq
    <2> HIDE DEF e
    <2>4. e.applied \in Seq(W) /\ e.end = e.start + Len(e.applied)
      BY <2>3 DEF Records
    <2>5. /\ Over(f.text, e.start, e.start + Len(e.applied), e.original) = f.before
          /\ Surfaces!Plain!Slice(f.text, e.start, e.start + Len(e.applied)) = e.applied
      BY <1>7, <2>2, <2>4, TookOverIs
    <2>6. Len(plan) = 1 /\ plan[1] = e
      BY <1>9, <2>1, <2>4, <2>5 DEF e
    <2>7. back = f.before
      BY <1>10, <2>4, <2>5, <2>6
    <2>8. plan # <<>>
      <3>1. Len(plan) # 0
        BY <2>6
      <3> QED
        BY <1>8, <3>1, EmptySeq
    <2> QED
      BY <1>13, <1>14, <2>7, <2>8
  <1>21. OwnOK(u)
    BY <1>14, <1>18, <1>20 DEF OwnOK
  <1>22. SwapInv(W, u)
    BY <1>15, <1>16, <1>17, <1>19, <1>21 DEF SwapInv
  <1> QED
    BY <1>22 DEF u

\* The toast of a rephrasing puts back what was there, as long as it.
LEMMA SwapUndoesRephrase ==
  ASSUME NEW W, SwapInv(W, offers), Surfaces!UndoRephrase
  PROVE  SwapInv(W, offers')
  <1> DEFINE gone == Surfaces!Gone
             o == Surfaces!Outside(offers)
             r == offers.toast.of
             f == [o EXCEPT !.toast = gone]
             u == offers'
             g == Surfaces!Edited(f, r.span, r.said)
             undone == ~ offers.since /\ Len(offers.toast.by) = Len(r.said)
  <1>1. /\ offers.toast.is = "rephrased"
        /\ u = IF r.span.end > Len(f.text) THEN f
               ELSE [g EXCEPT !.since = TRUE, !.wrote = gone, !.undone = undone]
    BY Zenon DEF Surfaces!UndoRephrase
  <1>2. DOMAIN offers = PageNames
    BY DEF SwapInv, TextsOK
  <1>3. gone = Surfaces!Gone /\ gone.is = "gone"
    BY DEF Surfaces!Gone
  <1>4. SwapInv(W, o)
    BY SwapLeaves
  <1>5. /\ DOMAIN o = PageNames /\ Quiet(offers, o) /\ o.opening = offers.opening /\ o.out = offers.out
        /\ o.control = offers.control /\ o.card = gone /\ o.popover = gone /\ o.toast = offers.toast
    BY <1>2, OutsideIs
  <1> HIDE DEF gone, o
  <1>6. /\ DOMAIN f = PageNames /\ Quiet(o, f) /\ f.selection = o.selection /\ f.opening = o.opening
        /\ f.out = o.out /\ f.control = o.control /\ f.card = o.card /\ f.popover = o.popover
        /\ f.toast = gone
    BY <1>5 DEF PageNames, Quiet
  <1> HIDE DEF f
  <1>7. SwapInv(W, f)
    <2>1. OffersOK(W, o) /\ o.selection \in Surfaces!Spans(o.text)
      BY <1>4 DEF SwapInv, TextsOK
    <2>2. OffersOK(W, f)
      BY <1>3, <1>6, <2>1, OffersKeep
    <2> QED
      BY <1>3, <1>4, <1>6, <2>1, <2>2, Keeps
  <1>8. TextsOK(W, f) /\ OffersOK(W, f) /\ HeldOK(f) /\ OwnOK(f)
    BY <1>7 DEF SwapInv
  <1>9. f.text \in Seq(W) /\ f.before \in Seq(W) /\ Len(f.text) \in Nat
    BY <1>8, LenProperties DEF TextsOK
  <1>10. RequestOK(W, r) /\ offers.toast.by \in Seq(W)
    BY <1>1 DEF SwapInv, OffersOK
  <1> HIDE DEF r
  <1>11. /\ r.span.start \in Nat /\ r.span.end \in Nat /\ r.span.start < r.span.end
         /\ r.said \in Seq(W) /\ Len(r.said) = r.span.end - r.span.start
    BY <1>10 DEF RequestOK, SpanSaid
  <1>12. /\ DOMAIN g = PageNames
         /\ g.text = Over(f.text, r.span.start, r.span.end, r.said)
         /\ g.selection = Surfaces!Caret(r.span.start + Len(r.said))
         /\ g.client = f.client /\ g.before = f.before /\ g.applied = f.applied
         /\ (g.crossed <=> f.crossed)
         /\ g.control = f.control /\ g.opening = f.opening /\ g.out = f.out /\ g.card = f.card
         /\ g.toast = f.toast /\ g.popover = IF f.client = "browser" THEN Surfaces!Gone ELSE f.popover
    BY <1>6, EditedIs
  <1> HIDE DEF g, u, undone
  <1>13. ASSUME ~(r.span.end > Len(f.text)) PROVE SwapInv(W, u)
    <2>1. u = [g EXCEPT !.since = TRUE, !.wrote = gone, !.undone = undone]
      BY <1>1, <1>13
    <2>2. /\ DOMAIN u = PageNames /\ u.text = g.text /\ u.selection = g.selection
          /\ u.client = g.client /\ u.before = g.before /\ u.applied = g.applied
          /\ u.wrote = gone /\ (u.crossed <=> g.crossed) /\ u.since /\ (u.undone <=> undone)
          /\ u.control = g.control /\ u.opening = g.opening /\ u.out = g.out
          /\ u.card = g.card /\ u.toast = g.toast /\ u.popover = g.popover
      BY <1>12, <2>1 DEF PageNames
    <2>3. Fits(W, f.text, r.span.start, r.span.end, r.said)
      <3>1. r.span.start <= r.span.end /\ r.span.start <= Len(f.text)
        BY <1>9, <1>11, <1>13
      <3> QED
        BY <1>9, <1>11, <3>1 DEF Fits
    <2>4. u.text \in Seq(W) /\ u.selection \in Surfaces!Spans(u.text)
      BY <1>12, <2>2, <2>3, EditFits
    <2>5. TextsOK(W, u)
      BY <1>8, <1>12, <2>2, <2>4 DEF TextsOK
    <2>6. u.popover = gone
      BY <1>3, <1>5, <1>6, <1>12, <2>2
    <2>7. OffersOK(W, u)
      BY <1>3, <1>8, <1>12, <2>2, <2>6, OffersKeep
    <2>8. HeldOK(u)
      BY <1>3, <1>8, <1>12, <2>2, <2>6 DEF HeldOK
    <2>9. TookOK(u)
      BY <1>3, <1>6, <1>12, <2>2 DEF TookOK
    <2>10. ASSUME undone PROVE u.text = u.before
      <3> DEFINE by == offers.toast.by
      <3>1. /\ ~ offers.since /\ Len(by) = Len(r.said)
            /\ TookOver(offers.before, offers.text, r.span.start, r.span.end, by, r.said)
        BY <1>1, <2>10 DEF undone, r, SwapInv, TookOK
      <3>2. offers.before = f.before /\ offers.text = f.text
        BY <1>5, <1>6 DEF Quiet
      <3> HIDE DEF by
      <3>3. Over(f.text, r.span.start, r.span.start + Len(by), r.said) = f.before
        BY <1>9, <1>10, <3>1, <3>2, TookOverIs DEF by
      <3>4. r.span.start + Len(by) = r.span.end
        BY <1>11, <3>1
      <3> QED
        BY <1>12, <2>2, <3>3, <3>4
    <2>11. OwnOK(u)
      BY <1>3, <2>2, <2>10 DEF OwnOK
    <2> QED
      BY <2>5, <2>7, <2>8, <2>9, <2>11 DEF SwapInv
  <1>14. SwapInv(W, u)
    BY <1>1, <1>7, <1>13
  <1> QED
    BY <1>14 DEF u

\* At first nothing is written, and nothing is offered.
LEMMA SwapInit == Surfaces!Constants /\ Surfaces!Init => SwapInv(Surfaces!Words, offers)
  <1> DEFINE W == Surfaces!Words
             gone == Surfaces!Gone
  <1> SUFFICES ASSUME Surfaces!Constants, Surfaces!Init PROVE SwapInv(W, offers)
    OBVIOUS
  <1>1. /\ DOMAIN offers = PageNames /\ offers.client \in {"browser", "vencord"}
        /\ offers.text \in Texts /\ offers.before = offers.text
        /\ offers.selection = Surfaces!Caret(0) /\ offers.control = gone
        /\ offers.opening = {} /\ offers.out = {} /\ offers.card = gone /\ offers.popover = gone
        /\ offers.toast = gone /\ offers.applied = <<>> /\ offers.wrote = gone /\ ~ offers.undone
    <2> HIDE DEF gone
    <2>1. gone = Surfaces!Gone
      BY DEF gone
    <2>2. PICK text \in Texts, client \in {"browser", "vencord"} :
            offers = [client |-> client, text |-> text, selection |-> Surfaces!Caret(0),
                      debounce |-> FALSE, control |-> gone, opening |-> {}, out |-> {},
                      card |-> gone, popover |-> gone, toast |-> gone, applied |-> <<>>,
                      typed |-> 0, moves |-> 0, asked |-> 0, wrote |-> gone, before |-> text,
                      undone |-> FALSE, since |-> FALSE, crossed |-> FALSE, closed |-> TRUE]
      BY <2>1, Zenon DEF Surfaces!Init
    <2> QED
      BY <2>2 DEF PageNames
  <1>2. gone = Surfaces!Gone /\ gone.is = "gone"
    BY DEF Surfaces!Gone
  <1>3. offers.text \in Seq(W) /\ Len(offers.text) \in Nat
    BY <1>1, LenProperties DEF Surfaces!Constants
  <1> HIDE DEF W, gone
  <1>4. TextsOK(W, offers)
    <2>1. Surfaces!Caret(0) \in Surfaces!Spans(offers.text)
      BY <1>3 DEF Surfaces!Caret, Surfaces!Spans
    <2>2. <<>> \in Seq(Records(W))
      BY EmptySeq
    <2> QED
      BY <1>1, <1>3, <2>1, <2>2 DEF TextsOK
  <1>5. OffersOK(W, offers)
    BY <1>1, <1>2 DEF OffersOK
  <1>6. HeldOK(offers)
    BY <1>1, <1>2 DEF HeldOK
  <1>7. TookOK(offers)
    BY <1>1, <1>2 DEF TookOK
  <1>8. OwnOK(offers)
    BY <1>1, <1>2 DEF OwnOK
  <1> QED
    BY <1>4, <1>5, <1>6, <1>7, <1>8 DEF SwapInv

\* No step breaks it.
LEMMA SwapStep ==
  PageInv(offers) /\ SwapInv(Surfaces!Words, offers) /\ [Surfaces!Next]_offers =>
    SwapInv(Surfaces!Words, offers)'
  <1> DEFINE W == Surfaces!Words
  <1> SUFFICES ASSUME PageInv(offers), SwapInv(W, offers), [Surfaces!Next]_offers PROVE SwapInv(W, offers')
    OBVIOUS
  <1>1. W = Surfaces!Words
    OBVIOUS
  <1> HIDE DEF W
  <1>2. CASE UNCHANGED offers
    BY <1>2
  <1>3. CASE Surfaces!Next
    <2>1. CASE Surfaces!SelectionMoves \/ Surfaces!Scroll \/ Surfaces!Debounced
      BY <2>1, SwapUserSteps
    <2>2. CASE Surfaces!Type
      BY <1>1, <2>2, SwapTypes
    <2>3. CASE \/ Surfaces!ClickRephrase \/ Surfaces!RephraseHotkey \/ Surfaces!Reissue \/ Surfaces!Retry
               \/ \E r \in offers.opening : Surfaces!SettingsRead(r)
      BY <2>3, SwapRephraseSteps
    <2>4. CASE Surfaces!ClickSynonyms
      BY <2>4, SwapSynonyms
    <2>5. CASE \E r \in offers.out : Surfaces!Answer(r) \/ Surfaces!Fail(r)
      BY <2>5, SwapBridge
    <2>6. CASE Surfaces!CloseCard \/ Surfaces!ClosePopover \/ Surfaces!ToastGoes
      BY <2>6, SwapCloses
    <2>7. CASE Surfaces!Accept
      BY <1>1, <2>7, SwapAccepts
    <2>8. CASE Surfaces!Pick
      BY <1>1, <2>8, SwapPicks
    <2>9. CASE Surfaces!Undo
      BY <2>9, SwapUndoes
    <2>10. CASE Surfaces!UndoRephrase
      BY <2>10, SwapUndoesRephrase
    <2> QED
      BY <1>3, <2>1, <2>2, <2>3, <2>4, <2>5, <2>6, <2>7, <2>8, <2>9, <2>10 DEF Surfaces!Next
  <1> QED
    BY <1>2, <1>3

\* What it says of the two properties.
LEMMA SwapsAreOwn ==
  ASSUME NEW W, SwapInv(W, offers)
  PROVE  Surfaces!WritesOverItsOwn /\ Surfaces!UndoRestores
  BY DEF SwapInv, OwnOK, Sure, Surfaces!WritesOverItsOwn, Surfaces!UndoRestores

\* What the invariant says of the three properties.
LEMMA PageSurfacesLive ==
  PageInv(offers) => Surfaces!WaitersAreAnswered /\ Surfaces!ClosedStaysClosed /\ Surfaces!ControlIsCurrent
  BY DEF PageInv, AskedOK, ControlOK, Surfaces!WaitersAreAnswered, Surfaces!ClosedStaysClosed,
     Surfaces!ControlIsCurrent

\* What is offered for a selection waits for an answer that is out, stays closed, and is
\* of what is selected, for any number of requests and any texts.
THEOREM SelectionSurfacesAreLive ==
  Surfaces!Spec => [](Surfaces!WaitersAreAnswered /\ Surfaces!ClosedStaysClosed /\ Surfaces!ControlIsCurrent)
  <1>1. Surfaces!Init => PageInv(offers)
    BY PageInit
  <1>2. PageInv(offers) /\ [Surfaces!Next]_offers => PageInv(offers)'
    BY PageStep
  <1>3. PageInv(offers) => Surfaces!WaitersAreAnswered /\ Surfaces!ClosedStaysClosed /\
        Surfaces!ControlIsCurrent
    BY PageSurfacesLive
  <1> QED
    BY <1>1, <1>2, <1>3, PTL DEF Surfaces!Spec

\* What is written over is what its surface is of, and undo gives back the text before,
\* for any texts, any number of requests and whatever is typed between.
THEOREM SelectionSurfacesWriteTheirOwn ==
  Surfaces!Constants /\ Surfaces!Spec => [](Surfaces!WritesOverItsOwn /\ Surfaces!UndoRestores)
  <1> DEFINE Inv == PageInv(offers) /\ SwapInv(Surfaces!Words, offers)
  <1> SUFFICES ASSUME Surfaces!Constants
               PROVE  Surfaces!Spec => [](Surfaces!WritesOverItsOwn /\ Surfaces!UndoRestores)
    OBVIOUS
  <1>1. Surfaces!Init => Inv
    BY PageInit, SwapInit
  <1>2. Inv /\ [Surfaces!Next]_offers => Inv'
    BY PageStep, SwapStep
  <1>3. Inv => Surfaces!WritesOverItsOwn /\ Surfaces!UndoRestores
    BY SwapsAreOwn
  <1> QED
    BY <1>1, <1>2, <1>3, PTL DEF Surfaces!Spec

-----------------------------------------------------------------------------
(* The settings. *)

SettingsNames ==
  {"stored", "version", "tabs", "popup", "form", "goals", "events", "writes", "begun", "wanted", "lost",
   "missed"}
SettingsFields == {"enabled", "blocked", "suppress", "url", "goals"}
WriteNames == {"id", "by", "is", "seen", "patch", "sets"}
TabNames == {"is", "current", "runtime", "paused"}

\* Settings that come to the same.
SettingsUrl(s) == IF s.url = "garbage" THEN "default" ELSE s.url

\* Two settings that are read alike.
SettingsAgree(a, b) ==
  /\ a.enabled = b.enabled /\ a.blocked = b.blocked /\ a.suppress = b.suppress /\ a.goals = b.goals
  /\ SettingsUrl(a) = SettingsUrl(b)

\* A queue, whatever is in it.
SettingsElements(e) == {e[i] : i \in DOMAIN e}

\* A sequence of whatever is in it.
IsQueue(e) == e \in Seq(SettingsElements(e))

\* A patch sets what its write is to set, over what it has seen.
PatchOK(w) ==
  \/ w.sets.field = "blocked" /\ \E t \in Tabs : w.patch = Settings!Block(w.seen, t) /\
     w.sets = Settings!Blocks(w.seen, t)
  \/ /\ w.sets.field = "goals"
     /\ w.patch = Settings!Sets("goals", [w.seen.goals EXCEPT ![w.sets.part] = w.sets.value])
  \/ w.sets.field \in {"enabled", "suppress", "url"} /\ w.patch = w.sets

\* A change on its way: what it has seen, and what it will write.
WriteOK(s, w) ==
  /\ w.is \in {"begun", "read", "written"}
  /\ w.is = "begun" =>
       /\ DOMAIN w = WriteNames
       /\ w.patch = Settings!Nothing => w.by \in Tabs
       /\ w.patch # Settings!Nothing => PatchOK(w)
  /\ w.is = "read" =>
       /\ PatchOK(w) /\ w.patch # Settings!Nothing
       /\ DOMAIN w.base = SettingsFields /\ w.at \in Nat /\ w.at <= s.version
       /\ w.at = s.version => SettingsAgree(w.base, s.stored)

\* A goal that a tab picks.
PickedBy(w, t) ==
  w.by = t /\ w.is \in {"begun", "read"} /\ w.patch # Settings!Nothing /\ w.patch.field = "goals"

\* What a tab has heard, or will have.
SettingsLatest(s, t) == IF s.events[t] = <<>> THEN s.tabs[t].current ELSE s.events[t][Len(s.events[t])]

\* A tab is as its own settings want it.
IsMounted(tab, t) ==
  /\ DOMAIN tab = TabNames
  /\ tab.paused <=> Settings!Mode(tab.current, t) = "site-paused"
  /\ tab.runtime # Settings!Nothing <=> Settings!Mode(tab.current, t) = "active"
  /\ tab.runtime # Settings!Nothing =>
       /\ DOMAIN tab.runtime = {"is", "url", "suppress", "goals"} /\ tab.runtime.is = "mounted"
       /\ tab.runtime.url = tab.current.url /\ tab.runtime.suppress = tab.current.suppress

\* What a tab has mounted is what the settings say that it heard last, but for goals
\* picked in it that are about to be written.
TabOK(s, t) ==
  /\ s.tabs[t].is \in {"opening", "starting", "on"}
  /\ s.tabs[t].is # "on" => s.goals[t] = Settings!Nothing /\ s.events[t] = <<>>
  /\ s.tabs[t].is = "starting" /\ t \notin s.missed => SettingsAgree(s.tabs[t].current, s.stored)
  /\ s.tabs[t].is = "on" =>
       /\ IsMounted(s.tabs[t], t)
       /\ t \notin s.missed => SettingsAgree(SettingsLatest(s, t), s.stored)
       /\ t \notin s.missed /\ s.events[t] = <<>> /\ s.tabs[t].runtime # Settings!Nothing =>
            \/ s.tabs[t].runtime.goals = s.stored.goals
            \/ \E w \in s.writes : PickedBy(w, t) /\ w.patch.value = s.tabs[t].runtime.goals

\* The fields of the settings, tabs and changes.
SettingsType(s) ==
  /\ DOMAIN s = SettingsNames /\ DOMAIN s.stored = SettingsFields /\ DOMAIN s.wanted = SettingsFields
  /\ s.version \in Nat
  /\ DOMAIN s.tabs = Tabs /\ DOMAIN s.goals = Tabs /\ DOMAIN s.events = Tabs \cup {"popup"}
  /\ \A x \in Tabs \cup {"popup"} : IsQueue(s.events[x])

\* The invariant: no change is lost unless it was crossed, and each tab follows what it
\* heard last.
SettingsInv(s) ==
  /\ SettingsType(s)
  /\ \A w \in s.writes : WriteOK(s, w)
  /\ ~s.lost => SettingsAgree(s.stored, s.wanted)
  /\ \A t \in Tabs : TabOK(s, t)

\* Reading settings makes a URL of what is not one, and leaves the rest.
LEMMA ResolvedIs ==
  ASSUME NEW s, DOMAIN s = SettingsFields
  PROVE  LET r == Settings!Resolved(s) IN
         DOMAIN r = SettingsFields /\ r.url = SettingsUrl(s) /\ \A n \in SettingsFields \ {"url"} :
             r[n] = s[n]
  BY DEF Settings!Resolved, SettingsUrl, SettingsFields

\* What is read agrees with what is stored.
LEMMA ResolvedAgrees ==
  ASSUME NEW s, DOMAIN s = SettingsFields
  PROVE  SettingsAgree(Settings!Resolved(s), s)
  <1> DEFINE r == Settings!Resolved(s)
  <1>1. r.url = SettingsUrl(s) /\ \A n \in SettingsFields \ {"url"} : r[n] = s[n]
    BY ResolvedIs
  <1> HIDE DEF r
  <1>2. r.enabled = s.enabled /\ r.blocked = s.blocked /\ r.suppress = s.suppress /\ r.goals = s.goals
    BY <1>1 DEF SettingsFields
  <1>3. SettingsUrl(r) = SettingsUrl(s)
    BY <1>1 DEF SettingsUrl
  <1>4. SettingsAgree(r, s)
    BY <1>2, <1>3 DEF SettingsAgree
  <1> QED
    BY <1>4 DEF r

\* What agrees is read alike,
LEMMA AgreeResolved ==
  ASSUME NEW a, NEW b, DOMAIN a = SettingsFields, DOMAIN b = SettingsFields, SettingsAgree(a, b)
  PROVE  Settings!Resolved(a) = Settings!Resolved(b)
  <1> DEFINE c == [a EXCEPT !.url = SettingsUrl(a)]
             d == [b EXCEPT !.url = SettingsUrl(b)]
  <1>1. Settings!Resolved(a) = c /\ Settings!Resolved(b) = d
    BY DEF Settings!Resolved, SettingsUrl
  <1>2. c = d
    BY DEF SettingsAgree, SettingsFields
  <1> QED
    BY <1>1, <1>2

\* and gives a tab the same mode.
LEMMA ModesAgree ==
  ASSUME NEW a, NEW b, NEW t, SettingsAgree(a, b)
  PROVE  Settings!Mode(a, t) = Settings!Mode(b, t)
  BY DEF SettingsAgree, Settings!Mode

\* Queues.
LEMMA SettingsJoins ==
  ASSUME NEW e, IsQueue(e), NEW x
  PROVE  LET a == Append(e, x) IN IsQueue(a) /\ a # <<>> /\ a[Len(a)] = x
  <1>1. e \in Seq(SettingsElements(e) \cup {x}) /\ x \in SettingsElements(e) \cup {x} /\ Len(e) \in Nat
    BY DEF IsQueue
  <1> DEFINE a == Append(e, x)
  <1>2. a \in Seq(SettingsElements(e) \cup {x}) /\ Len(a) = Len(e) + 1 /\ a[Len(a)] = x
    BY <1>1, AppendProperties
  <1>3. a \in Seq(SettingsElements(a))
    <2> HIDE DEF a
    <2>1. \A i \in 1..Len(a) : a[i] \in SettingsElements(a)
      BY <1>2 DEF SettingsElements
    <2> QED
      BY <1>2, <2>1
  <1> QED
    BY <1>1, <1>2, <1>3 DEF IsQueue

\* The first of a queue leaves, and the others stay in order.
LEMMA SettingsLeaves ==
  ASSUME NEW e, IsQueue(e), e # <<>>
  PROVE  /\ IsQueue(Tail(e)) /\ Head(e) = e[1] /\ Len(e) \in Nat \ {0}
         /\ Tail(e) = <<>> => Len(e) = 1
         /\ Tail(e) # <<>> => Tail(e)[Len(Tail(e))] = e[Len(e)]
  <1>1. e \in Seq(SettingsElements(e)) /\ Len(e) \in Nat \ {0}
    BY DEF IsQueue
  <1> DEFINE a == Tail(e)
  <1>2. a \in Seq(SettingsElements(e)) /\ Len(a) = Len(e) - 1 /\ \A i \in 1..Len(a) : a[i] = e[i + 1]
    BY <1>1, HeadTailProperties
  <1>3. a \in Seq(SettingsElements(a))
    <2> HIDE DEF a
    <2>1. \A i \in 1..Len(a) : a[i] \in SettingsElements(a)
      BY <1>2 DEF SettingsElements
    <2> QED
      BY <1>2, <2>1
  <1>4. Head(e) = e[1]
    BY <1>1
  <1>5. a = <<>> => Len(e) = 1
    <2> HIDE DEF a
    <2>1. a = <<>> => Len(a) = 0
      OBVIOUS
    <2> QED
      BY <1>1, <1>2, <2>1
  <1>6. a # <<>> => a[Len(a)] = e[Len(e)]
    BY <1>1, <1>2
  <1> QED
    BY <1>1, <1>3, <1>4, <1>5, <1>6 DEF IsQueue

\* At first every tab is to start, and nothing was changed.
LEMMA SettingsInit == Settings!Init => SettingsInv(settings)
  <1> SUFFICES ASSUME Settings!Init PROVE SettingsInv(settings)
    OBVIOUS
  <1>1. /\ DOMAIN settings = SettingsNames /\ settings.stored = Settings!Defaults
        /\ settings.wanted = Settings!Defaults /\ settings.version = 0
        /\ settings.tabs = [t \in Tabs |-> [is |-> "opening"]]
        /\ settings.goals = [t \in Tabs |-> Settings!Nothing]
        /\ settings.events = [w \in Tabs \cup {"popup"} |-> <<>>]
        /\ settings.writes = {} /\ settings.missed = {}
    BY DEF Settings!Init, Settings!Watchers, SettingsNames
  <1>2. DOMAIN Settings!Defaults = SettingsFields
    BY DEF Settings!Defaults, SettingsFields
  <1>3. IsQueue(<<>>)
    BY DEF IsQueue, SettingsElements
  <1>4. SettingsType(settings)
    BY <1>1, <1>2, <1>3 DEF SettingsType
  <1>5. \A t \in Tabs : TabOK(settings, t)
    BY <1>1 DEF TabOK
  <1> QED
    BY <1>1, <1>4, <1>5 DEF SettingsInv, SettingsAgree

\* A tab that is made to follow settings follows them.
LEMMA Reconciles ==
  ASSUME NEW tab, NEW t, NEW s, DOMAIN tab = TabNames, tab.current = s,
         tab.runtime # Settings!Nothing =>
           /\ DOMAIN tab.runtime = {"is", "url", "suppress", "goals"} /\ tab.runtime.is = "mounted"
           /\ tab.runtime.url = s.url /\ tab.runtime.suppress = s.suppress /\ tab.runtime.goals = s.goals
  PROVE  LET r == Settings!Reconciled(tab, t, s) IN
         /\ IsMounted(r, t) /\ r.is = tab.is /\ r.current = s
         /\ r.runtime # Settings!Nothing => r.runtime.goals = s.goals
  <1> DEFINE r == Settings!Reconciled(tab, t, s)
             m == Settings!Mounted(s)
  <1>1. /\ DOMAIN m = {"is", "url", "suppress", "goals"} /\ m.is = "mounted" /\ m.url = s.url
        /\ m.suppress = s.suppress /\ m.goals = s.goals
    BY DEF Settings!Mounted
  <1>2. m # Settings!Nothing
    <2>1. Settings!Nothing.is = "none"
      BY DEF Settings!Nothing
    <2> HIDE DEF m
    <2> QED
      BY <1>1, <2>1
  <1>3. CASE Settings!Mode(s, t) = "off"
    <2>1. r = [tab EXCEPT !.runtime = Settings!Nothing, !.paused = FALSE]
      BY <1>3 DEF Settings!Reconciled
    <2> HIDE DEF r
    <2>2. DOMAIN r = TabNames /\ r.runtime = Settings!Nothing /\ ~r.paused /\ r.current = s /\ r.is = tab.is
      BY <2>1 DEF TabNames
    <2> QED
      BY <1>3, <2>2 DEF IsMounted, r
  <1>4. CASE Settings!Mode(s, t) = "site-paused"
    <2>1. r = [tab EXCEPT !.runtime = Settings!Nothing, !.paused = TRUE]
      BY <1>4 DEF Settings!Reconciled
    <2> HIDE DEF r
    <2>2. DOMAIN r = TabNames /\ r.runtime = Settings!Nothing /\ r.paused /\ r.current = s /\ r.is = tab.is
      BY <2>1 DEF TabNames
    <2> QED
      BY <1>4, <2>2 DEF IsMounted, r
  <1>5. CASE Settings!Mode(s, t) = "active"
    <2>1. r = [tab EXCEPT !.paused = FALSE, !.runtime = IF @ = Settings!Nothing THEN m ELSE @]
      BY <1>5 DEF Settings!Reconciled
    <2> HIDE DEF r, m
    <2>2. /\ DOMAIN r = TabNames /\ ~r.paused /\ r.current = s /\ r.is = tab.is
          /\ r.runtime = IF tab.runtime = Settings!Nothing THEN m ELSE tab.runtime
      BY <2>1 DEF TabNames
    <2> QED
      BY <1>1, <1>2, <1>5, <2>2 DEF IsMounted, r
  <1> QED
    BY <1>3, <1>4, <1>5 DEF Settings!Mode

\* A tab that hears of settings is as these settings want it.
LEMMA SettingsWatches ==
  ASSUME NEW tab, NEW t, IsMounted(tab, t), NEW next
  PROVE  LET r == Settings!Watched(tab, t, next) IN
         /\ IsMounted(r, t) /\ r.is = tab.is /\ r.current = next
         /\ r.runtime # Settings!Nothing => r.runtime.goals = next.goals
  <1> DEFINE Nothing == Settings!Nothing
             bound == IF tab.runtime # Nothing /\ tab.current.url # next.url
                      THEN [tab EXCEPT !.runtime.url = next.url] ELSE tab
             torn == IF tab.current.suppress # next.suppress THEN [bound EXCEPT !.runtime = Nothing]
                     ELSE bound
             x == [torn EXCEPT !.current = next,
                     !.runtime = IF @ = Nothing THEN Nothing ELSE [@ EXCEPT !.goals = next.goals]]
  <1>1. Settings!Watched(tab, t, next) = Settings!Reconciled(x, t, next)
    BY DEF Settings!Watched
  <1>2. Nothing = [is |-> "none"]
    BY DEF Settings!Nothing
  <1> HIDE DEF Nothing
  <1>3. /\ DOMAIN bound = TabNames /\ bound.is = tab.is
        /\ bound.runtime = Nothing <=> tab.runtime = Nothing
        /\ bound.runtime # Nothing =>
             /\ DOMAIN bound.runtime = {"is", "url", "suppress", "goals"} /\ bound.runtime.is = "mounted"
             /\ bound.runtime.url = next.url /\ bound.runtime.suppress = tab.current.suppress
    <2>1. CASE tab.runtime # Nothing /\ tab.current.url # next.url
      <3>1. /\ DOMAIN bound = TabNames /\ bound.is = tab.is
            /\ bound.runtime = [tab.runtime EXCEPT !.url = next.url]
        BY <2>1 DEF IsMounted, TabNames
      <3> HIDE DEF bound
      <3>2. /\ DOMAIN tab.runtime = {"is", "url", "suppress", "goals"} /\ tab.runtime.is = "mounted"
            /\ tab.runtime.suppress = tab.current.suppress
        BY <2>1 DEF IsMounted, Nothing
      <3>3. /\ DOMAIN bound.runtime = {"is", "url", "suppress", "goals"} /\ bound.runtime.is = "mounted"
            /\ bound.runtime.url = next.url /\ bound.runtime.suppress = tab.current.suppress
        BY <3>1, <3>2
      <3> QED
        BY <1>2, <2>1, <3>1, <3>3
    <2>2. CASE ~(tab.runtime # Nothing /\ tab.current.url # next.url)
      BY <2>2 DEF IsMounted, Nothing
    <2> QED
      BY <2>1, <2>2
  <1> HIDE DEF bound
  <1>4. /\ DOMAIN torn = TabNames /\ torn.is = tab.is
        /\ torn.runtime # Nothing =>
             /\ DOMAIN torn.runtime = {"is", "url", "suppress", "goals"} /\ torn.runtime.is = "mounted"
             /\ torn.runtime.url = next.url /\ torn.runtime.suppress = next.suppress
    BY <1>3 DEF TabNames
  <1> HIDE DEF torn
  <1>5. /\ DOMAIN x = TabNames /\ x.is = tab.is /\ x.current = next
        /\ x.runtime = IF torn.runtime = Nothing THEN Nothing ELSE [torn.runtime EXCEPT !.goals = next.goals]
    BY <1>4 DEF TabNames
  <1> HIDE DEF x
  <1>6. x.runtime # Nothing =>
          /\ DOMAIN x.runtime = {"is", "url", "suppress", "goals"} /\ x.runtime.is = "mounted"
          /\ x.runtime.url = next.url /\ x.runtime.suppress = next.suppress /\ x.runtime.goals = next.goals
    BY <1>4, <1>5
  <1> QED
    BY <1>1, <1>5, <1>6, Reconciles DEF Nothing

\* A step that leaves alone what is stored and what the tabs have.
LEMMA SettingsFramed ==
  ASSUME NEW s, NEW u, SettingsInv(s), DOMAIN u = SettingsNames,
         u.stored = s.stored, u.wanted = s.wanted, u.version = s.version, u.lost <=> s.lost,
         u.tabs = s.tabs, u.goals = s.goals, u.missed = s.missed,
         DOMAIN u.events = Tabs \cup {"popup"}, IsQueue(u.events["popup"]),
         \A t \in Tabs : u.events[t] = s.events[t],
         \A w \in u.writes : WriteOK(s, w),
         \A w \in s.writes : w.is \in {"begun", "read"} /\ w.patch # Settings!Nothing =>
           \E x \in u.writes : x.is \in {"begun", "read"} /\ x.by = w.by /\ x.patch = w.patch
  PROVE  SettingsInv(u)
  <1>1. SettingsType(u)
    BY DEF SettingsInv, SettingsType
  <1>2. \A w \in u.writes : WriteOK(u, w)
    BY DEF WriteOK
  <1>3. ASSUME NEW t \in Tabs PROVE TabOK(u, t)
    <2>1. TabOK(s, t)
      BY DEF SettingsInv
    <2>2. \A w \in s.writes : PickedBy(w, t) => \E x \in u.writes : PickedBy(x, t) /\ x.patch = w.patch
      BY DEF PickedBy
    <2>3. /\ u.tabs[t] = s.tabs[t] /\ u.goals[t] = s.goals[t] /\ u.events[t] = s.events[t]
          /\ SettingsLatest(u, t) = SettingsLatest(s, t)
      BY DEF SettingsLatest
    <2> QED
      BY <2>1, <2>2, <2>3 DEF TabOK
  <1> QED
    BY <1>1, <1>2, <1>3 DEF SettingsInv

\* A change begins.
LEMMA SettingsBegins ==
  ASSUME NEW s, SettingsInv(s), NEW by, NEW seen, NEW patch, NEW sets,
         patch = Settings!Nothing => by \in Tabs,
         patch # Settings!Nothing =>
           PatchOK([id |-> s.begun, by |-> by, is |-> "begun", seen |-> seen, patch |-> patch, sets |-> sets])
  PROVE  LET u == Settings!Begin(s, by, seen, patch, sets) IN
         /\ SettingsInv(u)
         /\ \A n \in SettingsNames \ {"begun", "writes"} : u[n] = s[n]
         /\ \E w \in u.writes : w.by = by /\ w.is = "begun" /\ w.patch = patch
         /\ \A w \in s.writes : w \in u.writes
         /\ DOMAIN u = SettingsNames
  <1> DEFINE u == Settings!Begin(s, by, seen, patch, sets)
             new == [id |-> s.begun, by |-> by, is |-> "begun", seen |-> seen, patch |-> patch, sets |-> sets]
  <1>1. /\ DOMAIN u = SettingsNames /\ u.writes = s.writes \cup {new}
        /\ \A n \in SettingsNames \ {"begun", "writes"} : u[n] = s[n]
    BY DEF Settings!Begin, SettingsInv, SettingsType, SettingsNames
  <1>2. new.by = by /\ new.is = "begun" /\ new.patch = patch /\ DOMAIN new = WriteNames
    BY DEF WriteNames
  <1>3. patch # Settings!Nothing => PatchOK(new)
    OBVIOUS
  <1> HIDE DEF u, new
  <1>4. /\ u.stored = s.stored /\ u.wanted = s.wanted /\ u.version = s.version /\ u.lost = s.lost
        /\ u.tabs = s.tabs /\ u.goals = s.goals /\ u.missed = s.missed /\ u.events = s.events
    BY <1>1 DEF SettingsNames
  <1>5. \A w \in u.writes : WriteOK(s, w)
    <2>1. WriteOK(s, new)
      BY <1>2, <1>3 DEF WriteOK
    <2> QED
      BY <1>1, <2>1 DEF SettingsInv
  <1>6. DOMAIN u.events = Tabs \cup {"popup"} /\ IsQueue(u.events["popup"])
    BY <1>4 DEF SettingsInv, SettingsType
  <1>7. SettingsInv(u)
    BY <1>1, <1>4, <1>5, <1>6, SettingsFramed
  <1>8. \E w \in u.writes : w.by = by /\ w.is = "begun" /\ w.patch = patch
    BY <1>1, <1>2
  <1>9. \A w \in s.writes : w \in u.writes
    BY <1>1
  <1> QED
    BY <1>1, <1>7, <1>8, <1>9 DEF u

\* The popup and the form open, hear and read.
LEMMA SettingsLooks ==
  ASSUME SettingsInv(settings), "popup" \notin Tabs,
         \/ Settings!PopupOpens \/ Settings!FormOpens \/ Settings!PopupHears
         \/ \E w \in settings.writes : Settings!FormReads(w)
  PROVE  SettingsInv(settings')
  <1> DEFINE s == settings
             u == settings'
             Kept == SettingsNames \ {"popup", "form", "events", "writes"}
  <1>1. DOMAIN s = SettingsNames /\ DOMAIN s.events = Tabs \cup {"popup"} /\ IsQueue(s.events["popup"])
    BY DEF SettingsInv, SettingsType
  <1>2. /\ DOMAIN u = SettingsNames /\ \A n \in Kept : u[n] = s[n]
        /\ DOMAIN u.events = Tabs \cup {"popup"} /\ \A t \in Tabs : u.events[t] = s.events[t]
        /\ IsQueue(u.events["popup"]) /\ u.writes \subseteq s.writes
        /\ \A w \in s.writes : w \notin u.writes => w.is = "written"
    <2>1. CASE Settings!PopupOpens
      BY <1>1, <2>1 DEF Settings!PopupOpens, SettingsNames
    <2>2. CASE Settings!FormOpens
      BY <1>1, <2>2 DEF Settings!FormOpens, SettingsNames
    <2>3. CASE Settings!PopupHears
      <3> DEFINE e == s.events["popup"]
      <3>1. e # <<>> /\ IsQueue(Tail(e))
        BY <1>1, <2>3, SettingsLeaves DEF Settings!PopupHears
      <3>2. PICK rest : rest = Tail(e) /\ IsQueue(rest)
        BY <3>1
      <3>3. /\ DOMAIN u = SettingsNames /\ \A n \in Kept : u[n] = s[n]
            /\ DOMAIN u.events = Tabs \cup {"popup"} /\ \A t \in Tabs : u.events[t] = s.events[t]
            /\ u.events["popup"] = rest /\ u.writes = s.writes
        BY <1>1, <2>3, <3>2 DEF Settings!PopupHears, SettingsNames
      <3> HIDE DEF e
      <3> QED
        BY <3>2, <3>3
    <2>4. CASE \E w \in settings.writes : Settings!FormReads(w)
      <3>1. PICK w, r, form : /\ w \in s.writes /\ w.is = "written" /\ r = [s EXCEPT !.writes = @ \ {w}]
                              /\ u = [r EXCEPT !.form = form]
        BY <2>4, Zenon DEF Settings!FormReads
      <3>2. /\ DOMAIN r = SettingsNames /\ r.writes = s.writes \ {w}
            /\ \A n \in SettingsNames \ {"writes"} : r[n] = s[n]
        BY <1>1, <3>1 DEF SettingsNames
      <3>3. /\ DOMAIN u = SettingsNames /\ u.writes = s.writes \ {w} /\ u.events = s.events
            /\ \A n \in Kept : u[n] = s[n]
        BY <3>1, <3>2 DEF SettingsNames
      <3> QED
        BY <1>1, <3>1, <3>3
    <2> QED
      BY <2>1, <2>2, <2>3, <2>4
  <1> HIDE DEF u
  <1>3. /\ u.stored = s.stored /\ u.wanted = s.wanted /\ u.version = s.version /\ u.lost = s.lost
        /\ u.tabs = s.tabs /\ u.goals = s.goals /\ u.missed = s.missed
    BY <1>2 DEF SettingsNames
  <1>4. \A w \in u.writes : WriteOK(s, w)
    BY <1>2 DEF SettingsInv
  <1>5. \A w \in s.writes : w.is \in {"begun", "read"} /\ w.patch # Settings!Nothing =>
           \E x \in u.writes : x.is \in {"begun", "read"} /\ x.by = w.by /\ x.patch = w.patch
    BY <1>2
  <1>6. SettingsInv(u)
    BY <1>2, <1>3, <1>4, <1>5, SettingsFramed
  <1> QED
    BY <1>6 DEF u

\* To pause a site is a sound change of the list of sites,
LEMMA BlockIs ==
  ASSUME NEW id, NEW by, NEW seen, NEW t \in Tabs, NEW is
  PROVE  /\ PatchOK([id |-> id, by |-> by, is |-> is, seen |-> seen,
                     patch |-> Settings!Block(seen, t), sets |-> Settings!Blocks(seen, t)])
         /\ Settings!Block(seen, t) # Settings!Nothing
  <1> DEFINE w == [id |-> id, by |-> by, is |-> is, seen |-> seen,
                   patch |-> Settings!Block(seen, t), sets |-> Settings!Blocks(seen, t)]
  <1>1. w.seen = seen /\ w.patch = Settings!Block(seen, t) /\ w.sets = Settings!Blocks(seen, t)
    OBVIOUS
  <1>2. Settings!Blocks(seen, t).field = "blocked"
    BY DEF Settings!Blocks
  <1> HIDE DEF w
  <1>3. PatchOK(w)
    BY <1>1, <1>2 DEF PatchOK
  <1>4. DOMAIN Settings!Block(seen, t) = {"field", "value"} /\ DOMAIN Settings!Nothing = {"is"}
    BY DEF Settings!Block, Settings!Nothing
  <1>5. Settings!Block(seen, t) # Settings!Nothing
    BY <1>4
  <1> QED
    BY <1>3, <1>5 DEF w

\* and so is to set one of the other settings.
LEMMA SetsIs ==
  ASSUME NEW id, NEW by, NEW seen, NEW field \in {"enabled", "suppress", "url"}, NEW value, NEW is
  PROVE  LET p == Settings!Sets(field, value) IN
         /\ PatchOK([id |-> id, by |-> by, is |-> is, seen |-> seen, patch |-> p, sets |-> p])
         /\ p # Settings!Nothing
  <1> DEFINE p == Settings!Sets(field, value)
             w == [id |-> id, by |-> by, is |-> is, seen |-> seen, patch |-> p, sets |-> p]
  <1>1. p.field = field /\ p # Settings!Nothing
    <2>1. p.field = field /\ DOMAIN p = {"field", "value"} /\ DOMAIN Settings!Nothing = {"is"}
      BY DEF Settings!Sets, Settings!Nothing
    <2> HIDE DEF p
    <2> QED
      BY <2>1
  <1> HIDE DEF p
  <1>2. w.patch = p /\ w.sets = p
    OBVIOUS
  <1> HIDE DEF w
  <1>3. PatchOK(w)
    BY <1>1, <1>2 DEF PatchOK
  <1> QED
    BY <1>1, <1>3 DEF w, p

\* The popup, the form and the pill begin changes.
LEMMA SettingsStarts ==
  ASSUME SettingsInv(settings),
         \/ Settings!PopupToggles \/ Settings!FormPatches \/ \E t \in Tabs : Settings!PillToggles(t)
  PROVE  SettingsInv(settings')
  <1>1. CASE Settings!PopupToggles
    <2> DEFINE seen == settings.popup
    <2>1. CASE settings' = Settings!Begin(settings, "popup", seen, Settings!Sets("enabled", ~seen.enabled),
                                          Settings!Sets("enabled", ~seen.enabled))
      <3>1. PICK v : (v <=> ~seen.enabled) /\
                 Settings!Sets("enabled", ~seen.enabled) = Settings!Sets("enabled", v)
        OBVIOUS
      <3> QED
        BY <2>1, <3>1, SettingsBegins, SetsIs
    <2>2. CASE \E t \in Tabs : settings' = Settings!Begin(settings, "popup", seen, Settings!Block(seen, t),
                                                         Settings!Blocks(seen, t))
      <3>1. PICK t \in Tabs : settings' = Settings!Begin(settings, "popup", seen, Settings!Block(seen, t),
                                                         Settings!Blocks(seen, t))
        BY <2>2
      <3> DEFINE patch == Settings!Block(seen, t)
                 sets == Settings!Blocks(seen, t)
      <3>2. /\ PatchOK([id |-> settings.begun, by |-> "popup", is |-> "begun", seen |-> seen,
                        patch |-> patch, sets |-> sets])
            /\ patch # Settings!Nothing
        BY BlockIs
      <3> HIDE DEF patch, sets
      <3>3. SettingsInv(Settings!Begin(settings, "popup", seen, patch, sets))
        BY <3>2, SettingsBegins
      <3> QED
        BY <3>1, <3>3 DEF patch, sets
    <2> QED
      BY <1>1, <2>1, <2>2 DEF Settings!PopupToggles
  <1>2. CASE Settings!FormPatches
    <2> DEFINE seen == settings.form
    <2>1. CASE \E to \in {Settings!Sets("suppress", ~seen.suppress), Settings!Sets("url", "garbage"),
                          Settings!Sets("url", "other")} :
                 settings' = Settings!Begin(settings, "form", seen, to, to)
      <3>1. PICK field \in {"suppress", "url"} : \E v :
              settings' = Settings!Begin(settings, "form", seen, Settings!Sets(field, v),
                                         Settings!Sets(field, v))
        BY <2>1, Zenon
      <3>0. PICK v : settings' = Settings!Begin(settings, "form", seen, Settings!Sets(field, v),
                                                Settings!Sets(field, v))
        BY <3>1, Zenon
      <3> DEFINE to == Settings!Sets(field, v)
      <3>2. /\ PatchOK([id |-> settings.begun, by |-> "form", is |-> "begun", seen |-> seen,
                        patch |-> to, sets |-> to])
            /\ to # Settings!Nothing
        BY SetsIs
      <3> HIDE DEF to
      <3>3. SettingsInv(Settings!Begin(settings, "form", seen, to, to))
        BY <3>2, SettingsBegins
      <3> QED
        BY <3>0, <3>3 DEF to
    <2>2. CASE \E t \in Tabs : settings' = Settings!Begin(settings, "form", seen, Settings!Block(seen, t),
                                                         Settings!Blocks(seen, t))
      <3>1. PICK t \in Tabs : settings' = Settings!Begin(settings, "form", seen, Settings!Block(seen, t),
                                                         Settings!Blocks(seen, t))
        BY <2>2
      <3> DEFINE patch == Settings!Block(seen, t)
                 sets == Settings!Blocks(seen, t)
      <3>2. /\ PatchOK([id |-> settings.begun, by |-> "form", is |-> "begun", seen |-> seen,
                        patch |-> patch, sets |-> sets])
            /\ patch # Settings!Nothing
        BY BlockIs
      <3> HIDE DEF patch, sets
      <3>3. SettingsInv(Settings!Begin(settings, "form", seen, patch, sets))
        BY <3>2, SettingsBegins
      <3> QED
        BY <3>1, <3>3 DEF patch, sets
    <2> QED
      BY <1>2, <2>1, <2>2 DEF Settings!FormPatches
  <1>3. CASE \E t \in Tabs : Settings!PillToggles(t)
    <2>1. PICK t \in Tabs : settings' = Settings!Begin(settings, t, Settings!Nothing, Settings!Nothing,
                                                     Settings!Nothing)
      BY <1>3 DEF Settings!PillToggles
    <2> DEFINE nothing == Settings!Nothing
    <2>2. nothing = Settings!Nothing
      OBVIOUS
    <2> HIDE DEF nothing
    <2>3. SettingsInv(Settings!Begin(settings, t, nothing, nothing, nothing))
      BY <2>2, SettingsBegins
    <2> QED
      BY <2>1, <2>3 DEF nothing
  <1> QED
    BY <1>1, <1>2, <1>3

\* The pill reads what it toggles; a write reads what it merges with.
LEMMA SettingsTurns ==
  ASSUME SettingsInv(settings), NEW w \in settings.writes,
         Settings!PillLooks(w) \/ Settings!Reads(w)
  PROVE  SettingsInv(settings')
  <1> DEFINE s == settings
             u == settings'
  <1>1. DOMAIN s = SettingsNames /\ WriteOK(s, w) /\ w.is = "begun"
    BY DEF SettingsInv, SettingsType, Settings!PillLooks, Settings!Reads
  <1>2. PICK v : /\ u = [s EXCEPT !.writes = (@ \ {w}) \cup {v}]
                 /\ WriteOK(s, v)
                 /\ w.patch # Settings!Nothing => v.is = "read" /\ v.by = w.by /\ v.patch = w.patch
    <2>1. CASE Settings!PillLooks(w)
      <3> DEFINE seen == Settings!GetSettings(s)
                 patch == Settings!Block(seen, w.by)
                 sets == Settings!Blocks(seen, w.by)
                 v == [w EXCEPT !.seen = seen, !.patch = patch, !.sets = sets]
                 built == [id |-> w.id, by |-> w.by, is |-> "begun", seen |-> seen, patch |-> patch,
                           sets |-> sets]
      <3>1. u = [s EXCEPT !.writes = (@ \ {w}) \cup {v}] /\ w.patch = Settings!Nothing
        BY <2>1 DEF Settings!PillLooks
      <3>2. w.by \in Tabs /\ DOMAIN w = WriteNames
        BY <1>1, <3>1 DEF WriteOK
      <3>3. PatchOK(built)
        BY <3>2, BlockIs
      <3> HIDE DEF seen, patch, sets
      <3>4. /\ DOMAIN v = WriteNames /\ v.is = "begun" /\ v.by = w.by /\ v.seen = seen
            /\ v.patch = patch /\ v.sets = sets
        BY <1>1, <3>2 DEF WriteNames
      <3>5. built.seen = seen /\ built.patch = patch /\ built.sets = sets
        OBVIOUS
      <3> HIDE DEF v, built
      <3>6. PatchOK(v)
        BY <3>3, <3>4, <3>5 DEF PatchOK
      <3>7. WriteOK(s, v)
        BY <3>2, <3>4, <3>6 DEF WriteOK
      <3> QED
        BY <3>1, <3>7
    <2>2. CASE Settings!Reads(w)
      <3> DEFINE base == Settings!Base(s, w)
                 v == [is |-> "read", id |-> w.id, by |-> w.by, seen |-> w.seen,
                       patch |-> w.patch, sets |-> w.sets, base |-> base, at |-> s.version]
      <3>1. u = [s EXCEPT !.writes = (@ \ {w}) \cup {v}] /\ w.patch # Settings!Nothing
        BY <2>2 DEF Settings!Reads
      <3>2. DOMAIN base = SettingsFields /\ SettingsAgree(base, s.stored) /\ s.version \in Nat
        BY ResolvedIs, ResolvedAgrees DEF SettingsInv, SettingsType, Settings!Base, Settings!GetSettings
      <3> HIDE DEF base
      <3>3. /\ v.is = "read" /\ v.by = w.by /\ v.seen = w.seen /\ v.patch = w.patch /\ v.sets = w.sets
            /\ v.base = base /\ v.at = s.version
        OBVIOUS
      <3> HIDE DEF v
      <3>4. PatchOK(v)
        BY <1>1, <3>1, <3>3 DEF WriteOK, PatchOK
      <3>5. WriteOK(s, v)
        BY <3>1, <3>2, <3>3, <3>4 DEF WriteOK
      <3> QED
        BY <3>1, <3>3, <3>5
    <2> QED
      BY <2>1, <2>2
  <1>3. /\ DOMAIN u = SettingsNames /\ u.writes = (s.writes \ {w}) \cup {v}
        /\ \A n \in SettingsNames \ {"writes"} : u[n] = s[n]
    BY <1>1, <1>2 DEF SettingsNames
  <1> HIDE DEF u
  <1>4. /\ u.stored = s.stored /\ u.wanted = s.wanted /\ u.version = s.version /\ u.lost = s.lost
        /\ u.tabs = s.tabs /\ u.goals = s.goals /\ u.missed = s.missed /\ u.events = s.events
    BY <1>3 DEF SettingsNames
  <1>5. \A x \in u.writes : WriteOK(s, x)
    BY <1>2, <1>3 DEF SettingsInv
  <1>6. \A x \in s.writes : x.is \in {"begun", "read"} /\ x.patch # Settings!Nothing =>
           \E y \in u.writes : y.is \in {"begun", "read"} /\ y.by = x.by /\ y.patch = x.patch
    BY <1>2, <1>3
  <1>7. DOMAIN u.events = Tabs \cup {"popup"} /\ IsQueue(u.events["popup"])
    BY <1>4 DEF SettingsInv, SettingsType
  <1>8. SettingsInv(u)
    BY <1>3, <1>4, <1>5, <1>6, <1>7, SettingsFramed
  <1> QED
    BY <1>8 DEF u

\* A step of one tab.
LEMMA SettingsOneTab ==
  ASSUME NEW s, NEW u, NEW t \in Tabs, SettingsInv(s), DOMAIN u = SettingsNames,
         u.stored = s.stored, u.wanted = s.wanted, u.version = s.version, u.lost <=> s.lost,
         u.writes = s.writes, u.missed = s.missed,
         DOMAIN u.tabs = Tabs, DOMAIN u.goals = Tabs, DOMAIN u.events = Tabs \cup {"popup"},
         IsQueue(u.events[t]), \A x \in (Tabs \cup {"popup"}) \ {t} : u.events[x] = s.events[x],
         \A x \in Tabs \ {t} : u.tabs[x] = s.tabs[x] /\ u.goals[x] = s.goals[x],
         TabOK(u, t)
  PROVE  SettingsInv(u)
  <1>1. SettingsType(u)
    BY DEF SettingsInv, SettingsType
  <1>2. \A w \in u.writes : WriteOK(u, w)
    BY DEF SettingsInv, WriteOK
  <1>3. ASSUME NEW x \in Tabs PROVE TabOK(u, x)
    <2>1. CASE x # t
      <3>1. /\ TabOK(s, x) /\ u.tabs[x] = s.tabs[x] /\ u.goals[x] = s.goals[x] /\ u.events[x] = s.events[x]
            /\ SettingsLatest(u, x) = SettingsLatest(s, x)
        BY <2>1 DEF SettingsInv, SettingsLatest
      <3> QED
        BY <3>1 DEF TabOK
    <2> QED
      BY <2>1
  <1> QED
    BY <1>1, <1>2, <1>3 DEF SettingsInv

\* A tab starts, hears or opens its goals.
LEMMA TabSteps ==
  ASSUME SettingsInv(settings), "popup" \notin Tabs, NEW t \in Tabs,
         \/ Settings!StartReads(t) \/ Settings!StartWatches(t)
         \/ Settings!TabHears(t) \/ Settings!GoalsOpen(t)
  PROVE  SettingsInv(settings')
  <1> DEFINE s == settings
             u == settings'
             e == s.events[t]
             Kept == SettingsNames \ {"tabs", "goals", "events"}
  <1>1. /\ DOMAIN s = SettingsNames /\ DOMAIN s.stored = SettingsFields
        /\ DOMAIN s.tabs = Tabs /\ DOMAIN s.goals = Tabs /\ DOMAIN s.events = Tabs \cup {"popup"}
        /\ IsQueue(e) /\ TabOK(s, t)
    BY DEF SettingsInv, SettingsType
  <1>2. /\ DOMAIN u = SettingsNames /\ DOMAIN u.tabs = Tabs /\ DOMAIN u.goals = Tabs
        /\ DOMAIN u.events = Tabs \cup {"popup"}
        /\ \A n \in Kept : u[n] = s[n]
        /\ \A x \in (Tabs \cup {"popup"}) \ {t} : u.events[x] = s.events[x]
        /\ \A x \in Tabs \ {t} : u.tabs[x] = s.tabs[x] /\ u.goals[x] = s.goals[x]
    <2>1. CASE Settings!StartReads(t)
      BY <1>1, <2>1 DEF Settings!StartReads, SettingsNames
    <2>2. CASE Settings!StartWatches(t)
      BY <1>1, <2>2 DEF Settings!StartWatches, SettingsNames
    <2>3. CASE Settings!TabHears(t)
      BY <1>1, <2>3 DEF Settings!TabHears, SettingsNames
    <2>4. CASE Settings!GoalsOpen(t)
      BY <1>1, <2>4 DEF Settings!GoalsOpen, SettingsNames
    <2> QED
      BY <2>1, <2>2, <2>3, <2>4
  <1>3. /\ u.stored = s.stored /\ u.wanted = s.wanted /\ u.version = s.version /\ u.lost = s.lost
        /\ u.writes = s.writes /\ u.missed = s.missed
    BY <1>2 DEF SettingsNames
  <1>4. IsQueue(u.events[t]) /\ TabOK(u, t)
    <2>1. CASE Settings!StartReads(t)
      <3> DEFINE seen == Settings!GetSettings(s)
                 tab == [is |-> "starting", current |-> seen]
      <3>1. u.tabs[t] = tab /\ u.goals[t] = s.goals[t] /\ u.events[t] = e /\ s.tabs[t].is = "opening"
        BY <1>1, <2>1 DEF Settings!StartReads, SettingsNames
      <3>2. SettingsAgree(seen, s.stored)
        BY <1>1, ResolvedAgrees DEF Settings!GetSettings
      <3> HIDE DEF u, seen
      <3>3. tab.is = "starting" /\ tab.current = seen
        OBVIOUS
      <3> HIDE DEF tab
      <3> QED
        BY <1>1, <1>3, <3>1, <3>2, <3>3 DEF TabOK
    <2>2. CASE Settings!StartWatches(t)
      <3> DEFINE seen == s.tabs[t].current
                 bare == [is |-> "on", current |-> seen, runtime |-> Settings!Nothing, paused |-> FALSE]
                 tab == Settings!Reconciled(bare, t, seen)
      <3>1. u.tabs[t] = tab /\ u.goals[t] = s.goals[t] /\ u.events[t] = e /\ s.tabs[t].is = "starting"
        BY <1>1, <2>2 DEF Settings!StartWatches, SettingsNames
      <3>2. DOMAIN bare = TabNames /\ bare.is = "on" /\ bare.current = seen /\ bare.runtime = Settings!Nothing
        BY DEF TabNames
      <3> HIDE DEF u, bare, seen
      <3>3. /\ IsMounted(tab, t) /\ tab.is = "on" /\ tab.current = seen
            /\ tab.runtime # Settings!Nothing => tab.runtime.goals = seen.goals
        BY <3>2, Reconciles
      <3> HIDE DEF tab
      <3>4. e = <<>> /\ (t \notin s.missed => SettingsAgree(seen, s.stored))
        BY <1>1, <3>1 DEF TabOK, seen
      <3>5. SettingsLatest(u, t) = seen
        BY <3>1, <3>3, <3>4 DEF SettingsLatest
      <3>6. t \notin s.missed => seen.goals = s.stored.goals
        BY <3>4 DEF SettingsAgree
      <3> QED
        BY <1>1, <1>3, <3>1, <3>3, <3>4, <3>5, <3>6 DEF TabOK
    <2>3. CASE Settings!TabHears(t)
      <3> DEFINE next == Head(e)
                 tab == Settings!Watched(s.tabs[t], t, next)
      <3>1. /\ u.tabs[t] = tab /\ u.goals[t] = Settings!Nothing /\ u.events[t] = Tail(e) /\ e # <<>>
        BY <1>1, <2>3 DEF Settings!TabHears, SettingsNames
      <3>2. s.tabs[t].is = "on" /\ IsMounted(s.tabs[t], t) /\
            (t \notin s.missed => SettingsAgree(e[Len(e)], s.stored))
        BY <1>1, <3>1 DEF TabOK, SettingsLatest
      <3>3. /\ IsQueue(Tail(e)) /\ next = e[1]
            /\ Tail(e) = <<>> => Len(e) = 1
            /\ Tail(e) # <<>> => Tail(e)[Len(Tail(e))] = e[Len(e)]
        BY <1>1, <3>1, SettingsLeaves
      <3> HIDE DEF u, e, next
      <3>4. /\ IsMounted(tab, t) /\ tab.is = "on" /\ tab.current = next
            /\ tab.runtime # Settings!Nothing => tab.runtime.goals = next.goals
        BY <3>2, SettingsWatches
      <3> HIDE DEF tab
      <3>5. t \notin s.missed => SettingsAgree(SettingsLatest(u, t), s.stored)
        <4>1. CASE Tail(e) = <<>>
          BY <3>1, <3>2, <3>3, <3>4, <4>1 DEF SettingsLatest
        <4>2. CASE Tail(e) # <<>>
          BY <3>1, <3>2, <3>3, <4>2 DEF SettingsLatest
        <4> QED
          BY <4>1, <4>2
      <3>6. Tail(e) = <<>> => SettingsLatest(u, t) = next
        BY <3>1, <3>4 DEF SettingsLatest
      <3>7. t \notin s.missed /\ Tail(e) = <<>> => next.goals = s.stored.goals
        BY <3>5, <3>6 DEF SettingsAgree
      <3> QED
        BY <1>3, <3>1, <3>3, <3>4, <3>5, <3>7 DEF TabOK
    <2>4. CASE Settings!GoalsOpen(t)
      <3>1. u.tabs[t] = s.tabs[t] /\ u.events[t] = e /\ s.tabs[t].is = "on"
        BY <1>1, <2>4 DEF Settings!GoalsOpen, SettingsNames
      <3> HIDE DEF u
      <3>2. SettingsLatest(u, t) = SettingsLatest(s, t)
        BY <3>1 DEF SettingsLatest
      <3> QED
        BY <1>1, <1>3, <3>1, <3>2 DEF TabOK
    <2> QED
      BY <2>1, <2>2, <2>3, <2>4
  <1> HIDE DEF u
  <1>5. SettingsInv(u)
    BY <1>2, <1>3, <1>4, SettingsOneTab
  <1> QED
    BY <1>5 DEF u

\* Goals are picked in a tab, which shows them at once.
LEMMA SettingsPicks ==
  ASSUME SettingsInv(settings), "popup" \notin Tabs, NEW t \in Tabs, Settings!PicksGoal(t)
  PROVE  SettingsInv(settings')
  <1> DEFINE s == settings
             seen == [goals |-> s.goals[t]]
  <1> DEFINE Picked(part, value, next) ==
               [Settings!Begin(s, t, seen, Settings!Sets("goals", next),
                               [field |-> "goals", part |-> part, value |-> value])
                  EXCEPT !.tabs[t].runtime.goals = next]
  <1>1. PICK part \in {"audience", "formality"}, value \in {"general", "neutral", "expert", "formal"} :
          /\ value \in (IF part = "audience" THEN {"general", "expert"} ELSE {"neutral", "formal"})
          /\ value # seen.goals[part]
          /\ settings' = Picked(part, value, [seen.goals EXCEPT ![part] = value])
    BY Zenon DEF Settings!PicksGoal
  <1>0. PICK next, sets, b :
          /\ next = [seen.goals EXCEPT ![part] = value]
          /\ sets = [field |-> "goals", part |-> part, value |-> value]
          /\ b = Settings!Begin(s, t, seen, Settings!Sets("goals", next), sets)
          /\ settings' = [b EXCEPT !.tabs[t].runtime.goals = next]
    <2>1. PICK next, sets, b :
          /\ next = [seen.goals EXCEPT ![part] = value]
          /\ sets = [field |-> "goals", part |-> part, value |-> value]
          /\ b = Settings!Begin(s, t, seen, Settings!Sets("goals", next), sets)
      BY ONLY Zenon
    <2>2. settings' = [b EXCEPT !.tabs[t].runtime.goals = next]
      BY ONLY <1>1, <2>1, Zenon
    <2> QED
      BY ONLY <2>1, <2>2, Zenon
  <1> DEFINE patch == Settings!Sets("goals", next)
             u == [b EXCEPT !.tabs[t].runtime.goals = next]
  <1>2. /\ settings' = u /\ b = Settings!Begin(s, t, seen, patch, sets)
        /\ next = [seen.goals EXCEPT ![part] = value]
        /\ sets = [field |-> "goals", part |-> part, value |-> value]
    BY ONLY <1>0, Zenon
  <1>a. s.goals[t] # Settings!Nothing /\ s.tabs[t].runtime # Settings!Nothing
    BY Zenon DEF Settings!PicksGoal
  <1>3. PatchOK([id |-> s.begun, by |-> t, is |-> "begun", seen |-> seen, patch |-> patch, sets |-> sets])
    <2> DEFINE w == [id |-> s.begun, by |-> t, is |-> "begun", seen |-> seen, patch |-> patch, sets |-> sets]
    <2>1. /\ w.sets.field = "goals" /\
             w.patch = Settings!Sets("goals", [w.seen.goals EXCEPT ![w.sets.part] = w.sets.value])
      BY ONLY <1>2
    <2> HIDE DEF w
    <2>2. PatchOK(w)
      BY <2>1 DEF PatchOK
    <2> QED
      BY <2>2 DEF w
  <1>4. patch.field = "goals" /\ patch.value = next /\ patch # Settings!Nothing
    <2>1. patch.field = "goals" /\ patch.value = next /\ DOMAIN patch = {"field", "value"} /\
          DOMAIN Settings!Nothing = {"is"}
      BY DEF Settings!Sets, Settings!Nothing
    <2> HIDE DEF patch
    <2> QED
      BY <2>1
  <1> HIDE DEF patch, seen
  <1>5. /\ SettingsInv(b) /\ DOMAIN b = SettingsNames
        /\ \A n \in SettingsNames \ {"begun", "writes"} : b[n] = s[n]
        /\ \E w \in b.writes : w.by = t /\ w.is = "begun" /\ w.patch = patch
    BY <1>2, <1>3, <1>4, SettingsBegins
  <1>6. b.tabs = s.tabs /\ b.goals = s.goals /\ b.events = s.events /\ b.stored = s.stored
    BY <1>5 DEF SettingsNames
  <1>7. /\ DOMAIN b.tabs = Tabs /\ DOMAIN b.goals = Tabs /\ DOMAIN b.events = Tabs \cup {"popup"}
        /\ IsQueue(b.events[t]) /\ TabOK(b, t)
    BY <1>5 DEF SettingsInv, SettingsType
  <1>8. b.tabs[t].is = "on" /\ IsMounted(b.tabs[t], t)
    BY <1>a, <1>6, <1>7 DEF TabOK
  <1> DEFINE tab == [b.tabs[t] EXCEPT !.runtime.goals = next]
  <1>9. /\ DOMAIN u = SettingsNames /\ u.tabs = [b.tabs EXCEPT ![t] = tab]
        /\ \A n \in SettingsNames \ {"tabs"} : u[n] = b[n]
    BY <1>5 DEF SettingsNames
  <1> HIDE DEF u
  <1>10. /\ u.stored = b.stored /\ u.wanted = b.wanted /\ u.version = b.version /\ u.lost = b.lost
         /\ u.writes = b.writes /\ u.missed = b.missed /\ u.goals = b.goals /\ u.events = b.events
    BY <1>9 DEF SettingsNames
  <1>11. /\ tab.runtime = [b.tabs[t].runtime EXCEPT !.goals = next] /\ DOMAIN tab = TabNames
         /\ tab.is = "on" /\ tab.current = b.tabs[t].current /\ (tab.paused <=> b.tabs[t].paused)
    BY <1>8 DEF IsMounted, TabNames
  <1>12. b.tabs[t].runtime # Settings!Nothing
    BY <1>a, <1>6
  <1>13. /\ DOMAIN b.tabs[t].runtime = {"is", "url", "suppress", "goals"} /\ b.tabs[t].runtime.is = "mounted"
         /\ b.tabs[t].runtime.url = tab.current.url /\ b.tabs[t].runtime.suppress = tab.current.suppress
    BY <1>8, <1>11, <1>12 DEF IsMounted
  <1> HIDE DEF tab
  <1>14. /\ DOMAIN tab.runtime = {"is", "url", "suppress", "goals"} /\ tab.runtime.is = "mounted"
         /\ tab.runtime.url = tab.current.url /\ tab.runtime.suppress = tab.current.suppress
         /\ tab.runtime.goals = next
    BY <1>11, <1>13
  <1>15. tab.runtime # Settings!Nothing
    <2>1. Settings!Nothing.is = "none"
      BY DEF Settings!Nothing
    <2> QED
      BY <1>14, <2>1
  <1>16. IsMounted(tab, t)
    BY <1>8, <1>11, <1>12, <1>14, <1>15 DEF IsMounted
  <1>17. u.tabs[t] = tab /\ DOMAIN u.tabs = Tabs /\ \A x \in Tabs \ {t} : u.tabs[x] = b.tabs[x]
    BY <1>7, <1>9
  <1>18. \E w \in u.writes : PickedBy(w, t) /\ w.patch.value = next
    BY <1>4, <1>5, <1>10 DEF PickedBy
  <1>19. SettingsLatest(u, t) = SettingsLatest(b, t)
    BY <1>10, <1>11, <1>17 DEF SettingsLatest
  <1>20. TabOK(u, t)
    BY <1>7, <1>8, <1>10, <1>11, <1>14, <1>16, <1>17, <1>18, <1>19 DEF TabOK
  <1>21. SettingsInv(u)
    <2>1. (u.lost <=> b.lost) /\ IsQueue(u.events[t]) /\ DOMAIN u.goals = Tabs /\
          DOMAIN u.events = Tabs \cup {"popup"}
      BY <1>7, <1>10
    <2>2. /\ \A x \in (Tabs \cup {"popup"}) \ {t} : u.events[x] = b.events[x]
          /\ \A x \in Tabs \ {t} : u.tabs[x] = b.tabs[x] /\ u.goals[x] = b.goals[x]
      BY <1>10, <1>17
    <2>3. /\ u.stored = b.stored /\ u.wanted = b.wanted /\ u.version = b.version
          /\ u.writes = b.writes /\ u.missed = b.missed /\ DOMAIN u.tabs = Tabs
          /\ SettingsInv(b) /\ DOMAIN u = SettingsNames
      BY <1>5, <1>9, <1>10, <1>17
    <2> QED
      BY <1>20, <2>1, <2>2, <2>3, SettingsOneTab
  <1> QED
    BY <1>2, <1>21

\* A write is done: what the settings are to be is what they are, unless writes crossed.
LEMMA SettingsWants ==
  ASSUME SettingsInv(settings), NEW w \in settings.writes, Settings!Writes(w)
  PROVE  ~settings'.lost => SettingsAgree(settings'.stored, settings'.wanted)
  <1> DEFINE s == settings
             u == settings'
  <1>1. /\ DOMAIN s = SettingsNames /\ DOMAIN s.stored = SettingsFields /\ DOMAIN s.wanted = SettingsFields
        /\ WriteOK(s, w) /\ w.is = "read"
    BY DEF SettingsInv, SettingsType, Settings!Writes
  <1>2. /\ u.stored = [w.base EXCEPT ![w.patch.field] = w.patch.value]
        /\ u.wanted = Settings!Wanted(s.wanted, w.sets)
        /\ u.lost <=> s.lost \/ Settings!Outdated(s, w)
    BY <1>1 DEF Settings!Writes, SettingsNames
  <1> HIDE DEF u
  <1>3. PatchOK(w) /\ DOMAIN w.base = SettingsFields /\ (w.at = s.version => SettingsAgree(w.base, s.stored))
    BY <1>1 DEF WriteOK
  <1> SUFFICES ASSUME ~u.lost PROVE SettingsAgree(u.stored, u.wanted)
    BY DEF u
  <1>4. SettingsAgree(w.base, s.stored) /\ SettingsAgree(s.stored, s.wanted)
    BY <1>2, <1>3 DEF SettingsInv, Settings!Outdated
  <1>5. w.patch.field \in {"blocked", "goals"} => w.seen[w.patch.field] = s.stored[w.patch.field]
    BY <1>2 DEF Settings!Outdated
  <1>6. CASE w.sets.field = "blocked" /\ \E t \in Tabs : w.patch = Settings!Block(w.seen, t) /\
             w.sets = Settings!Blocks(w.seen, t)
    <2>1. PICK t \in Tabs : w.patch = Settings!Block(w.seen, t) /\ w.sets = Settings!Blocks(w.seen, t)
      BY <1>6
    <2>2. /\ w.patch.field = "blocked" /\ w.patch.value = Settings!Toggled(w.seen.blocked, t)
          /\ w.sets.field = "blocked" /\ w.sets.site = t /\ (w.sets.value <=> t \notin w.seen.blocked)
      <3>1. \A v : LET b == [field |-> "blocked", site |-> t, value |-> v] IN
              b.field = "blocked" /\ b.site = t /\ b.value = v
        OBVIOUS
      <3>2. w.sets.field = "blocked" /\ w.sets.site = t /\ (w.sets.value <=> t \notin w.seen.blocked)
        BY <2>1, <3>1, Zenon DEF Settings!Blocks
      <3>3. w.patch.field = "blocked" /\ w.patch.value = Settings!Toggled(w.seen.blocked, t)
        BY <2>1 DEF Settings!Block
      <3> QED
        BY <3>2, <3>3
    <2>3. w.seen.blocked = s.wanted.blocked
      BY <1>4, <1>5, <2>2 DEF SettingsAgree
    <2>4. u.wanted = [s.wanted EXCEPT !.blocked = IF w.sets.value THEN @ \cup {t} ELSE @ \ {t}]
      BY <1>2, <2>2 DEF Settings!Wanted
    <2>5. u.wanted = [s.wanted EXCEPT !.blocked = w.patch.value]
      BY <2>2, <2>3, <2>4 DEF Settings!Toggled
    <2>6. u.stored = [w.base EXCEPT !.blocked = w.patch.value]
      BY <1>2, <2>2
    <2> QED
      BY <1>1, <1>3, <1>4, <2>5, <2>6 DEF SettingsAgree, SettingsFields, SettingsUrl
  <1>7. CASE /\ w.sets.field = "goals"
             /\ w.patch = Settings!Sets("goals", [w.seen.goals EXCEPT ![w.sets.part] = w.sets.value])
    <2>1. w.patch.field = "goals" /\ w.patch.value = [w.seen.goals EXCEPT ![w.sets.part] = w.sets.value]
      BY <1>7 DEF Settings!Sets
    <2>2. w.seen.goals = s.wanted.goals
      BY <1>4, <1>5, <2>1 DEF SettingsAgree
    <2>3. u.wanted = [s.wanted EXCEPT !.goals[w.sets.part] = w.sets.value]
      BY <1>2, <1>7 DEF Settings!Wanted
    <2>4. u.wanted = [s.wanted EXCEPT !.goals = w.patch.value]
      BY <2>1, <2>2, <2>3
    <2>5. u.stored = [w.base EXCEPT !.goals = w.patch.value]
      BY <1>2, <2>1
    <2> QED
      BY <1>1, <1>3, <1>4, <2>4, <2>5 DEF SettingsAgree, SettingsFields, SettingsUrl
  <1>8. CASE w.sets.field \in {"enabled", "suppress", "url"} /\ w.patch = w.sets
    <2>1. u.wanted = [s.wanted EXCEPT ![w.sets.field] = w.sets.value]
      BY <1>2, <1>8 DEF Settings!Wanted
    <2>2. u.stored = [w.base EXCEPT ![w.sets.field] = w.sets.value]
      BY <1>2, <1>8
    <2> QED
      BY <1>1, <1>3, <1>4, <1>8, <2>1, <2>2 DEF SettingsAgree, SettingsFields, SettingsUrl
  <1> QED
    BY <1>3, <1>6, <1>7, <1>8 DEF PatchOK

\* A write is done: the tabs are told, or have heard it.
LEMMA SettingsStores ==
  ASSUME SettingsInv(settings), "popup" \notin Tabs, NEW w \in settings.writes, Settings!Writes(w)
  PROVE  SettingsInv(settings')
  <1> DEFINE s == settings
             u == settings'
             stored == [w.base EXCEPT ![w.patch.field] = w.patch.value]
             changed == stored # s.stored
             left == IF w.by = "form" THEN {[is |-> "written", id |-> w.id, by |-> "form"]} ELSE {}
  <1>1. /\ DOMAIN s = SettingsNames /\ DOMAIN s.stored = SettingsFields /\ DOMAIN s.wanted = SettingsFields
        /\ DOMAIN s.tabs = Tabs /\ DOMAIN s.goals = Tabs /\ DOMAIN s.events = Tabs \cup {"popup"}
        /\ \A x \in Tabs \cup {"popup"} : IsQueue(s.events[x])
        /\ s.version \in Nat /\ WriteOK(s, w) /\ w.is = "read"
    BY DEF SettingsInv, SettingsType, Settings!Writes
  <1>2. DOMAIN stored = SettingsFields
    BY <1>1 DEF WriteOK
  <1>3. /\ DOMAIN u = SettingsNames /\ u.stored = stored /\ u.version = s.version + 1
        /\ u.tabs = s.tabs /\ u.goals = s.goals
        /\ u.wanted = Settings!Wanted(s.wanted, w.sets)
        /\ u.writes = (s.writes \ {w}) \cup left
        /\ u.missed = s.missed \cup {t \in Tabs : s.tabs[t].is = "starting"}
    BY <1>1 DEF Settings!Writes, SettingsNames
  <1>4. /\ DOMAIN u.events = Tabs \cup {"popup"}
        /\ \A x \in Tabs \cup {"popup"} : u.events[x] = s.events[x] \/
           u.events[x] = Append(s.events[x], stored)
        /\ \A t \in Tabs : u.events[t] = IF changed /\ s.tabs[t].is = "on"
                                         THEN Append(s.events[t], stored) ELSE s.events[t]
    <2> DEFINE hears(x) == CASE x = "popup" -> s.popup # Settings!Nothing
                             [] OTHER -> s.tabs[x].is = "on"
    <2>1. u.events = [x \in Tabs \cup {"popup"} |->
                        IF changed /\ hears(x) THEN Append(s.events[x], stored) ELSE s.events[x]]
      BY <1>1 DEF Settings!Writes, SettingsNames, Settings!Watchers
    <2>2. \A t \in Tabs : hears(t) <=> s.tabs[t].is = "on"
      OBVIOUS
    <2> HIDE DEF u, changed, hears
    <2> QED
      BY <2>1, <2>2
  <1>5. ~u.lost => SettingsAgree(u.stored, u.wanted)
    BY SettingsWants
  <1> HIDE DEF u, stored
  <1>6. DOMAIN u.wanted = SettingsFields
    <2>1. \A x, y : DOMAIN [s.wanted EXCEPT ![x] = y] = SettingsFields
      BY <1>1
    <2>2. \/ \E x, y : u.wanted = [s.wanted EXCEPT ![x] = y]
      <3>1. CASE w.sets.field = "blocked"
        <4> DEFINE y == IF w.sets.value THEN s.wanted.blocked \cup {w.sets.site}
                        ELSE s.wanted.blocked \ {w.sets.site}
        <4>1. u.wanted = [s.wanted EXCEPT !["blocked"] = y]
          BY <1>3, <3>1 DEF Settings!Wanted
        <4> QED
          BY <4>1
      <3>2. CASE w.sets.field = "goals"
        <4> DEFINE y == [s.wanted.goals EXCEPT ![w.sets.part] = w.sets.value]
        <4>1. u.wanted = [s.wanted EXCEPT !["goals"] = y]
          BY <1>3, <3>2 DEF Settings!Wanted
        <4> QED
          BY <4>1
      <3>3. CASE w.sets.field \notin {"blocked", "goals"}
        BY <1>3, <3>3 DEF Settings!Wanted
      <3> QED
        BY <3>1, <3>2, <3>3
    <2> QED
      BY <2>1, <2>2
  <1>7. ASSUME NEW x \in Tabs \cup {"popup"} PROVE IsQueue(u.events[x])
    <2>1. IsQueue(s.events[x]) /\ (u.events[x] = s.events[x] \/ u.events[x] = Append(s.events[x], stored))
      BY <1>1, <1>4
    <2>2. IsQueue(Append(s.events[x], stored))
      BY <2>1, SettingsJoins
    <2> QED
      BY <2>1, <2>2
  <1>8. SettingsType(u)
    BY <1>1, <1>2, <1>3, <1>4, <1>6, <1>7 DEF SettingsType
  <1>9. ASSUME NEW x \in u.writes PROVE WriteOK(u, x)
    <2>1. CASE x \in s.writes
      BY <1>1, <1>3, <2>1 DEF SettingsInv, WriteOK
    <2>2. CASE x \in left
      <3>1. x.is = "written"
        BY <2>2
      <3> QED
        BY <3>1 DEF WriteOK
    <2> QED
      BY <1>3, <2>1, <2>2
  <1>10. ASSUME NEW t \in Tabs PROVE TabOK(u, t)
    <2>1. TabOK(s, t) /\ IsQueue(s.events[t])
      BY <1>1 DEF SettingsInv
    <2>2. u.tabs[t] = s.tabs[t] /\ u.goals[t] = s.goals[t] /\ (t \notin u.missed => t \notin s.missed)
      BY <1>3
    <2>3. CASE s.tabs[t].is # "on"
      BY <1>3, <1>4, <2>1, <2>2, <2>3 DEF TabOK
    <2>4. CASE s.tabs[t].is = "on" /\ changed
      <3> DEFINE a == Append(s.events[t], stored)
      <3>1. u.events[t] = a
        BY <1>4, <2>4
      <3>2. a # <<>> /\ a[Len(a)] = stored
        BY <2>1, SettingsJoins
      <3> HIDE DEF a, changed
      <3>3. u.events[t] # <<>> /\ SettingsLatest(u, t) = u.stored
        BY <1>3, <3>1, <3>2 DEF SettingsLatest
      <3>4. SettingsAgree(u.stored, u.stored)
        BY DEF SettingsAgree
      <3> QED
        BY <2>1, <2>2, <2>4, <3>3, <3>4 DEF TabOK
    <2>5. CASE s.tabs[t].is = "on" /\ ~changed
      <3>1. u.events[t] = s.events[t] /\ u.stored = s.stored
        BY <1>3, <1>4, <2>5
      <3>2. SettingsLatest(u, t) = SettingsLatest(s, t)
        BY <2>2, <3>1 DEF SettingsLatest
      <3>3. ASSUME NEW x \in s.writes, PickedBy(x, t), x.patch.value = s.tabs[t].runtime.goals
            PROVE  \/ s.tabs[t].runtime.goals = u.stored.goals
                   \/ \E y \in u.writes : PickedBy(y, t) /\ y.patch.value = s.tabs[t].runtime.goals
        <4>1. CASE x = w
          <5>1. u.stored = [w.base EXCEPT !.goals = w.patch.value] /\ DOMAIN w.base = SettingsFields
            BY <1>1, <1>3, <3>3, <4>1 DEF PickedBy, stored, WriteOK
          <5> QED
            BY <3>3, <4>1, <5>1 DEF SettingsFields
        <4>2. CASE x # w
          BY <1>3, <3>3, <4>2
        <4> QED
          BY <4>1, <4>2
      <3> QED
        BY <2>1, <2>2, <2>5, <3>1, <3>2, <3>3 DEF TabOK
    <2> QED
      BY <2>3, <2>4, <2>5
  <1>11. SettingsInv(u)
    BY <1>5, <1>8, <1>9, <1>10 DEF SettingsInv
  <1> QED
    BY <1>11 DEF u

\* No step breaks the invariant of the settings.
LEMMA SettingsStep ==
  ASSUME SettingsInv(settings), "popup" \notin Tabs, [Settings!Next]_settings
  PROVE  SettingsInv(settings')
  <1>1. CASE \/ Settings!PopupOpens \/ Settings!FormOpens \/ Settings!PopupHears
             \/ \E w \in settings.writes : Settings!FormReads(w)
    BY <1>1, SettingsLooks
  <1>2. CASE Settings!Changes
    <2>1. CASE \/ Settings!PopupToggles \/ Settings!FormPatches \/ \E t \in Tabs : Settings!PillToggles(t)
      BY <2>1, SettingsStarts
    <2>2. CASE \E t \in Tabs : Settings!PicksGoal(t)
      BY <2>2, SettingsPicks
    <2> QED
      BY <1>2, <2>1, <2>2 DEF Settings!Changes
  <1>3. CASE \E t \in Tabs : \/ Settings!StartReads(t) \/ Settings!StartWatches(t)
                             \/ Settings!TabHears(t) \/ Settings!GoalsOpen(t)
    BY <1>3, TabSteps
  <1>4. CASE \E w \in settings.writes : Settings!PillLooks(w) \/ Settings!Reads(w)
    BY <1>4, SettingsTurns
  <1>5. CASE \E w \in settings.writes : Settings!Writes(w)
    BY <1>5, SettingsStores
  <1>6. CASE UNCHANGED settings
    BY <1>6
  <1> QED
    BY <1>1, <1>2, <1>3, <1>4, <1>5, <1>6 DEF Settings!Next

\* What the invariant says of the two properties.
LEMMA SettingsFollow ==
  ASSUME SettingsInv(settings)
  PROVE  Settings!NothingLost /\ Settings!TabsFollow
  <1> DEFINE s == settings
  <1>1. DOMAIN s.stored = SettingsFields /\ DOMAIN s.wanted = SettingsFields
    BY DEF SettingsInv, SettingsType
  <1>2. Settings!NothingLost
    BY <1>1, AgreeResolved DEF SettingsInv, Settings!NothingLost, Settings!GetSettings
  <1>3. ASSUME NEW t \in Tabs, s.tabs[t].is = "on", s.events[t] = <<>>, t \notin s.missed
        PROVE  /\ s.tabs[t].paused <=> Settings!Mode(s.stored, t) = "site-paused"
               /\ s.tabs[t].runtime # Settings!Nothing <=> Settings!Mode(s.stored, t) = "active"
               /\ s.tabs[t].runtime # Settings!Nothing =>
                    /\ Settings!Resolved([Settings!Defaults EXCEPT !.url = s.tabs[t].runtime.url]).url
                         = Settings!GetSettings(s).url
                    /\ s.tabs[t].runtime.suppress = s.stored.suppress
                    /\ (\A w \in s.writes : w.by # t) => s.tabs[t].runtime.goals = s.stored.goals
    <2>1. TabOK(s, t) /\ SettingsLatest(s, t) = s.tabs[t].current
      BY <1>3 DEF SettingsInv, SettingsLatest
    <2>2. IsMounted(s.tabs[t], t) /\ SettingsAgree(s.tabs[t].current, s.stored)
      BY <1>3, <2>1 DEF TabOK
    <2>3. Settings!Mode(s.tabs[t].current, t) = Settings!Mode(s.stored, t)
      BY <2>2, ModesAgree
    <2>4. Settings!GetSettings(s).url = SettingsUrl(s.stored)
      BY <1>1, ResolvedIs DEF Settings!GetSettings
    <2>5. \A x : Settings!Resolved([Settings!Defaults EXCEPT !.url = x]).url = IF x = "garbage" THEN "default"
                                                                               ELSE x
      BY DEF Settings!Resolved, Settings!Defaults
    <2>6. s.tabs[t].runtime # Settings!Nothing /\ (\A w \in s.writes : w.by # t) =>
            s.tabs[t].runtime.goals = s.stored.goals
      BY <1>3, <2>1 DEF TabOK, PickedBy
    <2> QED
      BY <2>2, <2>3, <2>4, <2>5, <2>6 DEF IsMounted, SettingsAgree, SettingsUrl
  <1>4. Settings!TabsFollow
    BY <1>3 DEF Settings!TabsFollow
  <1> QED
    BY <1>2, <1>4

\* A change of settings is kept, and every tab follows them, for any number of tabs
\* and of changes.
THEOREM SettingsAreKept == "popup" \notin Tabs /\ Settings!Spec =>
    [](Settings!NothingLost /\ Settings!TabsFollow)
  <1> SUFFICES ASSUME "popup" \notin Tabs
               PROVE Settings!Spec => [](Settings!NothingLost /\ Settings!TabsFollow)
    OBVIOUS
  <1>1. Settings!Init => SettingsInv(settings)
    BY SettingsInit
  <1>2. SettingsInv(settings) /\ [Settings!Next]_settings => SettingsInv(settings)'
    BY SettingsStep
  <1>3. SettingsInv(settings) => Settings!NothingLost /\ Settings!TabsFollow
    BY SettingsFollow
  <1> QED
    BY <1>1, <1>2, <1>3, PTL DEF Settings!Spec
=============================================================================
