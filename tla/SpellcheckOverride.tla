--------------------------- MODULE SpellcheckOverride ---------------------------
(***************************************************************************)
(* The spellcheck attribute of a field, which the browser's content        *)
(* script turns off while it checks the field, if the settings say so, and *)
(* gives back when it lets the field go or is torn down (attach, detach    *)
(* and teardownRuntime of entrypoints/content/index.ts).  The page may     *)
(* write the attribute at any time; an observer then writes it again.      *)
(*                                                                         *)
(* An observer hears of a write some time later, and of nothing once it is *)
(* disconnected; a detached field's goes on until the runtime is gone.     *)
(* Setting the property of an element sets the attribute.                  *)
(***************************************************************************)
EXTENDS Naturals, Sequences, SequencesExt

CONSTANTS
  MaxAttached,  \* bound on the attaches by a runtime
  MaxWritten,   \* bound on the writes of the page
  MaxRuns       \* bound on the runtimes

VARIABLE spell

Values == {"absent", "true", "false"}

TypeOK ==
  /\ spell.attr \in Values /\ spell.page \in Values
  /\ spell.originals \in BoundedSeq(Values, MaxAttached)
  /\ spell.watchers \in 0..MaxAttached

Init ==
  \E attr \in Values :
    spell = [attr |-> attr,
             running |-> FALSE,
             on |-> FALSE,            \* suppressNativeSpellcheck, while running
             attached |-> FALSE,
             originals |-> <<>>,      \* what the runtime's cleanups will restore
             watchers |-> 0,          \* observers of the attribute
             due |-> FALSE,           \* they have yet to hear of a write
             page |-> attr,           \* history: what the page wrote last
             spoilt |-> FALSE,        \* history: written while it was held, or held twice
             written |-> 0, runs |-> 0]

-----------------------------------------------------------------------------
(* Slip_... definitions are slips the definition after them could have;    *)
(* nothing uses them.                                                      *)

\* A write, which observers hear of.
Set(s, value) == [s EXCEPT !.attr = value, !.due = s.watchers > 0]

Slip_OnlyIfAbsent(s, original) == IF original = "absent" THEN Set(s, "true") ELSE s
\* restoreSpellcheck: to set the property afterwards sets the attribute, also
\* where there was none.
Restored(s, original) == Set(s, IF original = "absent" THEN "true" ELSE original)

Slip_Unobserved(s) == [s EXCEPT !.attr = "false"]
\* assertSpellcheckFalse, before the observer observes
Asserted(s) == [Set(s, "false") EXCEPT !.watchers = @ + 1]

Runs(on) ==
  /\ ~spell.running /\ spell.runs < MaxRuns
  /\ spell' = [spell EXCEPT !.running = TRUE, !.on = on, !.runs = @ + 1]

Attaches ==
  /\ spell.running /\ ~spell.attached /\ Len(spell.originals) < MaxAttached
  /\ LET s == [spell EXCEPT !.attached = TRUE, !.originals = Append(@, spell.attr),
                            !.spoilt = @ \/ (spell.on /\ spell.originals # <<>>)]
     IN  spell' = IF spell.on THEN Asserted(s) ELSE s

Detaches ==
  /\ spell.attached
  /\ spell' = [Restored(spell, Last(spell.originals)) EXCEPT !.attached = FALSE]

PageWrites ==
  \E value \in Values :
    /\ spell.written < MaxWritten
    /\ spell' = [Set(spell, value) EXCEPT !.page = value, !.written = @ + 1,
                                          !.spoilt = @ \/ spell.originals # <<>>]

\* The observers' callback, while any has a write to hear of.
Heard ==
  /\ spell.due
  /\ spell' = [spell EXCEPT !.due = FALSE, !.attr = "false"]

Slip_LastOnly(s) == IF s.attached THEN Restored(s, Last(s.originals)) ELSE s
\* The cleanups, in the order of the attaches, each disconnect an observer and
\* restore what they found; what the last one restores stands.
Cleaned(s) == IF s.originals = <<>> THEN s ELSE Restored(s, Last(s.originals))

TornDown ==
  /\ spell.running
  /\ spell' = [Cleaned(spell) EXCEPT
       !.running = FALSE, !.on = FALSE, !.attached = FALSE, !.originals = <<>>,
       !.watchers = 0, !.due = FALSE]

Next ==
  \/ Attaches \/ Detaches \/ PageWrites \/ Heard \/ TornDown
  \/ \E on \in BOOLEAN : Runs(on)

Spec == Init /\ [][Next]_spell

-----------------------------------------------------------------------------
(* Properties.  Invariants. *)

\* A field that is checked instead of the page's spellcheck is not checked by both,
\* whatever the page writes, once the observers have heard of it.
Suppressed == spell.attached /\ spell.on /\ ~spell.due => spell.attr = "false"

\* After the runtime, a field is as the page had it, where having no attribute is
\* as good as one that says true; unless the page wrote it while the runtime held
\* what it was before, or the field was suppressed after it had been let go.
GivenBack ==
  ~spell.running /\ ~spell.spoilt =>
    (spell.attr = "false" <=> spell.page = "false")
=============================================================================
