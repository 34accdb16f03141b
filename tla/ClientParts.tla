------------------------------ MODULE ClientParts ------------------------------
(***************************************************************************)
(* The clients: what is drawn in the fields of a page, in OpenCode's       *)
(* prompt and over Discord's composer, and what the browser shows beside   *)
(* fields.  As the parts of the bridge, these share no state with each     *)
(* other; which one a behaviour is of is chosen at its start.  A page is   *)
(* taken twice, each time with fields and bounds of its own.               *)
(***************************************************************************)
EXTENDS BridgeParts

CONSTANTS
  Drafts,      \* texts of a field, other than the empty one
  Refs,        \* prompts of OpenCode's host
  Lone,        \* the fields of a page, of one that is looked at for longer
  Suggestions, \* of a field
  Categories,  \* of suggestions
  Places,      \* of a field's text
  Selectable,  \* texts to select in
  Tabs

OpenCode == INSTANCE OpenCodePrompt WITH
  prompt <- state, NoRef <- None, Nothing <- None, Blank <- None,
  MaxItems <- Bound.prompt.items, MaxEdits <- Bound.prompt.edits,
  MaxSwaps <- Bound.prompt.swaps, MaxFlying <- Bound.prompt.flying

Vencord == INSTANCE VencordComposer WITH
  composer <- state, Blank <- "blank", MaxStates <- Bound.composer.states,
  MaxSteps <- Bound.composer.steps, MaxFlying <- Bound.composer.flying

\* With the facts that are proved of it, as the next two.
OneField == INSTANCE ContentField_proofs WITH
  page <- state, Fields <- Lone, MaxStates <- Bound.field.states,
  MaxSteps <- Bound.field.steps, MaxMoves <- Bound.field.moves

AllFields == INSTANCE ContentField_proofs WITH
  page <- state, MaxStates <- Bound.fields.states,
  MaxSteps <- Bound.fields.steps, MaxMoves <- Bound.fields.moves

Page == INSTANCE PageSurfaces_proofs WITH
  spell <- state, hover <- state, highlighter <- state, ui <- state, offers <- state, settings <- state,
  Items <- Suggestions, Texts <- Selectable,
  MaxAttached <- Bound.spelling.attached, MaxWritten <- Bound.spelling.written,
  MaxRuns <- Bound.spelling.runs, MaxItems <- Bound.highlights.items, MaxFlips <- Bound.pill.flips,
  MaxTyped <- Bound.surfaces.typed, MaxMoves <- Bound.surfaces.moves, MaxAsked <- Bound.surfaces.asked,
  MaxWrites <- Bound.settings.writes

ASSUME ComposerAssumption == Vencord!Constants

\* What there is is not None, and no field or tab has the name of another place.
ASSUME NamesApart ==
  /\ \A ref \in Refs, text \in Drafts : None # [mode |-> "loading", ref |-> ref, text |-> text]
  /\ None \notin Fields /\ "popup" \notin Tabs
  /\ Page!HoverApart /\ Page!PillApart

ASSUME SelectableAssumption == Page!Surfaces!Constants

ClientsInit ==
  \/ part = "opencode" /\ OpenCode!Init
  \/ part = "vencord" /\ Vencord!Init
  \/ part = "field" /\ OneField!Init
  \/ part = "fields" /\ AllFields!Init
  \/ part = "highlights" /\ Page!Lit!Init
  \/ part = "surfaces" /\ Page!Surfaces!Init
  \/ part = "tabs" /\ Page!Settings!Init
  \/ part = "hover" /\ Page!Hover!Init
  \/ part = "pill" /\ Page!Pill!Init
  \/ part = "spelling" /\ Page!Spelling!Init

ClientsNext ==
  /\ \/ part = "opencode" /\ OpenCode!Next
     \/ part = "vencord" /\ Vencord!Next
     \/ part = "field" /\ OneField!Next
     \/ part = "fields" /\ AllFields!Next
     \/ part = "highlights" /\ Page!Lit!Next
     \/ part = "surfaces" /\ Page!Surfaces!Next
     \/ part = "tabs" /\ Page!Settings!Next
     \/ part = "hover" /\ Page!Hover!Next
     \/ part = "pill" /\ Page!Pill!Next
     \/ part = "spelling" /\ Page!Spelling!Next
  /\ UNCHANGED part

Clients == ClientsInit /\ [][ClientsNext]_<<part, state>>

-----------------------------------------------------------------------------

ClientTypesOK ==
  /\ part = "opencode" => OpenCode!TypeOK
  /\ part = "vencord" => Vencord!TypeOK
  /\ part = "field" => OneField!TypeOK
  /\ part = "fields" => AllFields!TypeOK
  /\ part = "highlights" => Page!Lit!TypeOK
  /\ part = "surfaces" => Page!Surfaces!TypeOK
  /\ part = "tabs" => Page!Settings!TypeOK
  /\ part = "hover" => Page!Hover!TypeOK
  /\ part = "pill" => Page!Pill!TypeOK
  /\ part = "spelling" => Page!Spelling!TypeOK

\* Every client implements LatestCheck, for each of its field states: what is
\* drawn answers the latest check, and an overtaken or abandoned one draws
\* nothing, though each client guards against late answers in its own way.
ClientsShowLatest ==
  /\ part = "opencode" => OpenCode!LatestInit
  /\ part = "vencord" => Vencord!LatestInit
  /\ part = "field" => OneField!LatestInit
  /\ part = "fields" => AllFields!LatestInit
  /\ [][/\ part = "opencode" => OpenCode!LatestStep
        /\ part = "vencord" => Vencord!LatestStep
        /\ part = "field" => OneField!LatestStep
        /\ part = "fields" => AllFields!LatestStep]_<<part, state>>

\* OpenCode: the surfaces at the cursor exclude each other, are about what is
\* there, and wait for nothing that will not come.  Browser: one popover, over
\* an attached field, about what it shows; and what is painted in fields is what
\* their items come to, though it is repainted in parts.  Browser and Vencord: what
\* is offered for a selection is of that selection, waits for an answer that is
\* out, and stays closed; what is taken of it is written over what it is of, and
\* undo gives back the text before; every tab comes to show and use the settings
\* that are stored; the chip under the pointer and the pill by the field being
\* edited are there while they should be, though all fields share them; and the
\* page's spellcheck is off where it was turned off.
SurfacesAreLive ==
  /\ part = "opencode" =>
       OpenCode!GhostHasTheField /\ OpenCode!PanelIsLive /\ OpenCode!SpinnerAwaitsAnswer
  /\ part = "field" => OneField!PopoverIsLive
  /\ part = "fields" => AllFields!PopoverIsLive
  /\ part = "highlights" => Page!Lit!PaintedIsCurrent
  /\ part = "surfaces" =>
       /\ Page!Surfaces!WaitersAreAnswered
       /\ Page!Surfaces!ClosedStaysClosed
       /\ Page!Surfaces!ControlIsCurrent
       /\ Page!Surfaces!WritesOverItsOwn
       /\ Page!Surfaces!UndoRestores
  /\ part = "tabs" => Page!Settings!TabsFollow
  /\ part = "hover" => Page!Hover!ChipFades /\ Page!Hover!DescribedIsShown
  /\ part = "pill" => Page!Pill!PillHasTheFocus /\ Page!Pill!PausedOffers
  /\ part = "spelling" => Page!Spelling!Suppressed

\* What was sent, settled or released stays bare, and no scan-line stays up,
\* whatever answers are still out; a setting that was changed does not come back,
\* but where two changes crossed or one was made from an old view; and a field is
\* given back with the page's own spellcheck.
NothingComesBack ==
  /\ part = "vencord" => Vencord!SettledStaysClean /\ Vencord!ScanlineEnds
  /\ part = "field" => OneField!DetachedStayBare
  /\ part = "fields" => AllFields!DetachedStayBare
  /\ part = "tabs" => Page!Settings!NothingLost
  /\ part = "spelling" => Page!Spelling!GivenBack

\* Browser: until its first release a field is attached exactly while it is
\* there to be edited.
FirstLifeIsRight ==
  /\ part = "field" => OneField!FirstLifeIsRight
  /\ part = "fields" => AllFields!FirstLifeIsRight
=============================================================================
