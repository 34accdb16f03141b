------------------------------ MODULE MCParts --------------------------------
(***************************************************************************)
(* The parts of the system, and with them what is made of texts and their  *)
(* edits, which shares no state with them either: each here on a small     *)
(* instance, and which one a behaviour is of is chosen at its start. A     *)
(* page is looked at with one field that comes and goes, and with two that *)
(* stay or go once; a text while the user types, one with a check between, *)
(* and a longer one; a streamed check with two fast checkers, and with     *)
(* none; a composer typed into, undone, with two accepts at once, and with *)
(* a check between them; and settings changed twice, with two tabs.        *)
(***************************************************************************)
EXTENDS ClientParts, FiniteSets, TLC, SequencesExt

\* What else there are two of.
Two == Fields
Symmetry == Permutations(Drafts) \cup Permutations(Two)

Bounds ==
  [prompt     |-> [items |-> 2, edits |-> 1, swaps |-> 1, flying |-> 2],
   composer   |-> [states |-> 2, steps |-> 2, flying |-> 2],
   field      |-> [states |-> 2, steps |-> 3, moves |-> 4],
   fields     |-> [states |-> 1, steps |-> 2, moves |-> 1],
   highlights |-> [items |-> 2],
   surfaces   |-> [typed |-> 1, moves |-> 1, asked |-> 2],
   settings   |-> [writes |-> 2],
   pill       |-> [flips |-> 2],
   spelling   |-> [attached |-> 2, written |-> 2, runs |-> 2],
   relay      |-> [deaths |-> 1],
   store      |-> [logs |-> 2, signals |-> 2, days |-> 2, stops |-> 1]]
TwoLetters == {<<"a", "b">>}

Edits == INSTANCE FieldEdits WITH
  field <- state, MaxLength <- 2, MaxTyped <- 1, MaxBatches <- 2, MaxAnswers <- 0

Answered == INSTANCE FieldEdits WITH
  field <- state, MaxLength <- 1, MaxTyped <- 1, MaxBatches <- 2, MaxAnswers <- 1

Batches == INSTANCE FieldEdits WITH
  field <- state, MaxLength <- 3, MaxTyped <- 0, MaxBatches <- 1, MaxAnswers <- 0

\* Edits that meet, abut, insert at one place or at an edge, and tie.
At(start, end, score, priority, by) ==
  [start |-> start, end |-> end, score |-> score, priority |-> priority, by |-> by]
Pool == {At(0, 1, 1, 0, "x"), At(1, 1, 2, 0, "x"), At(0, 2, 2, 0, "y"),
         At(1, 2, 1, 1, "x"), At(1, 3, 1, 0, "x"), At(2, 3, 1, 0, "x")}
AtMostTwo == {{}} \cup {{d, e} : d, e \in Pool}
OfTheModel == {{At(0, 1, 0, 0, "x")}, {At(1, 1, 0, 0, "x")},
               {At(0, 0, 0, 0, "x"), At(1, 2, 0, 0, "x")}}
Rejectable == {[start |-> 0, end |-> 1, by |-> "x"], [start |-> 1, end |-> 1, by |-> "x"]}

\* Letters of one and four bytes, lines with and without a carriage return.
Sentences == INSTANCE SentenceEdits WITH
  checked <- state,
  Texts <- (BoundedSeq({"a", "g", " ", "nl"}, 3) \ {<<>>})
             \cup {<<"a", "cr", "nl", "a">>, <<"a", " ", "a", "e">>},
  Inserts <- {<<"a">>}, MaxEdits <- 2, Window <- 2

Gector == INSTANCE GectorPasses WITH
  run <- state, Texts <- {<<"a", " ", "b">>, <<"a", ".">>},
  Tags <- {"KEEP", "DELETE", "APPEND_WORD", "LOWER"}, MaxPasses <- 3, MaxTagged <- 2

\* One accept while the user types, one and its undo, two at once, and a recheck
\* between them.
Composer == INSTANCE ComposerEdits WITH
  ed <- state, MaxLength <- 2, MaxTyped <- 1, MaxBegun <- 1, MaxAtOnce <- 1, MaxAnswers <- 0

Undone == INSTANCE ComposerEdits WITH
  ed <- state, MaxLength <- 2, MaxTyped <- 0, MaxBegun <- 2, MaxAtOnce <- 1, MaxAnswers <- 0

Crowded == INSTANCE ComposerEdits WITH
  ed <- state, MaxLength <- 1, MaxTyped <- 1, MaxBegun <- 2, MaxAtOnce <- 2, MaxAnswers <- 0

Rechecked == INSTANCE ComposerEdits WITH
  ed <- state, MaxLength <- 1, MaxTyped <- 0, MaxBegun <- 2, MaxAtOnce <- 2, MaxAnswers <- 1

\* Candidates agree in part; what checkers find meets the model's edits, touches them,
\* is a space away from them or apart.
Of(start, end, by, model, category, score) ==
  [start |-> start, end |-> end, by |-> by, model |-> model,
   category |-> category, score |-> score]
ByModel(start, end, by) == Of(start, end, by, "llm", "grammar", 0)
Found == {Of(0, 2, "x", "harper", "spelling", 2), Of(2, 2, "z", "gector", "grammar", 1),
          Of(3, 4, "w", "gector", "grammar", 2), Of(1, 2, "v", "gector", "punctuation", 1),
          Of(3, 3, "z", "harper", "punctuation", 2)}
FoundApart == {f \in SUBSET Found :
                 /\ Cardinality(f) <= 2
                 /\ \A d, e \in f : d = e \/ ~(d.start < e.end /\ e.start < d.end)}
Policy(long, nonTrivial, onFastEdit, trusted, calibrated) ==
  [long |-> long, nonTrivial |-> nonTrivial, onFastEdit |-> onFastEdit,
   trusted |-> trusted, calibrated |-> calibrated, sure |-> Found]

Candidates ==
  {{}, {ByModel(0, 2, "x")}, {ByModel(0, 1, "x")}, {ByModel(2, 2, "z")},
   {ByModel(0, 1, "x"), ByModel(2, 2, "z")}, {ByModel(0, 1, "x"), ByModel(3, 4, "w")},
   {ByModel(1, 1, "y"), ByModel(3, 3, "z")}}
Escalations ==
  {Policy(TRUE, TRUE, TRUE, {}, FALSE), Policy(FALSE, TRUE, TRUE, {"spelling"}, FALSE),
   Policy(FALSE, FALSE, TRUE, {"spelling", "punctuation"}, TRUE),
   Policy(FALSE, TRUE, TRUE, {}, TRUE), Policy(FALSE, TRUE, FALSE, {}, FALSE)}

\* What each repair is for, what it must leave alone, and two at once.
Lower(word) == [word |-> word, shape |-> "lower", tail |-> <<>>]
Title(word) == [word |-> word, shape |-> "title", tail |-> <<>>]
Ends(word) == [word |-> word, shape |-> "lower", tail |-> <<".">>]
Pauses(word) == [word |-> word, shape |-> "lower", tail |-> <<",">>]
Rightly(of, by) == [of |-> of, by |-> by]

Repairs == INSTANCE RepairedAnswer WITH
  answer <- state,
  Texts <-
    {<<Title("it"), Lower("or"), Lower("cats"), Lower("were"), Lower("gone")>>,
     <<Lower("cats"), Lower("or"), Lower("cat"), Lower("were"), Ends("gone")>>,
     <<Lower("was"), Lower("paris"), Lower("in"), Pauses("france"), Lower("or"), Lower("cats"), Ends("are")>>,
     <<Title("they"), Lower("is"), Pauses("late"), Lower("they"), Lower("could"), Lower("go")>>,
     <<Lower("it"), Lower("detects"), Lower("so"), Lower("it")>>,
     <<Lower("they're"), Lower("they"), Ends("it's")>>,
     <<Title("they"), Lower("can't"), Lower("if"), Lower("they"), Lower("could"), Ends("")>>,
     <<Lower("would"), Lower("done"), Pauses("could"), Lower("a"), Lower("honest"), Lower("colour")>>,
     <<Title("colour"), Lower("or"), Lower("colours"), Lower("are"), Lower("would")>>,
     <<Lower("marker"), Lower("teh"), Ends("could")>>},
  Corrections <-
    {Rightly(Lower("is"), <<Lower("are")>>), Rightly(Lower("was"), <<Lower("were")>>),
     Rightly(Lower("were"), <<Lower("was")>>), Rightly(Lower("teh"), <<Lower("the")>>),
     Rightly(Lower("would"), <<Lower("would"), Lower("have")>>),
     Rightly(Lower("cats"), <<Pauses("cats")>>), Rightly(Lower("so"), <<>>),
     Rightly(Lower("it"), <<Title("it")>>), Rightly(Title("it"), <<Lower("it")>>),
     Rightly(Lower("if"), <<Pauses("if")>>)},
  Plurals <- {"cats", "colours"}, SilentH <- {"honest"},
  Lexicon <- {[american |-> "color", british |-> "colour"],
              [american |-> "colors", british |-> "colours"]},
  MinLength <- 5, MaxEdits <- 2

\* Lines as Chrome makes them, lines by br, an empty line, and a text at the top.
Words(letters) == [is |-> "text", data |-> letters]
Open(tag) == [is |-> "open", tag |-> tag]
Close(tag) == [is |-> "close", tag |-> tag]
Br == [is |-> "br"]
Line(content) == <<Open("div")>> \o content \o <<Close("div")>>
Bold(content) == <<Open("b")>> \o content \o <<Close("b")>>
Contents == {<<>>, <<Words(<<>>)>>, <<Words(<<"a">>)>>, <<Words(<<"b", "c">>)>>, <<Br>>}

Flat == INSTANCE FlatText WITH
  field <- state,
  Documents <-
    {d \o e : d, e \in Contents} \cup {Line(<<>>), Bold(<<>>)}
      \cup {Line(<<Words(<<"a">>)>>) \o Line(<<Br>>) \o Line(<<Words(<<"b">>)>>),
             Line(<<Words(<<"a">>)>>) \o Line(<<Words(<<"b", "c">>)>>),
             <<Words(<<"a">>)>> \o Line(<<Words(<<"b">>)>>) \o Line(<<Br>>) \o <<Words(<<"c">>)>>,
             Line(Bold(<<Words(<<"a">>)>>)) \o Line(<<Words(<<"b">>), Br, Words(<<"c">>)>>)},
  Typed <- {<<"x">>}, Fixes <- {<<>>, <<"z">>}, MaxEdits <- 1

\* One model at two places, and one for each feature; texts of one sentence, of
\* two in either order, with a blank between, and none.
Backend(model, at) == [is |-> "backend", model |-> model, at |-> at]
Here == Backend("m", "here")
Away == Backend("m", "away")
NoBackend == [is |-> "none"]
Asked(feature, text, override, granularity, alternatives, source) ==
  [feature |-> feature, text |-> text, override |-> override,
   granularity |-> granularity, alternatives |-> alternatives, source |-> source]
Setup(toneEnabled, completeEnabled, factory, tone, rephrase, llm, toneMinChars) ==
  [toneEnabled |-> toneEnabled, completeEnabled |-> completeEnabled, factory |-> factory,
   tone |-> tone, rephrase |-> rephrase, llm |-> llm, toneMinChars |-> toneMinChars]

Requested ==
  {Asked("rephrase", <<"u">>, NoBackend, "field", 2, "web"),
   Asked("rephrase", <<"u">>, Away, "field", 7, "web"),
   Asked("tone", <<>>, NoBackend, "field", 0, "web"),
   Asked("tone", <<"u">>, NoBackend, "field", 0, "web"),
   Asked("tone", <<"u", "v">>, Away, "field", 0, "web"),
   Asked("tone", <<"u", "", "v">>, NoBackend, "sentence", 0, "web"),
   Asked("tone", <<"v", "u">>, Away, "sentence", 0, "web"),
   Asked("complete", <<"u">>, NoBackend, "field", 0, "web"),
   Asked("complete", <<"u">>, NoBackend, "field", 0, "opencode")}
Setups ==
  {Setup(TRUE, TRUE, TRUE, NoBackend, NoBackend, Here, 2),
   Setup(TRUE, TRUE, TRUE, Backend("t", "here"), Backend("r", "here"), Here, 0),
   Setup(TRUE, FALSE, FALSE, Backend("t", "here"), Backend("r", "here"), Here, 0),
   Setup(FALSE, TRUE, TRUE, NoBackend, NoBackend, NoBackend, 0)}

Bridges ==
  [staged   |-> [fasts |-> {<<"harper", "gector">>, <<>>},
                 finds |-> [harper |-> AtMostTwo,
                            gector |-> {{}, {At(0, 1, 1, 0, "x")}, {At(0, 2, 2, 0, "y")}}],
                 diffs |-> OfTheModel, words |-> {[start |-> 0, end |-> 1]},
                 pairs |-> Rejectable, modes |-> {"off", "gector", "all"}],
   services |-> [requests |-> {"one", "two"}, cacheSize |-> 1, setups |-> Setups,
                 asks |-> Requested],
   answers  |-> [text |-> <<"a", "b", " ", "c">>, finds |-> FoundApart, diffs |-> Candidates,
                 ns |-> 1..3, modes |-> {"off", "gector", "all", "gector-word", "all-word"},
                 policies |-> Escalations],
   store    |-> [retention |-> 1, minCount |-> 2, cap |-> 2]]

Init ==
  \/ ClientsInit \/ BridgeInit
  \/ part = "edits" /\ Edits!Init
  \/ part = "answered" /\ Answered!Init
  \/ part = "batches" /\ Batches!Init
  \/ part = "sentences" /\ Sentences!Init
  \/ part = "gector" /\ Gector!Init
  \/ part = "composer" /\ Composer!Init
  \/ part = "undone" /\ Undone!Init
  \/ part = "crowded" /\ Crowded!Init
  \/ part = "rechecked" /\ Rechecked!Init
  \/ part = "repairs" /\ Repairs!Init
  \/ part = "flat" /\ Flat!Init

Next ==
  \/ ClientsNext \/ BridgeNext
  \/ part = "edits" /\ Edits!Next /\ UNCHANGED part
  \/ part = "answered" /\ Answered!Next /\ UNCHANGED part
  \/ part = "batches" /\ Batches!Next /\ UNCHANGED part
  \/ part = "sentences" /\ Sentences!Next /\ UNCHANGED part
  \/ part = "gector" /\ Gector!Next /\ UNCHANGED part
  \/ part = "composer" /\ Composer!Next /\ UNCHANGED part
  \/ part = "undone" /\ Undone!Next /\ UNCHANGED part
  \/ part = "crowded" /\ Crowded!Next /\ UNCHANGED part
  \/ part = "rechecked" /\ Rechecked!Next /\ UNCHANGED part
  \/ part = "repairs" /\ Repairs!Next /\ UNCHANGED part
  \/ part = "flat" /\ Flat!Next /\ UNCHANGED part

Spec == Init /\ [][Next]_<<part, state>>

-----------------------------------------------------------------------------

\* Every state keeps its type, and the bounds that hold it.
TypesOK ==
  /\ ClientTypesOK /\ BridgeTypesOK
  /\ part = "edits" => Edits!TypeOK
  /\ part = "answered" => Answered!TypeOK
  /\ part = "batches" => Batches!TypeOK
  /\ part = "sentences" => Sentences!TypeOK
  /\ part = "gector" => Gector!TypeOK
  /\ part = "composer" => Composer!TypeOK
  /\ part = "undone" => Undone!TypeOK
  /\ part = "crowded" => Crowded!TypeOK
  /\ part = "rechecked" => Rechecked!TypeOK
  /\ part = "repairs" => Repairs!TypeOK
  /\ part = "flat" => Flat!TypeOK

\* Bridge: what a streamed check hands out, previews first, is the best of what
\* was found and can be applied from last to first; repairs take back what the
\* model changes needlessly and nothing else, and an answer that stops early
\* deletes nothing; the edits of sentences come to their corrections, in every
\* form clients are handed them, and those of later passes of GECToR stand where
\* they were judged; the sentences of a tone request are looked up once each; and
\* the streak counts the days without a gap.  Browser: edits applied one by one
\* come to what the suggestions say, undo takes exactly them back, and what the
\* user types between is safe, in a contenteditable too. Vencord: so they do in a
\* composer that shows them late or not at all, with several applies at once.
EditsAddUp ==
  /\ part = "services" => Services!UnitsLookedUpOnce
  /\ part = "store" => Store!StreakIsRight
  /\ part = "staged" => Staged!PreviewsAreBest /\ Staged!HandedOutFits /\ Staged!LostToAnother
  /\ part = "sentences" =>
       /\ Sentences!SentencesCover /\ Sentences!EditsAreCorrections
       /\ Sentences!MatchesAreEdits /\ Sentences!ItemsAreEdits
  /\ part = "gector" => Gector!CoordinatesHold /\ Gector!PassesAddUp
  /\ part = "edits" => Edits!BatchFixesAll /\ Edits!UndoRestores /\ Edits!TypedSurvives
  /\ part = "answered" =>
       Answered!BatchFixesAll /\ Answered!UndoRestores /\ Answered!TypedSurvives
  /\ part = "batches" => Batches!BatchFixesAll /\ Batches!UndoRestores
  /\ part = "repairs" => Repairs!RepairedIsMeant /\ Repairs!NoMassDeletion
  /\ part = "flat" =>
       /\ Flat!RangesAreSpans /\ Flat!SelectionsAreSpans
       /\ Flat!FixReplaces /\ Flat!KeptStand
  /\ part = "composer" =>
       /\ Composer!AcceptedWasMade /\ Composer!MadeOnce
       /\ Composer!TypedSurvives /\ Composer!UndoRestores
  /\ part = "undone" => Undone!AcceptedWasMade /\ Undone!MadeOnce /\ Undone!UndoRestores
  /\ part = "crowded" =>
       /\ Crowded!AcceptedWasMade /\ Crowded!MadeOnce
       /\ Crowded!TypedSurvives /\ Crowded!UndoRestores
  /\ part = "rechecked" =>
       /\ Rechecked!AcceptedWasMade /\ Rechecked!MadeOnce
       /\ Rechecked!TypedSurvives /\ Rechecked!UndoRestores

=============================================================================
