----------------------------- MODULE RepairedAnswer -----------------------------
(***************************************************************************)
(* What is made of the model's answer before it is compared with the text  *)
(* (bridge/internal/correction): the guards of correctOnce and              *)
(* repairLLMCandidate (service.go), the chain of repairs that revert what   *)
(* the model is known to change needlessly (overedit.go), the repair of     *)
(* British spelling (dialect_repair.go) and of articles (article.go).       *)
(*                                                                         *)
(* A text is a sequence of tokens, each a word, the shape of its letters    *)
(* and the marks behind it; one space is between tokens.  A token of marks  *)
(* alone has the word "".  The model is outside: of every token of the text *)
(* it keeps, corrects as it should, or changes needlessly in one of the     *)
(* ways the repairs are for; it may echo its instructions and stop early.   *)
(***************************************************************************)
EXTENDS Naturals, Sequences, SequencesExt, FiniteSets, FiniteSetsExt

CONSTANTS
  Texts,
  Corrections, \* what the model rightly makes of a token: [of, by] with by a text
  Plurals,     \* words that look like plural nouns
  SilentH,     \* words whose h is silent
  Lexicon,     \* pairs [american, british]
  MinLength,   \* of the texts an answer may not halve
  MaxEdits     \* bound on what the model changes in one text

VARIABLE answer

\* "lower", "title" (Paris), "mid" (detectS), "upper" (PARIS).
Token(word, shape, tail) == [word |-> word, shape |-> shape, tail |-> tail]
Raised(token) == token.shape \in {"title", "upper"}
Lowered(token) == [word |-> token.word, tail |-> token.tail]
WordsOf(text) == {text[i].word : i \in DOMAIN text}
\* The token the repairs write: a word that begins as another one does.
Like(token, word, tail) == Token(word, IF Raised(token) THEN "title" ELSE "lower", tail)

-----------------------------------------------------------------------------
(* Aligning and splicing.  Slip_... definitions are slips the definition    *)
(* after them could have; nothing uses them.                                *)

\* Each token in order is paired with the first equal one after the last pair.
Aligned(orig, corr) ==
  LET step(acc, i) ==
        LET later == {j \in DOMAIN corr : j > acc.last /\ corr[j] = orig[i]}
        IN  IF later = {} THEN acc
            ELSE [last |-> Min(later), pairs |-> Append(acc.pairs, <<i, Min(later)>>)]
  IN  FoldLeft(step, [last |-> 0, pairs |-> <<>>], [i \in 1..Len(orig) |-> i]).pairs

AlignedFold(orig, corr) ==
  Aligned([i \in DOMAIN orig |-> Lowered(orig[i])], [j \in DOMAIN corr |-> Lowered(corr[j])])

Fenced(pairs, orig, corr) == <<<<0, 0>>>> \o pairs \o <<<<Len(orig) + 1, Len(corr) + 1>>>>

\* Tokens between two pairs correspond if there are as many of them on each side.
Substitutions(orig, corr) ==
  LET p == Fenced(Aligned(orig, corr), orig, corr)
      gap(k, side) == p[k + 1][side] - p[k][side]
  IN  UNION {{<<p[k][1] + d, p[k][2] + d>> : d \in 1..(gap(k, 1) - 1)} :
               k \in {n \in 1..(Len(p) - 1) : gap(n, 1) = gap(n, 2)}}

\* Where the scans replace: from left to right, over nothing they have replaced.
Leftmost(width) ==
  LET chosen[i \in DOMAIN width] ==
        width[i] > 0 /\ \A j \in 1..(i - 1) : chosen[j] => j + width[j] <= i
  IN  {i \in DOMAIN width : chosen[i]}

Slip_FirstToLast(text, splices) ==
  FoldLeft(LAMBDA acc, s : SubSeq(acc, 1, s.from - 1) \o s.by \o SubSeq(acc, s.to + 1, Len(acc)),
           text, splices)
\* From last to first, so that what is left of a splice stands where it was found.
Spliced(text, splices) ==
  FoldRight(LAMBDA s, acc : SubSeq(acc, 1, s.from - 1) \o s.by \o SubSeq(acc, s.to + 1, Len(acc)),
            splices, text)

\* width[i] tokens from the i-th on become by[i].
Rewritten(text, width, by) ==
  LET at(i) == [from |-> i, to |-> i + width[i] - 1, by |-> by[i]]
  IN  Spliced(text, [n \in 1..Cardinality(Leftmost(width)) |->
                       at(SetToSortSeq(Leftmost(width), <)[n])])

-----------------------------------------------------------------------------
(* The repairs. *)

Singular == [were |-> "was", are |-> "is", have |-> "has", do |-> "does"]

OrBefore(orig, i) == \E k \in 1..(i - 1) : orig[k].word \in {"or", "nor"}

Slip_NoNoun(orig, i) == i > 1 /\ OrBefore(orig, i)
\* The verb agrees with what is nearest to it.
AgreesWithNearest(orig, i) == i > 1 /\ OrBefore(orig, i) /\ orig[i - 1].word \in Plurals

Flipped(orig, corr) ==
  {s \in Substitutions(orig, corr) :
     LET o == orig[s[1]]  c == corr[s[2]]
     IN  /\ o.tail = c.tail
         /\ o.word \in DOMAIN Singular /\ c.word = Singular[o.word]
         /\ AgreesWithNearest(orig, s[1])}

\* RepairProximityAgreementFlip
AgreementRepaired(orig, corr) ==
  [j \in DOMAIN corr |->
     IF \E i \in DOMAIN orig : <<i, j>> \in Flipped(orig, corr)
     THEN orig[CHOOSE i \in DOMAIN orig : <<i, j>> \in Flipped(orig, corr)] ELSE corr[j]]

Preps == <<"in", "at", "of", "on">>

StartsWithComma(tail) == tail # <<>> /\ Head(tail) = ","

\* findPrepositionForm: the first place of the first preposition the text has
\* between these words.
PrepForms(orig, x, y, prep) ==
  {i \in 1..(Len(orig) - 2) :
     /\ orig[i].word = x /\ orig[i + 1].word = prep /\ orig[i + 2].word = y
     /\ orig[i].tail = <<>> /\ orig[i + 1].tail = <<>>}
UsedPreps(orig, x, y) == {p \in DOMAIN Preps : PrepForms(orig, x, y, Preps[p]) # {}}

CommaPair(corr, k) ==
  /\ k < Len(corr) /\ corr[k].shape = "title" /\ corr[k].tail = <<",">>
  /\ corr[k + 1].shape = "title"

\* RepairProperNounCommaRestructure: X, Y[,] becomes X in Y, if that is what the
\* text has, with the comma it has behind it.
CommaRestored(orig, corr, k) ==
  LET x     == corr[k]
      y     == corr[k + 1]
      used  == UsedPreps(orig, x.word, y.word)
      prep  == Preps[Min(used)]
      place == Min(PrepForms(orig, x.word, y.word, prep))
      rest  == IF StartsWithComma(y.tail) THEN Tail(y.tail) ELSE y.tail
      comma == IF StartsWithComma(orig[place + 2].tail) THEN <<",">> ELSE <<>>
  IN  IF used = {} THEN <<x, y>>
      ELSE <<[x EXCEPT !.tail = <<>>], Token(prep, "lower", <<>>), [y EXCEPT !.tail = comma \o rest]>>

CommaRepaired(orig, corr) ==
  Rewritten(corr, [k \in DOMAIN corr |-> IF CommaPair(corr, k) THEN 2 ELSE 0],
            [k \in DOMAIN corr |-> IF CommaPair(corr, k) THEN CommaRestored(orig, corr, k) ELSE <<>>])

Slip_AnyGap(orig, corr) == Range(AlignedFold(orig, corr))
\* Pairs with as many tokens before and after them on each side.
Balanced(orig, corr) ==
  LET p == Fenced(AlignedFold(orig, corr), orig, corr)
      even(k) == p[k + 1][1] - p[k][1] = p[k + 1][2] - p[k][2]
  IN  {p[k] : k \in {n \in 2..(Len(p) - 1) : even(n) /\ even(n - 1)}}

\* The first letter as it was, letters behind it put in upper case.
CaseBroken(o, c) == <<o.shape, c.shape>> \in {<<"lower", "mid">>, <<"title", "upper">>}

\* RepairMidWordCaseFlip
CaseRepaired(orig, corr) ==
  [j \in DOMAIN corr |->
     LET of == {i \in DOMAIN orig : <<i, j>> \in Balanced(orig, corr) /\ CaseBroken(orig[i], corr[j])}
     IN  IF of = {} THEN corr[j] ELSE orig[Min(of)]]

\* One of each kind of the table.
Contractions == {[short |-> "they're", long |-> <<"they", "are">>],
                 [short |-> "it's", long |-> <<"it", "is">>],
                 [short |-> "it's", long |-> <<"it", "has">>],
                 [short |-> "can't", long |-> <<"cannot">>]}

Slip_Unsaid(orig, corr, i) ==
  {c \in Contractions :
     /\ i + Len(c.long) - 1 <= Len(corr)
     /\ \A d \in DOMAIN c.long : corr[i + d - 1].word = c.long[d]
     /\ Len(c.long) = 2 => corr[i].tail = <<>>}
\* What of the text is written out at the i-th token.
WrittenOut(orig, corr, i) ==
  {c \in Contractions :
     /\ i + Len(c.long) - 1 <= Len(corr)
     /\ \A d \in DOMAIN c.long : corr[i + d - 1].word = c.long[d]
     /\ Len(c.long) = 2 => corr[i].tail = <<>>
     /\ c.short \in WordsOf(orig)}

\* RepairContractionExpansion
ContractionRepaired(orig, corr) ==
  LET of(i) == CHOOSE c \in WrittenOut(orig, corr, i) : TRUE
      out   == [i \in DOMAIN corr |-> WrittenOut(orig, corr, i) # {}]
  IN  Rewritten(corr, [i \in DOMAIN corr |-> IF out[i] THEN Len(of(i).long) ELSE 0],
        [i \in DOMAIN corr |->
           IF out[i] THEN <<Like(corr[i], of(i).short, corr[i + Len(of(i).long) - 1].tail)>> ELSE <<>>])

Pronouns == {[they |-> "they", one |-> "he", other |-> "she"],
             [they |-> "their", one |-> "his", other |-> "her"],
             [they |-> "them", one |-> "him", other |-> "her"],
             [they |-> "themselves", one |-> "himself", other |-> "herself"]}

\* Marks behind "or" are not looked at.
Prescribed(orig, corr, i) ==
  {p \in Pronouns :
     /\ i + 2 <= Len(corr) /\ corr[i].tail = <<>>
     /\ corr[i].word = p.one /\ corr[i + 1].word = "or" /\ corr[i + 2].word = p.other
     /\ p.they \in WordsOf(orig)}

\* RepairSingularThey
TheyRepaired(orig, corr) ==
  LET out == [i \in DOMAIN corr |-> Prescribed(orig, corr, i) # {}]
  IN  Rewritten(corr, [i \in DOMAIN corr |-> IF out[i] THEN 3 ELSE 0],
        [i \in DOMAIN corr |->
           IF out[i] THEN <<Like(corr[i], (CHOOSE p \in Prescribed(orig, corr, i) : TRUE).they,
                                 corr[i + 2].tail)>>
           ELSE <<>>])

Modals == {"could", "would"}
Terminators == {".", "?", "!", ",", ";", ":"}

Slip_AnyModal(orig) == WordsOf(orig) \cap Modals
\* Where a modal ends a clause, and which modals do so somewhere in the text.
EndsClause(orig) ==
  {i \in DOMAIN orig :
     /\ orig[i].word \in Modals
     /\ \/ orig[i].tail # <<>>
        \/ i = Len(orig)
        \/ orig[i + 1].word = "" /\ Head(orig[i + 1].tail) \in Terminators}
ClauseFinal(orig) == {orig[i].word : i \in EndsClause(orig)}

\* RepairModalPerfectAddition: the marks behind "have" go to the modal.
ModalRepaired(orig, corr) ==
  LET added(i) == /\ i < Len(corr) /\ corr[i].tail = <<>> /\ corr[i].word \in ClauseFinal(orig)
                  /\ corr[i + 1].word = "have"
  IN  Rewritten(corr, [i \in DOMAIN corr |-> IF added(i) THEN 2 ELSE 0],
        [i \in DOMAIN corr |->
           IF added(i) THEN <<[corr[i] EXCEPT !.tail = corr[i + 1].tail]>> ELSE <<>>])

\* Spellings of the text that the answer has in American form only.
Americanized(orig, corr) ==
  {p \in Lexicon : /\ p.british \in WordsOf(orig) \ WordsOf(corr)
                   /\ p.american \in WordsOf(corr)}

\* A shape that is neither upper nor title is written in lower case.
Cased(shape) == IF shape = "mid" THEN "lower" ELSE shape

\* NewDialectSpellingRepair
DialectRepaired(orig, corr) ==
  [j \in DOMAIN corr |->
     LET of == {p \in Americanized(orig, corr) : p.american = corr[j].word}
     IN  IF of = {} THEN corr[j]
         ELSE [corr[j] EXCEPT !.word = (CHOOSE p \in of : TRUE).british, !.shape = Cased(@)]]

\* applyArticleFixes
ArticlesFixed(text) ==
  [i \in DOMAIN text |->
     IF /\ text[i].word = "a" /\ text[i].tail = <<>>
        /\ i < Len(text) /\ text[i + 1].word \in SilentH
     THEN [text[i] EXCEPT !.word = "an"] ELSE text[i]]

Rules == <<"agreement", "comma", "case", "contraction", "they", "modal", "dialect">>

\* All but the one of commas give back an answer that is the text.
Repaired(rule, orig, corr) ==
  IF rule = "comma" THEN CommaRepaired(orig, corr)
  ELSE IF orig = corr THEN corr
  ELSE CASE rule = "agreement" -> AgreementRepaired(orig, corr)
         [] rule = "case" -> CaseRepaired(orig, corr)
         [] rule = "contraction" -> ContractionRepaired(orig, corr)
         [] rule = "they" -> TheyRepaired(orig, corr)
         [] rule = "modal" -> ModalRepaired(orig, corr)
         [] rule = "dialect" -> DialectRepaired(orig, corr)

-----------------------------------------------------------------------------
(* The model: each piece of the text with what should become of it, what    *)
(* the model gives for it, and whether it changed it.                       *)

Marker == <<Token("marker", "lower", <<>>)>>

Init ==
  \E orig \in Texts, context \in BOOLEAN, escalated \in BOOLEAN :
    answer = [stage |-> "model", orig |-> orig, context |-> context, escalated |-> escalated,
              pieces |-> [i \in DOMAIN orig |->
                            [meant |-> <<orig[i]>>, given |-> <<orig[i]>>, by |-> "nobody"]],
              echoed |-> FALSE, cut |-> FALSE, raw |-> <<>>, given |-> <<>>, rule |-> 1,
              fired |-> {}]

Meant == FlattenSeq([i \in DOMAIN answer.pieces |-> answer.pieces[i].meant])
Given == FlattenSeq([i \in DOMAIN answer.pieces |-> answer.pieces[i].given])
Edited == {i \in DOMAIN answer.pieces : answer.pieces[i].by # "nobody"}
Piece(meant, given, by) == [meant |-> meant, given |-> given, by |-> by]

\* What the model makes of the tokens from..to of the text.
Edit(from, to, meant, given, by) ==
  /\ answer.stage = "model" /\ Cardinality(Edited) < MaxEdits
  /\ Edited \cap from..to = {}
  /\ answer' = [answer EXCEPT !.pieces =
                  [i \in DOMAIN @ |-> IF i = from THEN Piece(meant, given, by)
                                      ELSE IF i \in from..to THEN Piece(<<>>, <<>>, by) ELSE @[i]]]

At(i) == answer.orig[i]

\* A plural verb is right behind "or" and a plural.
VerbIsRight(i) ==
  /\ At(i).word \in DOMAIN Singular /\ i > 2 /\ At(i - 1).word \in Plurals
  /\ {"or", "nor"} \cap WordsOf(SubSeq(answer.orig, 1, i - 2)) # {}

\* So is a modal that ends a clause.
Correct(i) ==
  /\ ~VerbIsRight(i)
  /\ i \notin EndsClause(answer.orig)
  /\ \E c \in Corrections : c.of = At(i) /\ Edit(i, i, c.by, c.by, "rightly")

Instead(i, given, by) == Edit(i, i, <<At(i)>>, given, by)

Flip(i) ==
  /\ VerbIsRight(i)
  /\ Instead(i, <<[At(i) EXCEPT !.word = Singular[@]]>>, "flip")

BreakCase(i) ==
  \/ At(i).shape = "lower" /\ At(i).word # "" /\ Instead(i, <<[At(i) EXCEPT !.shape = "mid"]>>, "case")
  \/ At(i).shape = "title" /\ Instead(i, <<[At(i) EXCEPT !.shape = "upper"]>>, "case")

WriteOut(i) ==
  \E c \in Contractions :
    /\ At(i).word = c.short
    /\ Instead(i, [d \in DOMAIN c.long |->
                     Token(c.long[d], IF d = 1 THEN At(i).shape ELSE "lower",
                           IF d = Len(c.long) THEN At(i).tail ELSE <<>>)], "length")

Prescribe(i) ==
  \E p \in Pronouns :
    /\ At(i).word = p.they
    /\ Instead(i, <<Token(p.one, At(i).shape, <<>>), Token("or", "lower", <<>>),
                    Token(p.other, "lower", At(i).tail)>>, "length")

AddHave(i) ==
  /\ i \in EndsClause(answer.orig)
  /\ Instead(i, <<[At(i) EXCEPT !.tail = <<>>], Token("have", "lower", At(i).tail)>>, "length")

Americanize(i) ==
  \E p \in Lexicon : At(i).word = p.british /\ Instead(i, <<[At(i) EXCEPT !.word = p.american]>>, "spelling")

\* The capitals are right, the comma for the preposition is not; one more may be behind.
PutComma(i) ==
  /\ i + 2 <= Len(answer.orig) /\ At(i).tail = <<>> /\ At(i + 1).tail = <<>>
  /\ At(i + 1).word \in Range(Preps)
  /\ LET x == [At(i) EXCEPT !.shape = "title"]
         y == [At(i + 2) EXCEPT !.shape = "title"]
     IN  \E tail \in {y.tail, IF y.tail = <<>> THEN <<",">> ELSE y.tail} :
           Edit(i, i + 2, <<x, At(i + 1), y>>,
                <<[x EXCEPT !.tail = <<",">>], [y EXCEPT !.tail = tail]>>, "length")

\* The answer is in lines; the envelope of a context may be before it, once or
\* twice, and the end may be missing.
Reply ==
  /\ answer.stage = "model"
  /\ \E echo \in {<<>>, <<answer.orig, Marker>>, <<answer.orig, Marker, answer.orig, Marker>>},
        n \in {Len(Given), Len(Given) \div 3} :
       /\ echo # <<>> => answer.context
       /\ answer' = [answer EXCEPT !.stage = "guards", !.raw = Append(echo, SubSeq(Given, 1, n)),
                                   !.echoed = echo # <<>>, !.cut = n < Len(Given)]

-----------------------------------------------------------------------------
(* What is made of the answer. *)

Slip_NeverTruncated(orig, corrected) == FALSE
\* suspiciouslyTruncated
Truncated(orig, corrected) == Len(orig) >= MinLength /\ 2 * Len(corrected) < Len(orig)

Slip_FirstMarker(lines) ==
  LET markers == {i \in DOMAIN lines : lines[i] = Marker}
  IN  FlattenSeq(SubSeq(lines, IF markers = {} THEN 1 ELSE Min(markers) + 1, Len(lines)))
\* stripContextEcho: what is behind the last line that is the marker alone.
WithoutEcho(lines) ==
  LET markers == {i \in DOMAIN lines : lines[i] = Marker}
  IN  FlattenSeq(SubSeq(lines, IF markers = {} THEN 1 ELSE Max(markers) + 1, Len(lines)))

\* The length is looked at before the echo is taken off.
Guards ==
  /\ answer.stage = "guards"
  /\ answer' =
       IF Truncated(answer.orig, FlattenSeq(answer.raw)) THEN [answer EXCEPT !.stage = "discarded"]
       ELSE [answer EXCEPT !.stage = "rules",
                           !.given = IF answer.context THEN WithoutEcho(answer.raw)
                                     ELSE FlattenSeq(answer.raw)]

\* repairOverEdits, rule by rule.
RunRule ==
  /\ answer.stage = "rules" /\ answer.rule <= Len(Rules)
  /\ LET rule  == Rules[answer.rule]
         given == Repaired(rule, answer.orig, answer.given)
     IN  answer' = [answer EXCEPT !.given = given, !.rule = @ + 1,
                                  !.fired = IF given = answer.given THEN @ ELSE @ \cup {rule}]

\* Only what replaces the checkers' edits gets its articles fixed.
FixArticles ==
  /\ answer.stage = "rules" /\ answer.rule > Len(Rules)
  /\ answer' = [answer EXCEPT !.stage = "done",
                              !.given = IF answer.escalated THEN ArticlesFixed(@) ELSE @]

Next ==
  \/ \E i \in DOMAIN answer.orig :
       \/ Correct(i) \/ Flip(i) \/ BreakCase(i) \/ WriteOut(i) \/ Prescribe(i)
       \/ AddHave(i) \/ Americanize(i) \/ PutComma(i)
  \/ Reply \/ Guards \/ RunRule \/ FixArticles

Spec == Init /\ [][Next]_answer

-----------------------------------------------------------------------------

TypeOK ==
  /\ answer.stage \in {"model", "guards", "rules", "done", "discarded"}
  /\ answer.rule \in 1..(Len(Rules) + 1)
  /\ answer.fired \subseteq Range(Rules)
  /\ Cardinality(Edited) <= MaxEdits + 2 * MaxEdits

Changed(kinds) == {i \in Edited : answer.pieces[i].by \in kinds}
\* Up to the next words the model has left alone, but for their case.
Beside(i) ==
  {j \in DOMAIN answer.pieces \ {i} :
     \A k \in (i + 1)..(j - 1) \cup (j + 1)..(i - 1) : k \in Edited \ Changed({"case"})}
\* A word the model changed, or one it changed it to, is elsewhere in the text.
Recurs(i) ==
  \E j \in DOMAIN answer.orig \ {i} :
    answer.pieces[j].given # <<>> /\ At(j).word \in {At(i).word} \cup WordsOf(answer.pieces[i].given)

\* Repairs that compare tokens one by one lose their way where the model has
\* changed the number of tokens beside the one to repair, even by what a later
\* repair takes back, or a word for one that is there again.
Comparable ==
  Changed({"flip", "case"}) # {} =>
    /\ \A i \in Changed({"flip", "case"}) :
         \A j \in Beside(i) : Len(answer.pieces[j].given) = 1
    /\ \A i \in Edited \ Changed({"case"}) : ~Recurs(i)

\* A word the answer has in British spelling too is left in American.
BritishOnce ==
  \A i \in Changed({"spelling"}) :
    \A j \in DOMAIN answer.orig \ Changed({"spelling"}) : At(j).word # At(i).word

\* Whatever the model changes needlessly is as the user wrote it, and what it
\* corrects is corrected, next to each other in one answer.
RepairedIsMeant ==
  answer.stage = "done" /\ ~answer.cut /\ Comparable /\ BritishOnce =>
    answer.given = IF answer.escalated THEN ArticlesFixed(Meant) ELSE Meant

\* An answer that stops early does not delete most of a long text, unless an
\* echo before it made up for what is missing.
NoMassDeletion ==
  answer.stage = "done" /\ ~answer.echoed /\ Len(answer.orig) >= MinLength =>
    2 * Len(Last(answer.raw)) >= Len(answer.orig)
=============================================================================
