------------------------------- MODULE ModelAnswer -------------------------------
(***************************************************************************)
(* What the bridge asks the language model of a sentence, and makes of its *)
(* answers: correctOnce, llmOnlySuggestions, tryNBestEscalation and        *)
(* tryNBestLLMOnly (bridge/internal/correction/service.go), with           *)
(* ShouldEscalate (routing.go) and MajorityEdits (nbest.go), and CompleteN *)
(* of the client (llm/client.go).  The model may be asked for several      *)
(* candidates, of which the edits most agree on are kept; when one is      *)
(* missing it is asked once more for a single one.  Edits of the fast      *)
(* checkers may be added beside the model's.                               *)
(*                                                                         *)
(* A candidate is the set of edits its text comes to, after trimming,      *)
(* repairs and the diff, or it is dropped: not answered, empty or cut off. *)
(* The style pass and what follows are in StagedCheck.                     *)
(***************************************************************************)
EXTENDS Integers, Sequences, FiniteSets, FiniteSetsExt

CONSTANTS
  Text,      \* a sequence of characters
  Diffs,     \* what a candidate may come to: sets of edits apart
  Finds,     \* what the fast checkers may find
  Ns,        \* numbers of candidates asked for; 1 is no vote
  Modes,     \* of merging: "off", "gector", "all", "gector-word", "all-word"
  Policies   \* of escalation

VARIABLE answer

Floor == 2  \* MinConfidence; scores are below it or reach it

Specific == {"spelling", "punctuation", "typography"}
Edit == [start: 0..Len(Text), end: 0..Len(Text), by: STRING, model: {"llm", "harper", "gector"},
         category: Specific \cup {"grammar"}, score: 0..Floor]

Overlaps(a, b) == a.start < b.end /\ b.start < a.end
Apart(edits) == \A d, e \in edits : d = e \/ ~Overlaps(d, e)

\* The diff of the grammar path gives every edit of the model the same category and score.
Constants ==
  /\ Text \in Seq(STRING) /\ Ns \subseteq Nat
  /\ \A edits \in Diffs \cup Finds : edits \subseteq Edit /\ Apart(edits) /\ \A e \in edits : e.start <= e.end
  /\ \A diff \in Diffs : \A e \in diff : e.model = "llm" /\ e.category = "grammar" /\ e.score = 0
  /\ \A fast \in Finds : \A e \in fast : e.model # "llm"

TypeOK ==
  /\ answer.stage \in {"routing", "asking", "single", "given", "error"}
  /\ answer.given \subseteq Edit
  /\ Len(answer.heard) <= answer.asked /\ answer.asked <= answer.n

Init ==
  \E alone \in BOOLEAN, fast \in Finds, n \in Ns, mode \in Modes :
    /\ alone => fast = {}
    /\ answer = [alone |-> alone,       \* no fast checker is configured
                 fast |-> fast, n |-> n, mode |-> mode,
                 stage |-> "routing",
                 asked |-> 0,           \* candidates asked for
                 heard |-> <<>>,        \* and those that were not dropped
                 given |-> {},
                 served |-> {},         \* history: the policy under which the model was not asked
                 by |-> "nobody"]       \* history: what the answer was made of

-----------------------------------------------------------------------------
(* Routing.  Slip_... definitions are slips the definition after them      *)
(* could have; nothing uses them.                                          *)

\* isCategoryTrusted: grammar never is.
Trusted(e, policy) == e.category # "grammar" /\ e.category \in policy.trusted

Slip_AnySure(fast, policy) == policy.calibrated /\ fast \subseteq policy.sure

\* Every edit is sure by what users accepted, and none is of grammar.
AllSure(fast, policy) ==
  policy.calibrated /\ \A e \in fast : e.category # "grammar" /\ e \in policy.sure

ShouldEscalate(fast, policy) ==
  LET gector == {e \in fast : e.model = "gector"}
      pool   == IF gector = {} THEN fast ELSE gector
  IN  \/ policy.long
      \/ fast = {} /\ policy.nonTrivial
      \/ /\ fast # {} /\ policy.onFastEdit /\ ~AllSure(fast, policy)
         /\ ~(policy.trusted # {} /\ \A e \in fast : Trusted(e, policy))
      \/ /\ fast # {}
         /\ policy.onFastEdit => (policy.trusted # {} /\ \A e \in fast : Trusted(e, policy))
         /\ \A e \in pool : e.score < Floor

-----------------------------------------------------------------------------
(* Votes, and the merging of edits. *)

Slip_Half(n) == n \div 2

\* A strict majority.
Quorum(n) == n \div 2 + 1

\* MajorityEdits: what enough candidates propose, the same to the letter.
MajorityEdits(candidates) ==
  {e \in UNION {candidates[i] : i \in DOMAIN candidates} :
     Cardinality({i \in DOMAIN candidates : e \in candidates[i]}) >= Quorum(Len(candidates))}

SpansConflict(a, b) == a.start <= b.end /\ b.start <= a.end

IsSpace(i) == i \in DOMAIN Text /\ Text[i] = " "

\* ExpandToWordBoundaries.
WordStart(at) == Max({i \in 0..at : i = 0 \/ IsSpace(i)})
WordEnd(at) == Min({i \in at..Len(Text) : i = Len(Text) \/ IsSpace(i + 1)})

Slip_Narrow(e) == [start |-> WordStart(e.start), end |-> WordEnd(e.end)]

\* wordZone: an insertion claims the characters around it.
WordZone(e) ==
  LET start == IF e.start = e.end /\ e.start > 0 THEN e.start - 1 ELSE e.start
      end   == IF e.start = e.end /\ e.end < Len(Text) THEN e.end + 1 ELSE e.end
  IN  [start |-> WordStart(start), end |-> WordEnd(end)]

WordZonesConflict(a, b) == Overlaps(WordZone(a), WordZone(b))

\* propagateFastCategories: an edit of the model takes the category of one it covers.
WithCategories(llm, fast) ==
  {LET of == {f \in fast : f.category # "grammar" /\ Overlaps(e, f)}
   IN  IF of = {} THEN e
       ELSE [e EXCEPT !.category = (CHOOSE f \in of : \A g \in of : f.start <= g.start).category]
   : e \in llm}

\* mergeNonConflictingFastEdits
WithFast(llm, fast, mode) ==
  LET Clash(f, e) == IF mode \in {"gector-word", "all-word"} THEN WordZonesConflict(f, e)
                     ELSE SpansConflict(f, e)
  IN  IF mode = "off" THEN llm
      ELSE llm \cup {f \in fast : /\ mode \in {"gector", "gector-word"} => f.model = "gector"
                                  /\ \A e \in llm : ~Clash(f, e)}

-----------------------------------------------------------------------------

Give(edits, by) == [answer EXCEPT !.stage = "given", !.given = edits, !.by = by]

\* The escalation policy decides; without fast checkers the model is always asked.
Route ==
  /\ answer.stage = "routing"
  /\ \E policy \in Policies :
       answer' = IF answer.alone \/ ShouldEscalate(answer.fast, policy)
                 THEN [answer EXCEPT !.stage = IF answer.n >= 2 THEN "asking" ELSE "single"]
                 ELSE [Give(answer.fast, "fast") EXCEPT !.served = {policy}]

\* CompleteN: a candidate, or none.
Hear ==
  /\ answer.stage = "asking" /\ answer.asked < answer.n
  /\ \/ \E diff \in Diffs :
          answer' = [answer EXCEPT !.asked = @ + 1, !.heard = Append(@, diff)]
     \/ answer' = [answer EXCEPT !.asked = @ + 1]

Slip_AnyHeard(a) == a.heard # <<>>

Enough(a) == Len(a.heard) >= a.n

Merged(llm) == WithFast(WithCategories(llm, answer.fast), answer.fast, answer.mode)

\* The semantic verifier compares the text the votes come to with the original.
Vote ==
  /\ answer.stage = "asking" /\ answer.asked = answer.n /\ Enough(answer)
  /\ LET votes == MajorityEdits(answer.heard)
     IN  \/ answer' = Give(Merged(votes), "vote")
         \/ votes # {} /\ answer' = Give(answer.fast, "rejected")

\* Too few: the model is asked once more, for a single one.
FallShort ==
  /\ answer.stage = "asking" /\ answer.asked = answer.n /\ ~Enough(answer)
  /\ answer' = [answer EXCEPT !.stage = "single"]

Single ==
  /\ answer.stage = "single"
  /\ \/ \E diff \in Diffs : \/ answer' = Give(Merged(diff), "single")
                            \/ diff # {} /\ answer' = Give(answer.fast, "rejected")
     \/ ~answer.alone /\ answer' = Give(answer.fast, "failed")
     \/ answer.alone /\ answer' = [answer EXCEPT !.stage = "error"]

Next == Route \/ Hear \/ Vote \/ FallShort \/ Single

Spec == Init /\ [][Next]_answer

-----------------------------------------------------------------------------
(* Safety. *)

OfModel == {e \in answer.given : e.model = "llm"}

\* What is given can be applied together, though the edits of a vote need not all
\* be of one candidate, and others may be added: no two of them overlap.
GivenIsApart == Apart(answer.given)

\* A vote is of as many candidates as were asked for.  An edit it gives was proposed by
\* more than half of them, and one that all propose is given.
VotesAreOfMost ==
  answer.by = "vote" =>
    LET Same(d, e) == <<d.start, d.end, d.by>> = <<e.start, e.end, e.by>>
        Voters(e)  == {i \in DOMAIN answer.heard : \E d \in answer.heard[i] : Same(d, e)}
    IN  /\ \A e \in OfModel : 2 * Cardinality(Voters(e)) > answer.n
        /\ \A e \in UNION {answer.heard[i] : i \in DOMAIN answer.heard} :
             Cardinality(Voters(e)) = answer.n => \E d \in OfModel : Same(d, e)

Words == {w \in [start: 0..Len(Text), end: 0..Len(Text)] :
            /\ w.start < w.end
            /\ \A i \in w.start + 1..w.end : ~IsSpace(i)
            /\ w.start = 0 \/ IsSpace(w.start)
            /\ w.end = Len(Text) \/ IsSpace(w.end + 1)}

\* The words an edit changes or touches; an insertion also touches those a space away,
\* as the model may insert before that space what a checker inserts behind it.
WordsOf(e) ==
  LET away == IF e.start = e.end THEN 1 ELSE 0
  IN  {w \in Words : w.start <= e.end + away /\ e.start - away <= w.end}

\* Where edits are merged by words, no word has edits of a fast checker and of the model;
\* otherwise none of one touches one of the other.
WordsAreTheModels ==
  answer.by \in {"vote", "single"} =>
    \A e \in OfModel, f \in answer.given \ OfModel :
      IF answer.mode \in {"all-word", "gector-word"} THEN WordsOf(e) \cap WordsOf(f) = {}
      ELSE ~SpansConflict(e, f)

\* An edit of grammar by a fast checker is not served unseen by the model, if any edit of
\* theirs is to be judged, whatever is trusted and however sure it is.
GrammarIsJudged ==
  \A policy \in answer.served :
    policy.onFastEdit => \A e \in answer.given : e.category # "grammar"
=============================================================================
