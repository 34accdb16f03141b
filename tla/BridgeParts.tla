------------------------------ MODULE BridgeParts ------------------------------
(***************************************************************************)
(* The way to the bridge, and its parts beside the check itself: requests  *)
(* go through the browser's worker; a streamed check, what is made of the  *)
(* model's candidates, its other services, and the log of what was         *)
(* suggested and what became of it.  The parts share no state with each    *)
(* other; which one a behaviour is of is chosen at its start, and state is *)
(* that part's state.                                                      *)
(***************************************************************************)
EXTENDS Naturals

CONSTANTS
  None,    \* no field, no question, no item, no prompt, no pair
  Fields,  \* the fields of a page; the ids of requests; what edits replace, and by what
  Bridge,  \* what it is asked, what is found, and how it is set up
  Bound    \* what bounds each part

VARIABLES part, state

Relay == INSTANCE BridgeRelay WITH
  relay <- state, Ids <- Fields, MaxDeaths <- Bound.relay.deaths

Staged == INSTANCE StagedCheck WITH
  staged <- state, Fasts <- Bridge.staged.fasts, Finds <- Bridge.staged.finds,
  Diffs <- Bridge.staged.diffs, Words <- Bridge.staged.words, Pairs <- Bridge.staged.pairs,
  Modes <- Bridge.staged.modes

Services == INSTANCE TextServices WITH
  services <- state, Requests <- Bridge.services.requests, Asks <- Bridge.services.asks,
  Setups <- Bridge.services.setups, CacheSize <- Bridge.services.cacheSize

Answers == INSTANCE ModelAnswer WITH
  answer <- state, Text <- Bridge.answers.text, Diffs <- Bridge.answers.diffs,
  Finds <- Bridge.answers.finds, Ns <- Bridge.answers.ns, Modes <- Bridge.answers.modes,
  Policies <- Bridge.answers.policies

Store == INSTANCE SignalStore WITH
  db <- state, Pairs <- Fields, Junk <- None, Retention <- Bridge.store.retention,
  MinCount <- Bridge.store.minCount, Cap <- Bridge.store.cap, MaxLogs <- Bound.store.logs,
  MaxSignals <- Bound.store.signals, MaxDay <- Bound.store.days, MaxStops <- Bound.store.stops

ASSUME ServicesAssumption == Services!Constants
ASSUME AnswersAssumption == Answers!Constants

BridgeInit ==
  \/ part = "relay" /\ Relay!Init
  \/ part = "staged" /\ Staged!Init
  \/ part = "services" /\ Services!Init
  \/ part = "answers" /\ Answers!Init
  \/ part = "store" /\ Store!Init

BridgeNext ==
  /\ \/ part = "relay" /\ Relay!Next
     \/ part = "staged" /\ Staged!Next
     \/ part = "services" /\ Services!Next
     \/ part = "answers" /\ Answers!Next
     \/ part = "store" /\ Store!Next
  /\ UNCHANGED part

BridgeWork == BridgeInit /\ [][BridgeNext]_<<part, state>>

-----------------------------------------------------------------------------

BridgeTypesOK ==
  /\ part = "relay" => Relay!TypeOK
  /\ part = "staged" => Staged!TypeOK
  /\ part = "services" => Services!TypeOK
  /\ part = "answers" => Answers!TypeOK
  /\ part = "store" => Store!TypeOK

\* Browser: no fetch outlives its caller unnoticed, and no caller its fetch.
\* Bridge: a stream ends with one answer, or an error, and nothing after it; and
\* what a request for a rephrasing, for tones or a continuation is answered with
\* was said of its own text by the model it was to have, now or remembered. What
\* is made of the model's candidates is apart and of most of them, and no checker's
\* edit of grammar is served unjudged.
RequestsAccounted ==
  /\ part = "relay" => Relay!NoOrphanFetch /\ Relay!CallsAreHeard
  /\ part = "staged" => Staged!OneAnswer
  /\ part = "services" => Services!RememberedWasSaid /\ Services!AnswersWereSaid
  /\ part = "answers" =>
       /\ Answers!GivenIsApart /\ Answers!VotesAreOfMost
       /\ Answers!WordsAreTheModels /\ Answers!GrammarIsJudged

\* Bridge: the log gives the caches what reactions alone made, whatever a prune
\* cut short or a restart does; and reactions reach their edits, each with its
\* own correction, until ids are reused: of several to one edit the last counts.
LogIsSound ==
  /\ [](part = "store" =>
          Store!EditsHaveTheirs /\ Store!ReactionsArrive /\ Store!LastReactionCounts)
  /\ [][part = "store" => Store!LearnedIsKept]_<<part, state>>
=============================================================================
