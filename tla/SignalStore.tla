----------------------------- MODULE SignalStore -----------------------------
(***************************************************************************)
(* The bridge's log of corrections and reactions (bridge/internal/store/   *)
(* sqlite.go): LogCorrection, LogSignal, the aggregates SignalRates and    *)
(* PersonalizationExamples, the streak of CountStatsExtended, and          *)
(* PruneOlderThan, which main.go runs at every start before anything is    *)
(* logged and whose failure it only reports.  The process may end at any   *)
(* moment.  LogCorrection is a transaction: cut short, it leaves nothing.  *)
(*                                                                         *)
(* Rows carry log, a serial of the correction they were made for, which    *)
(* the database does not have: ids of deleted rows are given out again.    *)
(* Of an edit only its pair is kept, the words it replaces and by what,    *)
(* which its span gives in the text of its own correction.                 *)
(***************************************************************************)
EXTENDS Integers, Sequences, SequencesExt, FiniteSetsExt

CONSTANTS
  Pairs,      \* what edits replace, and by what
  Junk,       \* what a span gives in another text
  Retention,  \* retention in days; 0 keeps everything
  MinCount,   \* how many dismissals make a pattern
  Cap,        \* how many pairs of each kind are returned
  MaxLogs,    \* bound on the corrections logged
  MaxSignals, \* bound on the reactions recorded
  MaxDay,     \* bound on the days
  MaxStops    \* bound on the ends of the process

VARIABLE db

Signals == {"accepted", "rejected", "ignored"}
Edit == [id: Nat, parent: Nat, log: 1..MaxLogs, pair: Pairs,
         signal: Signals \cup {"none"}, at: 0..MaxSignals]

Distinct(rows) == \A r, s \in rows : r.id = s.id => r = s

TypeOK ==
  /\ db.corrections \subseteq [id: Nat, day: 0..MaxDay, log: 1..MaxLogs] /\ Distinct(db.corrections)
  /\ db.edits \subseteq Edit /\ Distinct(db.edits)
  /\ db.mode \in {"down", "opened", "pruned", "serving"}
  /\ db.day \in 0..MaxDay /\ db.logs \in 0..MaxLogs
  /\ db.recorded \in 0..MaxSignals /\ db.stops \in 0..MaxStops

Init ==
  db = [corrections |-> {}, edits |-> {},
        mode |-> "opened",    \* pruned: the corrections are, their edits not yet
        day |-> 0, logs |-> 0, recorded |-> 0, stops |-> 0,
        offered |-> {},       \* the edits whose ids clients hold
        reacted |-> {},       \* history: the last reaction to each edit, and when
        deleted |-> FALSE,    \* history: a row was pruned
        failed |-> FALSE,     \* history: a statement of a prune failed
        strayed |-> FALSE]    \* history: a reaction changed an edit it was not about,
                              \* or one without its correction

-----------------------------------------------------------------------------
(* Slip_... definitions are slips the definition after them could have;    *)
(* nothing uses them.                                                      *)

\* The id SQLite gives a row of a table without AUTOINCREMENT.
NextId(rows) == Max({0} \cup {r.id : r \in rows}) + 1

Parents(e) == {c \in db.corrections : c.id = e.parent}
Own(e) == \E c \in Parents(e) : c.log = e.log

LogCorrection ==
  /\ db.mode = "serving" /\ db.logs < MaxLogs
  /\ \E pairs \in UNION {[1..n -> Pairs] : n \in 1..2} :
       LET log == db.logs + 1
           id  == NextId(db.corrections)
           new == {[id |-> NextId(db.edits) + i - 1, parent |-> id, log |-> log, pair |-> pairs[i],
                    signal |-> "none", at |-> 0] : i \in DOMAIN pairs}
       IN  db' = [db EXCEPT !.corrections = @ \cup {[id |-> id, day |-> db.day, log |-> log]},
                            !.edits = @ \cup new, !.logs = log,
                            !.offered = @ \cup {[id |-> e.id, log |-> log] : e \in new}]

Slip_EditsOf(id) == {e \in db.edits : e.parent = id}

\* The row that UPDATE finds, if any.
Hit(id) == {e \in db.edits : e.id = id}

\* The history of reactions once there is one more.
WithReaction(edit, signal, at) ==
  {x \in db.reacted : x.id # edit.id \/ x.log # edit.log}
    \cup {[id |-> edit.id, log |-> edit.log, signal |-> signal, at |-> at]}

Slip_FirstStays ==
  \E edit \in db.offered, signal \in Signals :
    LET hit   == Hit(edit.id)
        fresh == {e \in hit : e.signal = "none"}
    IN  /\ db.mode = "serving" /\ hit # {} /\ db.recorded < MaxSignals
        /\ db' = [db EXCEPT
             !.edits = (@ \ fresh) \cup {[e EXCEPT !.signal = signal, !.at = db.recorded + 1] : e \in fresh},
             !.recorded = @ + 1, !.reacted = WithReaction(edit, signal, db.recorded + 1),
             !.strayed = @ \/ \E e \in hit : e.log # edit.log \/ ~Own(e)]

\* An id that no row has changes nothing.
LogSignal ==
  \E edit \in db.offered, signal \in Signals :
    LET hit == Hit(edit.id)
    IN  /\ db.mode = "serving" /\ hit # {} /\ db.recorded < MaxSignals
        /\ db' = [db EXCEPT
             !.edits = (@ \ hit) \cup {[e EXCEPT !.signal = signal, !.at = db.recorded + 1] : e \in hit},
             !.recorded = @ + 1, !.reacted = WithReaction(edit, signal, db.recorded + 1),
             !.strayed = @ \/ \E e \in hit : e.log # edit.log \/ ~Own(e)]

-----------------------------------------------------------------------------
(* What is read. *)

Rate(signal) == Cardinality({e \in db.edits : e.signal = signal})
SignalRates == [accepted |-> Rate("accepted"), rejected |-> Rate("rejected")]

\* The pair of an edit, in the text its correction_id names now.
PairOf(e) == IF Own(e) THEN e.pair ELSE Junk

\* What pairs are learned from.
Learned(signals) ==
  {[id |-> e.id, pair |-> PairOf(e), at |-> e.at] :
     e \in {e \in db.edits : e.signal \in signals /\ Parents(e) # {}}}

\* orderAndCapPairs: the latest first, patterns only.
Ranked(learned, least) ==
  LET Of(p)   == {e \in learned : e.pair = p}
      counted == {p \in {e.pair : e \in learned} : Cardinality(Of(p)) >= least}
      Latest(p) == Max({e.at : e \in Of(p)})
      ranked  == SetToSortSeq(counted, LAMBDA p, q : Latest(p) > Latest(q))
  IN  SubSeq(ranked, 1, Min({Cap, Len(ranked)}))

PersonalizationExamples ==
  [accepted |-> Ranked(Learned({"accepted"}), 1),
   rejected |-> Ranked(Learned({"rejected", "ignored"}), MinCount)]

Slip_GapsCount(days) ==
  LET walk == SetToSortSeq(days, LAMBDA x, y : x > y)
  IN  Cardinality({i \in DOMAIN walk : db.day - walk[i] <= Len(walk)})

\* The walk of CountStatsExtended over the days, latest first: it ends at the
\* first one that is not as many days ago as were counted.
Streak(days) ==
  LET walk == SetToSortSeq(days, LAMBDA x, y : x > y)
      counted[i \in 0..Len(walk)] ==
        IF i = 0 THEN 0
        ELSE IF counted[i - 1] = i - 1 /\ db.day - walk[i] \in {0, i - 1} THEN i
        ELSE counted[i - 1]
  IN  counted[Len(walk)]

Active == {c.day : c \in db.corrections}

-----------------------------------------------------------------------------
(* The process, and its retention. *)

DayPasses == db.day < MaxDay /\ db' = [db EXCEPT !.day = @ + 1]

Stop ==
  db.mode # "down" /\ db.stops < MaxStops /\ db' = [db EXCEPT !.mode = "down", !.stops = @ + 1]

Open == db.mode = "down" /\ db' = [db EXCEPT !.mode = "opened"]

Serve(d) == [d EXCEPT !.mode = "serving"]

\* A statement fails, and main.go warns and serves; or pruning is off.
PruneFails ==
  /\ db.mode \in {"opened", "pruned"}
  /\ db' = Serve([db EXCEPT !.failed = @ \/ Retention > 0])

Slip_ByAgeAlone == {c \in db.corrections : c.day < db.day - Retention}

\* Old, and nobody reacted to any edit of it.
Expired ==
  {c \in db.corrections :
     /\ c.day < db.day - Retention
     /\ ~\E e \in db.edits : e.parent = c.id /\ e.signal # "none"}

Slip_NothingToDo ==
  /\ db.mode = "opened" /\ Retention > 0
  /\ db' = IF Expired = {} THEN Serve(db)
           ELSE [db EXCEPT !.corrections = @ \ Expired, !.mode = "pruned",
                           !.deleted = TRUE]

PruneCorrections ==
  /\ db.mode = "opened" /\ Retention > 0
  /\ db' = [db EXCEPT !.corrections = @ \ Expired, !.mode = "pruned",
                      !.deleted = @ \/ Expired # {}]

PruneEdits ==
  /\ db.mode = "pruned"
  /\ db' = Serve([db EXCEPT !.edits = {e \in @ : Parents(e) # {}}])

Next ==
  \/ LogCorrection \/ LogSignal
  \/ DayPasses \/ Stop \/ Open
  \/ PruneFails \/ PruneCorrections \/ PruneEdits

Spec == Init /\ [][Next]_db

-----------------------------------------------------------------------------
(* Safety. *)

\* What the caches learn from changes by reactions alone: neither pruning, cut
\* short anywhere, nor a restart, nor what is logged, takes or adds any.
LearnedIsKept ==
  db'.recorded = db.recorded /\ ~db.strayed =>
    SignalRates' = SignalRates /\ PersonalizationExamples' = PersonalizationExamples

\* A prune that a crash cut in two is made whole by the next start before
\* anything is logged: unless one failed, every edit has its own correction.
EditsHaveTheirs == db.mode = "serving" /\ ~db.failed => \A e \in db.edits : Own(e)

\* Reactions reach the edit they are about, or none, as long as nothing was
\* pruned; a row's id is given out again only after that.
ReactionsArrive == db.strayed => db.deleted

\* Of several reactions to one edit the last counts, once and for good: what
\* rates and pairs are read from is the last reaction to each edit, through
\* prunes, crashes and restarts, until a reaction strays.
LastReactionCounts ==
  ~db.strayed =>
    {[id |-> e.id, log |-> e.log, signal |-> e.signal, at |-> e.at] :
       e \in {e \in db.edits : e.signal # "none"}} = db.reacted

\* The streak counts the days up to today without a gap.
StreakIsRight ==
  LET streak == Streak(Active)
  IN  /\ \A n \in 0..(streak - 1) : db.day - n \in Active
      /\ db.day - streak \notin Active
=============================================================================
