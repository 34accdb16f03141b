---------------------------- MODULE VencordComposer ----------------------------
(***************************************************************************)
(* The check loop of the Vencord plugin over Discord's composer:           *)
(* startOrchestrator (clients/vencord/src/orchestrator.ts).  Discord       *)
(* removes and re-inserts the composer, empties it without an input event  *)
(* when a message is sent, and the bridge answers a check by a fast frame  *)
(* and a final one.  Every attach makes a new FieldState; the closures of  *)
(* checks still out keep the state they began with, so states are counted  *)
(* and live on after detach.                                               *)
(*                                                                         *)
(* A check carries cur, which says that its seq is still its state's       *)
(* checkSeq.  Rectangles, the pill, the panel and the dismissal of a       *)
(* suggestion are left out.                                                *)
(***************************************************************************)
EXTENDS Naturals, FiniteSets

CONSTANTS
  Drafts,     \* texts other than the empty one
  Blank,
  None,       \* no question
  MaxStates,  \* bound on the attaches of a behaviour
  MaxSteps,   \* bound on the checks started in a behaviour
  MaxFlying   \* bound on the unanswered checks

VARIABLE composer

Texts == Drafts \cup {Blank}
States == 1..MaxStates

\* What the theorems assume of the constants.
Constants == MaxStates \in Nat /\ None \notin Texts

Check == [st: States, text: Texts, cur: BOOLEAN, previewed: BOOLEAN]

TypeOK ==
  composer \in
    [text: Texts,                           \* the composer's text
     connected: BOOLEAN,                    \* el.isConnected
     made: 0..MaxStates,                    \* FieldStates made; the last is the live one
     attached: BOOLEAN,                     \* whether it is in fields
     paused: BOOLEAN,
     shown: [States -> Texts \cup {None}],  \* items: the question they answer
     phase: [States -> {"fast", "done"}],
     scanline: [States -> BOOLEAN],
     debounce: BOOLEAN, grace: BOOLEAN, settle: BOOLEAN,  \* timers of the live state
     checks: SUBSET Check,
     started: 0..MaxSteps,
     settled: BOOLEAN]                      \* history: settled as empty, and nothing asked since

Init ==
  \E text \in Texts :
    composer = [text |-> text, connected |-> TRUE, made |-> 0, attached |-> FALSE, paused |-> FALSE,
                shown |-> [s \in States |-> None], phase |-> [s \in States |-> "done"],
                scanline |-> [s \in States |-> FALSE],
                debounce |-> FALSE, grace |-> FALSE, settle |-> FALSE,
                checks |-> {}, started |-> 0, settled |-> FALSE]

-----------------------------------------------------------------------------
(* What handlers are composed of.  Slip_... definitions are slips the      *)
(* definition after them could have; nothing uses them.                    *)

live == composer.made

\* checkSeq of a state is bumped.
Stale(checks, s) == {IF r.st = s THEN [r EXCEPT !.cur = FALSE] ELSE r : r \in checks}

\* renderField, as far as the scan-line goes: it is there in the fast phase.
Render(c, s) == [c EXCEPT !.scanline[s] = c.phase[s] = "fast"]

\* Items are replaced, and the field is drawn in the phase.
Show(c, s, question, phase) ==
  Render([c EXCEPT !.shown[s] = question, !.phase[s] = phase], s)

StopTimers(c) == [c EXCEPT !.debounce = FALSE, !.grace = FALSE]

\* rerunFor(el)(text), for the state that is live now.
Rerun(c, text) ==
  IF ~c.attached \/ c.paused THEN c
  ELSE IF ~c.connected THEN Show(c, live, None, "done")
  ELSE [c EXCEPT
          !.checks = Stale(@, live) \cup
                     {[st |-> live, text |-> text, cur |-> TRUE, previewed |-> FALSE]},
          !.started = @ + 1, !.settled = FALSE]

Bounded(c) == c.started <= MaxSteps /\ Cardinality(c.checks) <= MaxFlying

Step(c) == Bounded(c) /\ composer' = c

-----------------------------------------------------------------------------
(* The composer comes and goes. *)

Attach ==
  /\ ~composer.attached /\ composer.connected /\ live < MaxStates
  /\ Step([composer EXCEPT !.made = @ + 1, !.attached = TRUE, !.settled = FALSE])

\* The field observer saw it go.  Checks of the state are not stopped.
Detach ==
  /\ composer.attached /\ ~composer.connected
  /\ Step([StopTimers(composer) EXCEPT !.attached = FALSE, !.settle = FALSE, !.settled = FALSE,
                                       !.shown[live] = None, !.scanline[live] = FALSE])

Reconnect == Step([composer EXCEPT !.connected = ~@])

-----------------------------------------------------------------------------
(* The user. *)

\* onInputEvent: what an edit does to timers and items, by inputGate's decision.
Edited(c, decision, kept) ==
  CASE decision = "check" -> [c EXCEPT !.debounce = TRUE, !.grace = FALSE, !.shown[live] = kept]
    [] decision = "grace" -> [c EXCEPT !.debounce = FALSE, !.grace = TRUE]
    [] decision = "skip"  -> StopTimers(c)

\* Items that end before the caret are kept.
Type ==
  \E text \in Texts, decision \in {"check", "grace", "skip"} :
    /\ text # composer.text
    /\ LET c == [composer EXCEPT !.text = text]
       IN  IF ~c.attached \/ c.paused THEN Step(c)
           ELSE \E kept \in {c.shown[live], None} :
                  Step(Edited([c EXCEPT !.settled = FALSE], decision, kept))

\* onFieldPaste: a grace period if pastes are checked; else no check.
Paste ==
  /\ composer.attached /\ ~composer.paused
  /\ \E checked \in BOOLEAN : Step([StopTimers(composer) EXCEPT !.grace = checked])

\* Enter: a look at the composer in 150 ms.
Enter == composer.attached /\ Step([composer EXCEPT !.settle = TRUE])

\* Discord sends the message: no input event.
Send == composer.text # Blank /\ Step([composer EXCEPT !.text = Blank])

Blur ==
  /\ composer.attached
  /\ Step([composer EXCEPT !.shown[live] = None, !.phase[live] = "done", !.scanline[live] = FALSE])

\* Checks under way go on.  Resuming checks the focused composer at once.
TogglePause ==
  LET c == [composer EXCEPT !.paused = ~@]
      bare == IF c.attached THEN Show(c, live, None, "done") ELSE c
  IN  Step(bare) \/ (~c.paused /\ Step(Rerun(bare, bare.text)))

\* The pill's and the panel's recheck, and what follows every applied item.
Recheck ==
  /\ composer.attached
  /\ \E text \in IF composer.shown[live] = None THEN {composer.text} ELSE Texts :
       Step(Rerun([composer EXCEPT !.text = text], text))

-----------------------------------------------------------------------------
(* Timers. *)

DebounceIsOver ==
  composer.debounce /\ Step(Rerun([composer EXCEPT !.debounce = FALSE], composer.text))

GraceIsOver ==
  composer.grace /\ Step(Rerun([composer EXCEPT !.grace = FALSE], composer.text))

Slip_SettleKeepsSeq ==
  /\ composer.settle
  /\ LET c == [composer EXCEPT !.settle = FALSE]
     IN  IF ~c.connected \/ c.text # Blank THEN Step(c)
         ELSE Step(Show([StopTimers(c) EXCEPT !.settled = TRUE], live, None, "done"))

\* The composer was emptied by sending: nothing of the message stays.
SettleIsOver ==
  /\ composer.settle
  /\ LET c == [composer EXCEPT !.settle = FALSE]
     IN  IF ~c.connected \/ c.text # Blank THEN Step(c)
         ELSE Step(Show([StopTimers(c) EXCEPT !.checks = Stale(@, live), !.settled = TRUE],
                        live, None, "done"))

-----------------------------------------------------------------------------
(* Answers. *)

Without(r) == [composer EXCEPT !.checks = @ \ {r}]

\* A frame is drawn for the latest check of its state; it may hold no items.
Frame(c, r, phase) ==
  IF r.cur THEN \E question \in {r.text, None} : Step(Show(c, r.st, question, phase))
  ELSE Step(c)

Fast(r) ==
  /\ ~r.previewed
  /\ Frame([Without(r) EXCEPT !.checks = @ \cup {[r EXCEPT !.previewed = TRUE]}], r, "fast")

Final(r) == Frame(Without(r), r, "done")

Fails(r) == Step(IF r.cur THEN Show(Without(r), r.st, None, "done") ELSE Without(r))

Next ==
  \/ Attach \/ Detach \/ Reconnect
  \/ Type \/ Paste \/ Enter \/ Send \/ Blur \/ TogglePause \/ Recheck
  \/ DebounceIsOver \/ GraceIsOver \/ SettleIsOver
  \/ \E r \in composer.checks : Fast(r) \/ Final(r) \/ Fails(r)

Spec == Init /\ [][Next]_composer

-----------------------------------------------------------------------------
(* Safety. *)

\* Once the settle timer found the composer empty, no late frame of a check of
\* the sent message brings its suggestions back; only the user does.
SettledStaysClean ==
  composer.settled => composer.shown[live] = None /\ ~composer.scanline[live]

\* The scan-line sweeps only while an answer is out that will end it: whatever
\* the check is overtaken by, and whether its field is still there, none stays.
ScanlineEnds ==
  \A s \in States : composer.scanline[s] =>
    composer.phase[s] = "fast" /\ \E r \in composer.checks : r.st = s /\ r.cur

\* The checks of one state, as any client promises them.
Latest(s) == INSTANCE LatestCheck WITH
  pending <- LET heard == {r \in composer.checks : r.st = s /\ r.cur}
             IN  IF heard = {} THEN None ELSE (CHOOSE r \in heard : TRUE).text,
  shown   <- composer.shown[s]

LatestInit == \A s \in States : Latest(s)!Init
LatestStep == \A s \in States : Latest(s)!Step
=============================================================================
