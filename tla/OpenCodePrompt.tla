---------------------------- MODULE OpenCodePrompt ----------------------------
(***************************************************************************)
(* The OpenCode plugin: mountOrchestrator (clients/opencode/src/           *)
(* orchestrator.ts) with the details panel's state (details-state.ts).     *)
(* One prompt is live at a time; checks, rephrasings and completions of it *)
(* overlap, and each is guarded by a counter and by tests of its own.      *)
(*                                                                         *)
(* Handlers are operators from a state to a state, composed as the code    *)
(* calls them.  A request carries cur, which says that the counter it      *)
(* captured is still the counter's value.  Of suggestions only how many    *)
(* there are matters; offsets, wording and the logged are left out.        *)
(***************************************************************************)
EXTENDS Naturals, FiniteSets

CONSTANTS
  Refs,       \* prompt instances of the host; a route change swaps them
  NoRef,
  Drafts,     \* texts other than the empty one
  Blank,      \* the empty text, also the initial checkedText
  Nothing,    \* no rephrasing, no ghost, no completion timer
  MaxItems,   \* bound on the suggestions of an answer
  MaxEdits,   \* bound on the changes of a text in a behaviour
  MaxSwaps,   \* bound on the prompt swaps of a behaviour
  MaxFlying   \* bound on the unanswered requests

VARIABLE prompt

Texts == Drafts \cup {Blank}
Request == [ref: Refs, text: Drafts, cur: BOOLEAN]
About == [ref: Refs, text: Drafts]

TypeOK ==
  prompt \in
    [text: [Refs -> Texts],            \* the host's buffers
     live: Refs \cup {NoRef},          \* api.prompt.ref()
     news: BOOLEAN,                    \* something changed since onChange last ran
     edits: 0..MaxEdits, swaps: 0..MaxSwaps,
     tracked: Refs \cup {NoRef},
     items: 0..MaxItems,               \* state.items
     checked: Texts,                   \* state.checkedText
     marks: Refs \cup {NoRef},         \* the prompt the active extmarks are on
     pin: 0..MaxItems,                 \* pinned item, counted from 1; 0 is none
     signed: BOOLEAN,                  \* whether the pin has a signature
     timer: Refs \cup {NoRef},         \* debounceTimer
     checks: SUBSET Request,
     rephrase: [mode: {"loading", "result"}, ref: Refs, text: Drafts] \cup {Nothing},
     rewrites: SUBSET Request,
     spinner: BOOLEAN,
     completion: About \cup {Nothing}, \* the ghost, and the text it continues
     pause: About \cup {Nothing},      \* completionTimer
     asks: SUBSET Request,
     cached: Texts,                    \* lastCompletionText
     mounted: BOOLEAN]

Init ==
  \E text \in [Refs -> Texts], live \in Refs \cup {NoRef} :
    prompt = [text |-> text, live |-> live, news |-> FALSE, edits |-> 0, swaps |-> 0,
              tracked |-> live, items |-> 0, checked |-> Blank, marks |-> NoRef,
              pin |-> 0, signed |-> FALSE, timer |-> live, checks |-> {},
              rephrase |-> Nothing, rewrites |-> {}, spinner |-> FALSE,
              completion |-> Nothing, pause |-> Nothing, asks |-> {}, cached |-> Blank,
              mounted |-> TRUE]

-----------------------------------------------------------------------------
(* Handlers.  Slip_... definitions are slips the definition after them     *)
(* could have; nothing uses them.                                          *)

\* A counter is bumped: requests that captured it are stale.
Stale(requests) == {[r EXCEPT !.cur = FALSE] : r \in requests}

Asked(requests, ref, text) == Stale(requests) \cup {[ref |-> ref, text |-> text, cur |-> TRUE]}

Schedule(s, ref) == [s EXCEPT !.timer = ref]

ClearMarks(s) == [s EXCEPT !.marks = NoRef]

Slip_TimerOnly(s) == [s EXCEPT !.pause = Nothing]

ClearGhost(s) == [s EXCEPT !.completion = Nothing, !.pause = Nothing, !.asks = Stale(@)]

Unpin(s) == [s EXCEPT !.pin = 0, !.signed = FALSE]

\* pin, and pushFromDetailsState on the transition: the panel takes the ghost's place.
Pin(s, i) == IF s.pin = i THEN s ELSE ClearGhost([s EXCEPT !.pin = i, !.signed = FALSE])

\* The pin goes when out of range, or when its item is another one now.
ItemsChanged(s, differs) ==
  IF s.pin = 0 THEN s
  ELSE IF s.pin > s.items \/ (s.signed /\ differs) THEN Unpin(s)
  ELSE [s EXCEPT !.signed = TRUE]

DropItems(s) == ItemsChanged(ClearMarks([s EXCEPT !.items = 0, !.checked = Blank]), TRUE)

CancelRephrase(s) ==
  [s EXCEPT !.rephrase = Nothing, !.spinner = FALSE, !.rewrites = Stale(@)]

RunCheck(s, ref) ==
  IF s.text[ref] = Blank THEN DropItems(s)
  ELSE IF s.text[ref] = s.checked THEN s
  ELSE [s EXCEPT !.checks = Asked(@, ref, s.text[ref])]

Slip_AnyAnswer(s, r) == s.live = r.ref /\ r.ref = s.tracked /\ s.text[r.ref] = r.text

\* An answer counts if no later check started and neither prompt nor text moved.
AnswerCounts(s, r) == r.cur /\ s.live = r.ref /\ r.ref = s.tracked /\ s.text[r.ref] = r.text

ShowItems(s, r, n, differs) ==
  ItemsChanged([s EXCEPT !.items = n, !.checked = r.text,
                         !.marks = IF n = 0 THEN NoRef ELSE r.ref], differs)

\* A ghost that is up goes, with what is under way; a request still out stays.
HideGhost(s) == IF s.completion = Nothing THEN s ELSE ClearGhost(s)

TextChanged(s) ==
  IF s.text[s.live] = s.checked THEN s ELSE HideGhost(CancelRephrase(Unpin(s)))

Swapped(s) ==
  IF s.live = s.tracked THEN s
  ELSE HideGhost(CancelRephrase(
         DropItems([s EXCEPT !.tracked = s.live, !.checks = Stale(@)])))

\* The prompt was cleared or sent.  Without suggestions the check is left to see that.
Emptied(s) ==
  LET bare == ClearGhost(s)
  IN  IF s.items > 0 /\ s.checked # Blank THEN DropItems(bare) ELSE Schedule(bare, s.live)

\* pausing: the cursor is at the end of an unfinished line.
Written(s, pausing) ==
  [Schedule(s, s.live) EXCEPT
     !.pause = IF pausing /\ s.pin = 0 /\ s.rephrase = Nothing
               THEN [ref |-> s.live, text |-> s.text[s.live]] ELSE Nothing]

OnChange(s, pausing) ==
  IF s.live = NoRef THEN s
  ELSE LET now == Swapped(TextChanged([s EXCEPT !.news = FALSE]))
       IN  IF now.text[now.live] = Blank THEN Emptied(now) ELSE Written(now, pausing)

RequestCompletion(s, ref, text) ==
  IF text # s.cached THEN [s EXCEPT !.asks = Asked(@, ref, text)]
  ELSE LET asked == [s EXCEPT !.asks = Stale(@)]
       IN  IF s.pin # 0 \/ s.rephrase # Nothing THEN asked
           ELSE [asked EXCEPT !.completion = [ref |-> ref, text |-> text]]

\* A completion counts if no later one was asked for, the prompt is the same,
\* and neither panel nor rephrasing is there.  The text is not looked at.
CompletionCounts(s, r) == r.cur /\ s.live = r.ref /\ s.pin = 0 /\ s.rephrase = Nothing

Rephrase(s) ==
  LET bare == ClearGhost(ClearMarks(Unpin(s)))
  IN  [bare EXCEPT !.rephrase = [mode |-> "loading", ref |-> s.live, text |-> s.text[s.live]],
                   !.rewrites = Asked(@, s.live, s.text[s.live]),
                   !.spinner = TRUE]

\* replaceRange: the text is another one.
Rewritten(s, text) == [s EXCEPT !.text[s.live] = text, !.edits = @ + 1]

-----------------------------------------------------------------------------
(* The host: the user types, routes change, the plugin is told. *)

Bounded(s) ==
  /\ s.edits <= MaxEdits
  /\ Cardinality(s.checks) + Cardinality(s.rewrites) + Cardinality(s.asks) <= MaxFlying

Step(s) == Bounded(s) /\ prompt' = s

Type ==
  /\ prompt.live # NoRef
  /\ \E text \in Texts \ {prompt.text[prompt.live]} :
       Step([Rewritten(prompt, text) EXCEPT !.news = TRUE])

Swap ==
  /\ prompt.swaps < MaxSwaps
  /\ \E ref \in (Refs \cup {NoRef}) \ {prompt.live} :
       prompt' = [prompt EXCEPT !.live = ref, !.news = TRUE, !.swaps = @ + 1]

Changed == prompt.mounted /\ prompt.news /\ \E pausing \in BOOLEAN : Step(OnChange(prompt, pausing))

\* onCursorMove: the cursor is on an item, or off all.
CursorMoves ==
  /\ prompt.mounted /\ prompt.live # NoRef /\ prompt.rephrase = Nothing
  /\ prompt.items > 0 /\ prompt.text[prompt.live] = prompt.checked
  /\ \/ \E i \in 1..prompt.items : Step(Pin(prompt, i))
     \/ Step(Unpin(prompt))

-----------------------------------------------------------------------------
(* Timers and answers.  They outlive dispose, but for debounceTimer. *)

CheckIsDue ==
  /\ prompt.timer # NoRef
  /\ Step(RunCheck([prompt EXCEPT !.timer = NoRef], prompt.timer))

CheckAnswered(r) ==
  /\ r \in prompt.checks
  /\ LET s == [prompt EXCEPT !.checks = @ \ {r}]
     IN  \/ Step(s)  \* failed
         \/ /\ AnswerCounts(s, r)
            /\ \E n \in 0..MaxItems, differs \in {FALSE, r.text # s.checked} :
                 Step(ShowItems(s, r, n, differs))

PauseIsOver ==
  /\ prompt.pause # Nothing
  /\ Step(RequestCompletion([prompt EXCEPT !.pause = Nothing], prompt.pause.ref, prompt.pause.text))

CompletionAnswered(r) ==
  /\ r \in prompt.asks
  /\ LET s == [prompt EXCEPT !.asks = @ \ {r}]
     IN  \/ Step(s)  \* failed, or nothing to add
         \/ /\ CompletionCounts(s, r)
            /\ Step([s EXCEPT !.completion = [ref |-> r.ref, text |-> r.text], !.cached = r.text])

RephraseAnswered(r) ==
  /\ r \in prompt.rewrites
  /\ LET s == [prompt EXCEPT !.rewrites = @ \ {r}]
     IN  IF ~r.cur THEN Step(s)
         ELSE \/ Step(CancelRephrase(s))  \* failed, no change, or another prompt
              \/ s.live = r.ref /\ Step([s EXCEPT !.spinner = FALSE, !.rephrase.mode = "result"])

-----------------------------------------------------------------------------
(* Commands.  A key layer is enabled by the state it acts on. *)

\* Items are known valid only for the text they were computed for.
MaySkip(s) == ~(s.live # NoRef /\ s.text[s.live] = s.checked)

ApplyAll ==
  /\ prompt.mounted /\ prompt.items > 0
  /\ \E pausing \in BOOLEAN :
       \/ MaySkip(prompt) /\ Step(OnChange(DropItems(Unpin(prompt)), pausing))
       \/ /\ prompt.live # NoRef
          /\ \E text \in Texts \ {prompt.text[prompt.live]} :
               Step(OnChange(DropItems(Unpin(Rewritten(prompt, text))), pausing))

ApplyPinned ==
  /\ prompt.mounted /\ prompt.pin # 0 /\ prompt.live # NoRef
  /\ prompt.pin <= prompt.items
  /\ \/ MaySkip(prompt) /\ Step(Schedule(prompt, prompt.live))
     \/ \E text \in Texts \ {prompt.text[prompt.live]}, pausing \in BOOLEAN :
          Step(OnChange(DropItems(Unpin(Rewritten(prompt, text))), pausing))

\* checkedText stays: the rest of the items are still of it.
IgnorePinned ==
  /\ prompt.mounted /\ prompt.pin \in 1..prompt.items
  /\ LET s == Unpin([prompt EXCEPT !.items = @ - 1])
     IN  Step([s EXCEPT !.marks = IF s.items = 0 THEN NoRef ELSE s.live])

Slip_CycleNeverWraps ==
  /\ prompt.mounted /\ prompt.pin # 0 /\ prompt.items > 0
  /\ Step(Pin(prompt, prompt.pin + 1))

Cycle ==
  /\ prompt.mounted /\ prompt.pin # 0 /\ prompt.items > 0
  /\ \E step \in {1, prompt.items - 1} :
       Step(Pin(prompt, ((prompt.pin - 1 + step) % prompt.items) + 1))

UnpinKey == prompt.mounted /\ prompt.pin # 0 /\ Step(Unpin(prompt))

\* reviewNext and reviewPrev.
Review ==
  /\ prompt.mounted /\ prompt.live # NoRef /\ prompt.items > 0
  /\ IF prompt.text[prompt.live] # prompt.checked
     THEN Step(Schedule(prompt, prompt.live))
     ELSE \E i \in 1..prompt.items : Step(Pin(prompt, i))

RephraseKey ==
  /\ prompt.mounted /\ prompt.live # NoRef /\ prompt.text[prompt.live] # Blank
  /\ Step(Rephrase(prompt))

\* Only over the prompt and the text that were rephrased.
RephraseAccept ==
  /\ prompt.mounted /\ prompt.rephrase # Nothing /\ prompt.rephrase.mode = "result"
  /\ LET s == [prompt EXCEPT !.rephrase = Nothing]
     IN  IF s.live = prompt.rephrase.ref /\ s.text[s.live] = prompt.rephrase.text
         THEN \E text \in Texts \ {s.text[s.live]}, pausing \in BOOLEAN :
                Step(OnChange(Rewritten(s, text), pausing))
         ELSE Step(s)

RephraseReject ==
  prompt.mounted /\ prompt.rephrase # Nothing /\ Step(CancelRephrase(prompt))

\* The continuation goes in where the completion was asked for.
AcceptCompletion ==
  /\ prompt.mounted /\ prompt.completion # Nothing
  /\ LET s == [prompt EXCEPT !.completion = Nothing]
     IN  IF s.live # prompt.completion.ref THEN Step(s)
         ELSE \E text \in Drafts \ {s.text[s.live]}, pausing \in BOOLEAN :
                Step(OnChange(Rewritten(s, text), pausing))

DismissCompletion ==
  prompt.mounted /\ prompt.completion # Nothing /\ Step(ClearGhost(prompt))

\* What mountOrchestrator returned is called.
Dispose ==
  /\ prompt.mounted
  /\ Step([CancelRephrase(ClearMarks(prompt)) EXCEPT !.timer = NoRef, !.mounted = FALSE])

Next ==
  \/ Type \/ Swap \/ Changed \/ CursorMoves
  \/ CheckIsDue \/ PauseIsOver
  \/ \E r \in prompt.checks : CheckAnswered(r)
  \/ \E r \in prompt.asks : CompletionAnswered(r)
  \/ \E r \in prompt.rewrites : RephraseAnswered(r)
  \/ ApplyAll \/ ApplyPinned \/ IgnorePinned \/ Cycle \/ UnpinKey \/ Review
  \/ RephraseKey \/ RephraseAccept \/ RephraseReject
  \/ AcceptCompletion \/ DismissCompletion \/ Dispose

Spec == Init /\ [][Next]_prompt

-----------------------------------------------------------------------------
(* Safety. *)

\* One thing at a time stands at the cursor: a completion ghost never shares
\* the prompt with a pinned suggestion or a rephrasing, whichever of the three
\* asynchronous answers comes last, and an emptied prompt keeps none.
GhostHasTheField ==
  prompt.completion # Nothing =>
    /\ prompt.pin = 0 /\ prompt.rephrase = Nothing
    /\ ~prompt.news => prompt.live # NoRef /\ prompt.text[prompt.live] # Blank

\* The panel and the underlines are about suggestions that exist, and, once
\* the plugin knows of a change, about the text in the prompt.
PanelIsLive ==
  /\ prompt.mounted /\ prompt.pin # 0 =>
       /\ prompt.pin <= prompt.items
       /\ ~prompt.news => prompt.live = prompt.tracked /\ prompt.text[prompt.live] = prompt.checked
  /\ prompt.marks # NoRef => prompt.items > 0 /\ prompt.checked # Blank

\* The spinner turns exactly while a rephrasing awaits an answer that will be
\* heard: no path leaves it turning, or a loading card nobody will fill.
SpinnerAwaitsAnswer ==
  /\ prompt.spinner <=> \E r \in prompt.rewrites : r.cur
  /\ prompt.spinner <=> prompt.rephrase # Nothing /\ prompt.rephrase.mode = "loading"

\* The checks of the prompt, as any client promises them.
Latest == INSTANCE LatestCheck WITH
  None    <- Blank,
  pending <- LET heard == {r \in prompt.checks : r.cur}
             IN  IF heard = {} THEN Blank ELSE (CHOOSE r \in heard : TRUE).text,
  shown   <- prompt.checked

LatestInit == Latest!Init
LatestStep == Latest!Step
=============================================================================
