------------------------- MODULE ClientParts_proofs -------------------------
(***************************************************************************)
(* The clients: the checks of every client implement LatestCheck; what is  *)
(* at OpenCode's cursor excludes each other; late answers bring nothing    *)
(* back over Discord's composer; and, with what is proved of pages and of  *)
(* the surfaces beside fields, all that the parts promise together, for    *)
(* any number of fields, texts, checks and answers in flight.              *)
(***************************************************************************)
EXTENDS ClientParts, TLAPS

-----------------------------------------------------------------------------
(* OpenCode: the checks of the prompt. *)

PromptNames == {"text", "live", "news", "edits", "swaps", "tracked", "items", "checked", "marks", "pin",
           "signed", "timer", "checks", "rephrase", "rewrites", "spinner", "completion", "pause",
           "asks", "cached", "mounted"}

\* Of the checks in flight at most one is still heard, and it is of a text.
PromptChecks(s) ==
  /\ DOMAIN s = PromptNames
  /\ \A r \in s.checks : "cur" \in DOMAIN r /\ (r.cur => r.text # None)
  /\ \A q, r \in s.checks : q.cur /\ r.cur => q = r

\* The checks whose answers are still heard.
PromptHeard(s) == {r \in s.checks : r.cur}

\* What handlers that are not about checks leave alone, what dropping the
\* suggestions does, and what another prompt does.
PromptSame(s, t) == DOMAIN t = PromptNames /\ t.checks = s.checks /\ t.checked = s.checked
PromptDrops(s, t) == DOMAIN t = PromptNames /\ t.checks = s.checks /\ t.checked \in {s.checked, None}
PromptLeaves(s, t) ==
  DOMAIN t = PromptNames /\ t.checks \in {s.checks, OpenCode!Stale(s.checks)} /\
      t.checked \in {s.checked, None}

-----------------------------------------------------------------------------
(* The handlers. *)

\* Ghost, pin, rephrasing and timers have nothing to do with checks.
LEMMA PromptHelpers ==
  ASSUME NEW s, DOMAIN s = PromptNames
  PROVE  /\ PromptSame(s, OpenCode!ClearMarks(s)) /\ PromptSame(s, OpenCode!ClearGhost(s)) /\
            PromptSame(s, OpenCode!Unpin(s))
         /\ PromptSame(s, OpenCode!CancelRephrase(s)) /\ PromptSame(s, OpenCode!HideGhost(s))
         /\ \A ref : PromptSame(s, OpenCode!Schedule(s, ref))
  BY DEF PromptSame, PromptNames, OpenCode!ClearMarks, OpenCode!ClearGhost, OpenCode!Unpin,
     OpenCode!CancelRephrase, OpenCode!HideGhost, OpenCode!Schedule

\* Pinning a suggestion, which may take the ghost's place, is not about checks.
LEMMA PinSame ==
  ASSUME NEW s, DOMAIN s = PromptNames, NEW i
  PROVE  PromptSame(s, OpenCode!Pin(s, i))
  <1> DEFINE t == [s EXCEPT !.pin = i, !.signed = FALSE]
  <1>1. PromptSame(s, t)
    BY DEF PromptSame, PromptNames
  <1> HIDE DEF t
  <1>2. PromptSame(t, OpenCode!ClearGhost(t))
    BY <1>1, PromptHelpers DEF PromptSame
  <1>3. OpenCode!Pin(s, i) \in {s, OpenCode!ClearGhost(t)}
    BY DEF OpenCode!Pin, t
  <1> QED
    BY <1>1, <1>2, <1>3 DEF PromptSame

\* Nor is what the panel does when the suggestions change.
LEMMA ItemsSame ==
  ASSUME NEW s, DOMAIN s = PromptNames, NEW differs
  PROVE  PromptSame(s, OpenCode!ItemsChanged(s, differs))
  <1>1. PromptSame(s, OpenCode!Unpin(s)) /\ PromptSame(s, [s EXCEPT !.signed = TRUE]) /\ PromptSame(s, s)
    BY PromptHelpers DEF PromptSame, PromptNames
  <1> QED
    BY <1>1 DEF OpenCode!ItemsChanged

\* Dropping the suggestions forgets their text, and leaves the checks alone.
LEMMA DropsItems ==
  ASSUME NEW s, DOMAIN s = PromptNames
  PROVE  PromptDrops(s, OpenCode!DropItems(s)) /\ OpenCode!DropItems(s).checked = None
  <1> DEFINE t == [s EXCEPT !.items = 0, !.checked = None]
  <1>1. DOMAIN t = PromptNames /\ t.checks = s.checks /\ t.checked = None
    BY DEF PromptNames
  <1> HIDE DEF t
  <1>2. PromptSame(t, OpenCode!ClearMarks(t))
    BY <1>1, PromptHelpers
  <1>3. PromptSame(OpenCode!ClearMarks(t), OpenCode!ItemsChanged(OpenCode!ClearMarks(t), TRUE))
    BY <1>2, ItemsSame DEF PromptSame
  <1>4. OpenCode!DropItems(s) = OpenCode!ItemsChanged(OpenCode!ClearMarks(t), TRUE)
    BY DEF OpenCode!DropItems, t
  <1> QED
    BY <1>1, <1>2, <1>3, <1>4 DEF PromptSame, PromptDrops

\* Composed handlers leave the checks alone, supersede them, or drop what is shown.
LEMMA LeavesCompose ==
  ASSUME NEW s, NEW t, NEW u, PromptLeaves(s, t), PromptLeaves(t, u)
  PROVE  PromptLeaves(s, u)
  <1>1. OpenCode!Stale(OpenCode!Stale(s.checks)) = OpenCode!Stale(s.checks)
    <2> DEFINE f(r) == [r EXCEPT !.cur = FALSE]
    <2>1. \A r : f(f(r)) = f(r)
      OBVIOUS
    <2>2. \A C : OpenCode!Stale(C) = {f(r) : r \in C}
      BY DEF OpenCode!Stale
    <2> HIDE DEF f
    <2>3. {f(q) : q \in {f(r) : r \in s.checks}} = {f(r) : r \in s.checks}
      BY <2>1
    <2> QED
      BY <2>2, <2>3
  <1> QED
    BY <1>1 DEF PromptLeaves

\* Both kinds of handler are kinds of those that LeavesCompose composes.
LEMMA SameLeaves ==
  ASSUME NEW s, NEW t, PromptSame(s, t) \/ PromptDrops(s, t)
  PROVE  PromptLeaves(s, t)
  BY DEF PromptSame, PromptDrops, PromptLeaves

\* A changed text takes pin, rephrasing and ghost down, and no check.
LEMMA TextChangedSame ==
  ASSUME NEW s, DOMAIN s = PromptNames
  PROVE  PromptSame(s, OpenCode!TextChanged(s))
  <1>1. PromptSame(s, s) /\ PromptSame(s, OpenCode!Unpin(s))
    BY PromptHelpers DEF PromptSame
  <1>2. PromptSame(OpenCode!Unpin(s), OpenCode!CancelRephrase(OpenCode!Unpin(s)))
    BY <1>1, PromptHelpers DEF PromptSame
  <1>3. PromptSame(OpenCode!CancelRephrase(OpenCode!Unpin(s)),
                   OpenCode!HideGhost(OpenCode!CancelRephrase(OpenCode!Unpin(s))))
    BY <1>2, PromptHelpers DEF PromptSame
  <1> QED
    BY <1>1, <1>2, <1>3 DEF PromptSame, OpenCode!TextChanged

\* Another prompt supersedes the checks of the one before.
LEMMA SwappedLeaves ==
  ASSUME NEW s, DOMAIN s = PromptNames
  PROVE  PromptLeaves(s, OpenCode!Swapped(s))
  <1> DEFINE t == [s EXCEPT !.tracked = s.live, !.checks = OpenCode!Stale(@)]
             u == OpenCode!DropItems(t)
  <1>1. DOMAIN t = PromptNames /\ t.checks = OpenCode!Stale(s.checks) /\ t.checked = s.checked
    BY DEF PromptNames
  <1>2. OpenCode!Swapped(s) = IF s.live = s.tracked THEN s ELSE OpenCode!HideGhost(OpenCode!CancelRephrase(u))
    BY DEF OpenCode!Swapped
  <1> HIDE DEF t
  <1>3. PromptLeaves(s, t)
    BY <1>1 DEF PromptLeaves
  <1>4. PromptLeaves(t, u) /\ DOMAIN u = PromptNames
    BY <1>1, DropsItems, SameLeaves DEF PromptDrops
  <1> HIDE DEF u
  <1>5. PromptLeaves(u, OpenCode!CancelRephrase(u)) /\ DOMAIN OpenCode!CancelRephrase(u) = PromptNames
    BY <1>4, PromptHelpers, SameLeaves DEF PromptSame
  <1>6. PromptLeaves(OpenCode!CancelRephrase(u), OpenCode!HideGhost(OpenCode!CancelRephrase(u)))
    BY <1>5, PromptHelpers, SameLeaves
  <1>7. PromptLeaves(s, OpenCode!HideGhost(OpenCode!CancelRephrase(u)))
    BY <1>3, <1>4, <1>5, <1>6, LeavesCompose
  <1>8. PromptLeaves(s, s)
    BY DEF PromptLeaves
  <1> QED
    BY <1>2, <1>7, <1>8

\* An emptied prompt drops its suggestions, or leaves that to a check.
LEMMA EmptiedLeaves ==
  ASSUME NEW s, DOMAIN s = PromptNames
  PROVE  PromptLeaves(s, OpenCode!Emptied(s))
  <1> DEFINE t == OpenCode!ClearGhost(s)
  <1>1. PromptLeaves(s, t) /\ DOMAIN t = PromptNames
    BY PromptHelpers, SameLeaves DEF PromptSame
  <1>2. OpenCode!Emptied(s) \in {OpenCode!DropItems(t), OpenCode!Schedule(t, s.live)}
    BY DEF OpenCode!Emptied
  <1> HIDE DEF t
  <1>3. PromptLeaves(t, OpenCode!DropItems(t)) /\ PromptLeaves(t, OpenCode!Schedule(t, s.live))
    BY <1>1, PromptHelpers, DropsItems, SameLeaves
  <1> QED
    BY <1>1, <1>2, <1>3, LeavesCompose

\* A written prompt only sets timers.
LEMMA WrittenLeaves ==
  ASSUME NEW s, DOMAIN s = PromptNames, NEW pausing
  PROVE  PromptLeaves(s, OpenCode!Written(s, pausing))
  <1> DEFINE t == OpenCode!Schedule(s, s.live)
  <1>1. PromptSame(s, t)
    BY PromptHelpers
  <1> HIDE DEF t
  <1>2. \A pause : PromptSame(t, [t EXCEPT !.pause = pause])
    BY <1>1 DEF PromptSame, PromptNames
  <1>3. PromptSame(t, OpenCode!Written(s, pausing))
    BY <1>2 DEF OpenCode!Written, t
  <1> QED
    BY <1>1, <1>3, SameLeaves, LeavesCompose

\* The whole of onChange, composed of the above.
LEMMA OnChangeLeaves ==
  ASSUME NEW s, DOMAIN s = PromptNames, NEW pausing
  PROVE  PromptLeaves(s, OpenCode!OnChange(s, pausing))
  <1> DEFINE t == [s EXCEPT !.news = FALSE]
             now == OpenCode!Swapped(OpenCode!TextChanged(t))
  <1>1. OpenCode!OnChange(s, pausing) \in {s, OpenCode!Emptied(now), OpenCode!Written(now, pausing)}
    BY DEF OpenCode!OnChange
  <1>2. PromptLeaves(s, t) /\ DOMAIN t = PromptNames
    BY DEF PromptLeaves, PromptNames
  <1> HIDE DEF t
  <1>3. PromptLeaves(t, OpenCode!TextChanged(t)) /\ DOMAIN OpenCode!TextChanged(t) = PromptNames
    BY <1>2, TextChangedSame, SameLeaves DEF PromptSame
  <1>4. PromptLeaves(OpenCode!TextChanged(t), now)
    BY <1>3, SwappedLeaves
  <1> HIDE DEF now
  <1>5. PromptLeaves(s, now) /\ DOMAIN now = PromptNames
    BY <1>2, <1>3, <1>4, LeavesCompose DEF PromptLeaves
  <1>6. PromptLeaves(now, OpenCode!Emptied(now)) /\ PromptLeaves(now, OpenCode!Written(now, pausing)) /\
        PromptLeaves(s, s)
    BY <1>5, EmptiedLeaves, WrittenLeaves DEF PromptLeaves
  <1> QED
    BY <1>1, <1>5, <1>6, LeavesCompose

-----------------------------------------------------------------------------
(* From the prompt to the question. *)

\* What Latest takes for pending.
PromptQuestion(s) == LET heard ==
  PromptHeard(s) IN IF heard = {} THEN None ELSE (CHOOSE r \in heard : TRUE).text

\* The steps LatestCheck allows.
PromptMoves(s, t) ==
  \/ PromptQuestion(t) # None /\ t.checked \in {s.checked, None}
  \/ PromptQuestion(s) # None /\ t.checked = PromptQuestion(s) /\
     PromptQuestion(t) \in {PromptQuestion(s), None}
  \/ PromptQuestion(t) = None /\ t.checked \in {s.checked, None}
  \/ t.checked = None /\ PromptQuestion(t) = PromptQuestion(s)
  \/ PromptQuestion(t) = PromptQuestion(s) /\ t.checked = s.checked

\* What every step keeps.
PromptGood(s, t) == PromptChecks(t) /\ PromptMoves(s, t)

\* Handlers that leave the checks alone or supersede them.
LEMMA LeavesGood ==
  ASSUME NEW s, NEW t, PromptChecks(s), PromptLeaves(s, t)
  PROVE  PromptGood(s, t)
  <1>1. \A r \in OpenCode!Stale(s.checks) : "cur" \in DOMAIN r /\ r.cur = FALSE
    BY DEF OpenCode!Stale, PromptChecks
  <1>2. PromptChecks(t)
    BY <1>1 DEF PromptLeaves, PromptChecks
  <1>3. PromptMoves(s, t)
    BY DEF PromptLeaves, PromptMoves
  <1> QED
    BY <1>2, <1>3 DEF PromptGood

\* A check supersedes those before it.
LEMMA AskGood ==
  ASSUME NEW s, NEW t, PromptChecks(s), NEW ref, NEW text, text # None, DOMAIN t = PromptNames,
         t.checks = OpenCode!Asked(s.checks, ref, text), t.checked = s.checked
  PROVE  PromptGood(s, t)
  <1>1. \A r \in OpenCode!Stale(s.checks) : "cur" \in DOMAIN r /\ r.cur = FALSE
    BY DEF OpenCode!Stale, PromptChecks
  <1> DEFINE new == [ref |-> ref, text |-> text, cur |-> TRUE]
  <1>a. "cur" \in DOMAIN new /\ new.cur = TRUE /\ new.text = text
    OBVIOUS
  <1>b. t.checks = OpenCode!Stale(s.checks) \cup {new}
    BY DEF OpenCode!Asked
  <1> HIDE DEF new
  <1>2. PromptChecks(t)
    BY <1>1, <1>a, <1>b DEF PromptChecks
  <1>3. PromptMoves(s, t)
    BY DEF PromptMoves
  <1> QED
    BY <1>2, <1>3 DEF PromptGood

\* An answer that is no longer heard, or has failed, shows nothing.
LEMMA GoneGood ==
  ASSUME NEW s, NEW t, PromptChecks(s), DOMAIN t = PromptNames, t.checks \subseteq s.checks,
         t.checked = s.checked
  PROVE  PromptGood(s, t)
  BY DEF PromptGood, PromptChecks, PromptMoves

\* The answer that counts is that to the question.
LEMMA DrawGood ==
  ASSUME NEW s, NEW t, PromptChecks(s), NEW r \in s.checks, r.cur, DOMAIN t = PromptNames,
         t.checks = s.checks \ {r}, t.checked = r.text
  PROVE  PromptGood(s, t)
  <1>1. PromptHeard(s) = {r}
    BY DEF PromptHeard, PromptChecks
  <1>2. PromptQuestion(s) = r.text /\ r.text # None
    BY <1>1 DEF PromptQuestion, PromptChecks
  <1>3. PromptHeard(t) = {}
    BY DEF PromptHeard, PromptChecks
  <1>4. PromptQuestion(t) = None
    BY <1>3 DEF PromptQuestion
  <1>5. PromptChecks(t)
    BY DEF PromptChecks
  <1> QED
    BY <1>2, <1>4, <1>5 DEF PromptGood, PromptMoves

-----------------------------------------------------------------------------
(* The steps. *)

\* A change of the text by a command or the user, and one of other fields.
LEMMA RewrittenSame ==
  ASSUME NEW s, DOMAIN s = PromptNames, NEW text
  PROVE  PromptSame(s, OpenCode!Rewritten(s, text))
  BY DEF PromptSame, PromptNames, OpenCode!Rewritten

\* A command that applies suggestions drops them and tells the plugin.
LEMMA ApplyLeaves ==
  ASSUME NEW s, NEW t, DOMAIN s = PromptNames, PromptSame(s, t), NEW pausing
  PROVE  PromptLeaves(s, OpenCode!OnChange(OpenCode!DropItems(OpenCode!Unpin(t)), pausing))
  <1>1. PromptLeaves(s, t) /\ DOMAIN t = PromptNames
    BY SameLeaves DEF PromptSame
  <1>2. PromptLeaves(t, OpenCode!Unpin(t)) /\ DOMAIN OpenCode!Unpin(t) = PromptNames
    BY <1>1, PromptHelpers, SameLeaves DEF PromptSame
  <1>3. PromptLeaves(OpenCode!Unpin(t), OpenCode!DropItems(OpenCode!Unpin(t))) /\
        DOMAIN OpenCode!DropItems(OpenCode!Unpin(t)) = PromptNames
    BY <1>2, DropsItems, SameLeaves DEF PromptDrops
  <1>4. PromptLeaves(OpenCode!DropItems(OpenCode!Unpin(t)),
                     OpenCode!OnChange(OpenCode!DropItems(OpenCode!Unpin(t)), pausing))
    BY <1>3, OnChangeLeaves
  <1> QED
    BY <1>1, <1>2, <1>3, <1>4, LeavesCompose

\* The debounce runs out: a question is asked, or there is none to ask.
LEMMA DueGood ==
  ASSUME PromptChecks(state), OpenCode!CheckIsDue
  PROVE  PromptGood(state, state')
  <1> DEFINE t == [state EXCEPT !.timer = None]
             ref == state.timer
  <1>1. state' = OpenCode!RunCheck(t, ref)
    BY DEF OpenCode!CheckIsDue, OpenCode!Step
  <1>2. DOMAIN t = PromptNames /\ t.checks = state.checks /\ t.checked = state.checked
    BY DEF PromptChecks, PromptNames
  <1> HIDE DEF t
  <1>3. CASE t.text[ref] = None
    <2>1. PromptDrops(state, OpenCode!DropItems(t))
      BY <1>2, DropsItems DEF PromptDrops
    <2> QED
      BY <1>1, <1>3, <2>1, SameLeaves, LeavesGood DEF OpenCode!RunCheck
  <1>4. CASE t.text[ref] # None /\ t.text[ref] = t.checked
    BY <1>1, <1>2, <1>4, GoneGood DEF OpenCode!RunCheck
  <1>5. CASE t.text[ref] # None /\ t.text[ref] # t.checked
    <2> DEFINE u == [t EXCEPT !.checks = OpenCode!Asked(@, ref, t.text[ref])]
    <2>1. /\ DOMAIN u = PromptNames /\ u.checked = state.checked
          /\ u.checks = OpenCode!Asked(state.checks, ref, t.text[ref])
      BY <1>2 DEF PromptNames
    <2>2. state' = u
      BY <1>1, <1>5 DEF OpenCode!RunCheck
    <2> HIDE DEF u
    <2> QED
      BY <1>5, <2>1, <2>2, AskGood
  <1> QED
    BY <1>3, <1>4, <1>5

\* An answer counts, or shows nothing.
LEMMA AnswerGood ==
  ASSUME PromptChecks(state), NEW r \in state.checks, OpenCode!CheckAnswered(r)
  PROVE  PromptGood(state, state')
  <1> DEFINE s == [state EXCEPT !.checks = @ \ {r}]
  <1>1. DOMAIN s = PromptNames /\ s.checks = state.checks \ {r} /\ s.checked = state.checked
    BY DEF PromptChecks, PromptNames
  <1>2. \/ state' = s
        \/ r.cur /\ \E n \in 0..Bound.prompt.items, differs \in {FALSE, r.text # s.checked} :
                      state' = OpenCode!ShowItems(s, r, n, differs)
    BY DEF OpenCode!CheckAnswered, OpenCode!Step, OpenCode!AnswerCounts
  <1> HIDE DEF s
  <1>3. CASE state' = s
    BY <1>1, <1>3, GoneGood
  <1>4. ASSUME r.cur, NEW n \in 0..Bound.prompt.items, NEW differs,
               state' = OpenCode!ShowItems(s, r, n, differs)
        PROVE  PromptGood(state, state')
    <2> DEFINE t == [s EXCEPT !.items = n, !.checked = r.text,
                              !.marks = IF n = 0 THEN None ELSE r.ref]
    <2>1. DOMAIN t = PromptNames /\ t.checks = state.checks \ {r} /\ t.checked = r.text
      BY <1>1 DEF PromptNames
    <2>2. state' = OpenCode!ItemsChanged(t, differs)
      BY <1>4 DEF OpenCode!ShowItems
    <2> HIDE DEF t
    <2>3. PromptSame(t, state')
      BY <2>1, <2>2, ItemsSame
    <2> QED
      BY <1>4, <2>1, <2>3, DrawGood DEF PromptSame
  <1> QED
    BY <1>2, <1>3, <1>4

\* Every other step leaves the checks alone, supersedes them, or drops what is shown.
LEMMA OthersLeave ==
  ASSUME DOMAIN state = PromptNames,
         \/ OpenCode!Type \/ OpenCode!Swap \/ OpenCode!Changed \/ OpenCode!CursorMoves \/ OpenCode!PauseIsOver
         \/ \E r \in state.asks : OpenCode!CompletionAnswered(r)
         \/ \E r \in state.rewrites : OpenCode!RephraseAnswered(r)
         \/ OpenCode!ApplyAll \/ OpenCode!ApplyPinned \/ OpenCode!IgnorePinned \/ OpenCode!Cycle \/
            OpenCode!UnpinKey \/ OpenCode!Review
         \/ OpenCode!RephraseKey \/ OpenCode!RephraseAccept \/ OpenCode!RephraseReject
         \/ OpenCode!AcceptCompletion \/ OpenCode!DismissCompletion \/ OpenCode!Dispose
  PROVE  PromptLeaves(state, state')
  <1>0. PromptSame(state, state)
    BY DEF PromptSame
  <1>1. CASE OpenCode!Type
    <2>1. PICK text : state' = [OpenCode!Rewritten(state, text) EXCEPT !.news = TRUE]
      BY <1>1 DEF OpenCode!Type, OpenCode!Step
    <2> DEFINE w == OpenCode!Rewritten(state, text)
    <2>2. PromptSame(state, w) /\ state' = [w EXCEPT !.news = TRUE]
      BY <2>1, RewrittenSame
    <2> HIDE DEF w
    <2>3. PromptSame(state, state')
      BY <2>1, <2>2 DEF PromptSame, PromptNames
    <2> QED
      BY <2>3, SameLeaves
  <1>2. CASE OpenCode!Swap
    <2>1. PromptSame(state, state')
      BY <1>2 DEF OpenCode!Swap, PromptSame, PromptNames
    <2> QED
      BY <2>1, SameLeaves
  <1>3. CASE OpenCode!Changed
    BY <1>3, OnChangeLeaves DEF OpenCode!Changed, OpenCode!Step
  <1>4. CASE OpenCode!CursorMoves
    BY <1>4, PinSame, PromptHelpers, SameLeaves DEF OpenCode!CursorMoves, OpenCode!Step
  <1>5. CASE OpenCode!PauseIsOver
    <2> DEFINE t == [state EXCEPT !.pause = None]
               ref == state.pause.ref
               text == state.pause.text
               asked == [t EXCEPT !.asks = OpenCode!Stale(@)]
    <2>1. PromptSame(state, t)
      BY DEF PromptSame, PromptNames
    <2>2. state' = OpenCode!RequestCompletion(t, ref, text)
      BY <1>5 DEF OpenCode!PauseIsOver, OpenCode!Step
    <2> HIDE DEF t, ref, text
    <2>3. PromptSame(t, [t EXCEPT !.asks = OpenCode!Asked(@, ref, text)]) /\ PromptSame(t, asked)
      BY <2>1 DEF PromptSame, PromptNames
    <2>4. state' \in {[t EXCEPT !.asks = OpenCode!Asked(@, ref, text)], asked,
                       [asked EXCEPT !.completion = [ref |-> ref, text |-> text]]}
      BY <2>2 DEF OpenCode!RequestCompletion
    <2> HIDE DEF asked
    <2>5. PromptSame(asked, [asked EXCEPT !.completion = [ref |-> ref, text |-> text]])
      BY <2>3 DEF PromptSame, PromptNames
    <2> QED
      BY <2>1, <2>3, <2>4, <2>5, SameLeaves DEF PromptSame
  <1>6. ASSUME NEW r \in state.asks, OpenCode!CompletionAnswered(r) PROVE PromptLeaves(state, state')
    <2> DEFINE t == [state EXCEPT !.asks = @ \ {r}]
    <2>1. PromptSame(state, t)
      BY DEF PromptSame, PromptNames
    <2>2. \/ state' = t
          \/ state' = [t EXCEPT !.completion = [ref |-> r.ref, text |-> r.text], !.cached = r.text]
      BY <1>6 DEF OpenCode!CompletionAnswered, OpenCode!Step
    <2> HIDE DEF t
    <2>3. PromptSame(t, [t EXCEPT !.completion = [ref |-> r.ref, text |-> r.text], !.cached = r.text])
      BY <2>1 DEF PromptSame, PromptNames
    <2> QED
      BY <2>1, <2>2, <2>3, SameLeaves DEF PromptSame
  <1>7. ASSUME NEW r \in state.rewrites, OpenCode!RephraseAnswered(r) PROVE PromptLeaves(state, state')
    <2> DEFINE t == [state EXCEPT !.rewrites = @ \ {r}]
    <2>1. PromptSame(state, t)
      BY DEF PromptSame, PromptNames
    <2>2. \/ state' = t \/ state' = OpenCode!CancelRephrase(t)
          \/ state' = [t EXCEPT !.spinner = FALSE, !.rephrase.mode = "result"]
      BY <1>7 DEF OpenCode!RephraseAnswered, OpenCode!Step
    <2> HIDE DEF t
    <2>3. /\ PromptSame(t, OpenCode!CancelRephrase(t))
          /\ PromptSame(t, [t EXCEPT !.spinner = FALSE, !.rephrase.mode = "result"])
      BY <2>1, PromptHelpers DEF PromptSame, PromptNames
    <2> QED
      BY <2>1, <2>2, <2>3, SameLeaves DEF PromptSame
  <1>8. CASE OpenCode!ApplyAll
    BY <1>0, <1>8, ApplyLeaves, RewrittenSame DEF OpenCode!ApplyAll, OpenCode!Step
  <1>9. CASE OpenCode!ApplyPinned
    BY <1>0, <1>9, ApplyLeaves, RewrittenSame, PromptHelpers, SameLeaves
    DEF OpenCode!ApplyPinned, OpenCode!Step
  <1>10. CASE OpenCode!IgnorePinned
    <2> DEFINE t == [state EXCEPT !.items = @ - 1]
               u == OpenCode!Unpin(t)
    <2>1. PromptSame(state, t)
      BY DEF PromptSame, PromptNames
    <2>2. PICK ref : state' = [u EXCEPT !.marks = ref]
      BY <1>10 DEF OpenCode!IgnorePinned, OpenCode!Step
    <2> HIDE DEF t
    <2>3. PromptSame(t, u)
      BY <2>1, PromptHelpers DEF PromptSame
    <2> HIDE DEF u
    <2>4. PromptSame(u, [u EXCEPT !.marks = ref])
      BY <2>3 DEF PromptSame, PromptNames
    <2> QED
      BY <2>1, <2>2, <2>3, <2>4, SameLeaves DEF PromptSame
  <1>11. CASE OpenCode!Cycle
    BY <1>11, PinSame, SameLeaves DEF OpenCode!Cycle, OpenCode!Step
  <1>12. CASE OpenCode!UnpinKey
    BY <1>12, PromptHelpers, SameLeaves DEF OpenCode!UnpinKey, OpenCode!Step
  <1>13. CASE OpenCode!Review
    BY <1>13, PinSame, PromptHelpers, SameLeaves DEF OpenCode!Review, OpenCode!Step
  <1>14. CASE OpenCode!RephraseKey
    <2> DEFINE bare == OpenCode!ClearGhost(OpenCode!ClearMarks(OpenCode!Unpin(state)))
    <2>1. PromptSame(state, bare)
      <3>1. PromptSame(state, OpenCode!Unpin(state)) /\ DOMAIN OpenCode!Unpin(state) = PromptNames
        BY PromptHelpers DEF PromptSame
      <3>2. PromptSame(OpenCode!Unpin(state), OpenCode!ClearMarks(OpenCode!Unpin(state))) /\
            DOMAIN OpenCode!ClearMarks(OpenCode!Unpin(state)) = PromptNames
        BY <3>1, PromptHelpers DEF PromptSame
      <3>3. PromptSame(OpenCode!ClearMarks(OpenCode!Unpin(state)), bare)
        BY <3>2, PromptHelpers
      <3> QED
        BY <3>1, <3>2, <3>3 DEF PromptSame
    <2>2. PICK x, y : state' = [bare EXCEPT !.rephrase = x, !.rewrites = y, !.spinner = TRUE]
      BY <1>14 DEF OpenCode!RephraseKey, OpenCode!Step, OpenCode!Rephrase
    <2> HIDE DEF bare
    <2>3. PromptSame(bare, [bare EXCEPT !.rephrase = x, !.rewrites = y, !.spinner = TRUE])
      BY <2>1 DEF PromptSame, PromptNames
    <2> QED
      BY <2>1, <2>2, <2>3, SameLeaves DEF PromptSame
  <1>15. ASSUME NEW t, PromptSame(state, t), NEW text, NEW pausing,
                state' = OpenCode!OnChange(OpenCode!Rewritten(t, text), pausing)
         PROVE  PromptLeaves(state, state')
    <2>1. PromptSame(t, OpenCode!Rewritten(t, text)) /\ DOMAIN OpenCode!Rewritten(t, text) = PromptNames
      BY <1>15, RewrittenSame DEF PromptSame
    <2>2. PromptLeaves(OpenCode!Rewritten(t, text), state')
      BY <1>15, <2>1, OnChangeLeaves
    <2> QED
      BY <1>15, <2>1, <2>2, SameLeaves, LeavesCompose
  <1>16. CASE OpenCode!RephraseAccept
    <2> DEFINE t == [state EXCEPT !.rephrase = None]
    <2>1. PromptSame(state, t)
      BY DEF PromptSame, PromptNames
    <2>2. state' = t \/ \E text, pausing : state' = OpenCode!OnChange(OpenCode!Rewritten(t, text), pausing)
      BY <1>16 DEF OpenCode!RephraseAccept, OpenCode!Step
    <2> HIDE DEF t
    <2> QED
      BY <1>15, <2>1, <2>2, SameLeaves
  <1>17. CASE OpenCode!RephraseReject
    BY <1>17, PromptHelpers, SameLeaves DEF OpenCode!RephraseReject, OpenCode!Step
  <1>18. CASE OpenCode!AcceptCompletion
    <2> DEFINE t == [state EXCEPT !.completion = None]
    <2>1. PromptSame(state, t)
      BY DEF PromptSame, PromptNames
    <2>2. state' = t \/ \E text, pausing : state' = OpenCode!OnChange(OpenCode!Rewritten(t, text), pausing)
      BY <1>18 DEF OpenCode!AcceptCompletion, OpenCode!Step
    <2> HIDE DEF t
    <2> QED
      BY <1>15, <2>1, <2>2, SameLeaves
  <1>19. CASE OpenCode!DismissCompletion
    BY <1>19, PromptHelpers, SameLeaves DEF OpenCode!DismissCompletion, OpenCode!Step
  <1>20. CASE OpenCode!Dispose
    <2> DEFINE t == OpenCode!CancelRephrase(OpenCode!ClearMarks(state))
    <2>1. PromptSame(state, OpenCode!ClearMarks(state)) /\ DOMAIN OpenCode!ClearMarks(state) = PromptNames
      BY PromptHelpers DEF PromptSame
    <2>2. PromptSame(OpenCode!ClearMarks(state), t)
      BY <2>1, PromptHelpers
    <2>3. state' = [t EXCEPT !.timer = None, !.mounted = FALSE]
      BY <1>20 DEF OpenCode!Dispose, OpenCode!Step
    <2> HIDE DEF t
    <2>4. PromptSame(t, state')
      BY <2>2, <2>3 DEF PromptSame, PromptNames
    <2> QED
      BY <2>1, <2>2, <2>4, SameLeaves DEF PromptSame
  <1> QED
    BY <1>1, <1>2, <1>3, <1>4, <1>5, <1>6, <1>7, <1>8, <1>9, <1>10, <1>11, <1>12, <1>13, <1>14,
       <1>16, <1>17, <1>18, <1>19, <1>20

\* Every step keeps one check heard at most, and moves as LatestCheck allows.
LEMMA PromptStepGood == PromptChecks(state) /\ [OpenCode!Next]_state => PromptGood(state, state')
  <1> SUFFICES ASSUME PromptChecks(state), [OpenCode!Next]_state PROVE PromptGood(state, state')
    OBVIOUS
  <1>1. CASE OpenCode!CheckIsDue
    BY <1>1, DueGood
  <1>2. ASSUME NEW r \in state.checks, OpenCode!CheckAnswered(r) PROVE PromptGood(state, state')
    BY <1>2, AnswerGood
  <1>3. CASE state' = state
    BY <1>3, GoneGood DEF PromptChecks
  <1>4. ASSUME PromptLeaves(state, state') PROVE PromptGood(state, state')
    BY <1>4, LeavesGood
  <1>5. DOMAIN state = PromptNames
    BY DEF PromptChecks
  <1> QED
    BY <1>1, <1>2, <1>3, <1>4, <1>5, OthersLeave DEF OpenCode!Next

-----------------------------------------------------------------------------

\* At first no check is out.
LEMMA PromptInit == OpenCode!Init => PromptChecks(state)
  BY DEF OpenCode!Init, PromptChecks, PromptNames

\* Nor is anything drawn.
LEMMA PromptLatestStarts == OpenCode!Init => OpenCode!LatestInit
  <1> SUFFICES ASSUME OpenCode!Init PROVE OpenCode!LatestInit
    OBVIOUS
  <1>1. state.checks = {} /\ state.checked = None
    BY DEF OpenCode!Init
  <1> QED
    BY <1>1 DEF OpenCode!LatestInit, OpenCode!Latest!Init

\* Every step is one of LatestCheck's.
LEMMA PromptLatestMoves == PromptChecks(state) /\ [OpenCode!Next]_state => OpenCode!LatestStep
  <1> SUFFICES ASSUME PromptChecks(state), [OpenCode!Next]_state PROVE OpenCode!LatestStep
    OBVIOUS
  <1>1. PromptMoves(state, state')
    BY PromptStepGood DEF PromptGood
  <1> QED
    BY <1>1 DEF PromptMoves, PromptQuestion, PromptHeard, OpenCode!LatestStep, OpenCode!Latest!Step,
                OpenCode!Latest!Next, OpenCode!Latest!Ask, OpenCode!Latest!Draw, OpenCode!Latest!Forget,
                OpenCode!Latest!Clear

\* At most one check is heard, and it is of a text.
THEOREM OneCheckIsHeard == OpenCode!Spec => []PromptChecks(state)
  <1>1. PromptChecks(state) /\ [OpenCode!Next]_state => PromptChecks(state)'
    BY PromptStepGood DEF PromptGood
  <1> QED
    BY <1>1, PromptInit, PTL DEF OpenCode!Spec

\* However checks, prompts and edits overlap, suggestions are drawn only in
\* answer to the latest check, and one that was superseded draws nothing.
THEOREM PromptShowsLatest == OpenCode!Spec => OpenCode!LatestInit /\ [][OpenCode!LatestStep]_state
  <1>1. PromptChecks(state) /\ [OpenCode!Next]_state => [OpenCode!LatestStep]_state
    BY PromptLatestMoves
  <1> QED
    BY <1>1, PromptLatestStarts, OneCheckIsHeard, PTL DEF OpenCode!Spec

-----------------------------------------------------------------------------
(* The cursor: ghost, panel and spinner. *)

\* Something grey is at the cursor, or will be.
Ghosty(s) == s.completion # None \/ s.pause # None \/ \E r \in s.asks : r.cur

\* Of the rewrites in flight at most one is still heard, and the spinner turns for it.
SpinnerOK(s) ==
  /\ \A r \in s.rewrites : "cur" \in DOMAIN r
  /\ \A q, r \in s.rewrites : q.cur /\ r.cur => q = r
  /\ s.spinner <=> \E r \in s.rewrites : r.cur
  /\ s.spinner <=> s.rephrase # None /\ s.rephrase.mode = "loading"

\* Whatever is about a prompt is about one.
PlacesOK(s) ==
  /\ \A r \in s.asks : "cur" \in DOMAIN r /\ "ref" \in DOMAIN r /\ r.ref # None
  /\ s.rephrase # None => DOMAIN s.rephrase = {"mode", "ref", "text"} /\ s.rephrase.ref # None
  /\ s.completion # None => s.completion.ref # None
  /\ s.pause # None => s.pause.ref # None

\* Suggestions are of a text that was checked.
ItemsOK(s) ==
  /\ s.items \in Nat /\ s.pin \in Nat
  /\ s.items > 0 => s.checked # None
  /\ s.marks # None => s.items > 0

\* What holds within a handler too.
Loose(s) ==
  /\ DOMAIN s = PromptNames
  /\ SpinnerOK(s) /\ PlacesOK(s) /\ ItemsOK(s)
  /\ s.completion # None => s.pin = 0 /\ s.rephrase = None
PromptQuiet(s) == Loose(s) /\ s.pin <= s.items

\* What the plugin knows of.
Known(s) ==
  ~s.news =>
    /\ s.live = s.tracked
    /\ s.pin # 0 => s.text[s.live] = s.checked
    /\ Ghosty(s) => s.live # None /\ s.text[s.live] # None

\* The invariant of what is at the cursor.
Cursor(s) == PromptQuiet(s) /\ Known(s)

\* Handlers that take things down.
Fades(s, t) ==
  /\ PromptQuiet(t)
  /\ t.text = s.text /\ t.live = s.live /\ t.tracked = s.tracked /\ (t.news <=> s.news)
  /\ Ghosty(t) => Ghosty(s)
  /\ t.pin # 0 => t.pin = s.pin /\ t.checked = s.checked

\* Such steps compose.
LEMMA FadesCompose ==
  ASSUME NEW s, NEW t, NEW u, Fades(s, t), Fades(t, u)
  PROVE  Fades(s, u)
  BY DEF Fades

\* They keep what is at the cursor right.
LEMMA FadesCursor ==
  ASSUME NEW s, NEW t, Known(s), Fades(s, t)
  PROVE  Cursor(t)
  BY DEF Fades, Cursor, Known

\* Requests that were overtaken are not heard.
LEMMA StaleIs ==
  ASSUME NEW R, \A r \in R : "cur" \in DOMAIN r
  PROVE  /\ \A r \in OpenCode!Stale(R) : "cur" \in DOMAIN r /\ ~r.cur
         /\ (\A r \in R : "ref" \in DOMAIN r /\ r.ref # None) =>
              \A r \in OpenCode!Stale(R) : "ref" \in DOMAIN r /\ r.ref # None
  BY DEF OpenCode!Stale

\* Of the requests that are out the new one alone is heard.
LEMMA AskedIs ==
  ASSUME NEW R, \A r \in R : "cur" \in DOMAIN r, NEW ref, NEW text
  PROVE  LET A == OpenCode!Asked(R, ref, text) IN
         /\ \A r \in A : "cur" \in DOMAIN r
         /\ \E r \in A : r.cur
         /\ \A q, r \in A : q.cur /\ r.cur => q = r
         /\ (\A r \in R : "ref" \in DOMAIN r /\ r.ref # None) /\ ref # None =>
              \A r \in A : "ref" \in DOMAIN r /\ r.ref # None
  <1> DEFINE new == [ref |-> ref, text |-> text, cur |-> TRUE]
  <1>1. "cur" \in DOMAIN new /\ new.cur = TRUE /\ "ref" \in DOMAIN new /\ new.ref = ref
    OBVIOUS
  <1>2. OpenCode!Asked(R, ref, text) = OpenCode!Stale(R) \cup {new}
    BY DEF OpenCode!Asked
  <1> HIDE DEF new
  <1> QED
    BY <1>1, <1>2, StaleIs

\* The helpers that take things down, or start the debounce.
LEMMA Takedowns ==
  ASSUME NEW s, PromptQuiet(s)
  PROVE  /\ Fades(s, s) /\ Fades(s, OpenCode!ClearMarks(s)) /\ Fades(s, OpenCode!ClearGhost(s)) /\
            Fades(s, OpenCode!Unpin(s))
         /\ Fades(s, OpenCode!CancelRephrase(s)) /\ Fades(s, OpenCode!HideGhost(s))
         /\ \A ref : Fades(s, OpenCode!Schedule(s, ref))
  <1>1. Fades(s, s)
    BY DEF Fades
  <1>2. Fades(s, OpenCode!ClearMarks(s))
    <2> DEFINE t == OpenCode!ClearMarks(s)
    <2>1. DOMAIN t = PromptNames /\ t.marks = None /\ \A n \in PromptNames \ {"marks"} : t[n] = s[n]
      BY DEF PromptQuiet, Loose, PromptNames, OpenCode!ClearMarks
    <2> HIDE DEF t
    <2>2. /\ t.text = s.text /\ t.live = s.live /\ t.tracked = s.tracked /\ (t.news <=> s.news)
          /\ t.items = s.items /\ t.checked = s.checked /\ t.pin = s.pin
          /\ t.rewrites = s.rewrites /\ (t.spinner <=> s.spinner) /\ t.rephrase = s.rephrase
          /\ t.completion = s.completion /\ t.pause = s.pause /\ t.asks = s.asks
      BY <2>1 DEF PromptNames
    <2> QED
      BY <2>1, <2>2 DEF Fades, PromptQuiet, Loose, SpinnerOK, PlacesOK, ItemsOK, Ghosty, t
  <1>3. Fades(s, OpenCode!ClearGhost(s))
    <2> DEFINE t == OpenCode!ClearGhost(s)
    <2>1. /\ DOMAIN t = PromptNames /\ t.completion = None /\ t.pause = None /\
             t.asks = OpenCode!Stale(s.asks)
          /\ \A n \in PromptNames \ {"completion", "pause", "asks"} : t[n] = s[n]
      BY DEF PromptQuiet, Loose, PromptNames, OpenCode!ClearGhost
    <2> HIDE DEF t
    <2>2. /\ t.text = s.text /\ t.live = s.live /\ t.tracked = s.tracked /\ (t.news <=> s.news)
          /\ t.items = s.items /\ t.checked = s.checked /\ t.pin = s.pin /\ t.marks = s.marks
          /\ t.rewrites = s.rewrites /\ (t.spinner <=> s.spinner) /\ t.rephrase = s.rephrase
      BY <2>1 DEF PromptNames
    <2>3. \A r \in t.asks : "cur" \in DOMAIN r /\ ~r.cur /\ "ref" \in DOMAIN r /\ r.ref # None
      BY <2>1, StaleIs DEF PromptQuiet, Loose, PlacesOK
    <2> QED
      BY <2>1, <2>2, <2>3 DEF Fades, PromptQuiet, Loose, SpinnerOK, PlacesOK, ItemsOK, Ghosty, t
  <1>4. Fades(s, OpenCode!Unpin(s))
    <2> DEFINE t == OpenCode!Unpin(s)
    <2>1. DOMAIN t = PromptNames /\ t.pin = 0 /\ \A n \in PromptNames \ {"pin", "signed"} : t[n] = s[n]
      BY DEF PromptQuiet, Loose, PromptNames, OpenCode!Unpin
    <2> HIDE DEF t
    <2>2. /\ t.text = s.text /\ t.live = s.live /\ t.tracked = s.tracked /\ (t.news <=> s.news)
          /\ t.items = s.items /\ t.checked = s.checked /\ t.marks = s.marks
          /\ t.rewrites = s.rewrites /\ (t.spinner <=> s.spinner) /\ t.rephrase = s.rephrase
          /\ t.completion = s.completion /\ t.pause = s.pause /\ t.asks = s.asks
      BY <2>1 DEF PromptNames
    <2> QED
      BY <2>1, <2>2 DEF Fades, PromptQuiet, Loose, SpinnerOK, PlacesOK, ItemsOK, Ghosty, t
  <1>5. Fades(s, OpenCode!CancelRephrase(s))
    <2> DEFINE t == OpenCode!CancelRephrase(s)
    <2>1. /\ DOMAIN t = PromptNames /\ t.rephrase = None /\ t.spinner = FALSE /\
             t.rewrites = OpenCode!Stale(s.rewrites)
          /\ \A n \in PromptNames \ {"rephrase", "spinner", "rewrites"} : t[n] = s[n]
      BY DEF PromptQuiet, Loose, PromptNames, OpenCode!CancelRephrase
    <2> HIDE DEF t
    <2>2. /\ t.text = s.text /\ t.live = s.live /\ t.tracked = s.tracked /\ (t.news <=> s.news)
          /\ t.items = s.items /\ t.checked = s.checked /\ t.pin = s.pin /\ t.marks = s.marks
          /\ t.completion = s.completion /\ t.pause = s.pause /\ t.asks = s.asks
      BY <2>1 DEF PromptNames
    <2>3. \A r \in t.rewrites : "cur" \in DOMAIN r /\ ~r.cur
      BY <2>1, StaleIs DEF PromptQuiet, Loose, SpinnerOK
    <2> QED
      BY <2>1, <2>2, <2>3 DEF Fades, PromptQuiet, Loose, SpinnerOK, PlacesOK, ItemsOK, Ghosty, t
  <1>6. Fades(s, OpenCode!HideGhost(s))
    BY <1>1, <1>3 DEF OpenCode!HideGhost
  <1>7. ASSUME NEW ref PROVE Fades(s, OpenCode!Schedule(s, ref))
    <2> DEFINE t == OpenCode!Schedule(s, ref)
    <2>1. DOMAIN t = PromptNames /\ \A n \in PromptNames \ {"timer"} : t[n] = s[n]
      BY DEF PromptQuiet, Loose, PromptNames, OpenCode!Schedule
    <2> HIDE DEF t
    <2>2. /\ t.text = s.text /\ t.live = s.live /\ t.tracked = s.tracked /\ (t.news <=> s.news)
          /\ t.items = s.items /\ t.checked = s.checked /\ t.pin = s.pin /\ t.marks = s.marks
          /\ t.rewrites = s.rewrites /\ (t.spinner <=> s.spinner) /\ t.rephrase = s.rephrase
          /\ t.completion = s.completion /\ t.pause = s.pause /\ t.asks = s.asks
      BY <2>1 DEF PromptNames
    <2> QED
      BY <2>1, <2>2 DEF Fades, PromptQuiet, Loose, SpinnerOK, PlacesOK, ItemsOK, Ghosty, t
  <1> QED
    BY <1>1, <1>2, <1>3, <1>4, <1>5, <1>6, <1>7

\* Signing the pin, or letting it go, when the suggestions change.
LEMMA ItemsFade ==
  ASSUME NEW s, Loose(s), NEW differs
  PROVE  LET t == OpenCode!ItemsChanged(s, differs) IN
         /\ Fades(s, t) /\ t.items = s.items /\ t.checked = s.checked
         /\ s.items = 0 => t.pin = 0
  <1> DEFINE t == OpenCode!ItemsChanged(s, differs)
  <1>1. \/ t = s /\ s.pin = 0
        \/ t = [s EXCEPT !.pin = 0, !.signed = FALSE]
        \/ t = [s EXCEPT !.signed = TRUE] /\ s.pin <= s.items /\ s.pin # 0
    BY DEF OpenCode!ItemsChanged, OpenCode!Unpin, Loose, ItemsOK
  <1> HIDE DEF t
  <1>2. /\ DOMAIN t = PromptNames /\ \A n \in PromptNames \ {"pin", "signed"} : t[n] = s[n]
        /\ t.pin = 0 \/ (t.pin = s.pin /\ s.pin <= s.items)
        /\ s.items = 0 => t.pin = 0
    <2>1. DOMAIN s = PromptNames /\ s.items \in Nat /\ s.pin \in Nat
      BY DEF Loose, ItemsOK
    <2>2. CASE t = s /\ s.pin = 0
      BY <2>1, <2>2
    <2>3. CASE t = [s EXCEPT !.pin = 0, !.signed = FALSE]
      BY <2>1, <2>3 DEF PromptNames
    <2>4. CASE t = [s EXCEPT !.signed = TRUE] /\ s.pin <= s.items /\ s.pin # 0
      <3>1. DOMAIN t = PromptNames /\ \A n \in PromptNames \ {"signed"} : t[n] = s[n]
        BY <2>1, <2>4 DEF PromptNames
      <3>2. t.pin = s.pin
        BY <3>1 DEF PromptNames
      <3> QED
        BY <2>1, <2>4, <3>1, <3>2
    <2> QED
      BY <1>1, <2>2, <2>3, <2>4
  <1>3. /\ t.text = s.text /\ t.live = s.live /\ t.tracked = s.tracked /\ (t.news <=> s.news)
        /\ t.items = s.items /\ t.checked = s.checked /\ t.marks = s.marks
        /\ t.rewrites = s.rewrites /\ (t.spinner <=> s.spinner) /\ t.rephrase = s.rephrase
        /\ t.completion = s.completion /\ t.pause = s.pause /\ t.asks = s.asks
    BY <1>2 DEF PromptNames
  <1>4. Fades(s, t)
    BY <1>2, <1>3 DEF Fades, PromptQuiet, Loose, SpinnerOK, PlacesOK, ItemsOK, Ghosty
  <1> QED
    BY <1>2, <1>3, <1>4 DEF t

\* Dropping the suggestions lets the pin go.
LEMMA DropFades ==
  ASSUME NEW s, Loose(s)
  PROVE  Fades(s, OpenCode!DropItems(s)) /\ OpenCode!DropItems(s).pin = 0
  <1> DEFINE m == [s EXCEPT !.items = 0, !.checked = None, !.marks = None]
             t == OpenCode!DropItems(s)
  <1>1. t = OpenCode!ItemsChanged(m, TRUE)
    <2>1. OpenCode!ClearMarks([s EXCEPT !.items = 0, !.checked = None]) = m
      BY DEF OpenCode!ClearMarks, Loose
    <2> QED
      BY <2>1 DEF OpenCode!DropItems
  <1>2. /\ DOMAIN m = PromptNames /\ m.items = 0 /\ m.checked = None /\ m.marks = None
        /\ \A n \in PromptNames \ {"items", "checked", "marks"} : m[n] = s[n]
    BY DEF Loose, PromptNames
  <1> HIDE DEF m, t
  <1>3. /\ m.text = s.text /\ m.live = s.live /\ m.tracked = s.tracked /\ (m.news <=> s.news) /\ m.pin = s.pin
        /\ m.rewrites = s.rewrites /\ (m.spinner <=> s.spinner) /\ m.rephrase = s.rephrase
        /\ m.completion = s.completion /\ m.pause = s.pause /\ m.asks = s.asks
    BY <1>2 DEF PromptNames
  <1>4. Loose(m) /\ (Ghosty(m) => Ghosty(s))
    BY <1>2, <1>3 DEF Loose, SpinnerOK, PlacesOK, ItemsOK, Ghosty
  <1>5. Fades(m, t) /\ t.pin = 0
    BY <1>1, <1>2, <1>4, ItemsFade
  <1> QED
    BY <1>3, <1>4, <1>5 DEF Fades, t

\* A changed text takes pin, rephrasing and ghost down.
LEMMA TextChangedFades ==
  ASSUME NEW s, PromptQuiet(s)
  PROVE  LET t == OpenCode!TextChanged(s) IN Fades(s, t) /\ (t.pin # 0 => t.text[t.live] = t.checked)
  <1>1. Fades(s, OpenCode!Unpin(s)) /\ PromptQuiet(OpenCode!Unpin(s)) /\ OpenCode!Unpin(s).pin = 0
    BY Takedowns DEF Fades, OpenCode!Unpin, PromptQuiet, Loose, PromptNames
  <1> DEFINE u == OpenCode!CancelRephrase(OpenCode!Unpin(s))
  <1>2. Fades(OpenCode!Unpin(s), u)
    BY <1>1, Takedowns
  <1>3. Fades(s, u) /\ PromptQuiet(u) /\ u.pin = 0
    BY <1>1, <1>2, FadesCompose DEF Fades
  <1> HIDE DEF u
  <1>4. Fades(u, OpenCode!HideGhost(u))
    BY <1>3, Takedowns
  <1>5. Fades(s, OpenCode!HideGhost(u)) /\ OpenCode!HideGhost(u).pin = 0
    BY <1>3, <1>4, FadesCompose DEF Fades
  <1>6. Fades(s, s)
    BY Takedowns
  <1> QED
    BY <1>5, <1>6 DEF OpenCode!TextChanged, u

\* Another prompt takes everything down.
LEMMA SwappedKnows ==
  ASSUME NEW s, PromptQuiet(s)
  PROVE  LET t == OpenCode!Swapped(s) IN
         /\ PromptQuiet(t) /\ t.text = s.text /\ t.live = s.live /\ (t.news <=> s.news) /\ t.tracked = t.live
         /\ t.pin # 0 => t.checked = s.checked /\ t.pin = s.pin
  <1>1. CASE s.live = s.tracked
    BY <1>1 DEF OpenCode!Swapped
  <1>2. CASE s.live # s.tracked
    <2> DEFINE m == [s EXCEPT !.tracked = s.live, !.checks = OpenCode!Stale(@)]
               u == OpenCode!DropItems(m)
               v == OpenCode!CancelRephrase(u)
               t == OpenCode!HideGhost(v)
    <2>1. /\ DOMAIN m = PromptNames /\ m.tracked = s.live /\ \A n \in PromptNames \ {"tracked", "checks"} :
             m[n] = s[n]
      BY DEF PromptQuiet, Loose, PromptNames
    <2>2. OpenCode!Swapped(s) = t
      BY <1>2 DEF OpenCode!Swapped
    <2> HIDE DEF m
    <2>3. /\ m.text = s.text /\ m.live = s.live /\ (m.news <=> s.news) /\ m.pin = s.pin
          /\ m.items = s.items /\ m.checked = s.checked /\ m.marks = s.marks
          /\ m.rewrites = s.rewrites /\ (m.spinner <=> s.spinner) /\ m.rephrase = s.rephrase
          /\ m.completion = s.completion /\ m.pause = s.pause /\ m.asks = s.asks
      BY <2>1 DEF PromptNames
    <2>4. PromptQuiet(m)
      BY <2>1, <2>3 DEF PromptQuiet, Loose, SpinnerOK, PlacesOK, ItemsOK
    <2>5. Fades(m, u) /\ u.pin = 0
      BY <2>4, DropFades DEF PromptQuiet
    <2> HIDE DEF u
    <2>6. Fades(u, v)
      BY <2>5, Takedowns DEF Fades
    <2> HIDE DEF v
    <2>7. Fades(v, t)
      BY <2>6, Takedowns DEF Fades
    <2>8. Fades(m, t)
      BY <2>5, <2>6, <2>7, FadesCompose
    <2>9. t.pin = 0
      BY <2>5, <2>6, <2>7 DEF Fades
    <2> HIDE DEF t
    <2> QED
      BY <2>1, <2>2, <2>3, <2>8, <2>9 DEF Fades
  <1> QED
    BY <1>1, <1>2

\* The whole of onChange: the plugin knows what there is.
LEMMA OnChangeKnows ==
  ASSUME NEW s, PromptQuiet(s), s.live = None => Known(s), NEW pausing
  PROVE  Cursor(OpenCode!OnChange(s, pausing))
  <1>1. CASE s.live = None
    BY <1>1 DEF OpenCode!OnChange, Cursor
  <1>2. CASE s.live # None
    <2> DEFINE m == [s EXCEPT !.news = FALSE]
               u == OpenCode!TextChanged(m)
               now == OpenCode!Swapped(u)
               bare == OpenCode!ClearGhost(now)
    <2>1. DOMAIN m = PromptNames /\ m.news = FALSE /\ \A n \in PromptNames \ {"news"} : m[n] = s[n]
      BY DEF PromptQuiet, Loose, PromptNames
    <2>2. OpenCode!OnChange(s, pausing) = IF now.text[now.live] = None THEN OpenCode!Emptied(now)
                                          ELSE OpenCode!Written(now, pausing)
      BY <1>2 DEF OpenCode!OnChange
    <2> HIDE DEF m
    <2>3. /\ m.text = s.text /\ m.live = s.live /\ m.tracked = s.tracked /\ m.pin = s.pin
          /\ m.items = s.items /\ m.checked = s.checked /\ m.marks = s.marks
          /\ m.rewrites = s.rewrites /\ (m.spinner <=> s.spinner) /\ m.rephrase = s.rephrase
          /\ m.completion = s.completion /\ m.pause = s.pause /\ m.asks = s.asks
      BY <2>1 DEF PromptNames
    <2>4. PromptQuiet(m)
      BY <2>1, <2>3 DEF PromptQuiet, Loose, SpinnerOK, PlacesOK, ItemsOK
    <2>5. Fades(m, u) /\ (u.pin # 0 => u.text[u.live] = u.checked)
      BY <2>4, TextChangedFades
    <2> HIDE DEF u
    <2>6. /\ PromptQuiet(now) /\ now.text = u.text /\ now.live = u.live /\ (now.news <=> u.news) /\
             now.tracked = now.live
          /\ now.pin # 0 => now.checked = u.checked /\ now.pin = u.pin
      BY <2>5, SwappedKnows DEF Fades
    <2> HIDE DEF now
    <2>7. now.live # None /\ ~now.news /\ (now.pin # 0 => now.text[now.live] = now.checked)
      BY <1>2, <2>1, <2>3, <2>5, <2>6 DEF Fades
    <2>8. CASE now.text[now.live] = None
      <3>1. Fades(now, bare) /\ ~Ghosty(bare)
        <4>1. Fades(now, bare)
          BY <2>6, Takedowns
        <4>2. /\ bare.completion = None /\ bare.pause = None /\ bare.asks = OpenCode!Stale(now.asks)
          BY <2>6 DEF OpenCode!ClearGhost, PromptQuiet, Loose, PromptNames
        <4> HIDE DEF bare
        <4> QED
          BY <2>6, <4>1, <4>2, StaleIs DEF Ghosty, PromptQuiet, Loose, PlacesOK
      <3>2. OpenCode!Emptied(now) = IF bare.items > 0 /\ bare.checked # None THEN OpenCode!DropItems(bare)
                                    ELSE OpenCode!Schedule(bare, now.live)
        <4>1. bare.live = now.live /\ bare.items = now.items /\ bare.checked = now.checked
          BY <2>6 DEF OpenCode!ClearGhost, PromptQuiet, Loose, PromptNames
        <4> QED
          BY <4>1 DEF OpenCode!Emptied
      <3> HIDE DEF bare
      <3>3. Fades(bare, OpenCode!Emptied(now))
        <4>1. PromptQuiet(bare) /\ Loose(bare)
          BY <3>1 DEF Fades, PromptQuiet
        <4>2. Fades(bare, OpenCode!DropItems(bare)) /\ Fades(bare, OpenCode!Schedule(bare, now.live))
          BY <4>1, Takedowns, DropFades
        <4> QED
          BY <3>2, <4>2
      <3>4. Known(OpenCode!Emptied(now))
        BY <2>6, <2>7, <3>1, <3>3 DEF Fades, Known
      <3> QED
        BY <2>2, <2>8, <3>3, <3>4 DEF Fades, Cursor
    <2>9. CASE now.text[now.live] # None
      <3> DEFINE v == OpenCode!Schedule(now, now.live)
                 pause == IF pausing /\ v.pin = 0 /\ v.rephrase = None
                          THEN [ref |-> now.live, text |-> now.text[now.live]] ELSE None
                 w == [v EXCEPT !.pause = pause]
      <3>1. Fades(now, v) /\ v.pin = now.pin /\ v.rephrase = now.rephrase /\ v.checked = now.checked
        BY <2>6, Takedowns DEF OpenCode!Schedule, PromptQuiet, Loose, PromptNames
      <3>2. OpenCode!Written(now, pausing) = w
        BY <3>1 DEF OpenCode!Written
      <3>3. pause # None => pause.ref # None
        BY <2>7
      <3> HIDE DEF v, pause
      <3>4. DOMAIN w = PromptNames /\ w.pause = pause /\ \A n \in PromptNames \ {"pause"} : w[n] = v[n]
        BY <3>1 DEF Fades, PromptQuiet, Loose, PromptNames
      <3> HIDE DEF w
      <3>5. /\ w.text = v.text /\ w.live = v.live /\ w.tracked = v.tracked /\ (w.news <=> v.news) /\
               w.pin = v.pin
            /\ w.items = v.items /\ w.checked = v.checked /\ w.marks = v.marks
            /\ w.rewrites = v.rewrites /\ (w.spinner <=> v.spinner) /\ w.rephrase = v.rephrase
            /\ w.completion = v.completion /\ w.asks = v.asks
        BY <3>4 DEF PromptNames
      <3>6. PromptQuiet(w)
        BY <3>1, <3>3, <3>4, <3>5 DEF Fades, PromptQuiet, Loose, SpinnerOK, PlacesOK, ItemsOK
      <3>7. Known(w)
        BY <2>6, <2>7, <2>9, <3>1, <3>5 DEF Fades, Known
      <3> QED
        BY <2>2, <2>9, <3>2, <3>6, <3>7 DEF Cursor
    <2> QED
      BY <2>8, <2>9
  <1> QED
    BY <1>1, <1>2

CursorNames ==
  {"text", "live", "news", "tracked", "items", "checked", "marks", "pin", "rewrites", "spinner", "rephrase",
   "completion", "pause", "asks"}

\* What is not about the cursor.
LEMMA Untouched ==
  ASSUME NEW s, NEW t, DOMAIN t = PromptNames, \A n \in CursorNames : t[n] = s[n]
  PROVE  (PromptQuiet(s) => PromptQuiet(t)) /\ (Known(s) => Known(t))
  <1>1. /\ t.text = s.text /\ t.live = s.live /\ t.tracked = s.tracked /\ (t.news <=> s.news)
        /\ t.items = s.items /\ t.checked = s.checked /\ t.pin = s.pin /\ t.marks = s.marks
        /\ t.rewrites = s.rewrites /\ (t.spinner <=> s.spinner) /\ t.rephrase = s.rephrase
        /\ t.completion = s.completion /\ t.pause = s.pause /\ t.asks = s.asks
    BY DEF CursorNames
  <1> QED
    BY <1>1 DEF PromptQuiet, Loose, SpinnerOK, PlacesOK, ItemsOK, Known, Ghosty

\* A suggestion of the text that is there is pinned.
LEMMA PinKnows ==
  ASSUME NEW s, Cursor(s), NEW i \in 1..s.items, s.pin # 0 \/ s.text[s.live] = s.checked
  PROVE  Cursor(OpenCode!Pin(s, i))
  <1> DEFINE t == OpenCode!Pin(s, i)
  <1>1. CASE s.pin = i
    BY <1>1 DEF OpenCode!Pin
  <1>2. CASE s.pin # i
    <2>1. /\ DOMAIN t = PromptNames /\ t.pin = i /\ t.completion = None /\ t.pause = None /\
             t.asks = OpenCode!Stale(s.asks)
          /\ \A n \in PromptNames \ {"pin", "signed", "completion", "pause", "asks"} : t[n] = s[n]
      BY <1>2 DEF OpenCode!Pin, OpenCode!ClearGhost, Cursor, PromptQuiet, Loose, PromptNames
    <2> HIDE DEF t
    <2>2. /\ t.text = s.text /\ t.live = s.live /\ t.tracked = s.tracked /\ (t.news <=> s.news)
          /\ t.items = s.items /\ t.checked = s.checked /\ t.marks = s.marks
          /\ t.rewrites = s.rewrites /\ (t.spinner <=> s.spinner) /\ t.rephrase = s.rephrase
      BY <2>1 DEF PromptNames
    <2>3. \A r \in t.asks : "cur" \in DOMAIN r /\ ~r.cur /\ "ref" \in DOMAIN r /\ r.ref # None
      BY <2>1, StaleIs DEF Cursor, PromptQuiet, Loose, PlacesOK
    <2>4. t.pin \in Nat /\ t.pin <= t.items /\ s.items \in Nat
      BY <2>1, <2>2 DEF Cursor, PromptQuiet, Loose, ItemsOK
    <2>5. PromptQuiet(t)
      BY <2>1, <2>2, <2>3, <2>4 DEF Cursor, PromptQuiet, Loose, SpinnerOK, PlacesOK, ItemsOK
    <2>6. Known(t)
      BY <2>1, <2>2, <2>3 DEF Cursor, Known, Ghosty
    <2> QED
      BY <2>5, <2>6 DEF Cursor, t
  <1> QED
    BY <1>1, <1>2

\* To write into the prompt leaves what is at the cursor to the handler of the change.
LEMMA RewrittenQuiet ==
  ASSUME NEW s, PromptQuiet(s), NEW text
  PROVE  PromptQuiet(OpenCode!Rewritten(s, text)) /\ OpenCode!Rewritten(s, text).live = s.live
  <1> DEFINE t == OpenCode!Rewritten(s, text)
  <1>1. DOMAIN t = PromptNames /\ \A n \in PromptNames \ {"text", "edits"} : t[n] = s[n]
    BY DEF OpenCode!Rewritten, PromptQuiet, Loose, PromptNames
  <1> HIDE DEF t
  <1>2. /\ t.live = s.live /\ t.tracked = s.tracked /\ (t.news <=> s.news)
        /\ t.items = s.items /\ t.checked = s.checked /\ t.pin = s.pin /\ t.marks = s.marks
        /\ t.rewrites = s.rewrites /\ (t.spinner <=> s.spinner) /\ t.rephrase = s.rephrase
        /\ t.completion = s.completion /\ t.pause = s.pause /\ t.asks = s.asks
    BY <1>1 DEF PromptNames
  <1>3. PromptQuiet(t)
    BY <1>1, <1>2 DEF PromptQuiet, Loose, SpinnerOK, PlacesOK, ItemsOK
  <1> QED
    BY <1>2, <1>3 DEF t

\* A command changes the text and tells the plugin.
LEMMA ApplyKnows ==
  ASSUME NEW s, PromptQuiet(s), s.live = None => Known(s), NEW pausing
  PROVE  Cursor(OpenCode!OnChange(OpenCode!DropItems(OpenCode!Unpin(s)), pausing))
  <1> DEFINE u == OpenCode!Unpin(s)
             t == OpenCode!DropItems(u)
  <1>1. Fades(s, u)
    BY Takedowns
  <1> HIDE DEF u
  <1>2. Fades(u, t)
    BY <1>1, DropFades DEF Fades, PromptQuiet
  <1> HIDE DEF t
  <1>3. Fades(s, t)
    BY <1>1, <1>2, FadesCompose
  <1>4. PromptQuiet(t) /\ (t.live = None => Known(t))
    BY <1>3, FadesCursor DEF Fades, Cursor
  <1> QED
    BY <1>4, OnChangeKnows DEF t, u

\* The host, and commands that tell it.
LEMMA TextSteps ==
  ASSUME Cursor(state),
         \/ OpenCode!Type \/ OpenCode!Swap \/ OpenCode!Changed \/ OpenCode!ApplyAll \/ OpenCode!ApplyPinned \/
            OpenCode!RephraseAccept \/ OpenCode!AcceptCompletion
  PROVE  Cursor(state')
  <1>0. PromptQuiet(state) /\ Known(state) /\ DOMAIN state = PromptNames
    BY DEF Cursor, PromptQuiet, Loose
  <1>1. CASE OpenCode!Type
    <2>1. PICK text : state' = [OpenCode!Rewritten(state, text) EXCEPT !.news = TRUE]
      BY <1>1 DEF OpenCode!Type, OpenCode!Step
    <2> DEFINE s == OpenCode!Rewritten(state, text)
    <2>2. PromptQuiet(s)
      BY <1>0, RewrittenQuiet
    <2>3. state' = [s EXCEPT !.news = TRUE]
      BY <2>1
    <2> HIDE DEF s
    <2>4. DOMAIN state' = PromptNames /\ state'.news = TRUE /\ \A n \in PromptNames \ {"news"} :
          state'[n] = s[n]
      BY <2>2, <2>3 DEF PromptQuiet, Loose, PromptNames
    <2>5. /\ state'.items = s.items /\ state'.checked = s.checked /\ state'.pin = s.pin /\
             state'.marks = s.marks
          /\ state'.rewrites = s.rewrites /\ (state'.spinner <=> s.spinner) /\ state'.rephrase = s.rephrase
          /\ state'.completion = s.completion /\ state'.pause = s.pause /\ state'.asks = s.asks
      BY <2>4 DEF PromptNames
    <2> QED
      BY <2>2, <2>4, <2>5 DEF Cursor, Known, PromptQuiet, Loose, SpinnerOK, PlacesOK, ItemsOK
  <1>2. CASE OpenCode!Swap
    <2>1. /\ DOMAIN state' = PromptNames /\ state'.news = TRUE
          /\ \A n \in PromptNames \ {"live", "news", "swaps"} : state'[n] = state[n]
      BY <1>0, <1>2 DEF OpenCode!Swap, PromptNames
    <2>2. /\ state'.items = state.items /\ state'.checked = state.checked /\ state'.pin = state.pin
          /\ state'.marks = state.marks /\ state'.rewrites = state.rewrites
          /\ (state'.spinner <=> state.spinner) /\ state'.rephrase = state.rephrase
          /\ state'.completion = state.completion /\ state'.pause = state.pause /\ state'.asks = state.asks
      BY <2>1 DEF PromptNames
    <2> QED
      BY <1>0, <2>1, <2>2 DEF Cursor, Known, PromptQuiet, Loose, SpinnerOK, PlacesOK, ItemsOK
  <1>3. CASE OpenCode!Changed
    BY <1>0, <1>3, OnChangeKnows DEF OpenCode!Changed, OpenCode!Step
  <1>4. ASSUME NEW text, NEW pausing, state.live # None,
               state' = OpenCode!OnChange(OpenCode!DropItems(OpenCode!Unpin(OpenCode!Rewritten(state, text))),
                                          pausing)
        PROVE  Cursor(state')
    BY <1>0, <1>4, RewrittenQuiet, ApplyKnows
  <1>5. CASE OpenCode!ApplyAll
    <2>1. \/ \E pausing : state' = OpenCode!OnChange(OpenCode!DropItems(OpenCode!Unpin(state)), pausing)
          \/ \E text, pausing : /\ state.live # None
                                /\ state' = OpenCode!OnChange(OpenCode!DropItems(OpenCode!Unpin(OpenCode!Rewritten(state, text))), pausing)
      BY <1>5, Zenon DEF OpenCode!ApplyAll, OpenCode!Step
    <2> QED
      BY <1>0, <1>4, <2>1, ApplyKnows
  <1>6. CASE OpenCode!ApplyPinned
    <2>1. \/ state' = OpenCode!Schedule(state, state.live)
          \/ \E text, pausing : /\ state.live # None
                                /\ state' = OpenCode!OnChange(OpenCode!DropItems(OpenCode!Unpin(OpenCode!Rewritten(state, text))), pausing)
      BY <1>6, Zenon DEF OpenCode!ApplyPinned, OpenCode!Step
    <2>2. Cursor(OpenCode!Schedule(state, state.live))
      BY <1>0, Takedowns, FadesCursor
    <2> QED
      BY <1>4, <2>1, <2>2
  <1>7. ASSUME NEW t, Cursor(t), NEW text, NEW pausing, t.live # None,
               state' = OpenCode!OnChange(OpenCode!Rewritten(t, text), pausing)
        PROVE  Cursor(state')
    BY <1>7, RewrittenQuiet, OnChangeKnows DEF Cursor
  <1>8. CASE OpenCode!RephraseAccept
    <2> DEFINE t == [state EXCEPT !.rephrase = None]
    <2>1. /\ state.rephrase # None /\ state.rephrase.mode = "result"
          /\ \/ state' = t
             \/ t.live = state.rephrase.ref /\ \E text, pausing :
                state' = OpenCode!OnChange(OpenCode!Rewritten(t, text), pausing)
      BY <1>8, Zenon DEF OpenCode!RephraseAccept, OpenCode!Step
    <2>2. DOMAIN t = PromptNames /\ t.rephrase = None /\ \A n \in PromptNames \ {"rephrase"} : t[n] = state[n]
      BY <1>0 DEF PromptNames
    <2> HIDE DEF t
    <2>3. /\ t.text = state.text /\ t.live = state.live /\ t.tracked = state.tracked /\
             (t.news <=> state.news)
          /\ t.items = state.items /\ t.checked = state.checked /\ t.pin = state.pin /\ t.marks = state.marks
          /\ t.rewrites = state.rewrites /\ (t.spinner <=> state.spinner)
          /\ t.completion = state.completion /\ t.pause = state.pause /\ t.asks = state.asks
      BY <2>2 DEF PromptNames
    <2>4. Cursor(t)
      BY <1>0, <2>1, <2>2, <2>3 DEF Cursor, Known, PromptQuiet, Loose, SpinnerOK, PlacesOK, ItemsOK, Ghosty
    <2>5. state.rephrase.ref # None
      BY <1>0, <2>1 DEF PromptQuiet, Loose, PlacesOK
    <2> QED
      BY <1>7, <2>1, <2>4, <2>5
  <1>9. CASE OpenCode!AcceptCompletion
    <2> DEFINE t == [state EXCEPT !.completion = None]
    <2>1. /\ state.completion # None
          /\ \/ state' = t
             \/ t.live = state.completion.ref /\ \E text, pausing :
                state' = OpenCode!OnChange(OpenCode!Rewritten(t, text), pausing)
      BY <1>9, Zenon DEF OpenCode!AcceptCompletion, OpenCode!Step
    <2>2. DOMAIN t = PromptNames /\ t.completion = None /\ \A n \in PromptNames \ {"completion"} :
          t[n] = state[n]
      BY <1>0 DEF PromptNames
    <2> HIDE DEF t
    <2>3. /\ t.text = state.text /\ t.live = state.live /\ t.tracked = state.tracked /\
             (t.news <=> state.news)
          /\ t.items = state.items /\ t.checked = state.checked /\ t.pin = state.pin /\ t.marks = state.marks
          /\ t.rewrites = state.rewrites /\ (t.spinner <=> state.spinner) /\ t.rephrase = state.rephrase
          /\ t.pause = state.pause /\ t.asks = state.asks
      BY <2>2 DEF PromptNames
    <2>4. Cursor(t)
      BY <1>0, <2>2, <2>3 DEF Cursor, Known, PromptQuiet, Loose, SpinnerOK, PlacesOK, ItemsOK, Ghosty
    <2>5. state.completion.ref # None
      BY <1>0, <2>1 DEF PromptQuiet, Loose, PlacesOK
    <2> QED
      BY <1>7, <2>1, <2>4, <2>5
  <1> QED
    BY <1>1, <1>2, <1>3, <1>5, <1>6, <1>8, <1>9

\* The panel.
LEMMA PanelSteps ==
  ASSUME Cursor(state), OpenCode!CursorMoves \/ OpenCode!Cycle \/ OpenCode!UnpinKey \/ OpenCode!Review \/
         OpenCode!IgnorePinned \/ OpenCode!DismissCompletion \/ OpenCode!RephraseReject
  PROVE  Cursor(state')
  <1>0. PromptQuiet(state) /\ Known(state) /\ DOMAIN state = PromptNames /\ state.items \in Nat /\
        state.pin \in Nat
    BY DEF Cursor, PromptQuiet, Loose, ItemsOK
  <1>1. CASE OpenCode!CursorMoves
    BY <1>0, <1>1, PinKnows, Takedowns, FadesCursor DEF OpenCode!CursorMoves, OpenCode!Step
  <1>2. CASE OpenCode!Cycle
    <2>1. PICK step \in {1, state.items - 1} :
               state' = OpenCode!Pin(state, ((state.pin - 1 + step) % state.items) + 1)
      BY <1>2 DEF OpenCode!Cycle, OpenCode!Step
    <2> DEFINE x == state.pin - 1 + step
               i == (x % state.items) + 1
    <2>2. state.pin # 0 /\ state.items > 0 /\ x \in Nat
      BY <1>0, <1>2 DEF OpenCode!Cycle
    <2> HIDE DEF x
    <2>3. i \in 1..state.items
      BY <1>0, <2>2
    <2>4. state' = OpenCode!Pin(state, i)
      BY <2>1 DEF x
    <2> HIDE DEF i
    <2> QED
      BY <2>2, <2>3, <2>4, PinKnows
  <1>3. CASE OpenCode!UnpinKey
    BY <1>0, <1>3, Takedowns, FadesCursor DEF OpenCode!UnpinKey, OpenCode!Step
  <1>4. CASE OpenCode!Review
    BY <1>0, <1>4, PinKnows, Takedowns, FadesCursor DEF OpenCode!Review, OpenCode!Step
  <1>5. CASE OpenCode!IgnorePinned
    <2> DEFINE t == state'
    <2>1. /\ DOMAIN t = PromptNames /\ t.pin = 0 /\ t.items = state.items - 1 /\ state.items > 0
          /\ t.marks = None \/ state.items - 1 # 0
          /\ \A n \in PromptNames \ {"pin", "signed", "items", "marks"} : t[n] = state[n]
      <3> DEFINE m == [state EXCEPT !.items = @ - 1]
                 u == OpenCode!Unpin(m)
      <3>1. DOMAIN m = PromptNames /\ m.items = state.items - 1 /\ \A n \in PromptNames \ {"items"} :
            m[n] = state[n]
        BY <1>0 DEF PromptNames
      <3>2. \E ref : t = [u EXCEPT !.marks = ref] /\ (u.items = 0 => ref = None)
        BY <1>5 DEF OpenCode!IgnorePinned, OpenCode!Step
      <3> HIDE DEF m, t
      <3>3. DOMAIN u = PromptNames /\ u.pin = 0 /\ u.items = m.items /\
            \A n \in PromptNames \ {"pin", "signed"} : u[n] = m[n]
        BY <3>1 DEF OpenCode!Unpin, PromptNames
      <3> HIDE DEF u
      <3>4. PICK ref : t = [u EXCEPT !.marks = ref] /\ (u.items = 0 => ref = None)
        BY <3>2
      <3>5. DOMAIN t = PromptNames /\ t.marks = ref /\ \A n \in PromptNames \ {"marks"} : t[n] = u[n]
        BY <3>3, <3>4 DEF PromptNames
      <3>6. t.pin = 0 /\ t.items = state.items - 1
        BY <3>1, <3>3, <3>5 DEF PromptNames
      <3>7. t.marks = None \/ state.items - 1 # 0
        BY <3>1, <3>3, <3>4, <3>5
      <3>8. \A n \in PromptNames \ {"pin", "signed", "items", "marks"} : t[n] = state[n]
        BY <3>1, <3>3, <3>5
      <3>9. state.items > 0
        BY <1>0, <1>5 DEF OpenCode!IgnorePinned
      <3> QED
        BY <3>5, <3>6, <3>7, <3>8, <3>9
    <2> HIDE DEF t
    <2>2. /\ t.text = state.text /\ t.live = state.live /\ t.tracked = state.tracked /\
             (t.news <=> state.news)
          /\ t.checked = state.checked
          /\ t.rewrites = state.rewrites /\ (t.spinner <=> state.spinner) /\ t.rephrase = state.rephrase
          /\ t.completion = state.completion /\ t.pause = state.pause /\ t.asks = state.asks
      BY <2>1 DEF PromptNames
    <2>3. ItemsOK(t) /\ t.pin <= t.items
      BY <1>0, <2>1, <2>2 DEF PromptQuiet, Loose, ItemsOK
    <2>4. Cursor(t)
      BY <1>0, <2>1, <2>2, <2>3 DEF Cursor, Known, PromptQuiet, Loose, SpinnerOK, PlacesOK, Ghosty
    <2> QED
      BY <2>4 DEF t
  <1>6. CASE OpenCode!DismissCompletion
    BY <1>0, <1>6, Takedowns, FadesCursor DEF OpenCode!DismissCompletion, OpenCode!Step
  <1>7. CASE OpenCode!RephraseReject
    BY <1>0, <1>7, Takedowns, FadesCursor DEF OpenCode!RephraseReject, OpenCode!Step
  <1> QED
    BY <1>1, <1>2, <1>3, <1>4, <1>5, <1>6, <1>7

\* Checks.
LEMMA CheckSteps ==
  ASSUME PromptChecks(state), Cursor(state), OpenCode!CheckIsDue \/ \E r \in state.checks :
         OpenCode!CheckAnswered(r)
  PROVE  Cursor(state')
  <1>0. PromptQuiet(state) /\ Known(state) /\ DOMAIN state = PromptNames
    BY DEF Cursor, PromptQuiet, Loose
  <1>1. CASE OpenCode!CheckIsDue
    <2> DEFINE t == [state EXCEPT !.timer = None]
               ref == state.timer
               asked == [t EXCEPT !.checks = OpenCode!Asked(@, ref, t.text[ref])]
    <2>1. state' = OpenCode!RunCheck(t, ref)
      BY <1>1 DEF OpenCode!CheckIsDue, OpenCode!Step
    <2>2. DOMAIN t = PromptNames /\ \A n \in CursorNames : t[n] = state[n]
      BY <1>0 DEF PromptNames, CursorNames
    <2> HIDE DEF t, ref
    <2>3. PromptQuiet(t) /\ Known(t)
      BY <1>0, <2>2, Untouched
    <2>4. DOMAIN asked = PromptNames /\ \A n \in CursorNames : asked[n] = t[n]
      BY <2>2 DEF PromptNames, CursorNames
    <2>5. state' = OpenCode!DropItems(t) \/ state' = t \/ state' = asked
      BY <2>1 DEF OpenCode!RunCheck
    <2> HIDE DEF asked
    <2>6. Cursor(OpenCode!DropItems(t))
      BY <2>3, DropFades, FadesCursor DEF PromptQuiet
    <2>7. Cursor(asked)
      BY <2>3, <2>4, Untouched DEF Cursor
    <2> QED
      BY <2>3, <2>5, <2>6, <2>7 DEF Cursor
  <1>2. ASSUME NEW r \in state.checks, OpenCode!CheckAnswered(r) PROVE Cursor(state')
    <2> DEFINE s == [state EXCEPT !.checks = @ \ {r}]
    <2>1. \/ state' = s
          \/ OpenCode!AnswerCounts(s, r) /\ \E n \in 0..Bound.prompt.items,
             differs \in {FALSE, r.text # s.checked} :
                                      state' = OpenCode!ShowItems(s, r, n, differs)
      BY <1>2 DEF OpenCode!CheckAnswered, OpenCode!Step
    <2>2. DOMAIN s = PromptNames /\ \A n \in CursorNames : s[n] = state[n]
      BY <1>0 DEF PromptNames, CursorNames
    <2> HIDE DEF s
    <2>3. PromptQuiet(s) /\ Known(s)
      BY <1>0, <2>2, Untouched
    <2>4. ASSUME OpenCode!AnswerCounts(s, r), NEW n \in 0..Bound.prompt.items, NEW differs,
                 state' = OpenCode!ShowItems(s, r, n, differs)
          PROVE  Cursor(state')
      <3> DEFINE m == [s EXCEPT !.items = n, !.checked = r.text, !.marks = IF n = 0 THEN None ELSE r.ref]
      <3>1. /\ DOMAIN m = PromptNames /\ m.items = n /\ m.checked = r.text /\ m.marks = IF n = 0 THEN None
                                                                                        ELSE r.ref
            /\ \A x \in PromptNames \ {"items", "checked", "marks"} : m[x] = s[x]
        BY <2>2 DEF PromptNames
      <3>2. state' = OpenCode!ItemsChanged(m, differs)
        BY <2>4 DEF OpenCode!ShowItems
      <3> HIDE DEF m
      <3>3. /\ m.text = s.text /\ m.live = s.live /\ m.tracked = s.tracked /\ (m.news <=> s.news) /\
               m.pin = s.pin
            /\ m.rewrites = s.rewrites /\ (m.spinner <=> s.spinner) /\ m.rephrase = s.rephrase
            /\ m.completion = s.completion /\ m.pause = s.pause /\ m.asks = s.asks
        BY <3>1 DEF PromptNames
      <3>4. r.text # None
        BY <2>4 DEF PromptChecks, OpenCode!AnswerCounts
      <3>5. Loose(m)
        <4>1. m.items \in Nat
          BY <3>1
        <4>2. ItemsOK(m)
          BY <2>3, <3>1, <3>3, <3>4, <4>1 DEF PromptQuiet, Loose, ItemsOK
        <4> QED
          BY <2>3, <3>1, <3>3, <4>2 DEF PromptQuiet, Loose, SpinnerOK, PlacesOK
      <3>6. Known(m)
        BY <2>3, <2>4, <3>1, <3>3 DEF Known, Ghosty, OpenCode!AnswerCounts
      <3>7. Fades(m, state')
        BY <3>2, <3>5, ItemsFade
      <3> QED
        BY <3>6, <3>7, FadesCursor
    <2> QED
      BY <2>1, <2>3, <2>4 DEF Cursor
  <1> QED
    BY <1>1, <1>2

\* Completions.
LEMMA CompletionSteps ==
  ASSUME Cursor(state), OpenCode!PauseIsOver \/ \E r \in state.asks : OpenCode!CompletionAnswered(r)
  PROVE  Cursor(state')
  <1>0. PromptQuiet(state) /\ Known(state) /\ DOMAIN state = PromptNames
    BY DEF Cursor, PromptQuiet, Loose
  <1> DEFINE Others == PromptNames \ {"pause", "asks", "completion", "cached"}
  \* What both come to.
  <1>1. ASSUME NEW t, DOMAIN t = PromptNames, \A n \in Others : t[n] = state[n],
               Ghosty(state) \/ ~Ghosty(t),
               t.completion = state.completion
                 \/ (state.pin = 0 /\ state.rephrase = None /\ t.completion.ref # None),
               t.pause \in {state.pause, None},
               \A r \in t.asks : "cur" \in DOMAIN r /\ "ref" \in DOMAIN r /\ r.ref # None
        PROVE  Cursor(t)
    <2>1. /\ t.text = state.text /\ t.live = state.live /\ t.tracked = state.tracked /\
             (t.news <=> state.news)
          /\ t.items = state.items /\ t.checked = state.checked /\ t.pin = state.pin /\ t.marks = state.marks
          /\ t.rewrites = state.rewrites /\ (t.spinner <=> state.spinner) /\ t.rephrase = state.rephrase
      BY <1>1 DEF PromptNames
    <2>2. PromptQuiet(t)
      BY <1>0, <1>1, <2>1 DEF PromptQuiet, Loose, SpinnerOK, PlacesOK, ItemsOK
    <2>3. Known(t)
      BY <1>0, <1>1, <2>1 DEF Known
    <2> QED
      BY <2>2, <2>3 DEF Cursor
  <1>2. CASE OpenCode!PauseIsOver
    <2> DEFINE t == [state EXCEPT !.pause = None]
               ref == state.pause.ref
               text == state.pause.text
               about == [ref |-> ref, text |-> text]
               waits == [state EXCEPT !.pause = None, !.asks = OpenCode!Asked(@, ref, text)]
               asked == [state EXCEPT !.pause = None, !.asks = OpenCode!Stale(@)]
               shown == [state EXCEPT !.pause = None, !.asks = OpenCode!Stale(@), !.completion = about]
    <2>1. ref # None /\ Ghosty(state)
      BY <1>0, <1>2 DEF OpenCode!PauseIsOver, PromptQuiet, Loose, PlacesOK, Ghosty
    <2>2. \/ state' = waits \/ state' = asked
          \/ state.pin = 0 /\ state.rephrase = None /\ state' = shown
      <3>1. state' = OpenCode!RequestCompletion(t, ref, text)
        BY <1>2 DEF OpenCode!PauseIsOver, OpenCode!Step
      <3>2. /\ t.cached = state.cached /\ t.pin = state.pin /\ t.rephrase = state.rephrase
            /\ [t EXCEPT !.asks = OpenCode!Asked(@, ref, text)] = waits
            /\ [t EXCEPT !.asks = OpenCode!Stale(@)] = asked
            /\ [asked EXCEPT !.completion = about] = shown
            /\ asked.pin = state.pin
        BY <1>0 DEF PromptNames
      <3> HIDE DEF t, waits, asked, shown
      <3> QED
        BY <3>1, <3>2 DEF OpenCode!RequestCompletion
    <2>3. /\ DOMAIN waits = PromptNames /\ waits.pause = None /\ waits.completion = state.completion
          /\ waits.asks = OpenCode!Asked(state.asks, ref, text) /\ \A n \in Others : waits[n] = state[n]
      BY <1>0 DEF PromptNames
    <2>4. /\ DOMAIN asked = PromptNames /\ asked.pause = None /\ asked.completion = state.completion
          /\ asked.asks = OpenCode!Stale(state.asks) /\ \A n \in Others : asked[n] = state[n]
      BY <1>0 DEF PromptNames
    <2>5. /\ DOMAIN shown = PromptNames /\ shown.pause = None /\ shown.completion = about /\ about.ref = ref
          /\ shown.asks = OpenCode!Stale(state.asks) /\ \A n \in Others : shown[n] = state[n]
      BY <1>0 DEF PromptNames
    <2> HIDE DEF waits, asked, shown, about, ref, text, Others
    <2>6. /\ \A r \in OpenCode!Asked(state.asks, ref, text) : "cur" \in DOMAIN r /\ "ref" \in DOMAIN r /\
             r.ref # None
          /\ \A r \in OpenCode!Stale(state.asks) : "cur" \in DOMAIN r /\ "ref" \in DOMAIN r /\ r.ref # None
      BY <1>0, <2>1, AskedIs, StaleIs DEF PromptQuiet, Loose, PlacesOK
    <2>7. Cursor(waits)
      BY <1>1, <2>1, <2>3, <2>6
    <2>8. Cursor(asked)
      BY <1>1, <2>1, <2>4, <2>6
    <2>9. state.pin = 0 /\ state.rephrase = None => Cursor(shown)
      BY <1>1, <2>1, <2>5, <2>6
    <2> QED
      BY <2>2, <2>7, <2>8, <2>9
  <1>3. ASSUME NEW r \in state.asks, OpenCode!CompletionAnswered(r) PROVE Cursor(state')
    <2> DEFINE about == [ref |-> r.ref, text |-> r.text]
               gone == [state EXCEPT !.asks = @ \ {r}]
               shown == [state EXCEPT !.asks = @ \ {r}, !.completion = about, !.cached = r.text]
    <2>1. /\ DOMAIN gone = PromptNames /\ gone.pause = state.pause /\ gone.completion = state.completion
          /\ gone.asks = state.asks \ {r} /\ \A n \in Others : gone[n] = state[n]
      BY <1>0 DEF PromptNames
    <2>2. /\ DOMAIN shown = PromptNames /\ shown.pause = state.pause /\ shown.completion = about /\
             about.ref = r.ref
          /\ shown.asks = state.asks \ {r} /\ \A n \in Others : shown[n] = state[n]
      BY <1>0 DEF PromptNames
    <2>3. \/ state' = gone
          \/ r.cur /\ state.pin = 0 /\ state.rephrase = None /\ state' = shown
      <3>1. \/ state' = gone
            \/ OpenCode!CompletionCounts(gone, r) /\
               state' = [gone EXCEPT !.completion = about, !.cached = r.text]
        BY <1>3 DEF OpenCode!CompletionAnswered, OpenCode!Step
      <3>2. /\ [gone EXCEPT !.completion = about, !.cached = r.text] = shown
            /\ gone.pin = state.pin /\ gone.rephrase = state.rephrase
        BY <1>0 DEF PromptNames
      <3> HIDE DEF gone, shown
      <3> QED
        BY <3>1, <3>2 DEF OpenCode!CompletionCounts
    <2> HIDE DEF gone, shown, about, Others
    <2>4. "cur" \in DOMAIN r /\ "ref" \in DOMAIN r /\ r.ref # None
      BY <1>0 DEF PromptQuiet, Loose, PlacesOK
    <2>5. \A q \in state.asks \ {r} : "cur" \in DOMAIN q /\ "ref" \in DOMAIN q /\ q.ref # None
      BY <1>0 DEF PromptQuiet, Loose, PlacesOK
    <2>6. Ghosty(gone) => Ghosty(state)
      BY <2>1 DEF Ghosty
    <2>7. Cursor(gone)
      BY <1>1, <2>1, <2>5, <2>6
    <2>8. r.cur => Ghosty(state)
      BY DEF Ghosty
    <2>9. r.cur /\ state.pin = 0 /\ state.rephrase = None => Cursor(shown)
      BY <1>1, <2>2, <2>4, <2>5, <2>8
    <2> QED
      BY <2>3, <2>7, <2>9
  <1> QED
    BY <1>2, <1>3

\* The prompt and its text are the host's.
PromptPlace(s) ==
  DOMAIN s = PromptNames /\ s.live \in Refs \cup {None} /\ s.text \in [Refs -> Drafts \cup {None}]

\* Handlers leave them alone,
PromptStays(s, t) == DOMAIN t = PromptNames /\ t.live = s.live /\ t.text = s.text

\* those about marks, ghost, panel and rephrasing,
LEMMA TakedownsStay ==
  ASSUME NEW s, DOMAIN s = PromptNames
  PROVE  /\ PromptStays(s, s)
         /\ \A ref : PromptStays(s, OpenCode!Schedule(s, ref))
         /\ PromptStays(s, OpenCode!ClearMarks(s)) /\ PromptStays(s, OpenCode!ClearGhost(s))
         /\ PromptStays(s, OpenCode!Unpin(s)) /\ PromptStays(s, OpenCode!CancelRephrase(s))
         /\ PromptStays(s, OpenCode!HideGhost(s))
         /\ \A differs : PromptStays(s, OpenCode!ItemsChanged(s, differs))
  BY DEF PromptStays, PromptNames, OpenCode!Schedule, OpenCode!ClearMarks, OpenCode!ClearGhost, OpenCode!Unpin,
     OpenCode!CancelRephrase, OpenCode!HideGhost, OpenCode!ItemsChanged

\* and those they are composed to.
LEMMA HandlersStay ==
  ASSUME NEW s, DOMAIN s = PromptNames
  PROVE  /\ \A i : PromptStays(s, OpenCode!Pin(s, i))
         /\ PromptStays(s, OpenCode!DropItems(s))
         /\ PromptStays(s, OpenCode!TextChanged(s)) /\ PromptStays(s, OpenCode!Swapped(s))
         /\ PromptStays(s, OpenCode!Emptied(s))
         /\ \A pausing : PromptStays(s, OpenCode!Written(s, pausing))
  <1>1. ASSUME NEW i PROVE PromptStays(s, OpenCode!Pin(s, i))
    <2> DEFINE pinned == [s EXCEPT !.pin = i, !.signed = FALSE]
    <2>1. PromptStays(s, pinned)
      BY DEF PromptStays, PromptNames
    <2> HIDE DEF pinned
    <2>2. PromptStays(pinned, OpenCode!ClearGhost(pinned))
      BY <2>1, TakedownsStay DEF PromptStays
    <2>3. OpenCode!Pin(s, i) \in {s, OpenCode!ClearGhost(pinned)}
      BY DEF OpenCode!Pin, pinned
    <2> QED
      BY <2>1, <2>2, <2>3 DEF PromptStays
  <1>2. ASSUME NEW t, DOMAIN t = PromptNames PROVE PromptStays(t, OpenCode!DropItems(t))
    <2> DEFINE none == [t EXCEPT !.items = 0, !.checked = None]
    <2>1. PromptStays(t, none)
      BY <1>2 DEF PromptStays, PromptNames
    <2> DEFINE unmarked == OpenCode!ClearMarks(none)
    <2>2. OpenCode!DropItems(t) = OpenCode!ItemsChanged(unmarked, TRUE)
      BY DEF OpenCode!DropItems
    <2> HIDE DEF none
    <2>3. PromptStays(none, unmarked)
      BY <2>1, TakedownsStay DEF PromptStays
    <2> HIDE DEF unmarked
    <2>4. \A differs : PromptStays(unmarked, OpenCode!ItemsChanged(unmarked, differs))
      BY <2>3, TakedownsStay DEF PromptStays
    <2> QED
      BY <2>1, <2>2, <2>3, <2>4 DEF PromptStays
  <1>3. PromptStays(s, OpenCode!TextChanged(s))
    <2> DEFINE unpinned == OpenCode!Unpin(s)
               alone == OpenCode!CancelRephrase(unpinned)
    <2>1. PromptStays(s, unpinned)
      BY TakedownsStay
    <2>2. PromptStays(unpinned, alone)
      BY <2>1, TakedownsStay DEF PromptStays
    <2>3. PromptStays(alone, OpenCode!HideGhost(alone))
      BY <2>2, TakedownsStay DEF PromptStays
    <2>4. OpenCode!TextChanged(s) \in {s, OpenCode!HideGhost(alone)}
      BY DEF OpenCode!TextChanged
    <2> QED
      BY <2>1, <2>2, <2>3, <2>4 DEF PromptStays
  <1>4. PromptStays(s, OpenCode!Swapped(s))
    <2> DEFINE moved == [s EXCEPT !.tracked = s.live, !.checks = OpenCode!Stale(@)]
               dropped == OpenCode!DropItems(moved)
               alone == OpenCode!CancelRephrase(dropped)
    <2>1. PromptStays(s, moved)
      BY DEF PromptStays, PromptNames
    <2>2. OpenCode!Swapped(s) \in {s, OpenCode!HideGhost(alone)}
      BY DEF OpenCode!Swapped
    <2> HIDE DEF moved
    <2>3. PromptStays(moved, dropped)
      BY <1>2, <2>1 DEF PromptStays
    <2> HIDE DEF dropped
    <2>4. PromptStays(dropped, alone)
      BY <2>3, TakedownsStay DEF PromptStays
    <2> HIDE DEF alone
    <2>5. PromptStays(alone, OpenCode!HideGhost(alone))
      BY <2>4, TakedownsStay DEF PromptStays
    <2> QED
      BY <2>1, <2>2, <2>3, <2>4, <2>5 DEF PromptStays
  <1>5. PromptStays(s, OpenCode!Emptied(s))
    <2> DEFINE bare == OpenCode!ClearGhost(s)
    <2>1. PromptStays(s, bare)
      BY TakedownsStay
    <2>2. OpenCode!Emptied(s) \in {OpenCode!DropItems(bare), OpenCode!Schedule(bare, s.live)}
      BY DEF OpenCode!Emptied
    <2> HIDE DEF bare
    <2>3. PromptStays(bare, OpenCode!DropItems(bare)) /\ PromptStays(bare, OpenCode!Schedule(bare, s.live))
      BY <1>2, <2>1, TakedownsStay DEF PromptStays
    <2> QED
      BY <2>1, <2>2, <2>3 DEF PromptStays
  <1>6. ASSUME NEW pausing PROVE PromptStays(s, OpenCode!Written(s, pausing))
    BY DEF PromptStays, PromptNames, OpenCode!Written, OpenCode!Schedule
  <1> QED
    BY <1>1, <1>2, <1>3, <1>4, <1>5, <1>6

\* A change of a text that was noticed leaves them alone too.
LEMMA OnChangeStays ==
  ASSUME NEW s, DOMAIN s = PromptNames, NEW pausing
  PROVE  PromptStays(s, OpenCode!OnChange(s, pausing))
  <1> DEFINE heard == [s EXCEPT !.news = FALSE]
             changed == OpenCode!TextChanged(heard)
             now == OpenCode!Swapped(changed)
  <1>1. PromptStays(s, heard)
    BY DEF PromptStays, PromptNames
  <1>2. OpenCode!OnChange(s, pausing) \in {s, OpenCode!Emptied(now), OpenCode!Written(now, pausing)}
    BY DEF OpenCode!OnChange
  <1> HIDE DEF heard
  <1>3. PromptStays(heard, changed)
    BY <1>1, HandlersStay DEF PromptStays
  <1> HIDE DEF changed
  <1>4. PromptStays(changed, now)
    BY <1>3, HandlersStay DEF PromptStays
  <1> HIDE DEF now
  <1>5. PromptStays(now, OpenCode!Emptied(now)) /\ PromptStays(now, OpenCode!Written(now, pausing))
    BY <1>4, HandlersStay DEF PromptStays
  <1> QED
    BY <1>1, <1>2, <1>3, <1>4, <1>5 DEF PromptStays

\* An edit puts another text in the live prompt.
LEMMA RewrittenPlace ==
  ASSUME NEW s, PromptPlace(s), NEW text \in Drafts \cup {None}
  PROVE  PromptPlace(OpenCode!Rewritten(s, text))
  BY DEF PromptPlace, PromptNames, OpenCode!Rewritten

\* What leaves the prompt alone leaves it in its place.
LEMMA StaysInPlace ==
  ASSUME NEW s, PromptPlace(s), NEW t, PromptStays(s, t)
  PROVE  PromptPlace(t)
  BY DEF PromptPlace, PromptStays

\* What happens in a place with an edit leads to a place.
LEMMA EditedPlace ==
  ASSUME NEW s, PromptPlace(s), NEW text \in Drafts \cup {None}, NEW pausing
  PROVE  /\ PromptPlace(OpenCode!OnChange(OpenCode!Rewritten(s, text), pausing))
         /\ PromptPlace(OpenCode!OnChange(OpenCode!DropItems(OpenCode!Unpin(OpenCode!Rewritten(s, text))), pausing))
  <1> DEFINE edited == OpenCode!Rewritten(s, text)
             unpinned == OpenCode!Unpin(edited)
             dropped == OpenCode!DropItems(unpinned)
  <1>1. PromptPlace(edited)
    BY RewrittenPlace
  <1> HIDE DEF edited
  <1>2. PromptPlace(unpinned)
    BY <1>1, TakedownsStay, StaysInPlace DEF PromptPlace
  <1> HIDE DEF unpinned
  <1>3. PromptPlace(dropped)
    BY <1>2, HandlersStay, StaysInPlace DEF PromptPlace
  <1> HIDE DEF dropped
  <1>4. PromptPlace(OpenCode!OnChange(edited, pausing)) /\ PromptPlace(OpenCode!OnChange(dropped, pausing))
    BY <1>1, <1>3, OnChangeStays, StaysInPlace DEF PromptPlace
  <1> QED
    BY <1>4 DEF edited, unpinned, dropped

\* The text is edited, or another prompt comes.
LEMMA TextPlaces ==
  ASSUME PromptPlace(state),
         \/ OpenCode!Type \/ OpenCode!Swap \/ OpenCode!Changed \/ OpenCode!ApplyAll \/ OpenCode!ApplyPinned \/
            OpenCode!RephraseAccept \/ OpenCode!AcceptCompletion
  PROVE  PromptPlace(state')
  <1>1. CASE OpenCode!Type
    <2>1. PICK text \in Drafts \cup {None} :
            state' = [OpenCode!Rewritten(state, text) EXCEPT !.news = TRUE]
      BY <1>1 DEF OpenCode!Type, OpenCode!Step, OpenCode!Texts
    <2>2. PromptPlace(OpenCode!Rewritten(state, text))
      BY RewrittenPlace
    <2> QED
      BY <2>1, <2>2 DEF PromptPlace, PromptNames
  <1>2. CASE OpenCode!Swap
    BY <1>2 DEF OpenCode!Swap, PromptPlace, PromptNames
  <1>3. CASE OpenCode!Changed
    BY <1>3, OnChangeStays, StaysInPlace DEF OpenCode!Changed, OpenCode!Step, PromptPlace
  <1>4. CASE OpenCode!ApplyAll
    <2>1. PICK pausing \in BOOLEAN :
            \/ state' = OpenCode!OnChange(OpenCode!DropItems(OpenCode!Unpin(state)), pausing)
            \/ \E text \in Drafts \cup {None} :
                 state' = OpenCode!OnChange(OpenCode!DropItems(OpenCode!Unpin(
                            OpenCode!Rewritten(state, text))), pausing)
      BY <1>4 DEF OpenCode!ApplyAll, OpenCode!Step, OpenCode!Texts
    <2>2. PromptPlace(OpenCode!Unpin(state))
      BY TakedownsStay, StaysInPlace DEF PromptPlace
    <2>3. PromptPlace(OpenCode!DropItems(OpenCode!Unpin(state)))
      BY <2>2, HandlersStay, StaysInPlace DEF PromptPlace
    <2>4. PromptPlace(OpenCode!OnChange(OpenCode!DropItems(OpenCode!Unpin(state)), pausing))
      BY <2>3, OnChangeStays, StaysInPlace DEF PromptPlace
    <2> QED
      BY <2>1, <2>4, EditedPlace
  <1>5. CASE OpenCode!ApplyPinned
    <2>1. \/ state' = OpenCode!Schedule(state, state.live)
          \/ \E text \in Drafts \cup {None}, pausing \in BOOLEAN :
               state' = OpenCode!OnChange(OpenCode!DropItems(OpenCode!Unpin(
                          OpenCode!Rewritten(state, text))), pausing)
      BY <1>5 DEF OpenCode!ApplyPinned, OpenCode!Step, OpenCode!Texts
    <2>2. PromptPlace(OpenCode!Schedule(state, state.live))
      BY TakedownsStay, StaysInPlace DEF PromptPlace
    <2> QED
      BY <2>1, <2>2, EditedPlace
  <1>6. CASE OpenCode!RephraseAccept
    <2> DEFINE s == [state EXCEPT !.rephrase = None]
    <2>1. PromptPlace(s)
      BY DEF PromptPlace, PromptNames
    <2>2. \/ state' = s
          \/ \E text \in Drafts \cup {None}, pausing \in BOOLEAN :
               state' = OpenCode!OnChange(OpenCode!Rewritten(s, text), pausing)
      BY <1>6 DEF OpenCode!RephraseAccept, OpenCode!Step, OpenCode!Texts
    <2> HIDE DEF s
    <2> QED
      BY <2>1, <2>2, EditedPlace
  <1>7. CASE OpenCode!AcceptCompletion
    <2> DEFINE s == [state EXCEPT !.completion = None]
    <2>1. PromptPlace(s)
      BY DEF PromptPlace, PromptNames
    <2>2. \/ state' = s
          \/ \E text \in Drafts \cup {None}, pausing \in BOOLEAN :
               state' = OpenCode!OnChange(OpenCode!Rewritten(s, text), pausing)
      BY <1>7 DEF OpenCode!AcceptCompletion, OpenCode!Step
    <2> HIDE DEF s
    <2> QED
      BY <2>1, <2>2, EditedPlace
  <1> QED
    BY <1>1, <1>2, <1>3, <1>4, <1>5, <1>6, <1>7

\* The panel and its keys leave the prompt alone,
LEMMA PanelStays ==
  ASSUME DOMAIN state = PromptNames,
         OpenCode!CursorMoves \/ OpenCode!Cycle \/ OpenCode!UnpinKey \/ OpenCode!Review \/
         OpenCode!IgnorePinned \/ OpenCode!DismissCompletion \/ OpenCode!RephraseReject
  PROVE  PromptStays(state, state')
  <1>1. CASE OpenCode!CursorMoves
    BY <1>1, HandlersStay, TakedownsStay DEF OpenCode!CursorMoves, OpenCode!Step
  <1>2. CASE OpenCode!Cycle
    BY <1>2, HandlersStay DEF OpenCode!Cycle, OpenCode!Step
  <1>3. CASE OpenCode!Review
    BY <1>3, HandlersStay, TakedownsStay DEF OpenCode!Review, OpenCode!Step
  <1>4. CASE OpenCode!IgnorePinned
    BY <1>4 DEF OpenCode!IgnorePinned, OpenCode!Step, OpenCode!Unpin, PromptStays, PromptNames
  <1> QED
    BY <1>1, <1>2, <1>3, <1>4, TakedownsStay
    DEF OpenCode!UnpinKey, OpenCode!DismissCompletion, OpenCode!RephraseReject, OpenCode!Step

\* and so do checks,
LEMMA ChecksStay ==
  ASSUME DOMAIN state = PromptNames,
         OpenCode!CheckIsDue \/ \E r \in state.checks : OpenCode!CheckAnswered(r)
  PROVE  PromptStays(state, state')
  <1>1. CASE OpenCode!CheckIsDue
    <2> DEFINE s == [state EXCEPT !.timer = None]
    <2>1. PromptStays(state, s)
      BY DEF PromptStays, PromptNames
    <2>2. state' = OpenCode!RunCheck(s, state.timer)
      BY <1>1 DEF OpenCode!CheckIsDue, OpenCode!Step
    <2> HIDE DEF s
    <2>3. PromptStays(s, OpenCode!DropItems(s))
      BY <2>1, HandlersStay DEF PromptStays
    <2>4. ASSUME NEW checks PROVE PromptStays(s, [s EXCEPT !.checks = checks])
      BY <2>1 DEF PromptStays, PromptNames
    <2>5. \/ state' \in {s, OpenCode!DropItems(s)}
          \/ \E checks : state' = [s EXCEPT !.checks = checks]
      BY <2>2 DEF OpenCode!RunCheck
    <2> QED
      BY <2>1, <2>3, <2>4, <2>5 DEF PromptStays
  <1>2. ASSUME NEW r \in state.checks, OpenCode!CheckAnswered(r) PROVE PromptStays(state, state')
    <2> DEFINE s == [state EXCEPT !.checks = @ \ {r}]
               Shown(n) == [s EXCEPT !.items = n, !.checked = r.text, !.marks = IF n = 0 THEN None ELSE r.ref]
    <2>1. PromptStays(state, s)
      BY DEF PromptStays, PromptNames
    <2>2. \/ state' = s
          \/ \E n, differs : state' = OpenCode!ItemsChanged(Shown(n), differs)
      BY <1>2 DEF OpenCode!CheckAnswered, OpenCode!Step, OpenCode!ShowItems
    <2> HIDE DEF s
    <2>3. ASSUME NEW n PROVE PromptStays(s, Shown(n))
      BY <2>1 DEF PromptStays, PromptNames
    <2> HIDE DEF Shown
    <2>4. ASSUME NEW n, NEW differs PROVE PromptStays(s, OpenCode!ItemsChanged(Shown(n), differs))
      BY <2>3, TakedownsStay DEF PromptStays
    <2> QED
      BY <2>1, <2>2, <2>4 DEF PromptStays
  <1> QED
    BY <1>1, <1>2

\* completions and rephrasings.
LEMMA AsksStay ==
  ASSUME DOMAIN state = PromptNames,
         \/ OpenCode!PauseIsOver \/ \E r \in state.asks : OpenCode!CompletionAnswered(r)
         \/ OpenCode!RephraseKey \/ OpenCode!Dispose
         \/ \E r \in state.rewrites : OpenCode!RephraseAnswered(r)
  PROVE  PromptStays(state, state')
  <1>1. CASE OpenCode!PauseIsOver
    <2> DEFINE s == [state EXCEPT !.pause = None]
    <2>1. PromptStays(state, s)
      BY DEF PromptStays, PromptNames
    <2>2. state' = OpenCode!RequestCompletion(s, state.pause.ref, state.pause.text)
      BY <1>1 DEF OpenCode!PauseIsOver, OpenCode!Step
    <2> HIDE DEF s
    <2>3. PromptStays(s, OpenCode!RequestCompletion(s, state.pause.ref, state.pause.text))
      BY <2>1 DEF OpenCode!RequestCompletion, PromptStays, PromptNames
    <2> QED
      BY <2>1, <2>2, <2>3 DEF PromptStays
  <1>2. ASSUME NEW r \in state.asks, OpenCode!CompletionAnswered(r) PROVE PromptStays(state, state')
    BY <1>2 DEF OpenCode!CompletionAnswered, OpenCode!Step, PromptStays, PromptNames
  <1>3. CASE OpenCode!RephraseKey
    <2> DEFINE unpinned == OpenCode!Unpin(state)
               unmarked == OpenCode!ClearMarks(unpinned)
               bare == OpenCode!ClearGhost(unmarked)
    <2>1. PromptStays(state, unpinned)
      BY TakedownsStay
    <2>2. \E card, asked : state' = [bare EXCEPT !.rephrase = card, !.rewrites = asked, !.spinner = TRUE]
      BY <1>3 DEF OpenCode!RephraseKey, OpenCode!Step, OpenCode!Rephrase
    <2> HIDE DEF unpinned
    <2>3. PromptStays(unpinned, unmarked)
      BY <2>1, TakedownsStay DEF PromptStays
    <2> HIDE DEF unmarked
    <2>4. PromptStays(unmarked, bare)
      BY <2>3, TakedownsStay DEF PromptStays
    <2> HIDE DEF bare
    <2> QED
      BY <2>1, <2>2, <2>3, <2>4 DEF PromptStays, PromptNames
  <1>4. CASE OpenCode!Dispose
    <2> DEFINE unmarked == OpenCode!ClearMarks(state)
               alone == OpenCode!CancelRephrase(unmarked)
    <2>1. PromptStays(state, unmarked)
      BY TakedownsStay
    <2>2. state' = [alone EXCEPT !.timer = None, !.mounted = FALSE]
      BY <1>4 DEF OpenCode!Dispose, OpenCode!Step
    <2> HIDE DEF unmarked
    <2>3. PromptStays(unmarked, alone)
      BY <2>1, TakedownsStay DEF PromptStays
    <2> HIDE DEF alone
    <2> QED
      BY <2>1, <2>2, <2>3 DEF PromptStays, PromptNames
  <1>5. ASSUME NEW r \in state.rewrites, OpenCode!RephraseAnswered(r) PROVE PromptStays(state, state')
    <2> DEFINE s == [state EXCEPT !.rewrites = @ \ {r}]
    <2>1. PromptStays(state, s)
      BY DEF PromptStays, PromptNames
    <2>2. state' \in {s, OpenCode!CancelRephrase(s), [s EXCEPT !.spinner = FALSE, !.rephrase.mode = "result"]}
      BY <1>5 DEF OpenCode!RephraseAnswered, OpenCode!Step
    <2> HIDE DEF s
    <2>3. PromptStays(s, OpenCode!CancelRephrase(s))
      BY <2>1, TakedownsStay DEF PromptStays
    <2>4. PromptStays(s, [s EXCEPT !.spinner = FALSE, !.rephrase.mode = "result"])
      BY <2>1 DEF PromptStays, PromptNames
    <2> QED
      BY <2>1, <2>2, <2>3, <2>4 DEF PromptStays
  <1> QED
    BY <1>1, <1>2, <1>3, <1>4, <1>5

\* No step has a prompt that is not the host's.
LEMMA PlaceStep == PromptPlace(state) /\ [OpenCode!Next]_state => PromptPlace(state')
  <1> SUFFICES ASSUME PromptPlace(state), [OpenCode!Next]_state PROVE PromptPlace(state')
    OBVIOUS
  <1>1. CASE UNCHANGED state
    BY <1>1
  <1>2. CASE OpenCode!Next
    <2>1. DOMAIN state = PromptNames
      BY DEF PromptPlace
    <2>2. PromptPlace(state') \/ PromptStays(state, state')
      BY <1>2, <2>1, TextPlaces, PanelStays, ChecksStay, AsksStay DEF OpenCode!Next
    <2> QED
      BY <2>2, StaysInPlace
  <1> QED
    BY <1>1, <1>2

\* At first it is any of the host's.
LEMMA PlaceInit == OpenCode!Init => PromptPlace(state)
  BY DEF OpenCode!Init, OpenCode!Texts, PromptPlace, PromptNames

\* Rephrasings.
LEMMA RephraseSteps ==
  ASSUME PromptPlace(state), Cursor(state), OpenCode!RephraseKey \/ OpenCode!Dispose \/ \E r \in state.rewrites :
         OpenCode!RephraseAnswered(r)
  PROVE  Cursor(state')
  <1>0. PromptQuiet(state) /\ Known(state) /\ DOMAIN state = PromptNames
    BY DEF Cursor, PromptQuiet, Loose
  <1>1. CASE OpenCode!RephraseKey
    <2> DEFINE unpinned == OpenCode!Unpin(state)
               unmarked == OpenCode!ClearMarks(unpinned)
               bare == OpenCode!ClearGhost(unmarked)
               card == [mode |-> "loading", ref |-> state.live, text |-> state.text[state.live]]
               asked == OpenCode!Asked(bare.rewrites, state.live, state.text[state.live])
               t == [bare EXCEPT !.rephrase = card, !.rewrites = asked, !.spinner = TRUE]
    <2>1. state' = t /\ state.live # None
      BY <1>1 DEF OpenCode!RephraseKey, OpenCode!Step, OpenCode!Rephrase
    <2>2. card # None /\ DOMAIN card = {"mode", "ref", "text"} /\ card.mode = "loading" /\
          card.ref = state.live
      <3>1. state.live \in Refs /\ state.text[state.live] \in Drafts
        BY <1>1 DEF PromptPlace, OpenCode!RephraseKey
      <3> QED
        BY <3>1, NamesApart
    <2>3. Fades(state, unpinned)
      BY <1>0, Takedowns
    <2> HIDE DEF unpinned
    <2>4. Fades(unpinned, unmarked)
      BY <2>3, Takedowns DEF Fades
    <2> HIDE DEF unmarked
    <2>5. Fades(unmarked, bare) /\ bare.completion = None
      BY <2>4, Takedowns DEF Fades, PromptQuiet, Loose, PromptNames, OpenCode!ClearGhost
    <2> HIDE DEF bare
    <2>6. Fades(state, bare)
      BY <2>3, <2>4, <2>5, FadesCompose
    <2> HIDE DEF card
    <2>7. PromptQuiet(bare) /\ Known(bare)
      BY <1>0, <2>6, FadesCursor DEF Cursor
    <2>8. /\ \A r \in asked : "cur" \in DOMAIN r
          /\ \E r \in asked : r.cur
          /\ \A q, r \in asked : q.cur /\ r.cur => q = r
      BY <2>7, AskedIs DEF PromptQuiet, Loose, SpinnerOK
    <2> HIDE DEF asked
    <2>9. /\ DOMAIN t = PromptNames /\ t.rephrase = card /\ t.rewrites = asked /\ t.spinner = TRUE
          /\ \A n \in PromptNames \ {"rephrase", "rewrites", "spinner"} : t[n] = bare[n]
      BY <2>7 DEF PromptQuiet, Loose, PromptNames
    <2> HIDE DEF t
    <2>10. /\ t.text = bare.text /\ t.live = bare.live /\ t.tracked = bare.tracked /\ (t.news <=> bare.news)
           /\ t.items = bare.items /\ t.checked = bare.checked /\ t.pin = bare.pin /\ t.marks = bare.marks
           /\ t.completion = bare.completion /\ t.pause = bare.pause /\ t.asks = bare.asks
      BY <2>9 DEF PromptNames
    <2>11. SpinnerOK(t)
      BY <2>2, <2>8, <2>9 DEF SpinnerOK
    <2>12. PromptQuiet(t)
      BY <2>1, <2>2, <2>5, <2>7, <2>9, <2>10, <2>11 DEF PromptQuiet, Loose, PlacesOK, ItemsOK
    <2>13. Known(t)
      BY <2>7, <2>10 DEF Known, Ghosty
    <2> QED
      BY <2>1, <2>12, <2>13 DEF Cursor
  <1>2. CASE OpenCode!Dispose
    <2> DEFINE unmarked == OpenCode!ClearMarks(state)
               t == OpenCode!CancelRephrase(unmarked)
    <2>1. Fades(state, unmarked)
      BY <1>0, Takedowns
    <2> HIDE DEF unmarked
    <2>2. Fades(unmarked, t)
      BY <2>1, Takedowns DEF Fades
    <2>3. state' = [t EXCEPT !.timer = None, !.mounted = FALSE]
      BY <1>2 DEF OpenCode!Dispose, OpenCode!Step, unmarked
    <2> HIDE DEF t
    <2>4. PromptQuiet(t) /\ Known(t) /\ DOMAIN t = PromptNames
      BY <1>0, <2>1, <2>2, FadesCompose, FadesCursor DEF Cursor, PromptQuiet, Loose
    <2>5. DOMAIN state' = PromptNames /\ \A n \in CursorNames : state'[n] = t[n]
      BY <2>3, <2>4 DEF PromptNames, CursorNames
    <2> QED
      BY <2>4, <2>5, Untouched DEF Cursor
  <1>3. ASSUME NEW r \in state.rewrites, OpenCode!RephraseAnswered(r) PROVE Cursor(state')
    <2> DEFINE s == [state EXCEPT !.rewrites = @ \ {r}]
               t == state'
    <2>1. \/ ~r.cur /\ t = s
          \/ r.cur /\ t = OpenCode!CancelRephrase(s)
          \/ r.cur /\ t = [s EXCEPT !.spinner = FALSE, !.rephrase.mode = "result"]
      BY <1>3 DEF OpenCode!RephraseAnswered, OpenCode!Step
    <2>2. DOMAIN s = PromptNames /\ s.rewrites = state.rewrites \ {r} /\ \A n \in PromptNames \ {"rewrites"} :
          s[n] = state[n]
      BY <1>0 DEF PromptNames
    <2> HIDE DEF s
    <2>3. \A n \in PromptNames \ {"rewrites"} : s[n] = state[n]
      BY <2>2
    <2>4. /\ s.rephrase = state.rephrase /\ (s.spinner <=> state.spinner)
      BY <2>2 DEF PromptNames
    <2>5. /\ DOMAIN t = PromptNames /\ \A n \in PromptNames \ {"rewrites", "spinner", "rephrase"} :
             t[n] = state[n]
      BY <2>1, <2>2 DEF OpenCode!CancelRephrase, PromptNames
    <2>6. SpinnerOK(state) /\ PlacesOK(state)
      BY <1>0 DEF PromptQuiet, Loose
    <2>7. /\ SpinnerOK(t)
          /\ t.rephrase # None => /\ state.rephrase # None
                                     /\ DOMAIN t.rephrase = {"mode", "ref", "text"} /\ t.rephrase.ref # None
      <3>1. CASE ~r.cur /\ t = s
        <4>1. t.rewrites = state.rewrites \ {r} /\ t.rephrase = state.rephrase /\
              (t.spinner <=> state.spinner)
          BY <2>2, <2>4, <3>1
        <4> HIDE DEF t
        <4>2. (\E q \in t.rewrites : q.cur) <=> (\E q \in state.rewrites : q.cur)
          BY <3>1, <4>1
        <4> QED
          BY <2>6, <4>1, <4>2 DEF SpinnerOK, PlacesOK
      <3>2. CASE r.cur /\ t = OpenCode!CancelRephrase(s)
        <4>1. t.rewrites = OpenCode!Stale(state.rewrites \ {r}) /\ t.rephrase = None /\ t.spinner = FALSE
          BY <2>2, <3>2 DEF OpenCode!CancelRephrase, PromptNames
        <4> HIDE DEF t
        <4>2. \A q \in t.rewrites : "cur" \in DOMAIN q /\ ~q.cur
          BY <2>6, <4>1, StaleIs DEF SpinnerOK
        <4> QED
          BY <4>1, <4>2 DEF SpinnerOK
      <3>3. CASE r.cur /\ t = [s EXCEPT !.spinner = FALSE, !.rephrase.mode = "result"]
        <4> DEFINE card == [state.rephrase EXCEPT !.mode = "result"]
        <4>1. t.rewrites = state.rewrites \ {r} /\ t.rephrase = card /\ t.spinner = FALSE
          BY <2>2, <2>4, <3>3 DEF PromptNames
        <4>2. state.rephrase # None
          BY <2>6, <3>3 DEF SpinnerOK
        <4>3. DOMAIN card = {"mode", "ref", "text"} /\ card.mode = "result" /\ card.ref # None
          BY <2>6, <4>2 DEF PlacesOK
        <4> HIDE DEF t, card
        <4>4. \A q \in t.rewrites : "cur" \in DOMAIN q /\ ~q.cur
          BY <2>6, <3>3, <4>1 DEF SpinnerOK
        <4> QED
          BY <4>1, <4>2, <4>3, <4>4 DEF SpinnerOK
      <3> QED
        BY <2>1, <3>1, <3>2, <3>3
    <2> HIDE DEF t
    <2>8. /\ t.text = state.text /\ t.live = state.live /\ t.tracked = state.tracked /\
             (t.news <=> state.news)
          /\ t.items = state.items /\ t.checked = state.checked /\ t.pin = state.pin /\ t.marks = state.marks
          /\ t.completion = state.completion /\ t.pause = state.pause /\ t.asks = state.asks
      BY <2>5 DEF PromptNames
    <2>9. PromptQuiet(t)
      BY <1>0, <2>5, <2>7, <2>8 DEF PromptQuiet, Loose, PlacesOK, ItemsOK
    <2>10. Known(t)
      BY <1>0, <2>8 DEF Known, Ghosty
    <2>11. Cursor(t)
      BY <2>9, <2>10 DEF Cursor
    <2> QED
      BY <2>11 DEF t
  <1> QED
    BY <1>1, <1>2, <1>3

\* At first nothing is at the cursor.
LEMMA CursorInit == OpenCode!Init => Cursor(state)
  <1> SUFFICES ASSUME OpenCode!Init PROVE Cursor(state)
    OBVIOUS
  <1>1. /\ DOMAIN state = PromptNames /\ state.live = state.tracked
        /\ state.items = 0 /\ state.marks = None /\ state.pin = 0
        /\ state.rephrase = None /\ state.rewrites = {} /\ state.spinner = FALSE
        /\ state.completion = None /\ state.pause = None /\ state.asks = {}
    BY DEF OpenCode!Init, PromptNames
  <1> QED
    BY <1>1 DEF Cursor, PromptQuiet, Loose, SpinnerOK, PlacesOK, ItemsOK, Known, Ghosty

\* No step puts two things at the cursor.
LEMMA CursorStep == PromptChecks(state) /\ Cursor(state) /\ PromptPlace(state) /\ [OpenCode!Next]_state =>
    Cursor(state')
  <1> SUFFICES ASSUME PromptChecks(state), Cursor(state), PromptPlace(state), [OpenCode!Next]_state
               PROVE Cursor(state')
    OBVIOUS
  <1>1. CASE UNCHANGED state
    BY <1>1
  <1>2. CASE OpenCode!Next
    BY <1>2, TextSteps, PanelSteps, CheckSteps, CompletionSteps, RephraseSteps DEF OpenCode!Next
  <1> QED
    BY <1>1, <1>2

\* What the invariant says of the three properties.
LEMMA CursorIsRight == Cursor(state) =>
    OpenCode!GhostHasTheField /\ OpenCode!PanelIsLive /\ OpenCode!SpinnerAwaitsAnswer
  BY DEF Cursor, PromptQuiet, Loose, SpinnerOK, ItemsOK, Known, Ghosty, OpenCode!GhostHasTheField,
     OpenCode!PanelIsLive, OpenCode!SpinnerAwaitsAnswer

\* One thing at a time stands at the cursor, it is about what is there, and the spinner
\* waits for an answer that will be heard.
THEOREM OneAtTheCursor == OpenCode!Spec =>
    [](OpenCode!GhostHasTheField /\ OpenCode!PanelIsLive /\ OpenCode!SpinnerAwaitsAnswer)
  <1>1. OpenCode!Init => Cursor(state) /\ PromptPlace(state)
    BY CursorInit, PlaceInit
  <1>2. PromptChecks(state) /\ Cursor(state) /\ PromptPlace(state) /\ [OpenCode!Next]_state =>
          Cursor(state)' /\ PromptPlace(state)'
    BY CursorStep, PlaceStep
  <1>3. Cursor(state) => OpenCode!GhostHasTheField /\ OpenCode!PanelIsLive /\ OpenCode!SpinnerAwaitsAnswer
    BY CursorIsRight
  <1> QED
    BY <1>1, <1>2, <1>3, OneCheckIsHeard, PTL DEF OpenCode!Spec

-----------------------------------------------------------------------------
(* Vencord: the composer. *)

ComposerNames == {"text", "connected", "made", "attached", "paused", "shown", "phase", "scanline",
          "debounce", "grace", "settle", "checks", "started", "settled"}

\* The fields of the composer.
ComposerShape(c) ==
  /\ DOMAIN c = ComposerNames /\ c.text \in Vencord!Texts
  /\ DOMAIN c.shown = Vencord!States /\ DOMAIN c.phase = Vencord!States /\ DOMAIN c.scanline = Vencord!States

\* The checks of a state that are still heard.
ComposerHeard(c, s) == {r \in c.checks : r.st = s /\ r.cur}

\* Nothing of a state is drawn.
ComposerClean(c, s) == c.shown[s] = None /\ ~c.scanline[s]

\* A state has at most one check that is heard; the scan-line is up only while it
\* is out; and once settled, the live state has none.
ComposerIInv(c) ==
  /\ ComposerShape(c)
  /\ c.made \in Nat
  /\ c.attached \/ c.settle \/ c.settled => c.made \in Vencord!States
  /\ c.checks \subseteq Vencord!Check
  /\ \A q, r \in c.checks : q.cur /\ r.cur /\ q.st = r.st => q = r
  /\ \A s \in Vencord!States : c.scanline[s] => c.phase[s] = "fast" /\ ComposerHeard(c, s) # {}
  /\ c.settled => ComposerClean(c, c.made) /\ ComposerHeard(c, c.made) = {}

\* The live state stays, and what is drawn stays or goes.
Dim(c, d) ==
  /\ ComposerShape(d)
  /\ d.made = c.made
  /\ d.attached => c.attached
  /\ d.settle => c.settle \/ c.attached
  /\ \A s \in Vencord!States :
       /\ d.shown[s] = c.shown[s] \/ (s = c.made /\ d.shown[s] = None)
       /\ \/ d.scanline[s] = c.scanline[s] /\ d.phase[s] = c.phase[s]
          \/ s = c.made /\ ~d.scanline[s]

\* No check starts.
ComposerQuiet(c, d) == Dim(c, d) /\ d.checks = c.checks /\ d.settled \in {c.settled, FALSE}

LEMMA QuietIf ==
  ASSUME NEW c, NEW d, ComposerShape(d), d.made = c.made, d.attached => c.attached,
         d.settle => c.settle \/ c.attached, d.checks = c.checks, d.settled \in {c.settled, FALSE},
         \A q \in Vencord!States : d.shown[q] = c.shown[q] \/ (q = c.made /\ d.shown[q] = None),
         \A q \in Vencord!States :
           \/ d.scanline[q] = c.scanline[q] /\ d.phase[q] = c.phase[q]
           \/ q = c.made /\ ~d.scanline[q]
  PROVE  ComposerQuiet(c, d)
  BY DEF ComposerQuiet, Dim

\* A new check.
Fresh(s, text) == [st |-> s, text |-> text, cur |-> TRUE, previewed |-> FALSE]

\* A check starts, and overtakes the others.
Asks(c, d) ==
  /\ Dim(c, d) /\ c.made \in Vencord!States /\ ~d.settled
  /\ \E text \in Vencord!Texts : d.checks = Vencord!Stale(c.checks, c.made) \cup {Fresh(c.made, text)}

\* One state is drawn in a phase.
Drawn(c, d, s, question, phase) ==
  /\ \A n \in ComposerNames \ {"shown", "phase", "scanline"} : d[n] = c[n]
  /\ d.shown[s] = question /\ d.phase[s] = phase /\ (d.scanline[s] <=> phase = "fast")
  /\ \A q \in Vencord!States \ {s} :
       d.shown[q] = c.shown[q] /\ d.phase[q] = c.phase[q] /\ d.scanline[q] = c.scanline[q]

-----------------------------------------------------------------------------
(* The handlers. *)

\* What is drawn anew for one state, and nothing else.
LEMMA ShowEffect ==
  ASSUME NEW c, ComposerShape(c), NEW s \in Vencord!States, NEW question, NEW phase,
         NEW d, d = Vencord!Show(c, s, question, phase)
  PROVE  ComposerShape(d) /\ Drawn(c, d, s, question, phase)
  <1> DEFINE b == [c EXCEPT !.shown[s] = question, !.phase[s] = phase]
  <1>1. /\ DOMAIN b = ComposerNames
        /\ b.shown = [c.shown EXCEPT ![s] = question] /\ b.phase = [c.phase EXCEPT ![s] = phase]
        /\ \A n \in ComposerNames \ {"shown", "phase"} : b[n] = c[n]
    BY DEF ComposerShape, ComposerNames
  <1>2. d = [b EXCEPT !.scanline[s] = b.phase[s] = "fast"]
    BY DEF Vencord!Show, Vencord!Render
  <1> HIDE DEF b
  <1>3. b.phase[s] = phase /\ b.scanline = c.scanline
    BY <1>1 DEF ComposerShape, ComposerNames
  <1>4. /\ DOMAIN d = ComposerNames /\ d.scanline = [b.scanline EXCEPT ![s] = phase = "fast"]
        /\ \A n \in ComposerNames \ {"scanline"} : d[n] = b[n]
    BY <1>1, <1>2, <1>3 DEF ComposerNames
  <1>5. d.shown = b.shown /\ d.phase = b.phase
    BY <1>4 DEF ComposerNames
  <1>6. DOMAIN d.scanline = Vencord!States /\ DOMAIN d.shown = Vencord!States /\
        DOMAIN d.phase = Vencord!States
    BY <1>1, <1>3, <1>4, <1>5 DEF ComposerShape
  <1>11. d.text = c.text
    BY <1>1, <1>4 DEF ComposerNames
  <1>7. ComposerShape(d)
    BY <1>11, <1>4, <1>6 DEF ComposerShape
  <1>8. \A n \in ComposerNames \ {"shown", "phase", "scanline"} : d[n] = c[n]
    BY <1>1, <1>4
  <1>9. d.shown[s] = question /\ \A q \in Vencord!States \ {s} : d.shown[q] = c.shown[q]
    BY <1>1, <1>5 DEF ComposerShape
  <1>10. d.phase[s] = phase /\ \A q \in Vencord!States \ {s} : d.phase[q] = c.phase[q]
    BY <1>1, <1>5 DEF ComposerShape
  <1>12. d.scanline[s] = (phase = "fast") /\ \A q \in Vencord!States \ {s} : d.scanline[q] = c.scanline[q]
    BY <1>3, <1>4 DEF ComposerShape
  <1> QED
    BY <1>7, <1>8, <1>9, <1>10, <1>12 DEF Drawn

\* What is drawn for the live state goes.
LEMMA BareQuiet ==
  ASSUME NEW c, ComposerShape(c), c.made \in Vencord!States
  PROVE  ComposerQuiet(c, Vencord!Show(c, c.made, None, "done")) /\
         ComposerClean(Vencord!Show(c, c.made, None, "done"), c.made)
  <1> DEFINE d == Vencord!Show(c, c.made, None, "done")
  <1>a. d = Vencord!Show(c, c.made, None, "done")
    OBVIOUS
  <1> HIDE DEF d
  <1>1. ComposerShape(d) /\ Drawn(c, d, c.made, None, "done")
    BY <1>a, ShowEffect
  <1>2. /\ d.made = c.made /\ d.attached = c.attached /\ d.settle = c.settle
        /\ d.checks = c.checks /\ d.settled = c.settled
    BY <1>1 DEF Drawn, ComposerNames
  <1>3. ASSUME NEW s \in Vencord!States
        PROVE  /\ d.shown[s] = c.shown[s] \/ (s = c.made /\ d.shown[s] = None)
               /\ \/ d.scanline[s] = c.scanline[s] /\ d.phase[s] = c.phase[s]
                  \/ s = c.made /\ ~d.scanline[s]
    BY <1>1 DEF Drawn
  <1>4. ComposerClean(d, c.made)
    BY <1>1 DEF Drawn, ComposerClean
  <1> QED
    BY <1>a, <1>1, <1>2, <1>3, <1>4 DEF ComposerQuiet, Dim

\* What dims, composes,
LEMMA DimTwice ==
  ASSUME NEW b, NEW c, NEW d, Dim(b, c), Dim(c, d)
  PROVE  Dim(b, d)
  <1>1. ASSUME NEW s \in Vencord!States
        PROVE  /\ d.shown[s] = b.shown[s] \/ (s = b.made /\ d.shown[s] = None)
               /\ \/ d.scanline[s] = b.scanline[s] /\ d.phase[s] = b.phase[s]
                  \/ s = b.made /\ ~d.scanline[s]
    BY DEF Dim
  <1> QED
    BY <1>1 DEF Dim

\* and so do quiet handlers, with each other and with a question.
LEMMA QuietTwice ==
  ASSUME NEW b, NEW c, NEW d, ComposerQuiet(b, c), ComposerQuiet(c, d)
  PROVE  ComposerQuiet(b, d)
  BY DimTwice DEF ComposerQuiet

\* A question after a quiet handler.
LEMMA QuietAsks ==
  ASSUME NEW b, NEW c, NEW d, ComposerQuiet(b, c), Asks(c, d)
  PROVE  Asks(b, d)
  <1>1. Dim(b, d) /\ b.made = c.made /\ b.checks = c.checks
    BY DimTwice DEF ComposerQuiet, Asks, Dim
  <1> QED
    BY <1>1 DEF Asks

\* A rerun asks, dims, or does nothing.
LEMMA RerunAsks ==
  ASSUME NEW c, ComposerShape(c), c.made = Vencord!live, c.attached =>
         c.made \in Vencord!States, NEW text \in Vencord!Texts
  PROVE  ComposerQuiet(c, Vencord!Rerun(c, text)) \/ Asks(c, Vencord!Rerun(c, text))
  <1>1. CASE ~c.attached \/ c.paused
    BY <1>1 DEF Vencord!Rerun, ComposerQuiet, Dim
  <1>2. CASE c.attached /\ ~c.paused /\ ~c.connected
    BY <1>2, BareQuiet DEF Vencord!Rerun
  <1>3. CASE c.attached /\ ~c.paused /\ c.connected
    <2> DEFINE new == Fresh(Vencord!live, text)
               d == [c EXCEPT !.checks = Vencord!Stale(@, Vencord!live) \cup {new}, !.started = @ + 1,
                              !.settled = FALSE]
    <2>1. Vencord!Rerun(c, text) = d
      BY <1>3 DEF Vencord!Rerun, Fresh
    <2> HIDE DEF new
    <2>2. /\ DOMAIN d = ComposerNames /\ d.shown = c.shown /\ d.phase = c.phase /\ d.scanline = c.scanline
          /\ d.made = c.made /\ d.attached = c.attached /\ d.settle = c.settle /\ d.settled = FALSE
          /\ d.text = c.text /\ d.checks = Vencord!Stale(c.checks, Vencord!live) \cup {new}
      BY DEF ComposerShape, ComposerNames
    <2> HIDE DEF d
    <2>3. Dim(c, d)
      BY <2>2 DEF Dim, ComposerShape
    <2> QED
      BY <1>3, <2>1, <2>2, <2>3 DEF Asks, new
  <1> QED
    BY <1>1, <1>2, <1>3

-----------------------------------------------------------------------------
(* From the composer to the question. *)

\* What Latest takes for pending.
ComposerQuestion(c, s) == LET heard ==
  ComposerHeard(c, s) IN IF heard = {} THEN None ELSE (CHOOSE r \in heard : TRUE).text

\* The steps LatestCheck allows.
ComposerMoves(c, d, s) ==
  \/ ComposerQuestion(d, s) # None /\ d.shown[s] \in {c.shown[s], None}
  \/ ComposerQuestion(c, s) # None /\ d.shown[s] = ComposerQuestion(c, s) /\
     ComposerQuestion(d, s) \in {ComposerQuestion(c, s), None}
  \/ ComposerQuestion(d, s) = None /\ d.shown[s] \in {c.shown[s], None}
  \/ d.shown[s] = None /\ ComposerQuestion(d, s) = ComposerQuestion(c, s)
  \/ ComposerQuestion(d, s) = ComposerQuestion(c, s) /\ d.shown[s] = c.shown[s]

\* What every step keeps.
ComposerGood(c, d) == ComposerIInv(d) /\ \A s \in Vencord!States : ComposerMoves(c, d, s)

\* Superseding the checks of one state leaves those of others.
LEMMA StaleHeard ==
  ASSUME NEW C, C \subseteq Vencord!Check, NEW s \in Vencord!States
  PROVE  /\ Vencord!Stale(C, s) \subseteq Vencord!Check
         /\ \A r \in Vencord!Stale(C, s) : r.cur => r.st # s /\ r \in C
         /\ \A r \in C : r.st # s => r \in Vencord!Stale(C, s)
  BY DEF Vencord!Stale, Vencord!Check

\* What dims keeps the invariant.
LEMMA QuietGood ==
  ASSUME NEW c, NEW d, ComposerIInv(c), ComposerQuiet(c, d)
  PROVE  ComposerGood(c, d)
  <1>1. \A s : ComposerHeard(d, s) = ComposerHeard(c, s)
    BY DEF ComposerQuiet, ComposerHeard
  <1>2. ComposerIInv(d)
    <2>1. ComposerShape(d) /\ d.made = c.made /\ d.checks = c.checks /\ d.settled \in {c.settled, FALSE}
      BY DEF ComposerQuiet, Dim
    <2>2. d.made \in Nat /\ d.checks \subseteq Vencord!Check
      BY <2>1 DEF ComposerIInv
    <2>3. d.attached \/ d.settle \/ d.settled => d.made \in Vencord!States
      BY <2>1 DEF ComposerIInv, ComposerQuiet, Dim
    <2>4. \A q, r \in d.checks : q.cur /\ r.cur /\ q.st = r.st => q = r
      BY <2>1 DEF ComposerIInv
    <2>5. \A s \in Vencord!States : d.scanline[s] => d.phase[s] = "fast" /\ ComposerHeard(d, s) # {}
      BY <1>1 DEF ComposerIInv, ComposerQuiet, Dim
    <2>6. ASSUME d.settled PROVE ComposerClean(d, d.made) /\ ComposerHeard(d, d.made) = {}
      <3>1. c.settled /\ d.made \in Vencord!States
        BY <2>1, <2>3, <2>6
      <3>2. ComposerClean(c, d.made) /\ ComposerHeard(c, d.made) = {}
        BY <2>1, <3>1 DEF ComposerIInv
      <3>3. Dim(c, d)
        BY DEF ComposerQuiet
      <3> QED
        BY <1>1, <2>1, <3>1, <3>2, <3>3 DEF Dim, ComposerClean
    <2> QED
      BY <2>1, <2>2, <2>3, <2>4, <2>5, <2>6 DEF ComposerIInv
  <1>3. ASSUME NEW s \in Vencord!States PROVE ComposerMoves(c, d, s)
    BY <1>1 DEF ComposerQuiet, Dim, ComposerMoves, ComposerQuestion
  <1> QED
    BY <1>2, <1>3 DEF ComposerGood

\* A question supersedes those of its state.
LEMMA AsksGood ==
  ASSUME None \notin Vencord!Texts, NEW c, NEW d, ComposerIInv(c), Asks(c, d)
  PROVE  ComposerGood(c, d)
  <1>1. PICK text \in Vencord!Texts : d.checks = Vencord!Stale(c.checks, c.made) \cup {Fresh(c.made, text)}
    BY DEF Asks
  <1> DEFINE new == Fresh(c.made, text)
  <1>2. new \in Vencord!Check /\ new.st = c.made /\ new.cur = TRUE /\ new.text = text
    BY DEF Fresh, Vencord!Check, Asks
  <1> HIDE DEF new
  <1>3. ComposerHeard(d, c.made) = {new}
    BY <1>1, <1>2, StaleHeard DEF ComposerHeard, ComposerIInv, Asks, new
  <1>4. \A s \in Vencord!States \ {c.made} : ComposerHeard(d, s) = ComposerHeard(c, s)
    BY <1>1, <1>2, StaleHeard DEF ComposerHeard, ComposerIInv, Asks, new
  <1>5. d.checks \subseteq Vencord!Check
    BY <1>1, <1>2, StaleHeard DEF ComposerIInv, Asks, new
  <1>6. \A q, r \in d.checks : q.cur /\ r.cur /\ q.st = r.st => q = r
    BY <1>1, <1>2, StaleHeard DEF ComposerIInv, Asks, new
  <1>7. \A s \in Vencord!States : d.scanline[s] => d.phase[s] = "fast" /\ ComposerHeard(d, s) # {}
    BY <1>3, <1>4 DEF ComposerIInv, Asks, Dim
  <1>8. ComposerIInv(d)
    BY <1>5, <1>6, <1>7 DEF ComposerIInv, Asks, Dim
  <1>9. ComposerQuestion(d, c.made) # None
    BY <1>2, <1>3 DEF ComposerQuestion
  <1>10. ASSUME NEW s \in Vencord!States PROVE ComposerMoves(c, d, s)
    BY <1>4, <1>9 DEF Asks, Dim, ComposerMoves, ComposerQuestion
  <1> QED
    BY <1>8, <1>10 DEF ComposerGood

\* What settles forgets the question of the live state.
LEMMA SettleGood ==
  ASSUME NEW c, NEW d, ComposerIInv(c), Dim(c, d), c.made \in Vencord!States,
         d.checks = Vencord!Stale(c.checks, c.made), ComposerClean(d, c.made)
  PROVE  ComposerGood(c, d)
  <1>1. ComposerHeard(d, c.made) = {}
    BY StaleHeard DEF ComposerHeard, ComposerIInv
  <1>2. \A s \in Vencord!States \ {c.made} : ComposerHeard(d, s) = ComposerHeard(c, s)
    BY StaleHeard DEF ComposerHeard, ComposerIInv
  <1>3. d.checks \subseteq Vencord!Check /\ \A q, r \in d.checks : q.cur /\ r.cur /\ q.st = r.st => q = r
    BY StaleHeard DEF ComposerIInv
  <1>4. \A s \in Vencord!States : d.scanline[s] => d.phase[s] = "fast" /\ ComposerHeard(d, s) # {}
    BY <1>1, <1>2 DEF ComposerIInv, Dim, ComposerClean
  <1>5. ComposerIInv(d)
    BY <1>1, <1>3, <1>4 DEF ComposerIInv, Dim
  <1>6. ASSUME NEW s \in Vencord!States PROVE ComposerMoves(c, d, s)
    BY <1>1, <1>2 DEF Dim, ComposerMoves, ComposerQuestion
  <1> QED
    BY <1>5, <1>6 DEF ComposerGood

\* An answer nobody hears draws nothing.
LEMMA LateGood ==
  ASSUME NEW c, NEW d, ComposerIInv(c), Dim(c, d), d.settled = c.settled, NEW r \in c.checks, ~r.cur,
         d.checks = c.checks \ {r} \/ \E p \in Vencord!Check : ~p.cur /\ d.checks = (c.checks \ {r}) \cup {p}
  PROVE  ComposerGood(c, d)
  <1>1. \A s : ComposerHeard(d, s) = ComposerHeard(c, s)
    BY DEF ComposerHeard
  <1>2. d.checks \subseteq Vencord!Check /\ \A p, q \in d.checks : p.cur /\ q.cur /\ p.st = q.st => p = q
    BY DEF ComposerIInv
  <1>3. ComposerIInv(d)
    BY <1>1, <1>2 DEF ComposerIInv, Dim, ComposerClean
  <1>4. ASSUME NEW s \in Vencord!States PROVE ComposerMoves(c, d, s)
    BY <1>1 DEF Dim, ComposerMoves, ComposerQuestion
  <1> QED
    BY <1>3, <1>4 DEF ComposerGood

\* The one check that is heard draws its frame, a preview or the last.
LEMMA FrameGood ==
  ASSUME NEW c, NEW b, NEW d, ComposerIInv(c), ComposerShape(d), NEW r \in c.checks, r.cur,
         NEW question \in {r.text, None}, NEW phase \in {"fast", "done"},
         \A n \in ComposerNames \ {"checks"} : b[n] = c[n], Drawn(b, d, r.st, question, phase),
         \/ phase = "done" /\ b.checks = c.checks \ {r}
         \/ b.checks = (c.checks \ {r}) \cup {[r EXCEPT !.previewed = TRUE]},
         None \notin Vencord!Texts
  PROVE  ComposerGood(c, d)
  <1> DEFINE p == [r EXCEPT !.previewed = TRUE]
  <1>a. /\ d.checks = b.checks /\ d.made = c.made /\ d.attached = c.attached /\ d.settle = c.settle
        /\ d.settled = c.settled
    BY DEF Drawn, ComposerNames
  <1>b. /\ d.shown[r.st] = question /\ d.phase[r.st] = phase /\ (d.scanline[r.st] <=> phase = "fast")
        /\ \A s \in Vencord!States \ {r.st} :
             d.shown[s] = c.shown[s] /\ d.phase[s] = c.phase[s] /\ d.scanline[s] = c.scanline[s]
    <2>1. b.shown = c.shown /\ b.phase = c.phase /\ b.scanline = c.scanline
      BY DEF ComposerNames
    <2> QED
      BY <2>1 DEF Drawn
  <1>0. r \in Vencord!Check
    BY DEF ComposerIInv
  <1>1. r \in Vencord!Check /\ p \in Vencord!Check /\ p.st = r.st /\ p.cur = r.cur /\ p.text = r.text
    BY <1>0 DEF Vencord!Check
  <1>2. ComposerHeard(c, r.st) = {r}
    BY DEF ComposerHeard, ComposerIInv
  <1> HIDE DEF p
  <1>3. r.st \in Vencord!States /\ r.text \in Vencord!Texts
    BY <1>1 DEF Vencord!Check
  <1>4. \/ phase = "done" /\ d.checks = c.checks \ {r}
        \/ d.checks = (c.checks \ {r}) \cup {p}
    BY <1>a DEF p
  <1>5. \A s \in Vencord!States \ {r.st} : ComposerHeard(d, s) = ComposerHeard(c, s)
    BY <1>1, <1>4 DEF ComposerHeard
  <1>6. /\ d.checks = c.checks \ {r} => ComposerHeard(d, r.st) = {}
        /\ d.checks = (c.checks \ {r}) \cup {p} => ComposerHeard(d, r.st) = {p}
    BY <1>1, <1>2, <1>4 DEF ComposerHeard
  <1>7. d.checks \subseteq Vencord!Check
    BY <1>1, <1>4 DEF ComposerIInv
  <1>8. \A q, u \in d.checks : q.cur /\ u.cur /\ q.st = u.st => q = u
    BY <1>1, <1>4 DEF ComposerIInv
  <1>9. ASSUME NEW s \in Vencord!States, d.scanline[s]
        PROVE  d.phase[s] = "fast" /\ ComposerHeard(d, s) # {}
    <2>1. CASE s = r.st
      <3>1. phase = "fast" /\ d.phase[s] = "fast"
        BY <1>b, <1>9, <2>1
      <3> QED
        BY <2>1, <3>1, <1>4, <1>6
    <2>2. CASE s # r.st
      <3>1. c.scanline[s] /\ d.phase[s] = c.phase[s]
        BY <1>b, <1>9, <2>2
      <3> QED
        BY <1>5, <2>2, <3>1 DEF ComposerIInv
    <2> QED
      BY <2>1, <2>2
  <1>10. c.settled => r.st # c.made
    BY <1>2 DEF ComposerIInv
  <1>11. d.settled => ComposerClean(d, d.made) /\ ComposerHeard(d, d.made) = {}
    BY <1>a, <1>b, <1>5, <1>10 DEF ComposerIInv, ComposerClean
  <1>12. ComposerIInv(d)
    BY <1>a, <1>7, <1>8, <1>9, <1>11 DEF ComposerIInv
  <1>13. ComposerQuestion(c, r.st) = r.text /\ ComposerQuestion(d, r.st) \in {r.text, None}
    BY <1>1, <1>2, <1>4, <1>6 DEF ComposerQuestion
  <1>14. ComposerMoves(c, d, r.st)
    BY <1>b, <1>3, <1>13 DEF ComposerMoves
  <1>15. ASSUME NEW s \in Vencord!States, s # r.st PROVE ComposerMoves(c, d, s)
    BY <1>b, <1>5, <1>15 DEF ComposerMoves, ComposerQuestion
  <1> QED
    BY <1>12, <1>14, <1>15 DEF ComposerGood
-----------------------------------------------------------------------------
(* The steps. *)

\* Steps that only set other fields.
LEMMA OtherQuiet ==
  ASSUME ComposerIInv(state),
         \/ Vencord!Reconnect \/ Vencord!Paste \/ Vencord!Enter \/ Vencord!Send
  PROVE  ComposerQuiet(state, state')
  <1>1. CASE Vencord!Reconnect
    BY <1>1 DEF Vencord!Reconnect, Vencord!Step, ComposerIInv, ComposerShape, ComposerNames, ComposerQuiet,
       Dim
  <1>2. CASE Vencord!Send
    BY <1>2 DEF Vencord!Send, Vencord!Step, ComposerIInv, ComposerShape, Vencord!Texts, ComposerNames,
       ComposerQuiet, Dim
  <1>3. CASE Vencord!Enter
    BY <1>3 DEF Vencord!Enter, Vencord!Step, ComposerIInv, ComposerShape, ComposerNames, ComposerQuiet, Dim
  <1>4. CASE Vencord!Paste
    <2>1. PICK checked \in BOOLEAN : state' = [Vencord!StopTimers(state) EXCEPT !.grace = checked]
      BY <1>4 DEF Vencord!Paste, Vencord!Step
    <2> QED
      BY <2>1 DEF Vencord!StopTimers, ComposerIInv, ComposerShape, ComposerNames, ComposerQuiet, Dim
  <1> QED
    BY <1>1, <1>2, <1>3, <1>4

\* A new state starts bare of checks.
LEMMA AttachGood ==
  ASSUME Bound.composer.states \in Nat, ComposerIInv(state), Vencord!Attach
  PROVE  ComposerGood(state, state')
  <1>1. /\ state' = [state EXCEPT !.made = @ + 1, !.attached = TRUE, !.settled = FALSE]
        /\ state.made < Bound.composer.states
    BY DEF Vencord!Attach, Vencord!Step, Vencord!live
  <1>2. /\ ComposerShape(state') /\ state'.made = state.made + 1 /\ state'.settled = FALSE
        /\ state'.checks = state.checks /\ state'.shown = state.shown
        /\ state'.phase = state.phase /\ state'.scanline = state.scanline
    BY <1>1 DEF ComposerIInv, ComposerShape, ComposerNames
  <1>3. \A s : ComposerHeard(state', s) = ComposerHeard(state, s)
    BY <1>2 DEF ComposerHeard
  <1>4. state'.made \in Nat /\ state'.made \in Vencord!States
    BY <1>1, <1>2 DEF ComposerIInv, Vencord!States
  <1>5. ComposerIInv(state')
    BY <1>2, <1>3, <1>4 DEF ComposerIInv
  <1>6. ASSUME NEW s \in Vencord!States PROVE ComposerMoves(state, state', s)
    BY <1>2, <1>3 DEF ComposerMoves, ComposerQuestion
  <1> QED
    BY <1>5, <1>6 DEF ComposerGood

\* The composer goes, or loses the focus.
LEMMA GoneQuiet ==
  ASSUME ComposerIInv(state), Vencord!Detach \/ Vencord!Blur
  PROVE  ComposerQuiet(state, state')
  <1> DEFINE s == state.made
  <1>1. state.attached /\ s \in Vencord!States
    BY DEF Vencord!Detach, Vencord!Blur, ComposerIInv
  <1>2. CASE Vencord!Detach
    <2> DEFINE c == Vencord!StopTimers(state)
    <2>1. /\ DOMAIN c = ComposerNames /\ \A n \in ComposerNames \ {"debounce", "grace"} : c[n] = state[n]
      BY DEF Vencord!StopTimers, ComposerIInv, ComposerShape, ComposerNames
    <2>2. state' = [c EXCEPT !.attached = FALSE, !.settle = FALSE, !.settled = FALSE,
                                !.shown[s] = None, !.scanline[s] = FALSE]
      BY <1>2 DEF Vencord!Detach, Vencord!Step, Vencord!live
    <2> HIDE DEF c
    <2>3. /\ DOMAIN state' = ComposerNames /\ state'.made = s /\ state'.checks = c.checks
          /\ state'.phase = c.phase /\ state'.settled = FALSE /\ state'.settle = FALSE
          /\ state'.attached = FALSE /\ state'.text = c.text
          /\ state'.shown = [c.shown EXCEPT ![s] = None]
          /\ state'.scanline = [c.scanline EXCEPT ![s] = FALSE]
      BY <2>1, <2>2 DEF ComposerNames
    <2>4. /\ c.checks = state.checks /\ c.phase = state.phase /\ c.text = state.text
          /\ c.shown = state.shown /\ c.scanline = state.scanline
      BY <2>1 DEF ComposerNames
    <2>5. ComposerShape(state')
      BY <2>3, <2>4 DEF ComposerIInv, ComposerShape
    <2>6. ASSUME NEW q \in Vencord!States
          PROVE  /\ state'.shown[q] = state.shown[q] \/ (q = s /\ state'.shown[q] = None)
                 /\ \/ state'.scanline[q] = state.scanline[q] /\ state'.phase[q] = state.phase[q]
                    \/ q = s /\ ~state'.scanline[q]
      <3>1. DOMAIN state.shown = Vencord!States /\ DOMAIN state.scanline = Vencord!States
        BY DEF ComposerIInv, ComposerShape
      <3>2. state'.phase = state.phase /\ state'.shown = [state.shown EXCEPT ![s] = None]
            /\ state'.scanline = [state.scanline EXCEPT ![s] = FALSE]
        BY <2>3, <2>4
      <3>3. CASE q = s
        BY <3>1, <3>2, <3>3
      <3>4. CASE q # s
        BY <3>1, <3>2, <3>4
      <3> QED
        BY <3>3, <3>4
    <2>7. /\ state'.made = state.made /\ ~state'.attached /\ ~state'.settle /\ state'.settled = FALSE
          /\ state'.checks = state.checks
      BY <2>3, <2>4
    <2> QED
      BY <2>5, <2>6, <2>7, QuietIf
  <1>3. CASE Vencord!Blur
    <2>1. state' = [state EXCEPT !.shown[s] = None, !.phase[s] = "done", !.scanline[s] = FALSE]
      BY <1>3 DEF Vencord!Blur, Vencord!Step, Vencord!live
    <2>2. /\ DOMAIN state' = ComposerNames /\ state'.made = s /\ state'.checks = state.checks
          /\ state'.settled = state.settled /\ state'.settle = state.settle
          /\ state'.attached = state.attached /\ state'.text = state.text
          /\ state'.shown = [state.shown EXCEPT ![s] = None]
          /\ state'.phase = [state.phase EXCEPT ![s] = "done"]
          /\ state'.scanline = [state.scanline EXCEPT ![s] = FALSE]
      BY <2>1 DEF ComposerIInv, ComposerShape, ComposerNames
    <2>3. ComposerShape(state')
      BY <2>2 DEF ComposerIInv, ComposerShape
    <2>4. ASSUME NEW q \in Vencord!States
          PROVE  /\ state'.shown[q] = state.shown[q] \/ (q = s /\ state'.shown[q] = None)
                 /\ \/ state'.scanline[q] = state.scanline[q] /\ state'.phase[q] = state.phase[q]
                    \/ q = s /\ ~state'.scanline[q]
      <3>1. DOMAIN state.shown = Vencord!States /\ DOMAIN state.phase = Vencord!States /\
            DOMAIN state.scanline = Vencord!States
        BY DEF ComposerIInv, ComposerShape
      <3>2. CASE q = s
        BY <2>2, <3>1, <3>2
      <3>3. CASE q # s
        BY <2>2, <3>1, <3>3
      <3> QED
        BY <3>2, <3>3
    <2> QED
      BY <2>2, <2>3, <2>4 DEF ComposerQuiet, Dim
  <1> QED
    BY <1>2, <1>3

\* What is typed keeps or drops what is drawn, and is not a check.
LEMMA TypeQuiet ==
  ASSUME ComposerIInv(state), Vencord!Type
  PROVE  ComposerQuiet(state, state')
  <1>1. PICK text \in Vencord!Texts, decision \in {"check", "grace", "skip"} :
          LET c == [state EXCEPT !.text = text]
          IN  IF ~c.attached \/ c.paused THEN Vencord!Step(c)
              ELSE \E kept \in {c.shown[Vencord!live], None} :
                     Vencord!Step(Vencord!Edited([c EXCEPT !.settled = FALSE], decision, kept))
    BY DEF Vencord!Type
  <1> DEFINE c == [state EXCEPT !.text = text]
             e == [c EXCEPT !.settled = FALSE]
             s == state.made
  <1>2. ComposerShape(c) /\ ComposerQuiet(state, c) /\ c.attached = state.attached /\ c.shown = state.shown
    BY DEF ComposerIInv, ComposerShape, ComposerNames, ComposerQuiet, Dim
  <1>3. \/ state' = c
        \/ c.attached /\ \E kept \in {state.shown[s], None} : state' = Vencord!Edited(e, decision, kept)
    BY <1>1, <1>2 DEF Vencord!Step, Vencord!live
  <1> HIDE DEF c
  <1>4. ComposerShape(e) /\ ComposerQuiet(c, e) /\ e.shown = state.shown
    BY <1>2 DEF ComposerShape, ComposerNames, ComposerQuiet, Dim
  <1> HIDE DEF e
  <1>5. ComposerQuiet(state, e) /\ e.made = s
    <2>1. ComposerQuiet(state, e)
      BY <1>2, <1>4, QuietTwice
    <2> QED
      BY <2>1 DEF ComposerQuiet, Dim
  <1>6. CASE state' = c
    BY <1>2, <1>6
  <1>7. ASSUME c.attached, NEW kept \in {state.shown[s], None}, state' = Vencord!Edited(e, decision, kept)
        PROVE  ComposerQuiet(state, state')
    <2>1. s \in Vencord!States
      BY <1>2, <1>7 DEF ComposerIInv
    <2>2. CASE decision = "check"
      <3>1. state' = [e EXCEPT !.debounce = TRUE, !.grace = FALSE, !.shown[s] = kept]
        BY <1>5, <1>7, <2>2 DEF Vencord!Edited, Vencord!live
      <3>2. /\ DOMAIN state' = ComposerNames /\ state'.shown = [e.shown EXCEPT ![s] = kept]
            /\ \A n \in ComposerNames \ {"debounce", "grace", "shown"} : state'[n] = e[n]
        BY <1>4, <3>1 DEF ComposerShape, ComposerNames
      <3>3. /\ state'.made = e.made /\ state'.attached = e.attached /\ state'.settle = e.settle
            /\ state'.phase = e.phase /\ state'.scanline = e.scanline
            /\ state'.checks = e.checks /\ state'.settled = e.settled /\ state'.text = e.text
        BY <3>2 DEF ComposerNames
      <3>4. ComposerShape(state')
        BY <1>4, <3>2, <3>3 DEF ComposerShape
      <3>5. \A q \in Vencord!States : state'.shown[q] = state.shown[q] \/ (q = s /\ state'.shown[q] = None)
        BY <1>4, <3>2 DEF ComposerShape
      <3>6. \A q \in Vencord!States :
              \/ e.scanline[q] = state.scanline[q] /\ e.phase[q] = state.phase[q]
              \/ q = state.made /\ ~e.scanline[q]
        BY <1>5 DEF ComposerQuiet, Dim
      <3>7. /\ e.attached => state.attached
            /\ e.settle => state.settle \/ state.attached
            /\ e.checks = state.checks /\ e.settled \in {state.settled, FALSE}
        BY <1>5 DEF ComposerQuiet, Dim
      <3>8. \A q \in Vencord!States :
              \/ state'.scanline[q] = state.scanline[q] /\ state'.phase[q] = state.phase[q]
              \/ q = state.made /\ ~state'.scanline[q]
        BY <3>3, <3>6
      <3>9. /\ state'.made = state.made /\ state'.checks = state.checks
            /\ state'.attached => state.attached
            /\ state'.settle => state.settle \/ state.attached
            /\ state'.settled \in {state.settled, FALSE}
        BY <1>5, <3>3, <3>7
      <3> QED
        BY <3>4, <3>5, <3>8, <3>9, QuietIf
    <2>3. CASE decision = "grace"
      <3>1. state' = [e EXCEPT !.debounce = FALSE, !.grace = TRUE]
        BY <1>7, <2>3 DEF Vencord!Edited
      <3>2. ComposerQuiet(e, state')
        BY <1>4, <3>1 DEF ComposerShape, ComposerNames, ComposerQuiet, Dim
      <3> QED
        BY <1>5, <3>2, QuietTwice
    <2>4. CASE decision = "skip"
      <3>1. state' = [e EXCEPT !.debounce = FALSE, !.grace = FALSE]
        BY <1>7, <2>4 DEF Vencord!Edited, Vencord!StopTimers
      <3>2. ComposerQuiet(e, state')
        BY <1>4, <3>1 DEF ComposerShape, ComposerNames, ComposerQuiet, Dim
      <3> QED
        BY <1>5, <3>2, QuietTwice
    <2> QED
      BY <2>2, <2>3, <2>4
  <1> QED
    BY <1>3, <1>6, <1>7

\* Pausing dims and may ask, and so do the timers and the recheck.
LEMMA RerunSteps ==
  ASSUME ComposerIInv(state), Vencord!TogglePause \/ Vencord!Recheck \/ Vencord!DebounceIsOver \/
         Vencord!GraceIsOver
  PROVE  ComposerQuiet(state, state') \/ Asks(state, state')
  <1>1. ASSUME NEW c, ComposerQuiet(state, c), NEW text \in Vencord!Texts, state' = Vencord!Rerun(c, text)
        PROVE  ComposerQuiet(state, state') \/ Asks(state, state')
    <2>1. ComposerShape(c) /\ c.made = Vencord!live /\ (c.attached => c.made \in Vencord!States)
      BY <1>1 DEF ComposerQuiet, Dim, ComposerIInv, Vencord!live
    <2> QED
      BY <1>1, <2>1, RerunAsks, QuietTwice, QuietAsks
  <1>2. ComposerShape(state)
    BY DEF ComposerIInv
  <1>3. CASE Vencord!TogglePause
    <2> DEFINE c == [state EXCEPT !.paused = ~@]
               bare == IF c.attached THEN Vencord!Show(c, Vencord!live, None, "done") ELSE c
    <2>1. ComposerShape(c) /\ ComposerQuiet(state, c) /\ c.made = Vencord!live /\ c.attached = state.attached
      BY <1>2 DEF ComposerShape, ComposerNames, ComposerQuiet, Dim, Vencord!live
    <2>2. state' = bare \/ state' = Vencord!Rerun(bare, bare.text)
      BY <1>3 DEF Vencord!TogglePause, Vencord!Step
    <2> HIDE DEF c
    <2>3. ComposerQuiet(state, bare)
      <3>1. CASE c.attached
        <4>1. c.made \in Vencord!States
          BY <2>1, <3>1 DEF ComposerIInv, Vencord!live
        <4>2. ComposerQuiet(c, Vencord!Show(c, c.made, None, "done"))
          BY <2>1, <4>1, BareQuiet
        <4> QED
          BY <2>1, <3>1, <4>2, QuietTwice
      <3>2. CASE ~c.attached
        BY <2>1, <3>2
      <3> QED
        BY <3>1, <3>2
    <2> HIDE DEF bare
    <2>4. bare.text \in Vencord!Texts
      BY <2>3 DEF ComposerQuiet, Dim, ComposerShape
    <2> QED
      BY <1>1, <2>2, <2>3, <2>4
  <1>4. CASE Vencord!Recheck
    <2>1. PICK text \in IF state.shown[Vencord!live] = None THEN {state.text} ELSE Vencord!Texts :
            state' = Vencord!Rerun([state EXCEPT !.text = text], text)
      BY <1>4 DEF Vencord!Recheck, Vencord!Step
    <2>2. text \in Vencord!Texts
      BY <1>2, <2>1 DEF ComposerShape
    <2>3. ComposerQuiet(state, [state EXCEPT !.text = text])
      BY <1>2, <2>2 DEF ComposerShape, ComposerNames, ComposerQuiet, Dim
    <2> QED
      BY <1>1, <2>1, <2>2, <2>3
  <1>5. CASE Vencord!DebounceIsOver
    <2>1. state' = Vencord!Rerun([state EXCEPT !.debounce = FALSE], state.text)
      BY <1>5 DEF Vencord!DebounceIsOver, Vencord!Step
    <2>2. ComposerQuiet(state, [state EXCEPT !.debounce = FALSE]) /\ state.text \in Vencord!Texts
      BY <1>2 DEF ComposerShape, ComposerNames, ComposerQuiet, Dim
    <2> QED
      BY <1>1, <2>1, <2>2
  <1>6. CASE Vencord!GraceIsOver
    <2>1. state' = Vencord!Rerun([state EXCEPT !.grace = FALSE], state.text)
      BY <1>6 DEF Vencord!GraceIsOver, Vencord!Step
    <2>2. ComposerQuiet(state, [state EXCEPT !.grace = FALSE]) /\ state.text \in Vencord!Texts
      BY <1>2 DEF ComposerShape, ComposerNames, ComposerQuiet, Dim
    <2> QED
      BY <1>1, <2>1, <2>2
  <1> QED
    BY <1>3, <1>4, <1>5, <1>6

\* The composer was emptied by sending, or is gone.
LEMMA SettleStep ==
  ASSUME ComposerIInv(state), Vencord!SettleIsOver
  PROVE  ComposerGood(state, state')
  <1> DEFINE c == [state EXCEPT !.settle = FALSE]
             t == [Vencord!StopTimers(c) EXCEPT !.checks = Vencord!Stale(@, Vencord!live), !.settled = TRUE]
  <1>1. ComposerShape(c) /\ ComposerQuiet(state, c) /\ c.made = Vencord!live /\
        Vencord!live \in Vencord!States
    BY DEF Vencord!SettleIsOver, ComposerIInv, ComposerShape, ComposerNames, ComposerQuiet, Dim, Vencord!live
  <1>2. state' = c \/ state' = Vencord!Show(t, Vencord!live, None, "done")
    BY DEF Vencord!SettleIsOver, Vencord!Step
  <1> HIDE DEF c
  <1>3. CASE state' = c
    BY <1>1, <1>3, QuietGood
  <1>4. CASE state' = Vencord!Show(t, Vencord!live, None, "done")
    <2>1. /\ DOMAIN t = ComposerNames /\ \A n \in ComposerNames \ {"debounce", "grace", "checks", "settled"} :
             t[n] = c[n]
          /\ t.checks = Vencord!Stale(c.checks, Vencord!live) /\ t.settled = TRUE
      BY <1>1 DEF Vencord!StopTimers, ComposerShape, ComposerNames
    <2> HIDE DEF t
    <2>2. /\ t.shown = c.shown /\ t.phase = c.phase /\ t.scanline = c.scanline /\ t.made = c.made
          /\ t.attached = c.attached /\ t.settle = c.settle /\ t.text = c.text
      BY <2>1 DEF ComposerNames
    <2>3. ComposerShape(t)
      BY <1>1, <2>1, <2>2 DEF ComposerShape
    <2>4. ComposerQuiet(t, state') /\ ComposerClean(state', Vencord!live)
      <3>1. t.made = Vencord!live
        BY <1>1, <2>2
      <3> QED
        BY <1>1, <1>4, <2>3, <3>1, BareQuiet
    <2>5. Dim(c, t)
      BY <2>2, <2>3 DEF Dim
    <2>6. Dim(state, state')
      <3>1. Dim(state, c) /\ Dim(t, state')
        BY <1>1, <2>4 DEF ComposerQuiet
      <3> QED
        BY <2>5, <3>1, DimTwice
    <2>7. state'.checks = Vencord!Stale(state.checks, Vencord!live)
      BY <1>1, <2>1, <2>4 DEF ComposerQuiet
    <2> QED
      BY <1>1, <2>4, <2>6, <2>7, SettleGood DEF Vencord!live
  <1> QED
    BY <1>2, <1>3, <1>4

\* Frames and failures of a check.
LEMMA AnswerSteps ==
  ASSUME None \notin Vencord!Texts, ComposerIInv(state), NEW r \in state.checks, Vencord!Fast(r) \/
         Vencord!Final(r) \/ Vencord!Fails(r)
  PROVE  ComposerGood(state, state')
  <1> DEFINE p == [r EXCEPT !.previewed = TRUE]
             w == Vencord!Without(r)
             v == [w EXCEPT !.checks = @ \cup {p}]
  <1>0. r \in Vencord!Check
    BY DEF ComposerIInv
  <1>1. p \in Vencord!Check /\ p.cur = r.cur /\ r.st \in Vencord!States
    BY <1>0 DEF Vencord!Check
  <1> HIDE DEF p
  <1>2. /\ DOMAIN w = ComposerNames /\ w.checks = state.checks \ {r}
        /\ \A n \in ComposerNames \ {"checks"} : w[n] = state[n]
    BY DEF Vencord!Without, ComposerIInv, ComposerShape, ComposerNames
  <1> HIDE DEF w
  <1>3. /\ DOMAIN v = ComposerNames /\ v.checks = (state.checks \ {r}) \cup {p}
        /\ \A n \in ComposerNames \ {"checks"} : v[n] = state[n]
    BY <1>2 DEF ComposerNames
  <1> HIDE DEF v
  <1>4. ASSUME NEW c \in {w, v}
        PROVE  /\ ComposerShape(c) /\ c.made = state.made /\ c.attached = state.attached
               /\ c.settle = state.settle /\ c.settled = state.settled
               /\ c.shown = state.shown /\ c.phase = state.phase /\ c.scanline = state.scanline
               /\ c.checks = state.checks \ {r} \/ c.checks = (state.checks \ {r}) \cup {p}
    BY <1>2, <1>3 DEF ComposerIInv, ComposerShape, ComposerNames
  <1>5. \/ \E c \in {w, v} : ~r.cur /\ state' = c
        \/ r.cur /\ \E question \in {r.text, None} : state' = Vencord!Show(v, r.st, question, "fast")
        \/ r.cur /\ \E question \in {r.text, None} : state' = Vencord!Show(w, r.st, question, "done")
    BY DEF Vencord!Fast, Vencord!Final, Vencord!Fails, Vencord!Frame, Vencord!Step, w, v, p
  <1>6. ASSUME ~r.cur, NEW c \in {w, v}, state' = c PROVE ComposerGood(state, state')
    <2>1. Dim(state, c)
      BY <1>4, <1>6 DEF Dim
    <2> QED
      BY <1>1, <1>4, <1>6, <2>1, LateGood
  <1>7. ASSUME r.cur, NEW c \in {w, v}, NEW question \in {r.text, None}, NEW phase \in {"fast", "done"},
               state' = Vencord!Show(c, r.st, question, phase), phase = "done" => c = w, phase = "fast" =>
                   c = v
        PROVE  ComposerGood(state, state')
    <2>0. ComposerShape(c)
      BY <1>4
    <2>1. ComposerShape(state') /\ Drawn(c, state', r.st, question, phase)
      BY <1>1, <1>7, <2>0, ShowEffect
    <2>2. \/ phase = "done" /\ c.checks = state.checks \ {r}
          \/ c.checks = (state.checks \ {r}) \cup {[r EXCEPT !.previewed = TRUE]}
      BY <1>2, <1>3, <1>7 DEF p
    <2>3. \A n \in ComposerNames \ {"checks"} : c[n] = state[n]
      BY <1>2, <1>3
    <2> QED
      BY <1>7, <2>1, <2>2, <2>3, FrameGood
  <1> QED
    BY <1>5, <1>6, <1>7

\* Every step keeps the invariant, and moves every state as LatestCheck allows.
LEMMA ComposerStepGood ==
  ASSUME Vencord!Constants, ComposerIInv(state), [Vencord!Next]_state
  PROVE  ComposerGood(state, state')
  <1>1. ASSUME ComposerQuiet(state, state') \/ Asks(state, state') PROVE ComposerGood(state, state')
    BY <1>1, QuietGood, AsksGood DEF Vencord!Constants
  <1>2. CASE state' = state
    <2>1. ComposerQuiet(state, state')
      BY <1>2 DEF ComposerQuiet, Dim, ComposerIInv
    <2> QED
      BY <1>1, <2>1
  <1>3. CASE Vencord!Attach
    BY <1>3, AttachGood DEF Vencord!Constants
  <1>4. CASE Vencord!SettleIsOver
    BY <1>4, SettleStep
  <1>5. CASE Vencord!Reconnect \/ Vencord!Paste \/ Vencord!Enter \/ Vencord!Send
    BY <1>1, <1>5, OtherQuiet
  <1>6. CASE Vencord!Detach \/ Vencord!Blur
    BY <1>1, <1>6, GoneQuiet
  <1>7. CASE Vencord!Type
    BY <1>1, <1>7, TypeQuiet
  <1>8. CASE Vencord!TogglePause \/ Vencord!Recheck \/ Vencord!DebounceIsOver \/ Vencord!GraceIsOver
    BY <1>1, <1>8, RerunSteps
  <1>9. ASSUME NEW r \in state.checks, Vencord!Fast(r) \/ Vencord!Final(r) \/ Vencord!Fails(r)
        PROVE ComposerGood(state, state')
    BY <1>9, AnswerSteps DEF Vencord!Constants
  <1> QED
    BY <1>2, <1>3, <1>4, <1>5, <1>6, <1>7, <1>8, <1>9 DEF Vencord!Next

-----------------------------------------------------------------------------

\* At first nothing is attached, and nothing out.
LEMMA ComposerInit == Vencord!Init => ComposerIInv(state)
  <1> SUFFICES ASSUME Vencord!Init PROVE ComposerIInv(state)
    OBVIOUS
  <1>1. /\ DOMAIN state = ComposerNames /\ state.text \in Vencord!Texts /\ state.made = 0
        /\ state.attached = FALSE /\ state.settle = FALSE /\ state.settled = FALSE
        /\ state.checks = {} /\ state.shown = [s \in Vencord!States |-> None]
        /\ state.phase = [s \in Vencord!States |-> "done"]
        /\ state.scanline = [s \in Vencord!States |-> FALSE]
    BY DEF Vencord!Init, ComposerNames
  <1> QED
    BY <1>1 DEF ComposerIInv, ComposerShape

\* What the invariant says of the two properties.
LEMMA ComposerIsClean == ComposerIInv(state) => Vencord!SettledStaysClean /\ Vencord!ScanlineEnds
  BY DEF ComposerIInv, ComposerClean, ComposerHeard, Vencord!SettledStaysClean, Vencord!ScanlineEnds,
     Vencord!live

\* At first no check is out, and nothing drawn.
LEMMA ComposerLatestStarts == Vencord!Init => Vencord!LatestInit
  <1> SUFFICES ASSUME Vencord!Init, NEW s \in Vencord!States PROVE Vencord!Latest(s)!Init
    BY DEF Vencord!LatestInit
  <1>1. state.checks = {} /\ state.shown[s] = None
    BY DEF Vencord!Init
  <1> QED
    BY <1>1 DEF Vencord!Latest!Init

\* For each state, every step is one of LatestCheck's.
LEMMA ComposerLatestMoves == ComposerIInv(state) /\ [Vencord!Next]_state => Vencord!LatestStep
  <1> SUFFICES ASSUME ComposerIInv(state), [Vencord!Next]_state, NEW s \in Vencord!States
               PROVE  Vencord!Latest(s)!Step
    BY DEF Vencord!LatestStep
  <1>1. ComposerMoves(state, state', s)
    BY ComposerStepGood, ComposerAssumption DEF ComposerGood
  <1> QED
    BY <1>1 DEF ComposerMoves, ComposerQuestion, ComposerHeard, Vencord!Latest!Step, Vencord!Latest!Next,
                Vencord!Latest!Ask, Vencord!Latest!Draw, Vencord!Latest!Forget, Vencord!Latest!Clear

\* The inductive invariant of the composer, for any number of attaches.
THEOREM ComposerInvariant == Vencord!Spec => []ComposerIInv(state)
  <1>1. ComposerIInv(state) /\ [Vencord!Next]_state => ComposerIInv(state)'
    BY ComposerStepGood, ComposerAssumption DEF ComposerGood
  <1> QED
    BY <1>1, ComposerInit, PTL DEF Vencord!Spec

\* Once the composer was found empty after sending, no late frame of a check of the
\* sent message brings suggestions or the scan-line back.
THEOREM SentStaysClean == Vencord!Spec => []Vencord!SettledStaysClean
  BY ComposerIsClean, ComposerInvariant, PTL

\* Whatever overtakes a check, the scan-line is up only while an answer is out
\* that will end it.
THEOREM ScanlineIsAwaited == Vencord!Spec => []Vencord!ScanlineEnds
  BY ComposerIsClean, ComposerInvariant, PTL

\* For each state, suggestions are drawn only in answer to its latest check, by a
\* preview or the final frame; one superseded or given up draws nothing.
THEOREM ComposerShowsLatest == Vencord!Spec => Vencord!LatestInit /\ [][Vencord!LatestStep]_state
  <1>1. ComposerIInv(state) /\ [Vencord!Next]_state => [Vencord!LatestStep]_state
    BY ComposerLatestMoves
  <1> QED
    BY <1>1, ComposerLatestStarts, ComposerInvariant, PTL DEF Vencord!Spec

-----------------------------------------------------------------------------
(* All parts. *)

\* The invariant of the part that a behaviour is of.
PartsInv ==
  /\ part = "opencode" => PromptChecks(state) /\ Cursor(state) /\ PromptPlace(state)
  /\ part = "vencord" => ComposerIInv(state)
  /\ part = "field" => OneField!IInv(state) /\ OneField!Life(state)
  /\ part = "fields" => AllFields!IInv(state) /\ AllFields!Life(state)
  /\ part = "highlights" => Page!LitInv(state)
  /\ part = "surfaces" => Page!PageInv(state) /\ Page!SwapInv(Page!Surfaces!Words, state)
  /\ part = "tabs" => Page!SettingsInv(state)
  /\ part = "hover" => Page!HoverInv(state)
  /\ part = "pill" => Page!PillInv(state)
  /\ part = "spelling" => Page!SpellInv(state)

\* Every part starts in its invariant.
LEMMA PartsInit == ClientsInit => PartsInv
  <1> SUFFICES ASSUME ClientsInit PROVE PartsInv
    OBVIOUS
  <1>1. CASE part = "opencode" /\ OpenCode!Init
    BY <1>1, PromptInit, CursorInit, PlaceInit DEF PartsInv
  <1>2. CASE part = "vencord" /\ Vencord!Init
    BY <1>2, ComposerInit DEF PartsInv
  <1>3. CASE part = "field" /\ OneField!Init
    BY <1>3, OneField!InvariantInit, OneField!LifeInit DEF PartsInv
  <1>4. CASE part = "fields" /\ AllFields!Init
    BY <1>4, AllFields!InvariantInit, AllFields!LifeInit DEF PartsInv
  <1>5. CASE part = "highlights" /\ Page!Lit!Init
    BY <1>5, Page!LitInit DEF PartsInv
  <1>6. CASE part = "surfaces" /\ Page!Surfaces!Init
    BY <1>6, Page!PageInit, Page!SwapInit, SelectableAssumption DEF PartsInv
  <1>7. CASE part = "tabs" /\ Page!Settings!Init
    BY <1>7, Page!SettingsInit DEF PartsInv
  <1>8. CASE part = "hover" /\ Page!Hover!Init
    BY <1>8, Page!HoverInit, NamesApart DEF PartsInv
  <1>9. CASE part = "pill" /\ Page!Pill!Init
    BY <1>9, Page!PillInit, NamesApart DEF PartsInv
  <1>10. CASE part = "spelling" /\ Page!Spelling!Init
    BY <1>10, Page!SpellInit DEF PartsInv
  <1> QED
    BY <1>1, <1>2, <1>3, <1>4, <1>5, <1>6, <1>7, <1>8, <1>9, <1>10 DEF ClientsInit

\* Only the part moves that the behaviour is of, by a step of its own.
LEMMA PartMoves ==
  ASSUME [ClientsNext]_<<part, state>>
  PROVE  /\ part' = part
         /\ part = "opencode" => [OpenCode!Next]_state
         /\ part = "vencord" => [Vencord!Next]_state
         /\ part = "field" => [OneField!Next]_state
         /\ part = "fields" => [AllFields!Next]_state
         /\ part = "highlights" => [Page!Lit!Next]_state
         /\ part = "surfaces" => [Page!Surfaces!Next]_state
         /\ part = "tabs" => [Page!Settings!Next]_state
         /\ part = "hover" => [Page!Hover!Next]_state
         /\ part = "pill" => [Page!Pill!Next]_state
         /\ part = "spelling" => [Page!Spelling!Next]_state
  BY DEF ClientsNext

\* No step breaks the invariant of its part.
LEMMA PartsStep == PartsInv /\ [ClientsNext]_<<part, state>> => PartsInv'
  <1> SUFFICES ASSUME PartsInv, [ClientsNext]_<<part, state>> PROVE PartsInv'
    OBVIOUS
  <1>0. part' = part
    BY PartMoves
  <1>1. part = "opencode" => PromptChecks(state') /\ Cursor(state') /\ PromptPlace(state')
    BY PartMoves, PromptStepGood, CursorStep, PlaceStep DEF PartsInv, PromptGood
  <1>2. part = "vencord" => ComposerIInv(state')
    BY PartMoves, ComposerStepGood, ComposerAssumption DEF PartsInv, ComposerGood
  <1>3. part = "field" => OneField!IInv(state') /\ OneField!Life(state')
    BY PartMoves, OneField!InvariantStep, OneField!LifeStep DEF PartsInv, OneField!IInv
  <1>4. part = "fields" => AllFields!IInv(state') /\ AllFields!Life(state')
    BY PartMoves, AllFields!InvariantStep, AllFields!LifeStep DEF PartsInv, AllFields!IInv
  <1>5. part = "highlights" => Page!LitInv(state')
    BY PartMoves, Page!LitStep, NamesApart DEF PartsInv
  <1>6. part = "surfaces" => Page!PageInv(state') /\ Page!SwapInv(Page!Surfaces!Words, state')
    BY PartMoves, Page!PageStep, Page!SwapStep DEF PartsInv
  <1>7. part = "tabs" => Page!SettingsInv(state')
    BY PartMoves, Page!SettingsStep, NamesApart DEF PartsInv
  <1>8. part = "hover" => Page!HoverInv(state')
    BY PartMoves, Page!HoverStep, NamesApart DEF PartsInv
  <1>9. part = "pill" => Page!PillInv(state')
    BY PartMoves, Page!PillStep, NamesApart DEF PartsInv
  <1>10. part = "spelling" => Page!SpellInv(state')
    BY PartMoves, Page!SpellStep DEF PartsInv
  <1> QED
    BY <1>0, <1>1, <1>2, <1>3, <1>4, <1>5, <1>6, <1>7, <1>8, <1>9, <1>10 DEF PartsInv

\* The inductive invariant of the clients.
THEOREM PartsInvariant == Clients => []PartsInv
  <1>1. ClientsInit => PartsInv
    BY PartsInit
  <1>2. PartsInv /\ [ClientsNext]_<<part, state>> => PartsInv'
    BY PartsStep
  <1> QED
    BY <1>1, <1>2, PTL DEF Clients

\* The invariants say what is live,
LEMMA PartsAreLive == PartsInv => SurfacesAreLive
  <1> SUFFICES ASSUME PartsInv PROVE SurfacesAreLive
    OBVIOUS
  <1>1. part = "opencode" =>
          OpenCode!GhostHasTheField /\ OpenCode!PanelIsLive /\ OpenCode!SpinnerAwaitsAnswer
    BY CursorIsRight DEF PartsInv
  <1>2. part = "field" => OneField!PopoverIsLive
    BY OneField!InvariantShows DEF PartsInv
  <1>3. part = "fields" => AllFields!PopoverIsLive
    BY AllFields!InvariantShows DEF PartsInv
  <1>4. part = "highlights" => Page!Lit!PaintedIsCurrent
    BY Page!LitPaints, NamesApart DEF PartsInv
  <1>5. part = "surfaces" =>
          /\ Page!Surfaces!WaitersAreAnswered /\ Page!Surfaces!ClosedStaysClosed
          /\ Page!Surfaces!ControlIsCurrent
          /\ Page!Surfaces!WritesOverItsOwn /\ Page!Surfaces!UndoRestores
    BY Page!PageSurfacesLive, Page!SwapsAreOwn DEF PartsInv
  <1>6. part = "tabs" => Page!Settings!TabsFollow
    BY Page!SettingsFollow, NamesApart DEF PartsInv
  <1>7. part = "hover" => Page!Hover!ChipFades /\ Page!Hover!DescribedIsShown
    BY Page!HoverShows, NamesApart DEF PartsInv
  <1>8. part = "pill" => Page!Pill!PillHasTheFocus /\ Page!Pill!PausedOffers
    BY Page!PillIsLive, NamesApart DEF PartsInv
  <1>9. part = "spelling" => Page!Spelling!Suppressed
    BY Page!SpellSuppresses DEF PartsInv
  <1> QED
    BY <1>1, <1>2, <1>3, <1>4, <1>5, <1>6, <1>7, <1>8, <1>9 DEF SurfacesAreLive

\* what stays bare,
LEMMA PartsStayBare == PartsInv => NothingComesBack
  BY ComposerIsClean, OneField!InvariantShows, AllFields!InvariantShows, Page!SettingsFollow,
     Page!SpellSuppresses
  DEF PartsInv, NothingComesBack

\* and what is attached.
LEMMA PartsFirstLife == PartsInv => FirstLifeIsRight
  BY OneField!LifeShows, AllFields!LifeShows DEF PartsInv, FirstLifeIsRight

\* What every client shows at the cursor, over a field, by it and in it is about what
\* is there, excludes what it should, and waits for nothing that will not come; and
\* what is offered for a selection is written over that alone, and taken back.
THEOREM EverythingShownIsLive == Clients => []SurfacesAreLive
  <1>1. PartsInv => SurfacesAreLive
    BY PartsAreLive
  <1> QED
    BY <1>1, PartsInvariant, PTL

\* What was sent, settled or released stays bare, no scan-line stays up, a change of
\* settings is kept, and a field is given back with the page's own spellcheck.
THEOREM NothingDoneComesBack == Clients => []NothingComesBack
  BY PartsStayBare, PartsInvariant, PTL

\* Until its first release a field of a page is attached exactly while it is there to
\* be edited, with one field or many.
THEOREM FirstLivesAreRight == Clients => []FirstLifeIsRight
  BY PartsFirstLife, PartsInvariant, PTL

\* Every client starts as LatestCheck does,
LEMMA PartsLatestStart == ClientsInit =>
  /\ part = "opencode" => OpenCode!LatestInit
  /\ part = "vencord" => Vencord!LatestInit
  /\ part = "field" => OneField!LatestInit
  /\ part = "fields" => AllFields!LatestInit
  BY PromptLatestStarts, ComposerLatestStarts, OneField!LatestStarts, AllFields!LatestStarts DEF ClientsInit

\* and moves as it does.
LEMMA PartsLatestMove ==
  ASSUME PartsInv, [ClientsNext]_<<part, state>>
  PROVE  /\ part = "opencode" => OpenCode!LatestStep
         /\ part = "vencord" => Vencord!LatestStep
         /\ part = "field" => OneField!LatestStep
         /\ part = "fields" => AllFields!LatestStep
  BY PartMoves, PromptLatestMoves, ComposerLatestMoves, OneField!LatestMoves, AllFields!LatestMoves
  DEF PartsInv

\* Every client implements LatestCheck, for each of its field states.
THEOREM ClientsImplementLatestCheck == Clients => ClientsShowLatest
  <1>1. PartsInv /\ [ClientsNext]_<<part, state>> =>
          [/\ part = "opencode" => OpenCode!LatestStep
           /\ part = "vencord" => Vencord!LatestStep
           /\ part = "field" => OneField!LatestStep
           /\ part = "fields" => AllFields!LatestStep]_<<part, state>>
    BY PartsLatestMove
  <1> QED
    BY <1>1, PartsLatestStart, PartsInvariant, PTL DEF Clients, ClientsShowLatest
=============================================================================
