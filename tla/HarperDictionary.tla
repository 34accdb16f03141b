--------------------------- MODULE HarperDictionary ---------------------------
(***************************************************************************)
(* Harper's copy of the user dictionary (bridge/internal/harperffi/        *)
(* harper.go and userdict_watch.go): the lint group behind a C handle, the *)
(* goroutine that polls the file's modification time and rebuilds it, the  *)
(* checks that use the group under h.mu, and Close.  The group's handle    *)
(* and its merged dictionary's are made and freed together: one here.      *)
(***************************************************************************)
EXTENDS DictionaryFile

CONSTANTS
  Handles,   \* addresses the C side may hand out
  Nil        \* no handle

ASSUME HarperDictionaryAssumption == Nil \notin Handles

VARIABLES
  grp,       \* h.grp
  live,      \* handles allocated and not freed
  contents,  \* the words each handle was built with
  watcher,   \* where watchUserDict is
  last,      \* the modification time it saw last
  fresh,     \* the handle reloadGroup built
  inUse,     \* the handle a Correct that holds h.mu uses
  locked,    \* whether a Correct holds h.mu
  closing,   \* how far Close is
  startGap   \* history: the file changed before the watcher first looked

harper == <<grp, live, contents, watcher, last, fresh, inUse, locked, closing, startGap>>

HarperTypeOK ==
  /\ grp \in Handles \cup {Nil} /\ fresh \in Handles \cup {Nil} /\ inUse \in Handles \cup {Nil}
  /\ live \subseteq Handles
  /\ contents \in [Handles -> SUBSET Words]
  /\ watcher \in {"start", "poll", "build", "swap", "stopped"}
  /\ last \in 0..(MaxWrites + 1)
  /\ locked \in BOOLEAN /\ startGap \in BOOLEAN
  /\ closing \in {"no", "signalled", "closed"}

\* newWithPollInterval: the group is built before the watcher's goroutine.
HarperInit ==
  /\ \E h \in Handles :
       /\ grp = h /\ live = {h}
       /\ contents = [k \in Handles |-> IF k = h THEN file ELSE {}]
  /\ watcher = "start" /\ last = 0
  /\ fresh = Nil /\ inUse = Nil /\ locked = FALSE
  /\ closing = "no" /\ startGap = FALSE

FirstLook ==
  /\ watcher = "start"
  /\ watcher' = "poll" /\ last' = stamp
  /\ UNCHANGED <<grp, live, contents, fresh, inUse, locked, closing, startGap>>

\* A tick finds another time.  select may prefer it to a closed done.
Poll ==
  /\ watcher = "poll" /\ stamp # last
  /\ watcher' = "build" /\ last' = stamp
  /\ UNCHANGED <<grp, live, contents, fresh, inUse, locked, closing, startGap>>

Stop ==
  /\ watcher = "poll" /\ closing # "no"
  /\ watcher' = "stopped"
  /\ UNCHANGED <<grp, live, contents, last, fresh, inUse, locked, closing, startGap>>

\* reloadGroup builds the fresh group outside the lock.
Build ==
  /\ watcher = "build"
  /\ \E h \in Handles \ live :
       /\ live' = live \cup {h} /\ fresh' = h
       /\ contents' = [contents EXCEPT ![h] = file]
  /\ watcher' = "swap"
  /\ UNCHANGED <<grp, last, inUse, locked, closing, startGap>>

\* The C side frees a handle.
Free(h) ==
  /\ live' = live \ {h}
  /\ contents' = [k \in Handles |-> IF k = h THEN {} ELSE contents[k]]

Slip_SwapIgnoresClose ==
  /\ watcher = "swap" /\ ~locked
  /\ grp' = fresh /\ Free(grp)
  /\ fresh' = Nil
  /\ watcher' = "poll"
  /\ UNCHANGED <<last, inUse, locked, closing, startGap>>

Slip_SwapUnlocked ==
  /\ watcher = "swap"
  /\ IF grp = Nil THEN Free(fresh) /\ UNCHANGED grp ELSE grp' = fresh /\ Free(grp)
  /\ fresh' = Nil
  /\ watcher' = "poll"
  /\ UNCHANGED <<last, inUse, locked, closing, startGap>>

Slip_SwapLeaksOld ==
  /\ watcher = "swap" /\ ~locked
  /\ IF grp = Nil THEN Free(fresh) /\ UNCHANGED grp
     ELSE grp' = fresh /\ UNCHANGED <<live, contents>>
  /\ fresh' = Nil
  /\ watcher' = "poll"
  /\ UNCHANGED <<last, inUse, locked, closing, startGap>>

Slip_SwapLooksAgain ==
  /\ watcher = "swap" /\ ~locked
  /\ IF grp = Nil THEN Free(fresh) /\ UNCHANGED grp ELSE grp' = fresh /\ Free(grp)
  /\ fresh' = Nil /\ last' = stamp
  /\ watcher' = "poll"
  /\ UNCHANGED <<inUse, locked, closing, startGap>>

\* reloadGroup under h.mu: install, or drop when closed during the rebuild.
Swap ==
  /\ watcher = "swap" /\ ~locked
  /\ IF grp = Nil THEN Free(fresh) /\ UNCHANGED grp ELSE grp' = fresh /\ Free(grp)
  /\ fresh' = Nil
  /\ watcher' = "poll"
  /\ UNCHANGED <<last, inUse, locked, closing, startGap>>

\* Harper.Correct; with no group the C side returns no lints.
CorrectBegins ==
  /\ ~locked
  /\ locked' = TRUE /\ inUse' = grp
  /\ UNCHANGED <<grp, live, contents, watcher, last, fresh, closing, startGap>>

CorrectEnds ==
  /\ locked
  /\ locked' = FALSE /\ inUse' = Nil
  /\ UNCHANGED <<grp, live, contents, watcher, last, fresh, closing, startGap>>

CloseSignals ==
  /\ closing = "no"
  /\ closing' = "signalled"
  /\ UNCHANGED <<grp, live, contents, watcher, last, fresh, inUse, locked, startGap>>

CloseFrees ==
  /\ closing = "signalled" /\ ~locked
  /\ closing' = "closed"
  /\ Free(grp) /\ grp' = Nil
  /\ UNCHANGED <<watcher, last, fresh, inUse, locked, startGap>>

Watch == FirstLook \/ Poll \/ Build \/ Stop

HarperNext == Watch \/ Swap \/ CorrectBegins \/ CorrectEnds \/ CloseSignals \/ CloseFrees

\* The ticker ticks, a check ends, h.mu is handed over to whoever waits.
HarperFairness ==
  /\ WF_harper(Watch) /\ SF_harper(Swap) /\ WF_harper(CorrectEnds) /\ SF_harper(CloseFrees)

-----------------------------------------------------------------------------

\* No group leaks and none is freed twice: what is allocated is what h.grp
\* and the reload that is under way hold, each its own.
HandlesAccounted ==
  /\ live = {grp, fresh} \ {Nil}
  /\ grp # Nil => grp # fresh

\* A check never runs on a group that a reload or Close has freed.
UseIsLive == locked /\ inUse # Nil => inUse \in live

\* Harper ends up with the words in the file, if the file did not change
\* between the group's construction and the watcher's first look.  A file
\* that ends up missing is left out: its time, 0, may be the one the watcher
\* had seen when the file came and went during a rebuild.
HarperCatchesUp ==
  [](~startGap) => <>[](closing # "no" \/ stamp = 0 \/ contents[grp] = file)

\* After Close the watcher ends and nothing stays allocated, whatever reload
\* was under way.
CloseEnds == closing = "closed" ~> (watcher = "stopped" /\ live = {})
=============================================================================
