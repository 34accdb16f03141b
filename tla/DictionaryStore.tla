--------------------------- MODULE DictionaryStore ---------------------------
(***************************************************************************)
(* dictionary.Store (bridge/internal/dictionary/dictionary.go): the user's *)
(* words in memory, re-read when the file's modification time changed, and *)
(* rewritten whole by Add and Remove.  s.mu serializes the operations, so  *)
(* one is under way at a time; an external editor is bound by no lock and  *)
(* writes between any two steps of it.                                     *)
(***************************************************************************)
EXTENDS DictionaryFile

CONSTANTS
  WritesFail,  \* whether rewriting the file may fail (read-only, disk full)
  External,    \* whether somebody else edits the file
  NoWord       \* no word at all

ASSUME DictionaryStoreAssumption ==
  WritesFail \in BOOLEAN /\ External \in BOOLEAN /\ NoWord \notin Words

VARIABLES
  mem,     \* s.words and s.set
  mtime,   \* s.mtime
  op,      \* how far the operation that holds s.mu is
  word,    \* its word, for Add and Remove
  seen,    \* the modification time refreshLocked read
  reply,   \* what the last Add or Remove returned
  blind    \* history: memory and file may differ though the times agree

dictionary == <<mem, mtime, op, word, seen, reply, blind>>

StoreTypeOK ==
  /\ mem \subseteq Words
  /\ mtime \in 0..(MaxWrites + 1) /\ mtime <= writes
  /\ op \in {"free", "add", "remove", "write", "stat", "load"}
  /\ word \in Words \cup {NoWord}
  /\ seen \in 0..(MaxWrites + 1)
  /\ reply \in {"none", "ok", "error"}
  /\ blind \in BOOLEAN

\* Open, and EnsureFile after it: a file that was not there is empty, and its
\* modification time has not been read.
StoreInit ==
  /\ mem = file
  /\ mtime = stamp \/ (mtime = 0 /\ file = {})
  /\ op = "free" /\ word = NoWord /\ seen = 0
  /\ reply = "none" /\ blind = FALSE

Return(answer) ==
  /\ op' = "free" /\ word' = NoWord
  /\ reply' = answer

\* Add or Remove takes s.mu.
Lock(kind, w) ==
  /\ op = "free" /\ writes < MaxWrites
  /\ op' = kind /\ word' = w /\ reply' = "none"
  /\ UNCHANGED <<onDisk, mem, mtime, seen, blind>>

\* Add, up to the rewrite: a word that is there is no error.
Add ==
  /\ op = "add"
  /\ IF word \in mem
     THEN Return("ok") /\ UNCHANGED mem
     ELSE mem' = mem \cup {word} /\ op' = "write" /\ UNCHANGED <<word, reply>>
  /\ UNCHANGED <<onDisk, mtime, seen, blind>>

Slip_RemoveInMemory ==
  /\ op = "remove"
  /\ Return("ok") /\ mem' = mem \ {word}
  /\ UNCHANGED <<onDisk, mtime, seen, blind>>

\* Remove, up to the rewrite: a missing word is no error.
Remove ==
  /\ op = "remove"
  /\ IF word \notin mem
     THEN Return("ok") /\ UNCHANGED mem
     ELSE mem' = mem \ {word} /\ op' = "write" /\ UNCHANGED <<word, reply>>
  /\ UNCHANGED <<onDisk, mtime, seen, blind>>

\* rewriteLocked renames the full temporary file onto the target.
Rename ==
  /\ op = "write"
  /\ Write(mem)
  /\ op' = "stat" /\ blind' = FALSE
  /\ UNCHANGED <<mem, mtime, word, seen, reply>>

\* rewriteLocked fails before the rename: the memory keeps the change.
RewriteFails ==
  /\ op = "write" /\ WritesFail
  /\ Return("error") /\ blind' = TRUE
  /\ UNCHANGED <<onDisk, mem, mtime, seen>>

Slip_DatesWithNow ==
  /\ op = "stat"
  /\ mtime' = writes + 1
  /\ Return("ok")
  /\ UNCHANGED <<onDisk, mem, seen, blind>>

\* rewriteLocked reads the time of what it believes to be its own file.
StatOwnWrite ==
  /\ op = "stat"
  /\ mtime' = IF stamp = 0 THEN mtime ELSE stamp
  /\ Return("ok")
  /\ UNCHANGED <<onDisk, mem, seen, blind>>

\* Words or Contains: the time differs from s.mtime.  (A missing file, and a
\* time that does not differ, leave everything as it is.)
Look ==
  /\ op = "free"
  /\ stamp # 0 /\ stamp # mtime
  /\ op' = "load" /\ seen' = stamp
  /\ UNCHANGED <<onDisk, mem, mtime, word, reply, blind>>

Slip_LoadMerges ==
  /\ op = "load"
  /\ IF stamp = 0 THEN UNCHANGED <<mem, mtime, blind>>
     ELSE mem' = mem \cup file /\ mtime' = seen /\ blind' = FALSE
  /\ op' = "free" /\ seen' = 0
  /\ UNCHANGED <<onDisk, word, reply>>

\* load, with the time read before it; a file gone meanwhile is no error.
Load ==
  /\ op = "load"
  /\ IF stamp = 0 THEN UNCHANGED <<mem, mtime, blind>>
     ELSE mem' = file /\ mtime' = seen /\ blind' = FALSE
  /\ op' = "free" /\ seen' = 0
  /\ UNCHANGED <<onDisk, word, reply>>

Operation == Add \/ Remove \/ Rename \/ RewriteFails \/ StatOwnWrite \/ Load

\* Somebody edits the file by hand, or deletes it.
Edit ==
  /\ External
  /\ \/ writes < MaxWrites /\ \E words \in SUBSET Words : Write(words)
     \/ stamp # 0 /\ Erase
  /\ blind' = (blind \/ op = "stat")
  /\ UNCHANGED <<mem, mtime, op, word, seen, reply>>

StoreNext ==
  \/ \E w \in Words : Lock("add", w) \/ Lock("remove", w)
  \/ Operation
  \/ Look

\* s.mu is handed over to whoever has waited for long.
StoreFairness == WF_dictionary(Operation) /\ SF_dictionary(Look)

-----------------------------------------------------------------------------

\* A reader that finds the time it knows may trust its memory: it holds the
\* file's words.  Only a failed rewrite, or an edit between Rename and
\* StatOwnWrite, can break this.
KnownTimeKnownWords ==
  op = "free" /\ mtime = stamp /\ ~blind => mem = file

\* What the file holds once its editing ends, the allowlist and the prompts
\* learn, if no rewrite failed and no edit was missed.
StoreCatchesUp == <>[](mem = file \/ blind \/ stamp = 0 \/ op # "free")

-----------------------------------------------------------------------------

\* dictionary.go:140-141: "Writes the file atomically; on success the
\* in-memory state mirrors the new file."
SuccessMirrorsFile ==
  [][reply' = "ok" /\ reply # "ok" => mem' = file']_dictionary
=============================================================================
