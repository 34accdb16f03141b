---------------------------- MODULE UserDictionary ----------------------------
(***************************************************************************)
(* The user dictionary and its two readers over one file, as main.go wires *)
(* them: dictionary.Store for the REST routes, the allowlist of finalize   *)
(* and the prompts; Harper for the fast path.                              *)
(***************************************************************************)
EXTENDS DictionaryStore, HarperDictionary

vars == <<onDisk, dictionary, harper>>

TypeOK == FileTypeOK /\ StoreTypeOK /\ HarperTypeOK

Init == FileInit /\ StoreInit /\ HarperInit

\* Any write before FirstLook goes unnoticed by Harper's watcher.
NoteGap == startGap' = (startGap \/ (watcher = "start" /\ stamp' # stamp))

OtherHarper == <<grp, live, contents, watcher, last, fresh, inUse, locked, closing>>

Next ==
  \/ StoreNext /\ NoteGap /\ UNCHANGED OtherHarper
  \/ Edit /\ NoteGap /\ UNCHANGED OtherHarper
  \/ HarperNext /\ UNCHANGED <<onDisk, dictionary>>

Spec == Init /\ [][Next]_vars

FairSpec == Spec /\ StoreFairness /\ HarperFairness

\* What the file ends up with reaches both its readers, the store and Harper,
\* but for the gaps each of the two properties names.
ReadersCatchUp == StoreCatchesUp /\ HarperCatchesUp
=============================================================================
