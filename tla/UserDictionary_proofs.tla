------------------------ MODULE UserDictionary_proofs ------------------------
(***************************************************************************)
(* Safety of the user dictionary for every set of words, of C handles and  *)
(* every number of writes: the store's known modification time vouches for *)
(* its memory, and the reload, the checks and Close never leak, free twice *)
(* or use a freed lint group.  The store and Harper share only the file,   *)
(* so each has an inductive invariant of its own.                          *)
(***************************************************************************)
EXTENDS UserDictionary, TLAPS

\* What the store needs besides its types, step by step of an operation.
StoreAgrees ==
  /\ op \notin {"write", "stat"} /\ ~blind =>
       /\ mtime = stamp => mem = file
       /\ mtime = 0 => mem = {}
  /\ op = "stat" /\ ~blind => mem = file /\ stamp # 0
  /\ op = "load" => seen # 0 /\ seen <= writes
  /\ op \in {"add", "remove"} => word \in Words
  /\ op \in {"add", "remove", "write"} => writes <= MaxWrites

StoreInv == FileTypeOK /\ stamp <= writes /\ StoreTypeOK /\ StoreAgrees

\* Who holds which handle.
HarperInv ==
  /\ HarperTypeOK
  /\ HandlesAccounted
  /\ watcher = "swap" <=> fresh # Nil
  /\ locked => inUse = grp

-----------------------------------------------------------------------------
(* The store. *)

\* The store's invariant holds once the file exists and Open has read it.
LEMMA StoreStart == FileInit /\ StoreInit => StoreInv
  <1> SUFFICES ASSUME FileInit, StoreInit PROVE StoreInv
    OBVIOUS
  <1>1. blind \in BOOLEAN
    BY Zenon DEF StoreInit
  <1> QED
    BY <1>1, DictionaryFileAssumption, DictionaryStoreAssumption
    DEF FileInit, StoreInit, StoreInv, FileTypeOK, StoreTypeOK, StoreAgrees

\* Every operation of the store keeps it.
LEMMA StoreStep ==
  ASSUME StoreInv, StoreNext
  PROVE  StoreInv'
  <1> USE DictionaryFileAssumption, DictionaryStoreAssumption
          DEF StoreInv, FileTypeOK, StoreTypeOK, StoreAgrees, onDisk
  <1>1. ASSUME NEW w \in Words, Lock("add", w) \/ Lock("remove", w)
        PROVE  StoreInv'
    BY <1>1 DEF Lock
  <1>2. CASE Add
    BY <1>2 DEF Add, Return
  <1>3. CASE Remove
    BY <1>3 DEF Remove, Return
  <1>4. CASE Rename
    <2>1. blind' \in BOOLEAN
      BY <1>4, Zenon DEF Rename
    <2> QED
      BY <1>4, <2>1 DEF Rename, Write
  <1>5. CASE RewriteFails
    BY <1>5 DEF RewriteFails, Return
  <1>6. CASE StatOwnWrite
    BY <1>6 DEF StatOwnWrite, Return
  <1>7. CASE Look
    BY <1>7 DEF Look
  <1>8. CASE Load
    <2>1. CASE stamp = 0
      BY <1>8, <2>1 DEF Load
    <2>2. CASE stamp # 0
      <3>1. blind' \in BOOLEAN
        BY <1>8, <2>2, Zenon DEF Load
      <3> QED
        BY <1>8, <2>2, <3>1 DEF Load
    <2> QED
      BY <2>1, <2>2
  <1> QED
    BY <1>1, <1>2, <1>3, <1>4, <1>5, <1>6, <1>7, <1>8 DEF StoreNext, Operation

\* So does an edit by somebody else, whenever it comes.
LEMMA EditStep ==
  ASSUME StoreInv, Edit
  PROVE  StoreInv'
  <1> USE DictionaryFileAssumption, DictionaryStoreAssumption
          DEF StoreInv, FileTypeOK, StoreTypeOK, StoreAgrees, Edit
  <1>1. blind' \in BOOLEAN
    BY Zenon
  <1>2. ~blind' => ~blind /\ op # "stat"
    BY Zenon
  <1>3. UNCHANGED <<mem, mtime, op, word, seen, reply>>
    OBVIOUS
  <1> HIDE DEF Edit
  <1>4. ASSUME NEW words \in SUBSET Words, writes < MaxWrites, Write(words)
        PROVE  StoreInv'
    BY <1>1, <1>2, <1>3, <1>4 DEF Write
  <1>5. CASE stamp # 0 /\ Erase
    BY <1>1, <1>2, <1>3, <1>5 DEF Erase
  <1> QED
    BY <1>4, <1>5 DEF Edit

-----------------------------------------------------------------------------
(* Harper. *)

\* Harper's invariant holds once the first group is built.
LEMMA HarperStart == FileInit /\ HarperInit => HarperInv
  <1> SUFFICES ASSUME FileInit, HarperInit PROVE HarperInv
    OBVIOUS
  <1>1. locked \in BOOLEAN /\ ~locked /\ startGap \in BOOLEAN
    BY Zenon DEF HarperInit
  <1>2. PICK h \in Handles :
          /\ grp = h /\ live = {h}
          /\ contents = [k \in Handles |-> IF k = h THEN file ELSE {}]
    BY DEF HarperInit
  <1>3. fresh = Nil /\ inUse = Nil /\ watcher = "start" /\ last = 0 /\ closing = "no"
    BY DEF HarperInit
  <1>4. file \subseteq Words /\ 0 \in 0..(MaxWrites + 1)
    BY DictionaryFileAssumption DEF FileInit
  <1> QED
    BY <1>1, <1>2, <1>3, <1>4, HarperDictionaryAssumption
    DEF HarperInv, HarperTypeOK, HandlesAccounted

\* Every step of the watcher, of a check and of Close keeps it.
LEMMA HarperStep ==
  ASSUME HarperInv, FileTypeOK, HarperNext
  PROVE  HarperInv'
  <1> USE HarperDictionaryAssumption
          DEF HarperInv, HarperTypeOK, HandlesAccounted, FileTypeOK
  <1>1. CASE FirstLook
    BY <1>1 DEF FirstLook
  <1>2. CASE Poll
    BY <1>2 DEF Poll
  <1>3. CASE Stop
    BY <1>3 DEF Stop
  <1>4. CASE Build
    BY <1>4 DEF Build
  <1>5. CASE Swap
    BY <1>5 DEF Swap, Free
  <1>6. CASE CorrectBegins
    BY <1>6 DEF CorrectBegins
  <1>7. CASE CorrectEnds
    BY <1>7 DEF CorrectEnds
  <1>8. CASE CloseSignals
    BY <1>8 DEF CloseSignals
  <1>9. CASE CloseFrees
    BY <1>9 DEF CloseFrees, Free
  <1> QED
    BY <1>1, <1>2, <1>3, <1>4, <1>5, <1>6, <1>7, <1>8, <1>9 DEF HarperNext, Watch

-----------------------------------------------------------------------------

IInv == StoreInv /\ HarperInv

\* The invariant holds at the start.
THEOREM InitInv == Init => IInv
  BY StoreStart, HarperStart DEF Init, IInv

\* Every step keeps it.
THEOREM StepInv == IInv /\ [Next]_vars => IInv'
  <1> SUFFICES ASSUME IInv, [Next]_vars PROVE IInv'
    OBVIOUS
  <1>1. (StoreNext \/ Edit) /\ NoteGap /\ UNCHANGED OtherHarper => HarperInv'
    BY DEF IInv, NoteGap, OtherHarper, HarperInv, HarperTypeOK, HandlesAccounted
  <1>2. CASE StoreNext /\ NoteGap /\ UNCHANGED OtherHarper
    BY <1>1, <1>2, StoreStep DEF IInv
  <1>3. CASE Edit /\ NoteGap /\ UNCHANGED OtherHarper
    BY <1>1, <1>3, EditStep DEF IInv
  <1>4. CASE HarperNext /\ UNCHANGED <<onDisk, dictionary>>
    <2>1. HarperInv'
      BY <1>4, HarperStep DEF IInv, StoreInv
    <2>2. StoreInv'
      BY <1>4 DEF IInv, onDisk, dictionary, StoreInv, FileTypeOK, StoreTypeOK, StoreAgrees
    <2> QED
      BY <2>1, <2>2 DEF IInv
  <1>5. CASE UNCHANGED vars
    BY <1>5 DEF vars, onDisk, dictionary, harper, IInv, StoreInv, FileTypeOK, StoreTypeOK,
                StoreAgrees, HarperInv, HarperTypeOK, HandlesAccounted
  <1> QED
    BY <1>2, <1>3, <1>4, <1>5 DEF Next

\* The invariant holds throughout.
THEOREM Invariance == Spec => []IInv
  BY InitInv, StepInv, PTL DEF Spec

\* Every variable has its type.
THEOREM TypeCorrect == Spec => []TypeOK
  <1>1. IInv => TypeOK
    BY DEF IInv, StoreInv, HarperInv, TypeOK
  <1> QED
    BY <1>1, Invariance, PTL

\* A store that finds the modification time it knows holds the file's words,
\* unless a rewrite failed or an edit fell between the rename and the stat.
THEOREM MemoryIsVouchedFor == Spec => []KnownTimeKnownWords
  <1>1. IInv => KnownTimeKnownWords
    BY DEF IInv, StoreInv, StoreAgrees, KnownTimeKnownWords
  <1> QED
    BY <1>1, Invariance, PTL

\* No lint group leaks or is freed twice, whatever reload races Close.
THEOREM NoHandleLost == Spec => []HandlesAccounted
  <1>1. IInv => HandlesAccounted
    BY DEF IInv, HarperInv
  <1> QED
    BY <1>1, Invariance, PTL

\* A check never runs on a freed lint group.
THEOREM NoUseAfterFree == Spec => []UseIsLive
  <1>1. IInv => UseIsLive
    BY DEF IInv, HarperInv, HandlesAccounted, UseIsLive
  <1> QED
    BY <1>1, Invariance, PTL
=============================================================================
