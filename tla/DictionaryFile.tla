---------------------------- MODULE DictionaryFile ----------------------------
(***************************************************************************)
(* The user dictionary's file: its words and its modification time.  Every *)
(* write gets a modification time of its own; 0 stands for a missing file. *)
(* Order, case and comments of its lines are left out.                     *)
(***************************************************************************)
EXTENDS Naturals, FiniteSets

CONSTANTS
  Words,      \* what a word of the dictionary may be
  MaxWrites   \* bound on the writes that may begin, the first included

ASSUME DictionaryFileAssumption == MaxWrites \in Nat \ {0}

VARIABLES
  file,       \* the words in the file
  stamp,      \* its modification time, 0 when there is no file
  writes      \* the last modification time given out

onDisk == <<file, stamp, writes>>

FileTypeOK ==
  /\ file \subseteq Words
  /\ stamp \in 0..(MaxWrites + 1)
  /\ writes \in 1..(MaxWrites + 1)
  /\ stamp = 0 => file = {}

\* main calls EnsureFile before anything reads the file.
FileInit == file \in SUBSET Words /\ stamp = 1 /\ writes = 1

Write(words) ==
  /\ file' = words
  /\ stamp' = writes + 1
  /\ writes' = writes + 1

Erase == file' = {} /\ stamp' = 0 /\ UNCHANGED writes
=============================================================================
