------------------------------ MODULE StoreView ------------------------------
(***************************************************************************)
(* What a cache over the signal history promises whoever reads it: it      *)
(* shows a state the history has been in, and it never goes back to an     *)
(* earlier one.                                                            *)
(***************************************************************************)
EXTENDS Naturals

VARIABLES version, view

Init == version = 0 /\ view = 0

Record == version' = version + 1 /\ UNCHANGED view

CatchUp == view' \in (view + 1)..version /\ UNCHANGED version

Next == Record \/ CatchUp

Spec == Init /\ [][Next]_<<version, view>>
=============================================================================
