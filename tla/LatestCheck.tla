----------------------------- MODULE LatestCheck -----------------------------
(***************************************************************************)
(* What every client promises of the checks of one field, however answers, *)
(* preview frames and failures overlap: what is drawn answers the latest   *)
(* question asked, and once a question is superseded or given up nothing   *)
(* of it is drawn any more.  A question may be answered more than once, by *)
(* preview frames and a final one.                                         *)
(***************************************************************************)
CONSTANT None

VARIABLES
  pending,  \* the question whose answers may still be drawn
  shown     \* the question whose answer is drawn

Init == pending = None /\ shown = None

\* A check starts; what was drawn stays until it is answered, or goes.
Ask == pending' # None /\ shown' \in {shown, None}

\* Drawing is for the pending question alone.  More of the answer may follow.
Draw == pending # None /\ shown' = pending /\ pending' \in {pending, None}

Forget == pending' = None /\ shown' \in {shown, None}

Clear == shown' = None /\ UNCHANGED pending

Next == Ask \/ Draw \/ Forget \/ Clear

Step == [Next]_<<pending, shown>>

Spec == Init /\ [][Next]_<<pending, shown>>
=============================================================================
