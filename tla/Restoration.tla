----------------------------- MODULE Restoration -----------------------------
(***************************************************************************)
(* What every reversible mutation of dpb promises the machine it runs on   *)
(* (the contract above the Op interface, netstate/manager.go): a change of *)
(* dpb's is in force only while somebody owes its undoing, that is, while  *)
(* the journal holds a record of it; and the debt is struck off only when  *)
(* nothing of the change is left.  Who undoes it, in how many attempts and *)
(* over how many crashes is left open.                                     *)
(***************************************************************************)
VARIABLES
    owed,     \* a record of a change is outstanding
    inForce   \* something dpb installed is in force

Init == owed \in BOOLEAN /\ inForce \in BOOLEAN /\ (inForce => owed)

\* A record reaches the disk before anything is changed.
Promise == ~owed /\ owed' = TRUE /\ UNCHANGED inForce

\* The change is made, is made in part, is undone in part, is overridden.
Change  == owed /\ inForce' \in BOOLEAN /\ UNCHANGED owed

\* The debt is struck off.
Settle  == owed /\ ~inForce /\ owed' = FALSE /\ UNCHANGED inForce

Next == Promise \/ Change \/ Settle
Spec == Init /\ [][Next]_<<owed, inForce>>
=============================================================================
