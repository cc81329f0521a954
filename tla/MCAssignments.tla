------------------------------ MODULE MCAssignments ------------------------------
(* Small instances of Assignments for TLC. *)
EXTENDS Assignments, TLC

\* A deadline that is past when it is picked.
Yesterday == {-1}

\* A client may ask for a day that is gone.
YesterdayOrTomorrow == {-1, 1}

Symmetry == Permutations(Slots) \cup Permutations(Users)
==================================================================================
