-------------------------------- MODULE MCGroups --------------------------------
(* Small instances of GroupMembership for TLC. *)
EXTENDS GroupMembership, TLC

Interchangeable == Permutations(Users) \cup Permutations(Slots)
=================================================================================
