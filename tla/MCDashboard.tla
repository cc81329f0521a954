------------------------------- MODULE MCDashboard -------------------------------
(* Small instances of DashboardCache for TLC. *)
EXTENDS DashboardCache, TLC

Interchangeable == Permutations(Slots)
==================================================================================
