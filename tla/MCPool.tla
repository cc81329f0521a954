-------------------------------- MODULE MCPool ---------------------------------
(* Small instances of ConnectionPool for TLC. *)
EXTENDS ConnectionPool
================================================================================
