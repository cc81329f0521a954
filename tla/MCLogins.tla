-------------------------------- MODULE MCLogins --------------------------------
(* Small instances of LoginAttempts for TLC. *)
EXTENDS LoginAttempts, TLC
================================================================================
