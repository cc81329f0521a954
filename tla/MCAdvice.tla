-------------------------------- MODULE MCAdvice --------------------------------
(* Small instances of RescheduleAdvice for TLC. *)
EXTENDS RescheduleAdvice

\* Light work gets to the start of a day by being moved there; of the groups the
\* user does not own there is work of one kind.
InPlay ==
  {[priority |-> p, start |-> FALSE, owned |-> TRUE] : p \in {"LOW", "HIGH", "URGENT"}}
    \cup {[priority |-> p, start |-> TRUE, owned |-> TRUE] : p \in {"HIGH", "URGENT"}}
    \cup {[priority |-> "HIGH", start |-> FALSE, owned |-> FALSE]}
================================================================================
