------------------------------ MODULE AtomicGroups ------------------------------
(***************************************************************************)
(* What the group endpoints promise: every operation checks its caller and *)
(* changes the tables in one indivisible step.                             *)
(***************************************************************************)
EXTENDS Naturals, FiniteSets

CONSTANTS Users, Groups, Names

VARIABLES group, role

tables == <<group, role>>

Nobody == [u \in Users |-> "NONE"]
OwnersOf(g) == {u \in Users : role[g][u] = "OWNER"}

Init ==
  /\ group = [g \in Groups |-> "unborn"]
  /\ role = [g \in Groups |-> Nobody]

\* An unused name founds a group with its creator as the only member.
Create(u, n, g) ==
  /\ group[g] = "unborn"
  /\ \A h \in Groups : group[h] # n
  /\ group' = [group EXCEPT ![g] = n]
  /\ role' = [role EXCEPT ![g] = [Nobody EXCEPT ![u] = "OWNER"]]

Delete(u, g) ==
  /\ role[g][u] = "OWNER"
  /\ group' = [group EXCEPT ![g] = "deleted"]
  /\ role' = [role EXCEPT ![g] = Nobody]

\* Ownership is shared, not handed over: u stays an owner.
Share(u, v, g) ==
  /\ role[g][u] = "OWNER"
  /\ role[g][v] # "NONE"
  /\ role' = [role EXCEPT ![g][v] = "OWNER"]
  /\ UNCHANGED group

Remove(u, v, g) ==
  /\ role[g][u] = "OWNER"
  /\ role[g][v] = "MEMBER"
  /\ role' = [role EXCEPT ![g][v] = "NONE"]
  /\ UNCHANGED group

\* An owner leaves only if another one stays.
Leave(u, g) ==
  /\ role[g][u] # "NONE"
  /\ role[g][u] = "OWNER" => OwnersOf(g) \ {u} # {}
  /\ role' = [role EXCEPT ![g][u] = "NONE"]
  /\ UNCHANGED group

\* An accepted invitation makes u a plain member.
Join(u, g) ==
  /\ group[g] \in Names
  /\ role[g][u] = "NONE"
  /\ role' = [role EXCEPT ![g][u] = "MEMBER"]
  /\ UNCHANGED group

Next ==
  \E u \in Users, g \in Groups :
    \/ \E n \in Names : Create(u, n, g)
    \/ Delete(u, g) \/ Leave(u, g) \/ Join(u, g)
    \/ \E v \in Users : Share(u, v, g) \/ Remove(u, v, g)

Spec == Init /\ [][Next]_tables
=================================================================================
