---------------------------- MODULE GroupMembership ----------------------------
(***************************************************************************)
(* Groups and their members: group.service.ts, member.service.ts and the   *)
(* GroupRoleGuard in front of them.                                        *)
(*                                                                         *)
(* A request runs in a slot, one database statement per step.  The         *)
(* interactive transactions of the code run at PostgreSQL's default        *)
(* isolation, READ COMMITTED: every read sees what is committed when the   *)
(* read runs, and nothing read earlier is locked or checked again.  A      *)
(* write waits for the row and re-evaluates its WHERE clause, so a write   *)
(* and the COMMIT behind it are one step here.                             *)
(***************************************************************************)
EXTENDS Naturals, FiniteSets

CONSTANTS Users,    \* rows of "users"; accounts are never deleted
          Groups,   \* the ids createGroup can draw; an id is never reused
          Names,    \* group names
          Slots     \* requests that may be in flight together

ASSUME UsersFinite == IsFiniteSet(Users)
ASSUME NamesAreNotMarks == {"unborn", "deleted"} \cap Names = {}

VARIABLES group,    \* group[g]: the name of a live group, "unborn" or "deleted"
          role,     \* role[g][u]: the users_groups row of u in g, "NONE" if absent
          req       \* req[s]: the request running in slot s

vars == <<group, role, req>>

Roles == {"MEMBER", "OWNER"}
GuardedOps == {"delete", "share", "remove"}

Idle == [pc |-> "idle"]

\* The locals a handler carries from one await to the next.
GuardedRequest ==
  [op : GuardedOps, pc : {"guard", "role", "target", "write"},
   user : Users, target : Users, group : Groups,
   seenRole : Roles \cup {"NONE"}, seenOwners : Nat]
LeaveRequest ==
  [op : {"leave"}, pc : {"self", "owners", "write"},
   user : Users, target : Users, group : Groups,
   seenRole : Roles \cup {"NONE"}, seenOwners : Nat]
CreateRequest == [op : {"create"}, pc : {"name", "create"}, user : Users, name : Names]

Live(g) == group[g] \in Names
Owners(g) == {u \in Users : role[g][u] = "OWNER"}
NoMembers == [u \in Users |-> "NONE"]

Reply(s) == req' = [req EXCEPT ![s] = Idle]
Goto(s, step) == req' = [req EXCEPT ![s].pc = step]

CallerRole(s) == role[req[s].group][req[s].user]
TargetRole(s) == role[req[s].group][req[s].target]

--------------------------------------------------------------------------------
Init ==
  /\ group = [g \in Groups |-> "unborn"]
  /\ role = [g \in Groups |-> NoMembers]
  /\ req = [s \in Slots |-> Idle]

\* A client can only name a group whose id has been handed out.
Start(s, op, u, t, g) ==
  /\ req[s] = Idle
  /\ group[g] # "unborn"
  /\ op \in {"delete", "leave"} => t = u
  /\ req' = [req EXCEPT ![s] =
               [op |-> op, pc |-> IF op = "leave" THEN "self" ELSE "guard",
                user |-> u, target |-> t, group |-> g,
                seenRole |-> "NONE", seenOwners |-> 0]]
  /\ UNCHANGED <<group, role>>

\* Bound: Groups holds an id for every create request in flight.
IdsLeft ==
  Cardinality({s \in Slots : req[s].pc \in {"name", "create"}})
    < Cardinality({g \in Groups : group[g] = "unborn"})

StartCreate(s, u, n) ==
  /\ req[s] = Idle
  /\ IdsLeft
  /\ req' = [req EXCEPT ![s] = [op |-> "create", pc |-> "name", user |-> u, name |-> n]]
  /\ UNCHANGED <<group, role>>

--------------------------------------------------------------------------------
(* createGroup *)

FindName(s) ==
  /\ req[s].pc = "name"
  /\ \/ (\E g \in Groups : group[g] = req[s].name) /\ Reply(s)
     \/ (\A g \in Groups : group[g] # req[s].name) /\ Goto(s, "create")
  /\ UNCHANGED <<group, role>>

CreateGroup_NoUnique(s) ==
  /\ req[s].pc = "create"
  /\ \E g \in Groups :
       /\ group[g] = "unborn"
       /\ group' = [group EXCEPT ![g] = req[s].name]
       /\ role' = [role EXCEPT ![g] = [NoMembers EXCEPT ![req[s].user] = "OWNER"]]
  /\ Reply(s)

\* The group and its first owner commit together; the unique index on the name
\* refuses a name that appeared since FindName.
CreateGroup(s) ==
  /\ req[s].pc = "create"
  /\ \/ \E g \in Groups :
          /\ group[g] = "unborn"
          /\ \A h \in Groups : group[h] # req[s].name
          /\ group' = [group EXCEPT ![g] = req[s].name]
          /\ role' = [role EXCEPT ![g] = [NoMembers EXCEPT ![req[s].user] = "OWNER"]]
     \/ (\E h \in Groups : group[h] = req[s].name) /\ UNCHANGED <<group, role>>
  /\ Reply(s)

--------------------------------------------------------------------------------
(* The checks in front of delete, shareOwnership and removeMember *)

RoleGuard(s) ==
  /\ req[s].pc = "guard"
  /\ \/ CallerRole(s) = "OWNER" /\ Goto(s, "role")
     \/ CallerRole(s) # "OWNER" /\ Reply(s)
  /\ UNCHANGED <<group, role>>

GetUserRole(s) ==
  /\ req[s].pc = "role"
  /\ \/ CallerRole(s) = "OWNER" /\ Goto(s, IF req[s].op = "delete" THEN "write" ELSE "target")
     \/ CallerRole(s) # "OWNER" /\ Reply(s)
  /\ UNCHANGED <<group, role>>

\* shareOwnership wants any member, removeMember one that is not an owner.
FindTarget(s) ==
  /\ req[s].pc = "target"
  /\ LET wanted == IF req[s].op = "share" THEN Roles ELSE {"MEMBER"} IN
     \/ /\ TargetRole(s) \in wanted
        /\ req' = [req EXCEPT ![s].pc = "write", ![s].seenRole = TargetRole(s)]
     \/ TargetRole(s) \notin wanted /\ Reply(s)
  /\ UNCHANGED <<group, role>>

DeleteGroup_NoCascade(s) ==
  /\ req[s].pc = "write" /\ req[s].op = "delete"
  /\ group' = [group EXCEPT ![req[s].group] = "deleted"]
  /\ UNCHANGED role
  /\ Reply(s)

\* Deleting the group cascades to its users_groups rows.  A group deleted
\* meanwhile makes Prisma raise P2025 and changes nothing.
DeleteGroup(s) ==
  /\ req[s].pc = "write" /\ req[s].op = "delete"
  /\ group' = [group EXCEPT ![req[s].group] = "deleted"]
  /\ role' = [role EXCEPT ![req[s].group] = NoMembers]
  /\ Reply(s)

PromoteTarget_Admin(s) ==
  /\ req[s].pc = "write" /\ req[s].op = "share"
  /\ role' = [role EXCEPT ![req[s].group][req[s].target] = "ADMIN"]
  /\ UNCHANGED group
  /\ Reply(s)

\* UPDATE finds the row or raises P2025: it never inserts one.  The caller
\* keeps the OWNER role.
PromoteTarget(s) ==
  /\ req[s].pc = "write" /\ req[s].op = "share"
  /\ \/ TargetRole(s) # "NONE" /\ role' = [role EXCEPT ![req[s].group][req[s].target] = "OWNER"]
     \/ TargetRole(s) = "NONE" /\ UNCHANGED role
  /\ UNCHANGED group
  /\ Reply(s)

\* DELETE by primary key: the role checked by FindTarget is not in the WHERE.
RemoveMember(s) ==
  /\ req[s].pc = "write" /\ req[s].op = "remove"
  /\ role' = [role EXCEPT ![req[s].group][req[s].target] = "NONE"]
  /\ UNCHANGED group
  /\ Reply(s)

--------------------------------------------------------------------------------
(* leaveGroup *)

FindSelf(s) ==
  /\ req[s].pc = "self"
  /\ \/ CallerRole(s) = "NONE" /\ Reply(s)
     \/ /\ CallerRole(s) # "NONE"
        /\ req' = [req EXCEPT ![s].pc = IF CallerRole(s) = "OWNER" THEN "owners" ELSE "write",
                              ![s].seenRole = CallerRole(s)]
  /\ UNCHANGED <<group, role>>

CountOwners_OffByOne(s) ==
  /\ req[s].pc = "owners"
  /\ LET n == Cardinality(Owners(req[s].group)) IN
     \/ n = 0 /\ Reply(s)
     \/ n # 0 /\ req' = [req EXCEPT ![s].pc = "write", ![s].seenOwners = n]
  /\ UNCHANGED <<group, role>>

CountOwners(s) ==
  /\ req[s].pc = "owners"
  /\ LET n == Cardinality(Owners(req[s].group)) IN
     \/ n = 1 /\ Reply(s)
     \/ n # 1 /\ req' = [req EXCEPT ![s].pc = "write", ![s].seenOwners = n]
  /\ UNCHANGED <<group, role>>

LeaveGroup(s) ==
  /\ req[s].pc = "write" /\ req[s].op = "leave"
  /\ role' = [role EXCEPT ![req[s].group][req[s].user] = "NONE"]
  /\ UNCHANGED group
  /\ Reply(s)

--------------------------------------------------------------------------------
\* The commit of acceptInvite as this module sees it; GroupInvites has the rest
\* of that handler.
Join(u, g) ==
  /\ Live(g)
  /\ role[g][u] = "NONE"
  /\ role' = [role EXCEPT ![g][u] = "MEMBER"]
  /\ UNCHANGED <<group, req>>

\* One step of a request to the group endpoints.
GroupStep(s) ==
  \/ FindName(s) \/ CreateGroup(s)
  \/ RoleGuard(s) \/ GetUserRole(s) \/ FindTarget(s)
  \/ DeleteGroup(s) \/ PromoteTarget(s) \/ RemoveMember(s)
  \/ FindSelf(s) \/ CountOwners(s) \/ LeaveGroup(s)

Arrive(s) ==
  \/ \E op \in GuardedOps \cup {"leave"}, u, t \in Users, g \in Groups : Start(s, op, u, t, g)
  \/ \E u \in Users, n \in Names : StartCreate(s, u, n)

Next ==
  \/ \E s \in Slots : Arrive(s) \/ GroupStep(s)
  \/ \E u \in Users, g \in Groups : Join(u, g)

Spec == Init /\ [][Next]_vars

--------------------------------------------------------------------------------
(* Properties *)

\* Type invariant of the two tables and the handlers' locals.
TypeOK ==
  /\ group \in [Groups -> Names \cup {"unborn", "deleted"}]
  /\ role \in [Groups -> [Users -> Roles \cup {"NONE"}]]
  /\ req \in [Slots -> {Idle} \cup GuardedRequest \cup LeaveRequest \cup CreateRequest]

\* Whatever handlers overlap, no two live groups share a name and no
\* membership row outlives its group (unique index and cascade of the schema).
GroupIntegrity ==
  /\ \A g, h \in Groups : Live(g) /\ group[g] = group[h] => g = h
  /\ \A g \in Groups, u \in Users : role[g][u] # "NONE" => Live(g)

\* What slot s read about membership is no longer what the table holds.
StaleRead(s) ==
  LET checked == IF req[s].op = "leave" THEN CallerRole(s) ELSE TargetRole(s) IN
  \/ checked # req[s].seenRole
  \/ req[s].seenRole = "OWNER" /\ Cardinality(Owners(req[s].group)) # req[s].seenOwners

\* A live group loses its last owner only in the write of a leave or a removal
\* whose reads another request has overtaken: the checks of leaveGroup and
\* removeMember leave no other way.
OrphanedOnlyByStaleRead ==
  [][\A g \in Groups :
       Live(g) /\ Live(g)' /\ Owners(g) # {} /\ Owners(g)' = {} =>
         \E s \in Slots : /\ req[s].pc = "write" /\ req'[s] = Idle
                          /\ req[s].op \in {"leave", "remove"}
                          /\ req[s].group = g
                          /\ StaleRead(s)]_vars

\* Every live group has an owner: the only owner cannot leave (leaveGroup).
OwnerExists == \A g \in Groups : Live(g) => Owners(g) # {}

\* Requests that do not overlap implement groups whose operations are atomic.
Atomic == INSTANCE AtomicGroups
ImplementsAtomicGroups == Atomic!Spec
================================================================================
