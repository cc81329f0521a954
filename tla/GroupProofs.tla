------------------------------ MODULE GroupProofs ------------------------------
(***************************************************************************)
(* What GroupMembership guarantees for any users, groups, names and number *)
(* of overlapping requests, and what it guarantees when they do not        *)
(* overlap; then the same for GroupInvites, for any addresses and          *)
(* lifetimes.  The first part uses nothing of GroupInvites.                *)
(***************************************************************************)
EXTENDS GroupInvites, FiniteSetTheorems, TLAPS

--------------------------------------------------------------------------------
(* Groups and members *)

\* The owners of a group can be counted.
LEMMA OwnersCountable ==
  ASSUME NEW g \in Groups
  PROVE  /\ IsFiniteSet(Owners(g))
         /\ Cardinality(Owners(g)) \in Nat
<1>1. Owners(g) \subseteq Users
  BY DEF Owners
<1>2. IsFiniteSet(Owners(g))
  BY <1>1, UsersFinite, FS_Subset
<1> QED
  BY <1>2, FS_CardinalityType

\* A request is told apart by its program counter.
LEMMA RequestKinds ==
  ASSUME TypeOK, NEW s \in Slots
  PROVE  /\ req[s].pc \in {"guard", "role", "target"} => req[s] \in GuardedRequest
         /\ req[s].pc \in {"self", "owners"} => req[s] \in LeaveRequest
         /\ req[s].pc = "write" /\ req[s].op \in GuardedOps => req[s] \in GuardedRequest
         /\ req[s].pc = "write" /\ req[s].op = "leave" => req[s] \in LeaveRequest
         /\ req[s].pc \in {"name", "create"} => req[s] \in CreateRequest
<1>1. req[s] \in {Idle} \cup GuardedRequest \cup LeaveRequest \cup CreateRequest
  BY DEF TypeOK
<1>2. CASE req[s] = Idle
  BY <1>2 DEF Idle
<1>3. CASE req[s] \in GuardedRequest
  BY <1>3 DEF GuardedRequest, GuardedOps
<1>4. CASE req[s] \in LeaveRequest
  BY <1>4 DEF LeaveRequest, GuardedOps
<1>5. CASE req[s] \in CreateRequest
  BY <1>5 DEF CreateRequest
<1> QED
  BY <1>1, <1>2, <1>3, <1>4, <1>5

\* A request about to write names a group, a caller and a target.
LEMMA WritersFields ==
  ASSUME TypeOK, NEW s \in Slots, req[s].pc = "write"
  PROVE  req[s].group \in Groups /\ req[s].user \in Users /\ req[s].target \in Users
<1>1. req[s] \in {Idle} \cup GuardedRequest \cup LeaveRequest \cup CreateRequest
  BY DEF TypeOK
<1> QED
  BY <1>1 DEF Idle, GuardedRequest, LeaveRequest, CreateRequest

\* A step of one request leaves the others where they are.
LEMMA OtherSlots ==
  ASSUME TypeOK, NEW s \in Slots, NEW r \in Slots, r # s, Arrive(r) \/ GroupStep(r)
  PROVE  req'[s] = req[s]
<1>1. CASE Arrive(r)
  BY <1>1 DEF Arrive, Start, StartCreate, TypeOK
<1>2. CASE FindName(r) \/ CreateGroup(r)
  BY <1>2 DEF FindName, CreateGroup, Reply, Goto, TypeOK
<1>3. CASE RoleGuard(r) \/ GetUserRole(r) \/ FindTarget(r)
  BY <1>3 DEF RoleGuard, GetUserRole, FindTarget, Reply, Goto, TypeOK
<1>4. CASE DeleteGroup(r) \/ PromoteTarget(r) \/ RemoveMember(r) \/ LeaveGroup(r)
  BY <1>4 DEF DeleteGroup, PromoteTarget, RemoveMember, LeaveGroup, Reply, TypeOK
<1>5. CASE FindSelf(r) \/ CountOwners(r)
  BY <1>5 DEF FindSelf, CountOwners, Reply, Goto, TypeOK
<1> QED
  BY <1>1, <1>2, <1>3, <1>4, <1>5 DEF GroupStep

\* No live group bears one of the two marks of ids without a row.
LEMMA MarksAreNotNames == "unborn" \notin Names /\ "deleted" \notin Names
  BY NamesAreNotMarks

\* Every table and every handler's locals keep their type.
THEOREM TypeCorrect == Spec => []TypeOK
<1>1. Init => TypeOK
  BY DEF Init, TypeOK, NoMembers
<1>2. TypeOK /\ [Next]_vars => TypeOK'
  <2> SUFFICES ASSUME TypeOK, [Next]_vars PROVE TypeOK'
    OBVIOUS
  <2> USE DEF Roles, GuardedOps
  <2>1. ASSUME NEW s \in Slots, Arrive(s) PROVE TypeOK'
    <3>1. CASE \E u \in Users, n \in Names : StartCreate(s, u, n)
      BY <2>1, <3>1 DEF StartCreate, TypeOK, CreateRequest
    <3>2. ASSUME NEW op \in GuardedOps, NEW u \in Users, NEW t \in Users, NEW g \in Groups,
                 Start(s, op, u, t, g)
          PROVE  TypeOK'
      BY <3>2 DEF Start, TypeOK, GuardedRequest
    <3>3. ASSUME NEW u \in Users, NEW t \in Users, NEW g \in Groups, Start(s, "leave", u, t, g)
          PROVE  TypeOK'
      BY <3>3 DEF Start, TypeOK, LeaveRequest
    <3> QED
      BY <2>1, <3>1, <3>2, <3>3 DEF Arrive
  <2>2. ASSUME NEW s \in Slots, FindName(s) PROVE TypeOK'
    BY <2>2, RequestKinds DEF FindName, Reply, Goto, TypeOK, CreateRequest
  <2>3. ASSUME NEW s \in Slots, CreateGroup(s) PROVE TypeOK'
    <3>1. req[s] \in CreateRequest
      BY <2>3, RequestKinds DEF CreateGroup
    <3>2. req' \in [Slots -> {Idle} \cup GuardedRequest \cup LeaveRequest \cup CreateRequest]
      BY <2>3 DEF CreateGroup, Reply, TypeOK
    <3>3. CASE UNCHANGED <<group, role>>
      BY <3>2, <3>3 DEF TypeOK
    <3>4. ASSUME NEW g \in Groups,
                 group' = [group EXCEPT ![g] = req[s].name],
                 role' = [role EXCEPT ![g] = [NoMembers EXCEPT ![req[s].user] = "OWNER"]]
          PROVE  TypeOK'
      <4>1. [NoMembers EXCEPT ![req[s].user] = "OWNER"] \in [Users -> Roles \cup {"NONE"}]
        BY <3>1 DEF NoMembers, CreateRequest
      <4>2. role' \in [Groups -> [Users -> Roles \cup {"NONE"}]]
        BY <3>4, <4>1 DEF TypeOK
      <4>3. group' \in [Groups -> Names \cup {"unborn", "deleted"}]
        BY <3>1, <3>4 DEF TypeOK, CreateRequest
      <4> QED
        BY <3>2, <4>2, <4>3 DEF TypeOK
    <3> QED
      BY <2>3, <3>3, <3>4 DEF CreateGroup
  <2>4. ASSUME NEW s \in Slots, RoleGuard(s) PROVE TypeOK'
    BY <2>4, RequestKinds DEF RoleGuard, Reply, Goto, TypeOK, GuardedRequest
  <2>5. ASSUME NEW s \in Slots, GetUserRole(s) PROVE TypeOK'
    <3>1. req[s] \in GuardedRequest
      BY <2>5, RequestKinds DEF GetUserRole
    <3>2. CASE Reply(s)
      BY <2>5, <3>2 DEF GetUserRole, Reply, TypeOK
    <3>3. CASE Goto(s, "write")
      BY <2>5, <3>1, <3>3 DEF GetUserRole, Goto, TypeOK, GuardedRequest
    <3>4. CASE Goto(s, "target")
      BY <2>5, <3>1, <3>4 DEF GetUserRole, Goto, TypeOK, GuardedRequest
    <3> QED
      BY <2>5, <3>2, <3>3, <3>4 DEF GetUserRole
  <2>6. ASSUME NEW s \in Slots, FindTarget(s) PROVE TypeOK'
    BY <2>6, RequestKinds DEF FindTarget, TargetRole, Reply, TypeOK, GuardedRequest
  <2>7. ASSUME NEW s \in Slots, DeleteGroup(s) PROVE TypeOK'
    BY <2>7, RequestKinds DEF DeleteGroup, Reply, TypeOK, GuardedRequest, NoMembers
  <2>8. ASSUME NEW s \in Slots, PromoteTarget(s) PROVE TypeOK'
    <3>1. req[s] \in GuardedRequest
      BY <2>8, RequestKinds DEF PromoteTarget
    <3>2. role' \in [Groups -> [Users -> Roles \cup {"NONE"}]]
      <4>1. CASE UNCHANGED role
        BY <4>1 DEF TypeOK
      <4>2. CASE role' = [role EXCEPT ![req[s].group][req[s].target] = "OWNER"]
        BY <2>8, <4>2, WritersFields DEF PromoteTarget, TypeOK
      <4> QED
        BY <2>8, <4>1, <4>2 DEF PromoteTarget
    <3> QED
      BY <2>8, <3>2 DEF PromoteTarget, Reply, TypeOK
  <2>9. ASSUME NEW s \in Slots, RemoveMember(s) PROVE TypeOK'
    BY <2>9, RequestKinds DEF RemoveMember, Reply, TypeOK, GuardedRequest
  <2>10. ASSUME NEW s \in Slots, FindSelf(s) PROVE TypeOK'
    <3>1. req[s] \in LeaveRequest
      BY <2>10, RequestKinds DEF FindSelf
    <3>2. CallerRole(s) \in Roles \cup {"NONE"}
      BY <3>1 DEF CallerRole, TypeOK, LeaveRequest
    <3>3. CASE Reply(s)
      BY <2>10, <3>3 DEF FindSelf, Reply, TypeOK
    <3>4. ASSUME NEW step \in {"owners", "write"},
                 req' = [req EXCEPT ![s].pc = step, ![s].seenRole = CallerRole(s)]
          PROVE  TypeOK'
      BY <2>10, <3>1, <3>2, <3>4 DEF FindSelf, TypeOK, LeaveRequest
    <3> QED
      BY <2>10, <3>3, <3>4 DEF FindSelf
  <2>11. ASSUME NEW s \in Slots, CountOwners(s) PROVE TypeOK'
    <3>1. req[s] \in LeaveRequest
      BY <2>11, RequestKinds DEF CountOwners
    <3>2. Cardinality(Owners(req[s].group)) \in Nat
      BY <3>1, OwnersCountable DEF LeaveRequest
    <3> QED
      BY <2>11, <3>1, <3>2 DEF CountOwners, Reply, TypeOK, LeaveRequest
  <2>12. ASSUME NEW s \in Slots, LeaveGroup(s) PROVE TypeOK'
    BY <2>12, RequestKinds DEF LeaveGroup, Reply, TypeOK, LeaveRequest
  <2>13. ASSUME NEW u \in Users, NEW g \in Groups, Join(u, g) PROVE TypeOK'
    BY <2>13 DEF Join, TypeOK
  <2>14. CASE UNCHANGED vars
    BY <2>14 DEF vars, TypeOK
  <2> QED
    BY <2>1, <2>2, <2>3, <2>4, <2>5, <2>6, <2>7, <2>8, <2>9, <2>10, <2>11, <2>12, <2>13, <2>14
       DEF Next, GroupStep
<1> QED
  BY <1>1, <1>2, PTL DEF Spec

--------------------------------------------------------------------------------
(* Group integrity *)

\* No two live groups share a name and no membership outlives its group,
\* whichever handlers overlap.
THEOREM IntegrityHolds == Spec => []GroupIntegrity
<1>1. Init => GroupIntegrity
  BY MarksAreNotNames DEF Init, GroupIntegrity, Live, NoMembers
<1>2. TypeOK /\ GroupIntegrity /\ [Next]_vars => GroupIntegrity'
  <2> SUFFICES ASSUME TypeOK, GroupIntegrity, [Next]_vars PROVE GroupIntegrity'
    OBVIOUS
  <2>1. CASE UNCHANGED <<group, role>>
    BY <2>1 DEF GroupIntegrity, Live
  <2>2. ASSUME NEW s \in Slots, CreateGroup(s) PROVE GroupIntegrity'
    <3>1. req[s] \in CreateRequest
      BY <2>2, RequestKinds DEF CreateGroup
    <3>2. SUFFICES ASSUME NEW g \in Groups, group[g] = "unborn",
                          \A h \in Groups : group[h] # req[s].name,
                          group' = [group EXCEPT ![g] = req[s].name],
                          role' = [role EXCEPT ![g] = [NoMembers EXCEPT ![req[s].user] = "OWNER"]]
                   PROVE  GroupIntegrity'
      BY <2>1, <2>2 DEF CreateGroup
    <3>3. Live(g)'
      BY <3>1, <3>2 DEF Live, TypeOK, CreateRequest
    <3>4. \A h \in Groups \ {g} : (Live(h)' <=> Live(h)) /\ role'[h] = role[h] /\ group'[h] = group[h]
      BY <3>2 DEF Live, TypeOK
    <3>5. group'[g] = req[s].name
      BY <3>2 DEF TypeOK
    <3> QED
      BY <3>2, <3>3, <3>4, <3>5 DEF GroupIntegrity
  <2>3. ASSUME NEW s \in Slots, DeleteGroup(s) PROVE GroupIntegrity'
    <3>1. PICK d \in Groups : d = req[s].group
      BY <2>3, WritersFields DEF DeleteGroup
    <3>2. \A u \in Users : role'[d][u] = "NONE"
      BY <2>3, <3>1 DEF DeleteGroup, NoMembers, TypeOK
    <3>3. ~Live(d)'
      BY <2>3, <3>1, MarksAreNotNames DEF DeleteGroup, Live, TypeOK
    <3>4. \A h \in Groups \ {d} : (Live(h)' <=> Live(h)) /\ role'[h] = role[h] /\ group'[h] = group[h]
      BY <2>3, <3>1 DEF DeleteGroup, Live, TypeOK
    <3>5. \A g \in Groups : Live(g)' => g # d /\ Live(g)
      BY <3>3, <3>4 DEF Live
    <3> QED
      BY <3>2, <3>4, <3>5 DEF GroupIntegrity, Live
  <2>4. ASSUME group' = group,
               \A g \in Groups, u \in Users :
                 role'[g][u] # "NONE" => role[g][u] # "NONE" \/ Live(g)
        PROVE  GroupIntegrity'
    BY <2>4 DEF GroupIntegrity, Live
  <2>5. ASSUME NEW s \in Slots, PromoteTarget(s) \/ RemoveMember(s) \/ LeaveGroup(s)
        PROVE  GroupIntegrity'
    <3>1. req[s].group \in Groups /\ req[s].user \in Users /\ req[s].target \in Users
      BY <2>5, WritersFields DEF PromoteTarget, RemoveMember, LeaveGroup
    <3>2. CASE UNCHANGED role
      BY <2>4, <2>5, <3>2 DEF PromoteTarget, RemoveMember, LeaveGroup
    <3>3. ASSUME role' = [role EXCEPT ![req[s].group][req[s].target] = "OWNER"],
                 role[req[s].group][req[s].target] # "NONE"
          PROVE  \A g \in Groups, u \in Users : role'[g][u] # "NONE" => role[g][u] # "NONE"
      BY <3>1, <3>3 DEF TypeOK
    <3>4. ASSUME NEW v \in Users, role' = [role EXCEPT ![req[s].group][v] = "NONE"]
          PROVE  \A g \in Groups, u \in Users : role'[g][u] # "NONE" => role[g][u] # "NONE"
      BY <3>1, <3>4 DEF TypeOK
    <3> QED
      BY <2>4, <2>5, <3>1, <3>2, <3>3, <3>4 DEF PromoteTarget, RemoveMember, LeaveGroup, TargetRole
  <2>6. ASSUME NEW u \in Users, NEW g \in Groups, Join(u, g) PROVE GroupIntegrity'
    BY <2>4, <2>6 DEF Join, TypeOK
  <2> QED
    BY <2>1, <2>2, <2>3, <2>5, <2>6
       DEF Next, Arrive, GroupStep, Start, StartCreate, FindName, RoleGuard, GetUserRole,
           FindTarget, FindSelf, CountOwners, vars
<1> QED
  BY <1>1, <1>2, TypeCorrect, PTL DEF Spec

--------------------------------------------------------------------------------
(* The last owner *)

\* What a handler about to write has made sure of, at the time it looked.
ChecksPassed ==
  \A s \in Slots :
    req[s].pc = "write" =>
      /\ req[s].op = "leave" /\ req[s].seenRole = "OWNER" => req[s].seenOwners # 1
      /\ req[s].op = "remove" => req[s].seenRole = "MEMBER"

\* A leave or removal reaches its delete only after the check that spares owners.
LEMMA ChecksAlwaysPassed == Spec => []ChecksPassed
<1>1. Init => ChecksPassed
  BY DEF Init, ChecksPassed, Idle
<1>2. TypeOK /\ ChecksPassed /\ [Next]_vars => ChecksPassed'
  <2> SUFFICES ASSUME TypeOK, ChecksPassed, [Next]_vars, NEW s \in Slots, req'[s].pc = "write"
               PROVE  /\ req'[s].op = "leave" /\ req'[s].seenRole = "OWNER" => req'[s].seenOwners # 1
                      /\ req'[s].op = "remove" => req'[s].seenRole = "MEMBER"
    BY DEF ChecksPassed
  <2>1. CASE req'[s] = req[s]
    BY <2>1 DEF ChecksPassed
  <2>2. CASE Arrive(s)
    BY <2>2 DEF Arrive, Start, StartCreate, TypeOK
  <2>7. CASE FindName(s) \/ RoleGuard(s)
    <3>1. CASE Reply(s)
      BY <3>1 DEF Reply, TypeOK, Idle
    <3>2. ASSUME NEW step \in {"create", "role"}, Goto(s, step) PROVE FALSE
      <4>1. req[s] \in CreateRequest \cup GuardedRequest
        BY <2>7, RequestKinds DEF FindName, RoleGuard
      <4>2. req'[s].pc = step
        BY <3>2, <4>1 DEF Goto, TypeOK, CreateRequest, GuardedRequest
      <4> QED
        BY <4>2
    <3> QED
      BY <2>7, <3>1, <3>2 DEF FindName, RoleGuard
  <2>8. CASE CreateGroup(s) \/ DeleteGroup(s) \/ PromoteTarget(s) \/ RemoveMember(s) \/ LeaveGroup(s)
    <3>1. Reply(s)
      BY <2>8 DEF CreateGroup, DeleteGroup, PromoteTarget, RemoveMember, LeaveGroup
    <3> QED
      BY <3>1 DEF Reply, TypeOK, Idle
  <2>3. CASE GetUserRole(s)
    <3>1. req[s] \in GuardedRequest
      BY <2>3, RequestKinds DEF GetUserRole
    <3> QED
      BY <2>3, <3>1 DEF GetUserRole, Reply, Goto, TypeOK, GuardedRequest, Idle
  <2>4. CASE FindTarget(s)
    <3>1. req[s] \in GuardedRequest
      BY <2>4, RequestKinds DEF FindTarget
    <3> QED
      BY <2>4, <3>1 DEF FindTarget, Reply, TypeOK, GuardedRequest, Idle
  <2>5. CASE FindSelf(s)
    <3>1. req[s] \in LeaveRequest
      BY <2>5, RequestKinds DEF FindSelf
    <3> QED
      BY <2>5, <3>1 DEF FindSelf, Reply, TypeOK, LeaveRequest, Idle
  <2>6. CASE CountOwners(s)
    <3>1. req[s] \in LeaveRequest
      BY <2>6, RequestKinds DEF CountOwners
    <3> QED
      BY <2>6, <3>1 DEF CountOwners, Reply, TypeOK, LeaveRequest, Idle
  <2> QED
    BY <2>1, <2>2, <2>3, <2>4, <2>5, <2>6, <2>7, <2>8, OtherSlots DEF Next, GroupStep, Join, vars
<1> QED
  BY <1>1, <1>2, TypeCorrect, PTL DEF Spec

\* Only the write of an overtaken leave or removal leaves a live group without
\* an owner: leaveGroup counts the owners and removeMember spares them.
THEOREM LastOwnerGuarded == Spec => OrphanedOnlyByStaleRead
<1>1. TypeOK /\ ChecksPassed /\ [Next]_vars =>
        [\A g \in Groups :
           Live(g) /\ Live(g)' /\ Owners(g) # {} /\ Owners(g)' = {} =>
             \E s \in Slots : /\ req[s].pc = "write" /\ req'[s] = Idle
                              /\ req[s].op \in {"leave", "remove"}
                              /\ req[s].group = g
                              /\ StaleRead(s)]_vars
  <2> SUFFICES ASSUME TypeOK, ChecksPassed, Next, NEW g \in Groups,
                      Live(g), Live(g)', Owners(g) # {}, Owners(g)' = {}
               PROVE  \E s \in Slots : /\ req[s].pc = "write" /\ req'[s] = Idle
                                       /\ req[s].op \in {"leave", "remove"}
                                       /\ req[s].group = g
                                       /\ StaleRead(s)
    OBVIOUS
  <2>1. PICK w \in Users : role[g][w] = "OWNER" /\ role'[g][w] # "OWNER"
    BY DEF Owners
  <2>2. ASSUME NEW u \in Users, NEW h \in Groups, Join(u, h) PROVE FALSE
    BY <2>1, <2>2 DEF Join, TypeOK
  <2>3. ASSUME NEW s \in Slots, CreateGroup(s) PROVE FALSE
    BY <2>1, <2>3, MarksAreNotNames DEF CreateGroup, Live, TypeOK
  <2>4. ASSUME NEW s \in Slots, DeleteGroup(s) PROVE FALSE
    <3>1. req[s].group \in Groups
      BY <2>4, WritersFields DEF DeleteGroup
    <3>2. req[s].group # g
      BY <2>4, <3>1, MarksAreNotNames DEF DeleteGroup, Live, TypeOK
    <3> QED
      BY <2>1, <2>4, <3>1, <3>2 DEF DeleteGroup, TypeOK
  <2>5. ASSUME NEW s \in Slots, PromoteTarget(s) PROVE FALSE
    <3>1. req[s].group \in Groups /\ req[s].target \in Users
      BY <2>5, WritersFields DEF PromoteTarget
    <3> QED
      BY <2>1, <2>5, <3>1 DEF PromoteTarget, TypeOK
  <2>6. PICK s \in Slots : RemoveMember(s) \/ LeaveGroup(s)
    BY <2>1, <2>2, <2>3, <2>4, <2>5
       DEF Next, Arrive, GroupStep, Start, StartCreate, FindName, RoleGuard, GetUserRole,
           FindTarget, FindSelf, CountOwners
  <2> DEFINE gone == IF req[s].op = "leave" THEN req[s].user ELSE req[s].target
  <2>7. /\ req[s].pc = "write" /\ req'[s] = Idle /\ req[s].op \in {"leave", "remove"}
        /\ req[s].group \in Groups /\ gone \in Users
        /\ role' = [role EXCEPT ![req[s].group][gone] = "NONE"]
    BY <2>6, WritersFields DEF RemoveMember, LeaveGroup, Reply, TypeOK
  <2>8. req[s].group = g /\ w = gone
    BY <2>1, <2>7 DEF TypeOK
  <2>9. Owners(g) = {gone}
    <3>1. \A v \in Users \ {gone} : role'[g][v] = role[g][v]
      BY <2>7, <2>8 DEF TypeOK
    <3>2. \A v \in Users : role'[g][v] # "OWNER"
      BY DEF Owners
    <3> QED
      BY <2>1, <2>8, <3>1, <3>2 DEF Owners
  <2>10. StaleRead(s)
    <3>1. Cardinality(Owners(g)) = 1
      BY <2>9, FS_Singleton
    <3> QED
      BY <2>1, <2>7, <2>8, <3>1 DEF StaleRead, CallerRole, TargetRole, ChecksPassed
  <2> QED
    BY <2>7, <2>8, <2>10
<1> QED
  BY <1>1, TypeCorrect, ChecksAlwaysPassed, PTL DEF Spec, OrphanedOnlyByStaleRead

--------------------------------------------------------------------------------
(* Requests that do not overlap: with one slot the handlers keep every live     *)
(* group owned and implement AtomicGroups.                                     *)

\* What a handler has read still holds when it acts on it.  Joins, which other
\* requests make, cannot falsify any of it; two overlapping requests can.
ReadsCurrent ==
  \A s \in Slots :
    /\ req[s].pc = "target" => CallerRole(s) = "OWNER"
    /\ req[s].pc = "owners" => CallerRole(s) = "OWNER"
    /\ req[s].pc = "write" =>
         /\ req[s].op \in GuardedOps => CallerRole(s) = "OWNER"
         /\ req[s].op = "share" => TargetRole(s) # "NONE"
         /\ req[s].op = "remove" => TargetRole(s) = "MEMBER"
         /\ req[s].op = "leave" => CallerRole(s) # "NONE"
         /\ req[s].op = "leave" => Owners(req[s].group) # {req[s].user}

\* A step that ends its request, the only one, leaves nothing to be stale.
LEMMA IdleIsCurrent ==
  ASSUME TypeOK, NEW s \in Slots, Slots = {s}, Reply(s)
  PROVE  ReadsCurrent'
BY DEF Reply, TypeOK, ReadsCurrent, Idle

\* With a single slot what a request has read is still true when it writes:
\* only joins come between, and they neither remove owners nor change roles.
LEMMA SerialReads ==
  ASSUME NEW one, Slots = {one}
  PROVE  Spec => []ReadsCurrent
<1>1. Init => ReadsCurrent
  BY DEF Init, ReadsCurrent, Idle
<1>2. TypeOK /\ ReadsCurrent /\ [Next]_vars => ReadsCurrent'
  <2> SUFFICES ASSUME TypeOK, ReadsCurrent, [Next]_vars PROVE ReadsCurrent'
    OBVIOUS
  <2> DEFINE s == one
  <2>0. s \in Slots /\ \A r \in Slots : r = s
    OBVIOUS
  <2>1. CASE Reply(s)
    BY <2>0, <2>1, IdleIsCurrent
  <2>2. CASE Arrive(s)
    BY <2>0, <2>2 DEF Arrive, Start, StartCreate, TypeOK, ReadsCurrent
  <2>3. CASE FindName(s)
    <3>1. req[s] \in CreateRequest
      BY <2>0, <2>3, RequestKinds DEF FindName
    <3> QED
      BY <2>0, <2>1, <2>3, <3>1 DEF FindName, Goto, TypeOK, CreateRequest, ReadsCurrent
  <2>4. CASE RoleGuard(s)
    <3>1. req[s] \in GuardedRequest
      BY <2>0, <2>4, RequestKinds DEF RoleGuard
    <3> QED
      BY <2>0, <2>1, <2>4, <3>1 DEF RoleGuard, Goto, TypeOK, GuardedRequest, ReadsCurrent
  <2>5. CASE GetUserRole(s)
    <3>1. req[s] \in GuardedRequest
      BY <2>0, <2>5, RequestKinds DEF GetUserRole
    <3>2. CASE CallerRole(s) = "OWNER" /\ req[s].op = "delete" /\ Goto(s, "write")
      BY <2>0, <2>5, <3>1, <3>2
         DEF GetUserRole, Goto, TypeOK, GuardedRequest, ReadsCurrent, CallerRole
    <3>3. CASE CallerRole(s) = "OWNER" /\ Goto(s, "target")
      BY <2>0, <2>5, <3>1, <3>3
         DEF GetUserRole, Goto, TypeOK, GuardedRequest, ReadsCurrent, CallerRole
    <3> QED
      BY <2>1, <2>5, <3>2, <3>3 DEF GetUserRole
  <2>6. CASE FindTarget(s)
    <3>1. req[s] \in GuardedRequest
      BY <2>0, <2>6, RequestKinds DEF FindTarget
    <3>2. CASE /\ req' = [req EXCEPT ![s].pc = "write", ![s].seenRole = TargetRole(s)]
               /\ TargetRole(s) \in IF req[s].op = "share" THEN Roles ELSE {"MEMBER"}
      BY <2>0, <2>6, <3>1, <3>2
         DEF FindTarget, TypeOK, GuardedRequest, GuardedOps, ReadsCurrent, CallerRole, TargetRole, Roles
    <3> QED
      BY <2>1, <2>6, <3>2 DEF FindTarget
  <2>7. CASE FindSelf(s)
    <3>1. req[s] \in LeaveRequest
      BY <2>0, <2>7, RequestKinds DEF FindSelf
    <3>2. CASE /\ CallerRole(s) # "NONE"
               /\ req' = [req EXCEPT ![s].pc = IF CallerRole(s) = "OWNER" THEN "owners" ELSE "write",
                                     ![s].seenRole = CallerRole(s)]
      <4>1. /\ CallerRole(s)' = CallerRole(s) /\ req'[s].op = "leave"
            /\ req'[s].user = req[s].user /\ req'[s].group = req[s].group
            /\ req'[s].pc = IF CallerRole(s) = "OWNER" THEN "owners" ELSE "write"
        BY <2>0, <2>7, <3>1, <3>2 DEF FindSelf, TypeOK, LeaveRequest, CallerRole
      <4>2. CallerRole(s) # "OWNER" => Owners(req[s].group)' # {req'[s].user}
        BY <2>0, <2>7, <4>1 DEF FindSelf, Owners, CallerRole
      <4>3. CASE CallerRole(s) = "OWNER"
        BY <2>0, <4>1, <4>3 DEF ReadsCurrent
      <4>4. CASE CallerRole(s) # "OWNER"
        <5>1. /\ req'[s].pc = "write" /\ req'[s].op = "leave" /\ CallerRole(s)' # "NONE"
              /\ Owners(req[s].group)' # {req'[s].user}
          BY <3>2, <4>1, <4>2, <4>4
        <5> QED
          BY <2>0, <5>1 DEF ReadsCurrent, GuardedOps
      <4> QED
        BY <4>3, <4>4
    <3> QED
      BY <2>1, <2>7, <3>2 DEF FindSelf
  <2>8. CASE CountOwners(s)
    <3>1. req[s] \in LeaveRequest
      BY <2>0, <2>8, RequestKinds DEF CountOwners
    <3>2. ASSUME Cardinality(Owners(req[s].group)) # 1,
                 req' = [req EXCEPT ![s].pc = "write",
                                    ![s].seenOwners = Cardinality(Owners(req[s].group))]
          PROVE  ReadsCurrent'
      <4>1. /\ CallerRole(s)' = CallerRole(s) /\ req'[s].op = "leave" /\ req'[s].pc = "write"
            /\ req'[s].user = req[s].user /\ req'[s].group = req[s].group
        BY <2>0, <2>8, <3>1, <3>2 DEF CountOwners, TypeOK, LeaveRequest, CallerRole
      <4>2. Owners(req[s].group) # {req[s].user}
        BY <3>2, FS_Singleton
      <4>3. Owners(req[s].group)' # {req'[s].user}
        BY <2>8, <4>1, <4>2 DEF CountOwners, Owners
      <4> QED
        BY <2>0, <2>8, <4>1, <4>3 DEF ReadsCurrent, CountOwners, GuardedOps
    <3> QED
      BY <2>1, <2>8, <3>2 DEF CountOwners
  <2>9. CASE CreateGroup(s) \/ DeleteGroup(s) \/ PromoteTarget(s) \/ RemoveMember(s) \/ LeaveGroup(s)
    BY <2>1, <2>9 DEF CreateGroup, DeleteGroup, PromoteTarget, RemoveMember, LeaveGroup
  <2>10. ASSUME NEW u \in Users, NEW g \in Groups, Join(u, g) PROVE ReadsCurrent'
    <3>1. \A h \in Groups, v \in Users :
            /\ role[h][v] # "NONE" => role'[h][v] = role[h][v]
            /\ role'[h][v] = "OWNER" => role[h][v] = "OWNER"
      BY <2>10 DEF Join, TypeOK
    <3>2. \A h \in Groups : Owners(h)' = Owners(h)
      BY <3>1 DEF Owners
    <3>3. req' = req
      BY <2>10 DEF Join
    <3>4. req[s].pc \in {"target", "owners", "write"} =>
            req[s].group \in Groups /\ req[s].user \in Users /\ req[s].target \in Users
      BY <2>0, WritersFields, RequestKinds DEF GuardedRequest, LeaveRequest
    <3> QED
      BY <2>0, <3>1, <3>2, <3>3, <3>4 DEF ReadsCurrent, CallerRole, TargetRole
  <2>11. CASE UNCHANGED vars
    BY <2>11 DEF vars, ReadsCurrent, CallerRole, TargetRole, Owners
  <2> QED
    BY <2>0, <2>2, <2>3, <2>4, <2>5, <2>6, <2>7, <2>8, <2>9, <2>10, <2>11 DEF Next, GroupStep
<1> QED
  BY <1>1, <1>2, TypeCorrect, PTL DEF Spec

--------------------------------------------------------------------------------
\* Each step of the only request, or a join, is one atomic operation or none.
LEMMA StepIsAtomic ==
  ASSUME NEW one, Slots = {one}, TypeOK, ReadsCurrent, [Next]_vars
  PROVE  [Atomic!Next]_<<group, role>>
<1> DEFINE s == one
<1>0. s \in Slots /\ \A r \in Slots : r = s
  OBVIOUS
<1> USE DEF Atomic!Next, Atomic!tables
<1>1. CASE UNCHANGED <<group, role>>
  BY <1>1
<1>2. CASE CreateGroup(s)
  <2>1. req[s].user \in Users /\ req[s].name \in Names
    BY <1>0, <1>2, RequestKinds DEF CreateGroup, CreateRequest
  <2> QED
    BY <1>1, <1>2, <2>1 DEF CreateGroup, Atomic!Create, Atomic!Nobody, NoMembers
<1>3. CASE DeleteGroup(s)
  <2>1. CallerRole(s) = "OWNER" /\ req[s].group \in Groups /\ req[s].user \in Users
    BY <1>0, <1>3, WritersFields DEF DeleteGroup, ReadsCurrent, GuardedOps
  <2>2. Atomic!Delete(req[s].user, req[s].group)
    BY <1>3, <2>1 DEF DeleteGroup, CallerRole, Atomic!Delete, Atomic!Nobody, NoMembers
  <2> QED
    BY <2>1, <2>2
<1>4. CASE PromoteTarget(s)
  <2>1. /\ CallerRole(s) = "OWNER" /\ TargetRole(s) # "NONE"
        /\ req[s].group \in Groups /\ req[s].user \in Users /\ req[s].target \in Users
    BY <1>0, <1>4, WritersFields DEF PromoteTarget, ReadsCurrent, GuardedOps
  <2>2. Atomic!Share(req[s].user, req[s].target, req[s].group)
    BY <1>4, <2>1 DEF PromoteTarget, CallerRole, TargetRole, Atomic!Share
  <2> QED
    BY <2>1, <2>2
<1>5. CASE RemoveMember(s)
  <2>1. /\ CallerRole(s) = "OWNER" /\ TargetRole(s) = "MEMBER"
        /\ req[s].group \in Groups /\ req[s].user \in Users /\ req[s].target \in Users
    BY <1>0, <1>5, WritersFields DEF RemoveMember, ReadsCurrent, GuardedOps
  <2>2. Atomic!Remove(req[s].user, req[s].target, req[s].group)
    BY <1>5, <2>1 DEF RemoveMember, CallerRole, TargetRole, Atomic!Remove
  <2> QED
    BY <2>1, <2>2
<1>6. CASE LeaveGroup(s)
  <2>1. /\ CallerRole(s) # "NONE" /\ Owners(req[s].group) # {req[s].user}
        /\ req[s].group \in Groups /\ req[s].user \in Users
    BY <1>0, <1>6, WritersFields DEF LeaveGroup, ReadsCurrent
  <2>2. CallerRole(s) = "OWNER" => Atomic!OwnersOf(req[s].group) \ {req[s].user} # {}
    BY <2>1 DEF CallerRole, Owners, Atomic!OwnersOf
  <2>3. Atomic!Leave(req[s].user, req[s].group)
    BY <1>6, <2>1, <2>2 DEF LeaveGroup, CallerRole, Atomic!Leave
  <2> QED
    BY <2>1, <2>3
<1>7. ASSUME NEW u \in Users, NEW g \in Groups, Join(u, g)
      PROVE  [Atomic!Next]_<<group, role>>
  <2>1. Atomic!Join(u, g)
    BY <1>7 DEF Join, Live, Atomic!Join
  <2> QED
    BY <2>1
<1> QED
  BY <1>0, <1>1, <1>2, <1>3, <1>4, <1>5, <1>6, <1>7
     DEF Next, Arrive, GroupStep, Start, StartCreate, FindName, RoleGuard, GetUserRole,
         FindTarget, FindSelf, CountOwners, vars

\* Requests that do not overlap implement the atomic group operations, for any
\* users, groups and names, whatever joins happen between their steps.
THEOREM SerialRefinement ==
  ASSUME NEW one, Slots = {one}
  PROVE  Spec => ImplementsAtomicGroups
<1>1. Init => Atomic!Init
  BY DEF Init, Atomic!Init, Atomic!Nobody, NoMembers
<1>2. TypeOK /\ ReadsCurrent /\ [Next]_vars => [Atomic!Next]_<<group, role>>
  BY StepIsAtomic
<1>3. Spec => []ReadsCurrent
  BY SerialReads
<1> QED
  BY <1>1, <1>2, <1>3, TypeCorrect, PTL
     DEF Spec, ImplementsAtomicGroups, Atomic!Spec, Atomic!tables

\* Without overlapping requests every live group keeps an owner: leaveGroup's
\* count and removeMember's role check are enough.
THEOREM SerialOwnerExists ==
  ASSUME NEW one, Slots = {one}
  PROVE  Spec => []OwnerExists
<1>1. Init => OwnerExists
  BY MarksAreNotNames DEF Init, OwnerExists, Live
<1>2. TypeOK /\ OwnerExists /\ [Atomic!Next]_<<group, role>> => OwnerExists'
  <2> SUFFICES ASSUME TypeOK, OwnerExists, [Atomic!Next]_<<group, role>>,
                      NEW h \in Groups, Live(h)'
               PROVE  \E w \in Users : role'[h][w] = "OWNER"
    BY DEF OwnerExists, Owners
  <2>1. Live(h) => \E w \in Users : role[h][w] = "OWNER"
    BY DEF OwnerExists, Owners
  <2>2. CASE UNCHANGED <<group, role>>
    BY <2>1, <2>2 DEF Live
  <2>3. ASSUME NEW u \in Users, NEW g \in Groups, NEW n \in Names, Atomic!Create(u, n, g)
        PROVE  \E w \in Users : role'[h][w] = "OWNER"
    <3>1. CASE h = g
      BY <2>3, <3>1 DEF Atomic!Create, Atomic!Nobody, TypeOK
    <3>2. CASE h # g
      BY <2>1, <2>3, <3>2 DEF Atomic!Create, TypeOK, Live
    <3> QED
      BY <3>1, <3>2
  <2>4. ASSUME NEW u \in Users, NEW g \in Groups, Atomic!Delete(u, g)
        PROVE  \E w \in Users : role'[h][w] = "OWNER"
    BY <2>1, <2>4, MarksAreNotNames DEF Atomic!Delete, TypeOK, Live
  <2>5. ASSUME NEW u \in Users, NEW g \in Groups, Atomic!Leave(u, g)
        PROVE  \E w \in Users : role'[h][w] = "OWNER"
    <3>1. CASE role[g][u] = "OWNER" /\ h = g
      <4>1. PICK w \in Users : w # u /\ role[g][w] = "OWNER"
        BY <2>5, <3>1 DEF Atomic!Leave, Atomic!OwnersOf
      <4> QED
        BY <2>5, <3>1, <4>1 DEF Atomic!Leave, TypeOK
    <3>2. CASE role[g][u] # "OWNER" \/ h # g
      BY <2>1, <2>5, <3>2 DEF Atomic!Leave, TypeOK, Live
    <3> QED
      BY <3>1, <3>2
  <2>6. ASSUME NEW u \in Users, NEW v \in Users, NEW g \in Groups,
               Atomic!Share(u, v, g) \/ Atomic!Remove(u, v, g) \/ Atomic!Join(u, g)
        PROVE  \E w \in Users : role'[h][w] = "OWNER"
    BY <2>1, <2>6 DEF Atomic!Share, Atomic!Remove, Atomic!Join, TypeOK, Live
  <2> QED
    BY <2>2, <2>3, <2>4, <2>5, <2>6 DEF Atomic!Next
<1>3. TypeOK /\ ReadsCurrent /\ [Next]_vars => [Atomic!Next]_<<group, role>>
  BY StepIsAtomic
<1>4. Spec => []ReadsCurrent
  BY SerialReads
<1> QED
  BY <1>1, <1>2, <1>3, <1>4, TypeCorrect, PTL DEF Spec

--------------------------------------------------------------------------------
(* Invitations *)

\* The program counter tells what an invitation request carries.
LEMMA InviteKinds ==
  ASSUME InviteTypes, NEW s \in Slots
  PROVE  /\ inv[s].pc \in {"guard", "sign"} => inv[s] \in InviteRequest
         /\ inv[s].pc \in {"inviter", "member", "pending", "create", "enqueue"}
              => inv[s] \in SignedRequest
         /\ inv[s].pc \in {"verify", "find", "expiry", "membership", "write"}
              => inv[s] \in TokenRequest
<1>1. inv[s] \in {Idle} \cup InviteRequest \cup SignedRequest \cup TokenRequest
  BY DEF InviteTypes
<1> QED
  BY <1>1 DEF Idle, InviteRequest, SignedRequest, TokenRequest

\* Ending a request keeps the requests typed.
LEMMA InvReplyTyped ==
  ASSUME InviteTypes, NEW s \in Slots, InvReply(s)
  PROVE  inv' \in [Slots -> {Idle} \cup InviteRequest \cup SignedRequest \cup TokenRequest]
BY DEF InvReply, InviteTypes

\* Moving an inviteUser request on keeps the requests typed.
LEMMA SignedGotoTyped ==
  ASSUME InviteTypes, NEW s \in Slots, inv[s] \in SignedRequest,
         NEW step \in {"inviter", "member", "pending", "create", "enqueue"}, InvGoto(s, step)
  PROVE  inv' \in [Slots -> {Idle} \cup InviteRequest \cup SignedRequest \cup TokenRequest]
BY DEF InvGoto, InviteTypes, SignedRequest

\* Moving a request that carries a mailed token on keeps the requests typed.
LEMMA TokenGotoTyped ==
  ASSUME InviteTypes, NEW s \in Slots, inv[s] \in TokenRequest,
         NEW step \in {"verify", "find", "expiry", "membership", "write"}, InvGoto(s, step)
  PROVE  inv' \in [Slots -> {Idle} \cup InviteRequest \cup SignedRequest \cup TokenRequest]
BY DEF InvGoto, InviteTypes, TokenRequest

\* The invitations, mails and requests of inviteUser, acceptInvite and
\* declineInvite keep their types.
LEMMA InviteTypesHold == ISpec => []InviteTypes
<1>1. IInit => InviteTypes
  BY Lifetimes DEF IInit, InviteTypes, Tokens
<1>2. InviteTypes /\ [INext]_ivars => InviteTypes'
  <2> SUFFICES ASSUME InviteTypes, [INext]_ivars PROVE InviteTypes'
    OBVIOUS
  <2> USE DEF InviteStatus, Terminal
  <2>1. ASSUME NEW s \in Slots, InviteArrive(s) PROVE InviteTypes'
    <3>1. ASSUME NEW u \in Users, NEW e \in Emails, NEW g \in Groups, StartInvite(s, u, e, g)
          PROVE  InviteTypes'
      BY <3>1 DEF StartInvite, InviteTypes, InviteRequest, rows
    <3>2. ASSUME NEW op \in {"accept", "decline", "preview"}, NEW u \in Users, NEW t \in Tokens,
                 StartWithToken(s, op, u, t)
          PROVE  InviteTypes'
      BY <3>2 DEF StartWithToken, InviteTypes, TokenRequest, rows
    <3> QED
      BY <2>1, <3>1, <3>2 DEF InviteArrive
  <2>2. ASSUME NEW s \in Slots, InviteGuard(s) PROVE InviteTypes'
    <3>1. inv[s] \in InviteRequest
      BY <2>2, InviteKinds DEF InviteGuard
    <3>2. InvGoto(s, "sign") => inv' \in [Slots -> {Idle} \cup InviteRequest \cup SignedRequest \cup TokenRequest]
      BY <3>1 DEF InvGoto, InviteTypes, InviteRequest
    <3> QED
      BY <2>2, <3>2, InvReplyTyped DEF InviteGuard, InviteTypes, rows
  <2>3. ASSUME NEW s \in Slots, GenerateToken(s) PROVE InviteTypes'
    <3>1. inv[s] \in InviteRequest
      BY <2>3, InviteKinds DEF GenerateToken
    <3>2. [email |-> inv[s].email, group |-> inv[s].group, by |-> inv[s].user, iat |-> now] \in Tokens
      BY <3>1 DEF InviteRequest, Tokens, InviteTypes
    <3> QED
      BY <2>3, <3>2 DEF GenerateToken, InviteTypes, SignedRequest, rows
  <2>4. ASSUME NEW s \in Slots, FindInviter(s) \/ FindMember(s) \/ FindPending(s) PROVE InviteTypes'
    <3>1. inv[s] \in SignedRequest
      BY <2>4, InviteKinds DEF FindInviter, FindMember, FindPending
    <3> QED
      BY <2>4, <3>1, InvReplyTyped, SignedGotoTyped
         DEF FindInviter, FindMember, FindPending, InviteTypes, rows
  <2>5. ASSUME NEW s \in Slots, CreateInvite(s) PROVE InviteTypes'
    <3>1. inv[s] \in SignedRequest /\ inv[s].tok \in Tokens
      BY <2>5, InviteKinds DEF CreateInvite, SignedRequest
    <3>2. now + InviteTtl \in 0 .. MaxTime + InviteTtl
      BY Lifetimes DEF InviteTypes
    <3>3. inv' \in [Slots -> {Idle} \cup InviteRequest \cup SignedRequest \cup TokenRequest]
      BY <2>5, <3>1, InvReplyTyped, SignedGotoTyped DEF CreateInvite
    <3>4. status' \in [Tokens -> InviteStatus \cup {"NONE"}]
      BY <2>5, <3>1 DEF CreateInvite, InviteTypes, rows
    <3>5. expires' \in [Tokens -> 0 .. MaxTime + InviteTtl]
      BY <2>5, <3>1, <3>2 DEF CreateInvite, InviteTypes, rows
    <3> QED
      BY <2>5, <3>3, <3>4, <3>5 DEF CreateInvite, InviteTypes
  <2>6. ASSUME NEW s \in Slots, Enqueue(s) PROVE InviteTypes'
    BY <2>6, InvReplyTyped DEF Enqueue, InviteTypes, rows
  <2>7. ASSUME NEW s \in Slots, VerifyToken(s) \/ CheckExpiry(s) \/ FindMembership(s)
        PROVE  InviteTypes'
    <3>1. inv[s] \in TokenRequest
      BY <2>7, InviteKinds DEF VerifyToken, CheckExpiry, FindMembership
    <3> QED
      BY <2>7, <3>1, InvReplyTyped, TokenGotoTyped
         DEF VerifyToken, CheckExpiry, FindMembership, InviteTypes, rows
  <2>8. ASSUME NEW s \in Slots, FindInvite(s) PROVE InviteTypes'
    <3>1. inv[s] \in TokenRequest
      BY <2>8, InviteKinds DEF FindInvite
    <3> QED
      BY <2>8, <3>1, InvReplyTyped DEF FindInvite, InviteTypes, TokenRequest, rows
  <2>9. ASSUME NEW s \in Slots, AcceptInvite(s) \/ DeclineInvite(s) \/ ExpirePreviewed(s)
        PROVE  InviteTypes'
    BY <2>9, InvReplyTyped
       DEF AcceptInvite, DeclineInvite, ExpirePreviewed, MarkById, InviteTypes
  <2>10. ASSUME NEW s \in Slots, GroupRequest(s) PROVE InviteTypes'
    BY <2>10 DEF GroupRequest, InviteTypes
  <2>11. ASSUME NEW t \in Tokens, WorkMail(t) PROVE InviteTypes'
    BY <2>11 DEF WorkMail, InviteTypes, rows
  <2>12. CASE CleanExpiredInvites
    BY <2>12 DEF CleanExpiredInvites, InviteTypes
  <2>13. CASE Tick
    BY <2>13, Lifetimes DEF Tick, InviteTypes, rows
  <2>14. CASE UNCHANGED ivars
    BY <2>14 DEF ivars, InviteTypes
  <2> QED
    BY <2>1, <2>2, <2>3, <2>4, <2>5, <2>6, <2>7, <2>8, <2>9, <2>10, <2>11, <2>12, <2>13, <2>14
       DEF INext, InviteStep
<1> QED
  BY <1>1, <1>2, PTL DEF ISpec

--------------------------------------------------------------------------------
(* Composition *)

\* Seen from the group tables the write of acceptInvite is a Join or a refusal.
LEMMA AcceptIsJoin ==
  ASSUME InviteTypes, NEW s \in Slots, AcceptInvite(s)
  PROVE  /\ inv[s].tok \in Tokens /\ inv[s].tok.group \in Groups /\ inv[s].user \in Users
         /\ \/ /\ Join(inv[s].user, inv[s].tok.group)
               /\ status' = [status EXCEPT ![inv[s].tok] = "ACCEPTED"]
            \/ UNCHANGED <<vars, status>>
<1>1. inv[s] \in TokenRequest
  BY InviteKinds DEF AcceptInvite
<1> QED
  BY <1>1 DEF AcceptInvite, TokenRequest, Tokens

\* Seen from the group tables and their requests, an invitation step is a join
\* or nothing: everything proved of GroupMembership holds with invitations.
THEOREM Composition == ISpec => ImplementsMembership
<1>1. IInit => Init
  BY DEF IInit
<1>2. InviteTypes /\ [INext]_ivars => [Next]_vars
  <2> SUFFICES ASSUME InviteTypes, [INext]_ivars PROVE [Next]_vars
    OBVIOUS
  <2>1. ASSUME NEW s \in Slots, GroupRequest(s) PROVE [Next]_vars
    BY <2>1 DEF GroupRequest, Next
  <2>2. ASSUME NEW s \in Slots, AcceptInvite(s) PROVE [Next]_vars
    BY <2>2, AcceptIsJoin DEF Next
  <2>3. ASSUME NEW s \in Slots, InviteArrive(s) PROVE UNCHANGED vars
    BY <2>3 DEF InviteArrive, StartInvite, StartWithToken
  <2>4. ASSUME NEW s \in Slots, InviteStep(s) PROVE AcceptInvite(s) \/ UNCHANGED vars
    BY <2>4 DEF InviteStep, InviteGuard, GenerateToken, FindInviter, FindMember, FindPending,
                CreateInvite, Enqueue, VerifyToken, FindInvite, CheckExpiry, FindMembership,
                DeclineInvite, ExpirePreviewed
  <2>5. ASSUME NEW t \in Tokens, WorkMail(t) PROVE UNCHANGED vars
    BY <2>5 DEF WorkMail
  <2>6. CleanExpiredInvites \/ Tick => UNCHANGED vars
    BY DEF CleanExpiredInvites, Tick
  <2>7. UNCHANGED ivars => UNCHANGED vars
    BY DEF ivars
  <2> QED
    BY <2>1, <2>2, <2>3, <2>4, <2>5, <2>6, <2>7 DEF INext
<1> QED
  BY <1>1, <1>2, InviteTypesHold, PTL DEF ISpec, ImplementsMembership, Spec

\* Every table, job and handler keeps its type.
THEOREM ITypeCorrect == ISpec => []ITypeOK
BY Composition, TypeCorrect, InviteTypesHold, PTL DEF ImplementsMembership, ITypeOK

--------------------------------------------------------------------------------
(* Rows, jobs and groups *)

\* A group that is live after a step was live before or is being created.
LEMMA LiveAfter ==
  ASSUME TypeOK, NEW s \in Slots, Arrive(s) \/ GroupStep(s), NEW g \in Groups
  PROVE  /\ Live(g)' => Live(g) \/ group[g] = "unborn"
         /\ group[g] # "unborn" => group'[g] # "unborn"
<1>1. CASE UNCHANGED group
  BY <1>1 DEF Live
<1>2. CASE CreateGroup(s)
  <2>1. req[s].name \in Names
    BY <1>2, RequestKinds DEF CreateGroup, CreateRequest
  <2> QED
    BY <1>1, <1>2, <2>1, MarksAreNotNames DEF CreateGroup, Live, TypeOK
<1>3. CASE DeleteGroup(s)
  BY <1>3, WritersFields, MarksAreNotNames DEF DeleteGroup, Live, TypeOK
<1> QED
  BY <1>1, <1>2, <1>3
     DEF Arrive, GroupStep, Start, StartCreate, FindName, RoleGuard, GetUserRole, FindTarget,
         PromoteTarget, RemoveMember, FindSelf, CountOwners, LeaveGroup

\* What the steps outside the group endpoints do to the rows: they create one in
\* a live group, mark existing ones, and leave the groups alone.
LEMMA RowSteps ==
  ASSUME ITypeOK, [INext]_ivars, ~\E s \in Slots : GroupRequest(s)
  PROVE  /\ group' = group
         /\ \A t \in Tokens : status'[t] # "NONE" => status[t] # "NONE" \/ Live(t.group)
         /\ \A t \in Tokens : status[t] # "NONE" => status'[t] # "NONE"
<1> USE DEF ITypeOK
<1> DEFINE Goal ==
      /\ group' = group
      /\ \A t \in Tokens : status'[t] # "NONE" => status[t] # "NONE" \/ Live(t.group)
      /\ \A t \in Tokens : status[t] # "NONE" => status'[t] # "NONE"
<1>1. ASSUME NEW s \in Slots, CreateInvite(s) PROVE Goal
  <2>1. inv[s].tok \in Tokens
    BY <1>1, InviteKinds DEF CreateInvite, SignedRequest
  <2> QED
    BY <1>1, <2>1 DEF CreateInvite, InviteTypes, vars, rows
<1>2. ASSUME NEW s \in Slots, AcceptInvite(s) PROVE Goal
  BY <1>2, AcceptIsJoin DEF Join, InviteTypes, vars
<1>3. ASSUME NEW s \in Slots, DeclineInvite(s) \/ ExpirePreviewed(s) PROVE Goal
  <2>1. inv[s].tok \in Tokens
    BY <1>3, InviteKinds DEF DeclineInvite, ExpirePreviewed, TokenRequest
  <2> QED
    BY <1>3, <2>1 DEF DeclineInvite, ExpirePreviewed, MarkById, InviteTypes, vars
<1>4. CASE CleanExpiredInvites
  BY <1>4 DEF CleanExpiredInvites, InviteTypes, vars
<1>5. ASSUME NEW s \in Slots, InviteArrive(s) PROVE group' = group /\ status' = status
  BY <1>5 DEF InviteArrive, StartInvite, StartWithToken, vars, rows
<1>6. ASSUME NEW s \in Slots, InviteStep(s), ~CreateInvite(s), ~AcceptInvite(s),
             ~DeclineInvite(s), ~ExpirePreviewed(s)
      PROVE  group' = group /\ status' = status
  BY <1>6
     DEF InviteStep, InviteGuard, GenerateToken, FindInviter, FindMember, FindPending, Enqueue,
         VerifyToken, FindInvite, CheckExpiry, FindMembership, vars, rows
<1>7. ASSUME NEW t \in Tokens, WorkMail(t) PROVE group' = group /\ status' = status
  BY <1>7 DEF WorkMail, vars, rows
<1>8. CASE Tick \/ UNCHANGED ivars
  BY <1>8 DEF Tick, ivars, vars, rows
<1>9. CASE group' = group /\ status' = status
  BY <1>9
<1> QED
  BY <1>1, <1>2, <1>3, <1>4, <1>5, <1>6, <1>7, <1>8, <1>9 DEF INext

\* No invitation outlives its group, whichever of creation and deletion commits
\* first.
THEOREM InviteIntegrityHolds == ISpec => []InviteIntegrity
<1>1. IInit => InviteIntegrity
  BY DEF IInit, InviteIntegrity
<1>2. ITypeOK /\ InviteIntegrity /\ [INext]_ivars => InviteIntegrity'
  <2> SUFFICES ASSUME ITypeOK, InviteIntegrity, [INext]_ivars PROVE InviteIntegrity'
    OBVIOUS
  <2>1. ASSUME NEW s \in Slots, GroupRequest(s) PROVE InviteIntegrity'
    BY <2>1 DEF GroupRequest, InviteIntegrity
  <2>2. CASE ~\E s \in Slots : GroupRequest(s)
    BY <2>2, RowSteps DEF InviteIntegrity, Live
  <2> QED
    BY <2>1, <2>2
<1> QED
  BY <1>1, <1>2, ITypeCorrect, PTL DEF ISpec

--------------------------------------------------------------------------------
(* Mails *)

\* A step of one invitation request leaves the others where they are, and only
\* some steps change the jobs.
LEMMA InviteFrame ==
  ASSUME InviteTypes, NEW r \in Slots, InviteArrive(r) \/ InviteStep(r)
  PROVE  /\ \A s \in Slots \ {r} : inv'[s] = inv[s]
         /\ Enqueue(r) \/ mail' = mail
<1>1. CASE InviteArrive(r)
  BY <1>1 DEF InviteArrive, StartInvite, StartWithToken, InviteTypes
<1>2. CASE InviteGuard(r) \/ GenerateToken(r) \/ FindInviter(r) \/ FindMember(r) \/ FindPending(r)
  BY <1>2 DEF InviteGuard, GenerateToken, FindInviter, FindMember, FindPending,
              InvReply, InvGoto, InviteTypes
<1>3. CASE CreateInvite(r) \/ Enqueue(r) \/ VerifyToken(r) \/ FindInvite(r) \/ CheckExpiry(r)
  BY <1>3 DEF CreateInvite, Enqueue, VerifyToken, FindInvite, CheckExpiry,
              InvReply, InvGoto, InviteTypes
<1>4. CASE FindMembership(r) \/ AcceptInvite(r) \/ DeclineInvite(r) \/ ExpirePreviewed(r)
  BY <1>4 DEF FindMembership, AcceptInvite, DeclineInvite, ExpirePreviewed,
              InvReply, InvGoto, InviteTypes
<1> QED
  BY <1>1, <1>2, <1>3, <1>4 DEF InviteStep

\* The row of t was committed: it is there as long as the group is.
Stored(t) == group[t.group] # "unborn" /\ (Live(t.group) => status[t] # "NONE")

\* Once its row was committed, an invitation is there as long as its group lives.
LEMMA StoredStable ==
  ASSUME ITypeOK, [INext]_ivars, NEW t \in Tokens, Stored(t)
  PROVE  Stored(t)'
<1>0. t.group \in Groups
  BY DEF Tokens
<1>1. ASSUME NEW s \in Slots, GroupRequest(s) PROVE Stored(t)'
  <2>1. /\ Live(t.group)' => Live(t.group) \/ group[t.group] = "unborn"
        /\ group[t.group] # "unborn" => group'[t.group] # "unborn"
    BY <1>0, <1>1, LiveAfter DEF GroupRequest, ITypeOK
  <2>2. Live(t.group)' => status'[t] = status[t]
    BY <1>1 DEF GroupRequest
  <2> QED
    BY <2>1, <2>2 DEF Stored
<1>2. CASE ~\E s \in Slots : GroupRequest(s)
  BY <1>2, RowSteps DEF Stored, Live
<1> QED
  BY <1>1, <1>2

\* Every job is for a stored token, and each token is queued by one request, once.
MailOrder ==
  /\ \A t \in Tokens : mail[t] # "none" => Stored(t)
  /\ \A s \in Slots :
       inv[s].pc = "enqueue" =>
         /\ Stored(inv[s].tok)
         /\ mail[inv[s].tok] = "none"
         /\ \A r \in Slots \ {s} : inv[r].pc = "enqueue" => inv[r].tok # inv[s].tok

\* A request reaches its enqueue step by creating the row.
LEMMA EnqueueAfterCreate ==
  ASSUME InviteTypes, [INext]_ivars, NEW s \in Slots, inv'[s].pc = "enqueue"
  PROVE  \/ inv'[s] = inv[s]
         \/ CreateInvite(s) /\ inv[s].tok \in Tokens /\ inv'[s].tok = inv[s].tok
            /\ Live(inv[s].tok.group) /\ status[inv[s].tok] = "NONE"
            /\ status'[inv[s].tok] # "NONE" /\ group' = group
<1>1. CASE InviteArrive(s)
  BY <1>1 DEF InviteArrive, StartInvite, StartWithToken, InviteTypes
<1>2. CASE InviteGuard(s)
  <2>1. inv[s] \in InviteRequest
    BY <1>2, InviteKinds DEF InviteGuard
  <2> QED
    BY <1>2, <2>1 DEF InviteGuard, InvReply, InvGoto, InviteTypes, InviteRequest, Idle
<1>3. CASE GenerateToken(s)
  BY <1>3 DEF GenerateToken, InviteTypes
<1>4. CASE FindInviter(s) \/ FindMember(s) \/ FindPending(s)
  <2>1. inv[s] \in SignedRequest
    BY <1>4, InviteKinds DEF FindInviter, FindMember, FindPending
  <2> QED
    BY <1>4, <2>1 DEF FindInviter, FindMember, FindPending, InvReply, InvGoto, InviteTypes,
                      SignedRequest, Idle
<1>5. CASE CreateInvite(s)
  <2>1. inv[s] \in SignedRequest /\ inv[s].tok \in Tokens
    BY <1>5, InviteKinds DEF CreateInvite, SignedRequest
  <2>2. ~InvReply(s)
    BY DEF InvReply, InviteTypes, Idle
  <2> QED
    BY <1>5, <2>1, <2>2 DEF CreateInvite, InvGoto, InviteTypes, SignedRequest, vars
<1>6. CASE InvReply(s)
  BY <1>6 DEF InvReply, InviteTypes, Idle
<1>7. CASE VerifyToken(s) \/ CheckExpiry(s) \/ FindMembership(s) \/ FindInvite(s)
  <2>1. inv[s] \in TokenRequest
    BY <1>7, InviteKinds DEF VerifyToken, CheckExpiry, FindMembership, FindInvite
  <2>2. inv'[s].pc # "enqueue"
    BY <1>6, <1>7, <2>1 DEF VerifyToken, CheckExpiry, FindMembership, FindInvite, InvGoto,
                            InvReply, InviteTypes, TokenRequest, Idle
  <2> QED
    BY <2>2
<1>8. CASE Enqueue(s) \/ AcceptInvite(s) \/ DeclineInvite(s) \/ ExpirePreviewed(s)
  BY <1>6, <1>8 DEF Enqueue, AcceptInvite, DeclineInvite, ExpirePreviewed
<1>9. ASSUME NEW r \in Slots \ {s}, InviteArrive(r) \/ InviteStep(r) PROVE inv'[s] = inv[s]
  BY <1>9, InviteFrame
<1>10. ASSUME inv' = inv PROVE inv'[s] = inv[s]
  BY <1>10
<1>11. CASE CleanExpiredInvites \/ Tick \/ UNCHANGED ivars
  BY <1>10, <1>11 DEF CleanExpiredInvites, Tick, ivars
<1>12. ASSUME NEW r \in Slots, GroupRequest(r) PROVE inv'[s] = inv[s]
  BY <1>10, <1>12 DEF GroupRequest
<1>13. ASSUME NEW t \in Tokens, WorkMail(t) PROVE inv'[s] = inv[s]
  BY <1>10, <1>13 DEF WorkMail
<1> QED
  BY <1>1, <1>2, <1>3, <1>4, <1>5, <1>7, <1>8, <1>9, <1>11, <1>12, <1>13 DEF INext, InviteStep

\* An invitation is handed to the queue only after its row is stored.
LEMMA MailOrderHolds == ISpec => []MailOrder
<1>1. IInit => MailOrder
  BY DEF IInit, MailOrder, Idle
<1>2. ITypeOK /\ MailOrder /\ [INext]_ivars => MailOrder'
  <2> SUFFICES ASSUME ITypeOK, MailOrder, [INext]_ivars PROVE MailOrder'
    OBVIOUS
  <2>0. InviteTypes
    BY DEF ITypeOK
  <2>1. \A t \in Tokens : mail'[t] # mail[t] =>
          \/ mail[t] # "none"
          \/ \E s \in Slots : inv[s].pc = "enqueue" /\ inv[s].tok = t /\ inv'[s] = Idle
    <3> SUFFICES ASSUME NEW t \in Tokens, mail'[t] # mail[t], mail[t] = "none"
                 PROVE  \E s \in Slots : inv[s].pc = "enqueue" /\ inv[s].tok = t /\ inv'[s] = Idle
      OBVIOUS
    <3>1. ~CleanExpiredInvites /\ ~Tick /\ ~UNCHANGED ivars
      BY DEF CleanExpiredInvites, Tick, ivars
    <3>2. \A s \in Slots : ~GroupRequest(s)
      BY DEF GroupRequest
    <3>3. \A o \in Tokens : ~WorkMail(o)
      BY <2>0 DEF WorkMail, InviteTypes
    <3>4. PICK s \in Slots : Enqueue(s)
      BY <2>0, <3>1, <3>2, <3>3, InviteFrame DEF INext
    <3> QED
      BY <2>0, <3>4 DEF Enqueue, InvReply, InviteTypes
  <2>2. ASSUME NEW t \in Tokens, mail'[t] # "none" PROVE Stored(t)'
    <3>1. Stored(t)
      BY <2>1, <2>2 DEF MailOrder
    <3> QED
      BY <3>1, StoredStable
  <2>3. ASSUME NEW s \in Slots, inv'[s].pc = "enqueue", inv'[s] = inv[s]
        PROVE  /\ Stored(inv[s].tok)' /\ mail'[inv[s].tok] = "none"
               /\ \A r \in Slots \ {s} : inv'[r].pc = "enqueue" => inv'[r].tok # inv'[s].tok
    <3>1. PICK t \in Tokens : t = inv[s].tok
      BY <2>0, <2>3, InviteKinds DEF SignedRequest
    <3>2. Stored(t) /\ mail[t] = "none"
      BY <2>3, <3>1 DEF MailOrder
    <3>3. mail'[t] = "none"
      BY <2>1, <2>3, <3>1, <3>2 DEF MailOrder, Idle
    <3>4. Stored(t)'
      BY <3>2, StoredStable
    <3>5. ASSUME NEW r \in Slots \ {s}, inv'[r].pc = "enqueue" PROVE inv'[r].tok # t
      <4>1. CASE inv'[r] = inv[r]
        BY <2>3, <3>1, <3>5, <4>1 DEF MailOrder
      <4>2. CASE Live(inv[r].tok.group) /\ status[inv[r].tok] = "NONE" /\ inv'[r].tok = inv[r].tok
        BY <3>2, <4>2 DEF Stored
      <4> QED
        BY <2>0, <3>5, <4>1, <4>2, EnqueueAfterCreate
    <3> QED
      BY <2>3, <3>1, <3>3, <3>4, <3>5 DEF Stored, Live
  <2>4. ASSUME NEW s \in Slots, inv'[s].pc = "enqueue", inv'[s] # inv[s]
        PROVE  /\ Stored(inv[s].tok)' /\ mail'[inv'[s].tok] = "none"
               /\ \A r \in Slots \ {s} : inv'[r].pc = "enqueue" => inv'[r].tok # inv'[s].tok
    <3>1. /\ CreateInvite(s) /\ inv[s].tok \in Tokens /\ inv'[s].tok = inv[s].tok
          /\ Live(inv[s].tok.group) /\ status[inv[s].tok] = "NONE"
          /\ status'[inv[s].tok] # "NONE" /\ group' = group
      BY <2>0, <2>4, EnqueueAfterCreate
    <3>2. PICK t \in Tokens : t = inv[s].tok
      BY <3>1
    <3>3. ~Stored(t)
      BY <3>1, <3>2 DEF Stored
    <3>4. Stored(t)'
      BY <3>1, <3>2, MarksAreNotNames DEF Stored, Live
    <3>5. mail'[t] = "none"
      BY <2>1, <3>3 DEF MailOrder
    <3>6. ASSUME NEW r \in Slots \ {s}, inv'[r].pc = "enqueue" PROVE inv'[r].tok # t
      <4>1. inv'[r] = inv[r]
        BY <2>0, <3>1, InviteFrame DEF InviteStep
      <4> QED
        BY <3>3, <3>6, <4>1 DEF MailOrder
    <3> QED
      BY <3>1, <3>2, <3>4, <3>5, <3>6 DEF Stored, Live
  <2> QED
    BY <2>2, <2>3, <2>4 DEF MailOrder
<1> QED
  BY <1>1, <1>2, ITypeCorrect, PTL DEF ISpec

\* A mailed token finds its row for as long as its group lives: inviteUser queues
\* the mail after its transaction has committed.
THEOREM MailAfterCommit == ISpec => []MailOnlyAfterCommit
<1>1. MailOrder => MailOnlyAfterCommit
  BY DEF MailOrder, MailOnlyAfterCommit, Stored
<1> QED
  BY <1>1, MailOrderHolds, PTL

--------------------------------------------------------------------------------
(* Joining *)

\* What an accept about to join has made sure of.
JoinChecked ==
  \A s \in Slots :
    /\ inv[s].pc \in {"verify", "find", "expiry", "membership", "write"} =>
         mail[inv[s].tok] = "sent"
    /\ inv[s].pc \in {"membership", "write"} /\ inv[s].op = "accept" =>
         Canon[EmailOf[inv[s].user]] = Canon[inv[s].tok.email]

\* acceptInvite reaches its write only with a mailed token for the address of
\* the caller.
LEMMA JoinAlwaysChecked == ISpec => []JoinChecked
<1>1. IInit => JoinChecked
  BY DEF IInit, JoinChecked, Idle
<1>2. ITypeOK /\ MailOrder /\ JoinChecked /\ [INext]_ivars => JoinChecked'
  <2> SUFFICES ASSUME ITypeOK, MailOrder, JoinChecked, [INext]_ivars, NEW s \in Slots
               PROVE  /\ inv'[s].pc \in {"verify", "find", "expiry", "membership", "write"} =>
                           mail'[inv'[s].tok] = "sent"
                      /\ inv'[s].pc \in {"membership", "write"} /\ inv'[s].op = "accept" =>
                           Canon[EmailOf[inv'[s].user]] = Canon[inv'[s].tok.email]
    BY DEF JoinChecked
  <2>0. InviteTypes
    BY DEF ITypeOK
  <2>1. \A t \in Tokens : mail[t] = "sent" => mail'[t] = "sent"
    <3> SUFFICES ASSUME NEW t \in Tokens, mail[t] = "sent" PROVE mail'[t] = "sent"
      OBVIOUS
    <3>1. CASE mail' = mail
      BY <3>1
    <3>2. ASSUME NEW r \in Slots, Enqueue(r) PROVE mail'[t] = "sent"
      BY <2>0, <3>2 DEF Enqueue, MailOrder, InviteTypes
    <3>3. ASSUME NEW o \in Tokens, WorkMail(o) PROVE mail'[t] = "sent"
      BY <2>0, <3>3 DEF WorkMail, InviteTypes
    <3>4. ASSUME NEW r \in Slots, InviteArrive(r) \/ InviteStep(r) PROVE mail'[t] = "sent"
      BY <2>0, <3>1, <3>2, <3>4, InviteFrame
    <3> QED
      BY <3>1, <3>3, <3>4 DEF INext, GroupRequest, CleanExpiredInvites, Tick, ivars
  <2>2. CASE inv'[s] = inv[s]
    <3>1. inv[s].pc \in {"verify", "find", "expiry", "membership", "write"} => inv[s].tok \in Tokens
      BY <2>0, InviteKinds DEF TokenRequest
    <3> QED
      BY <2>1, <2>2, <3>1 DEF JoinChecked
  <2>3. ASSUME NEW u \in Users, NEW e \in Emails, NEW g \in Groups, StartInvite(s, u, e, g)
        PROVE  inv'[s].pc = "guard"
    BY <2>0, <2>3 DEF StartInvite, InviteTypes
  <2>4. ASSUME NEW op \in {"accept", "decline", "preview"}, NEW u \in Users, NEW t \in Tokens,
               StartWithToken(s, op, u, t)
        PROVE  inv'[s].pc = "verify" /\ mail'[inv'[s].tok] = "sent"
    BY <2>0, <2>4 DEF StartWithToken, InviteTypes
  <2>5. CASE InvReply(s)
    BY <2>0, <2>5 DEF InvReply, InviteTypes, Idle
  <2>6. CASE InviteGuard(s) \/ GenerateToken(s)
    <3>1. inv[s] \in InviteRequest
      BY <2>0, <2>6, InviteKinds DEF InviteGuard, GenerateToken
    <3> QED
      BY <2>0, <2>5, <2>6, <3>1 DEF InviteGuard, GenerateToken, InvGoto, InviteTypes, InviteRequest
  <2>7. CASE FindInviter(s) \/ FindMember(s) \/ FindPending(s) \/ CreateInvite(s) \/ Enqueue(s)
    <3>1. inv[s] \in SignedRequest
      BY <2>0, <2>7, InviteKinds DEF FindInviter, FindMember, FindPending, CreateInvite, Enqueue
    <3>2. ASSUME NEW step \in {"member", "pending", "create", "enqueue"}, InvGoto(s, step)
          PROVE  inv'[s].pc = step
      BY <2>0, <3>1, <3>2 DEF InvGoto, InviteTypes, SignedRequest
    <3> QED
      BY <2>5, <2>7, <3>2 DEF FindInviter, FindMember, FindPending, CreateInvite, Enqueue
  <2>8. CASE VerifyToken(s) \/ FindInvite(s) \/ CheckExpiry(s) \/ FindMembership(s)
    <3>1. inv[s] \in TokenRequest /\ inv[s].tok \in Tokens /\ mail'[inv[s].tok] = "sent"
      BY <2>0, <2>1, <2>8, InviteKinds
         DEF VerifyToken, FindInvite, CheckExpiry, FindMembership, TokenRequest, JoinChecked
    <3>2. CASE VerifyToken(s)
      BY <2>0, <2>5, <3>1, <3>2 DEF VerifyToken, InvGoto, InviteTypes, TokenRequest
    <3>3. CASE FindInvite(s)
      BY <2>0, <2>5, <3>1, <3>3 DEF FindInvite, InviteTypes, TokenRequest
    <3>4. CASE CheckExpiry(s)
      BY <2>0, <2>5, <3>1, <3>4 DEF CheckExpiry, InvGoto, InviteTypes, TokenRequest
    <3>5. CASE FindMembership(s)
      BY <2>0, <2>5, <3>1, <3>5 DEF FindMembership, InvGoto, InviteTypes, TokenRequest, JoinChecked
    <3> QED
      BY <2>8, <3>2, <3>3, <3>4, <3>5
  <2>9. CASE AcceptInvite(s) \/ DeclineInvite(s) \/ ExpirePreviewed(s)
    BY <2>5, <2>9 DEF AcceptInvite, DeclineInvite, ExpirePreviewed
  <2>10. ASSUME NEW r \in Slots \ {s}, InviteArrive(r) \/ InviteStep(r) PROVE inv'[s] = inv[s]
    BY <2>0, <2>10, InviteFrame
  <2>11. ASSUME NEW r \in Slots, GroupRequest(r) PROVE inv'[s] = inv[s]
    BY <2>11 DEF GroupRequest
  <2>12. ASSUME NEW t \in Tokens, WorkMail(t) PROVE inv'[s] = inv[s]
    BY <2>12 DEF WorkMail
  <2>13. CASE CleanExpiredInvites \/ Tick \/ UNCHANGED ivars
    BY <2>2, <2>13 DEF CleanExpiredInvites, Tick, ivars
  <2>14. CASE InviteArrive(s)
    BY <2>3, <2>4, <2>14 DEF InviteArrive
  <2> QED
    BY <2>2, <2>6, <2>7, <2>8, <2>9, <2>10, <2>11, <2>12, <2>13, <2>14 DEF INext, InviteStep
<1> QED
  BY <1>1, <1>2, ITypeCorrect, MailOrderHolds, PTL DEF ISpec

\* The group endpoints let nobody into an existing group.
LEMMA NoOtherEntrance ==
  ASSUME TypeOK, NEW s \in Slots, Arrive(s) \/ GroupStep(s),
         NEW u \in Users, NEW g \in Groups, role[g][u] = "NONE", group[g] # "unborn"
  PROVE  role'[g][u] = "NONE"
<1>1. CASE UNCHANGED role
  BY <1>1
<1>2. CASE CreateGroup(s)
  BY <1>1, <1>2 DEF CreateGroup, TypeOK
<1>3. CASE DeleteGroup(s)
  BY <1>3, WritersFields DEF DeleteGroup, NoMembers, TypeOK
<1>4. CASE PromoteTarget(s)
  <2>1. req[s].group \in Groups /\ req[s].target \in Users
    BY <1>4, WritersFields DEF PromoteTarget
  <2>2. CASE TargetRole(s) # "NONE" /\ role' = [role EXCEPT ![req[s].group][req[s].target] = "OWNER"]
    BY <2>1, <2>2 DEF TargetRole, TypeOK
  <2> QED
    BY <1>1, <1>4, <2>2 DEF PromoteTarget
<1>5. CASE RemoveMember(s)
  BY <1>5, WritersFields DEF RemoveMember, TypeOK
<1>6. CASE LeaveGroup(s)
  BY <1>6, WritersFields DEF LeaveGroup, TypeOK
<1> QED
  BY <1>1, <1>2, <1>3, <1>4, <1>5, <1>6
     DEF Arrive, GroupStep, Start, StartCreate, FindName, RoleGuard, GetUserRole, FindTarget,
         FindSelf, CountOwners

\* A step that is no accept neither enters a user into a group nor marks ACCEPTED.
LEMMA OnlyAcceptJoins ==
  ASSUME ITypeOK, INext, ~\E s \in Slots : AcceptInvite(s)
  PROVE  /\ \A u \in Users, g \in Groups :
              role[g][u] = "NONE" /\ group[g] # "unborn" => role'[g][u] = "NONE"
         /\ \A t \in Tokens : status[t] # "ACCEPTED" => status'[t] # "ACCEPTED"
<1>0. TypeOK /\ InviteTypes
  BY DEF ITypeOK
<1>1. ASSUME NEW s \in Slots, GroupRequest(s)
      PROVE  /\ \A u \in Users, g \in Groups :
                  role[g][u] = "NONE" /\ group[g] # "unborn" => role'[g][u] = "NONE"
             /\ \A t \in Tokens : status[t] # "ACCEPTED" => status'[t] # "ACCEPTED"
  <2>1. \A t \in Tokens : status'[t] \in {status[t], "NONE"}
    BY <1>1 DEF GroupRequest
  <2> QED
    BY <1>0, <1>1, <2>1, NoOtherEntrance DEF GroupRequest
<1>2. CASE UNCHANGED <<role, status>>
  BY <1>2
<1>3. ASSUME NEW s \in Slots, CreateInvite(s)
      PROVE  role' = role /\ \A t \in Tokens : status[t] # "ACCEPTED" => status'[t] # "ACCEPTED"
  BY <1>0, <1>3 DEF CreateInvite, InviteTypes, vars, rows
<1>4. ASSUME NEW s \in Slots, DeclineInvite(s) \/ ExpirePreviewed(s)
      PROVE  role' = role /\ \A t \in Tokens : status[t] # "ACCEPTED" => status'[t] # "ACCEPTED"
  BY <1>0, <1>4 DEF DeclineInvite, ExpirePreviewed, MarkById, InviteTypes, vars
<1>5. CASE CleanExpiredInvites
  BY <1>0, <1>5 DEF CleanExpiredInvites, InviteTypes, vars
<1>6. ASSUME NEW s \in Slots, InviteArrive(s) PROVE UNCHANGED <<role, status>>
  BY <1>6 DEF InviteArrive, StartInvite, StartWithToken, vars, rows
<1>7. ASSUME NEW s \in Slots, InviteStep(s), ~CreateInvite(s), ~DeclineInvite(s),
             ~ExpirePreviewed(s)
      PROVE  UNCHANGED <<role, status>>
  BY <1>7
     DEF InviteStep, InviteGuard, GenerateToken, FindInviter, FindMember, FindPending, Enqueue,
         VerifyToken, FindInvite, CheckExpiry, FindMembership, vars, rows
<1>8. ASSUME NEW t \in Tokens, WorkMail(t) PROVE UNCHANGED <<role, status>>
  BY <1>8 DEF WorkMail, vars, rows
<1>9. CASE Tick
  BY <1>2, <1>9 DEF Tick, vars, rows
<1> QED
  BY <1>1, <1>2, <1>3, <1>4, <1>5, <1>6, <1>7, <1>8, <1>9 DEF INext

\* A user enters an existing group only by accepting a mailed invitation to it
\* for the user's own address, and an invitation turns ACCEPTED only so.
THEOREM InviteIsTheOnlyEntrance == ISpec => JoinOnlyByInvite
<1> DEFINE Entrance ==
      /\ \A u \in Users, g \in Groups :
           role[g][u] = "NONE" /\ role'[g][u] # "NONE" /\ group[g] # "unborn" =>
             \E t \in Tokens : /\ t.group = g /\ Canon[t.email] = Canon[EmailOf[u]]
                               /\ mail[t] = "sent" /\ status'[t] = "ACCEPTED"
      /\ \A t \in Tokens :
           status[t] # "ACCEPTED" /\ status'[t] = "ACCEPTED" =>
             \E u \in Users : /\ Canon[EmailOf[u]] = Canon[t.email]
                              /\ role[t.group][u] = "NONE"
                              /\ role'[t.group][u] = "MEMBER"
<1>1. ITypeOK /\ JoinChecked /\ [INext]_ivars => [Entrance]_ivars
  <2> SUFFICES ASSUME ITypeOK, JoinChecked, INext PROVE Entrance
    OBVIOUS
  <2>1. CASE ~\E s \in Slots : AcceptInvite(s)
    BY <2>1, OnlyAcceptJoins
  <2>2. ASSUME NEW s \in Slots, AcceptInvite(s) PROVE Entrance
    <3> DEFINE t == inv[s].tok
               u == inv[s].user
    <3>1. /\ t \in Tokens /\ t.group \in Groups /\ u \in Users
          /\ \/ Join(u, t.group) /\ status' = [status EXCEPT ![t] = "ACCEPTED"]
             \/ UNCHANGED <<vars, status>>
      BY <2>2, AcceptIsJoin DEF ITypeOK
    <3>2. mail[t] = "sent" /\ Canon[EmailOf[u]] = Canon[t.email]
      BY <2>2 DEF AcceptInvite, JoinChecked
    <3>3. CASE UNCHANGED <<vars, status>>
      BY <3>3 DEF vars
    <3>4. CASE Join(u, t.group) /\ status' = [status EXCEPT ![t] = "ACCEPTED"]
      <4>1. /\ role[t.group][u] = "NONE" /\ role'[t.group][u] = "MEMBER"
            /\ \A h \in Groups, v \in Users :
                 role'[h][v] # role[h][v] => h = t.group /\ v = u
        BY <3>1, <3>4 DEF Join, ITypeOK, TypeOK
      <4>2. /\ status'[t] = "ACCEPTED"
            /\ \A o \in Tokens : status'[o] # status[o] => o = t
        BY <3>1, <3>4 DEF ITypeOK, InviteTypes
      <4> QED
        BY <3>1, <3>2, <4>1, <4>2
    <3> QED
      BY <3>1, <3>3, <3>4
  <2> QED
    BY <2>1, <2>2
<1> QED
  BY <1>1, ITypeCorrect, JoinAlwaysChecked, PTL DEF ISpec, JoinOnlyByInvite

--------------------------------------------------------------------------------
(* Answers *)

\* The steps at which an invitation request has read something it will rely on.
PastRead == {"create", "enqueue", "expiry", "membership", "write"}

\* How a request comes to a step it reaches by a check: what it had just read.
LEMMA ReadBefore ==
  ASSUME InviteTypes, [INext]_ivars, NEW s \in Slots,
         inv'[s] # inv[s], inv'[s].pc \in PastRead
  PROVE  /\ inv[s].tok \in Tokens /\ inv'[s].tok = inv[s].tok
         /\ \/ /\ FindPending(s) /\ inv'[s].pc = "create"
               /\ ~PendingInvite(inv[s].tok.email, inv[s].tok.group)
            \/ /\ CreateInvite(s) /\ inv'[s].pc = "enqueue"
            \/ /\ FindInvite(s) /\ inv'[s].pc = "expiry"
               /\ status[inv[s].tok] = "PENDING" /\ inv'[s].seenStatus = "PENDING"
            \/ /\ CheckExpiry(s) \/ FindMembership(s)
               /\ inv[s].pc \in {"expiry", "membership"}
               /\ inv'[s].pc \in {"membership", "write"}
               /\ inv'[s].seenStatus = inv[s].seenStatus
<1> USE DEF PastRead
<1>1. ~InvReply(s)
  BY DEF InvReply, InviteTypes, Idle
<1>2. ~InviteArrive(s)
  BY DEF InviteArrive, StartInvite, StartWithToken, InviteTypes
<1>3. ~InviteGuard(s)
  <2> SUFFICES ASSUME InviteGuard(s) PROVE FALSE
    OBVIOUS
  <2>1. inv[s] \in InviteRequest
    BY InviteKinds DEF InviteGuard
  <2> QED
    BY <1>1, <2>1 DEF InviteGuard, InvGoto, InviteTypes, InviteRequest
<1>4. ~GenerateToken(s)
  BY DEF GenerateToken, InviteTypes
<1>5. ~FindInviter(s) /\ ~FindMember(s)
  <2> SUFFICES ASSUME FindInviter(s) \/ FindMember(s) PROVE FALSE
    OBVIOUS
  <2>1. inv[s] \in SignedRequest
    BY InviteKinds DEF FindInviter, FindMember
  <2> QED
    BY <1>1, <2>1 DEF FindInviter, FindMember, InvGoto, InviteTypes, SignedRequest
<1>6. CASE FindPending(s)
  <2>1. inv[s] \in SignedRequest /\ inv[s].tok \in Tokens
    BY <1>6, InviteKinds DEF FindPending, SignedRequest
  <2> QED
    BY <1>1, <1>6, <2>1 DEF FindPending, InvGoto, InviteTypes, SignedRequest
<1>7. CASE CreateInvite(s)
  <2>1. inv[s] \in SignedRequest /\ inv[s].tok \in Tokens
    BY <1>7, InviteKinds DEF CreateInvite, SignedRequest
  <2> QED
    BY <1>1, <1>7, <2>1 DEF CreateInvite, InvGoto, InviteTypes, SignedRequest
<1>8. ~Enqueue(s) /\ ~AcceptInvite(s) /\ ~DeclineInvite(s) /\ ~ExpirePreviewed(s)
  BY <1>1 DEF Enqueue, AcceptInvite, DeclineInvite, ExpirePreviewed
<1>9. ~VerifyToken(s)
  <2> SUFFICES ASSUME VerifyToken(s) PROVE FALSE
    OBVIOUS
  <2>1. inv[s] \in TokenRequest
    BY InviteKinds DEF VerifyToken
  <2> QED
    BY <1>1, <2>1 DEF VerifyToken, InvGoto, InviteTypes, TokenRequest
<1>10. CASE FindInvite(s)
  <2>1. inv[s] \in TokenRequest /\ inv[s].tok \in Tokens
    BY <1>10, InviteKinds DEF FindInvite, TokenRequest
  <2> QED
    BY <1>1, <1>10, <2>1 DEF FindInvite, InviteTypes, TokenRequest
<1>11. CASE CheckExpiry(s) \/ FindMembership(s)
  <2>1. inv[s] \in TokenRequest /\ inv[s].tok \in Tokens
    BY <1>11, InviteKinds DEF CheckExpiry, FindMembership, TokenRequest
  <2>2. inv[s].pc \in {"expiry", "membership"}
    BY <1>11 DEF CheckExpiry, FindMembership
  <2>3. \E step \in {"membership", "write"} : InvGoto(s, step)
    BY <1>1, <1>11 DEF CheckExpiry, FindMembership
  <2> QED
    BY <1>11, <2>1, <2>2, <2>3 DEF InvGoto, InviteTypes, TokenRequest
<1>12. ASSUME NEW r \in Slots \ {s} PROVE ~InviteArrive(r) /\ ~InviteStep(r)
  BY <1>12, InviteFrame
<1>13. /\ ~CleanExpiredInvites /\ ~Tick /\ ~UNCHANGED ivars
       /\ \A r \in Slots : ~GroupRequest(r)
       /\ \A t \in Tokens : ~WorkMail(t)
  BY DEF CleanExpiredInvites, Tick, ivars, GroupRequest, WorkMail
<1>14. InviteStep(s)
  BY <1>2, <1>12, <1>13 DEF INext
<1> QED
  BY <1>3, <1>4, <1>5, <1>6, <1>7, <1>8, <1>9, <1>10, <1>11, <1>14 DEF InviteStep

\* Who changes the row of an invitation: the deletion of its group, its creation,
\* a request that answers it or previews it, or the nightly clean-up.
LEMMA RowWriters ==
  ASSUME InviteTypes, [INext]_ivars, NEW t \in Tokens, status'[t] # status[t]
  PROVE  \/ status'[t] = "NONE"
         \/ \E s \in Slots : /\ CreateInvite(s) /\ inv[s].tok = t
                             /\ status[t] = "NONE" /\ status'[t] = "PENDING"
         \/ \E s \in Slots : /\ inv[s].pc = "write" /\ inv'[s] = Idle /\ inv[s].tok = t
                             /\ status'[t] \in Terminal
         \/ status[t] = "PENDING" /\ status'[t] = "EXPIRED"
<1>1. ASSUME NEW s \in Slots, GroupRequest(s) PROVE status'[t] = "NONE"
  BY <1>1 DEF GroupRequest
<1>2. ASSUME NEW s \in Slots, CreateInvite(s)
      PROVE  inv[s].tok = t /\ status[t] = "NONE" /\ status'[t] = "PENDING"
  <2>1. inv[s].tok \in Tokens
    BY <1>2, InviteKinds DEF CreateInvite, SignedRequest
  <2> QED
    BY <1>2, <2>1 DEF CreateInvite, InviteTypes, rows
<1>3. ASSUME NEW s \in Slots, AcceptInvite(s)
      PROVE  /\ inv[s].pc = "write" /\ inv'[s] = Idle /\ inv[s].tok = t
             /\ status'[t] \in Terminal
  <2>1. inv[s].tok \in Tokens /\ status' = [status EXCEPT ![inv[s].tok] = "ACCEPTED"]
    BY <1>3, AcceptIsJoin
  <2> QED
    BY <1>3, <2>1 DEF AcceptInvite, InvReply, InviteTypes, Terminal
<1>4. ASSUME NEW s \in Slots, DeclineInvite(s) \/ ExpirePreviewed(s)
      PROVE  /\ inv[s].pc = "write" /\ inv'[s] = Idle /\ inv[s].tok = t
             /\ status'[t] \in Terminal
  <2>1. inv[s].tok \in Tokens
    BY <1>4, InviteKinds DEF DeclineInvite, ExpirePreviewed, TokenRequest
  <2> QED
    BY <1>4, <2>1 DEF DeclineInvite, ExpirePreviewed, MarkById, InvReply, InviteTypes, Terminal
<1>5. ASSUME CleanExpiredInvites PROVE status[t] = "PENDING" /\ status'[t] = "EXPIRED"
  BY <1>5 DEF CleanExpiredInvites, InviteTypes
<1>6. ASSUME NEW s \in Slots PROVE ~InviteArrive(s)
  BY DEF InviteArrive, StartInvite, StartWithToken, rows
<1>7. ASSUME NEW s \in Slots, InviteStep(s)
      PROVE  CreateInvite(s) \/ AcceptInvite(s) \/ DeclineInvite(s) \/ ExpirePreviewed(s)
  BY <1>7
     DEF InviteStep, InviteGuard, GenerateToken, FindInviter, FindMember, FindPending, Enqueue,
         VerifyToken, FindInvite, CheckExpiry, FindMembership, rows
<1>8. ~Tick /\ ~UNCHANGED ivars /\ \A o \in Tokens : ~WorkMail(o)
  BY DEF Tick, ivars, WorkMail, rows
<1> QED
  BY <1>1, <1>2, <1>3, <1>4, <1>5, <1>6, <1>7, <1>8 DEF INext

\* Whoever comes past ensureInvitePending has read PENDING.
FoundPending ==
  \A s \in Slots :
    inv[s].pc \in {"expiry", "membership", "write"} => inv[s].seenStatus = "PENDING"

LEMMA AlwaysFoundPending == ISpec => []FoundPending
<1>1. IInit => FoundPending
  BY DEF IInit, FoundPending, Idle
<1>2. InviteTypes /\ FoundPending /\ [INext]_ivars => FoundPending'
  <2> SUFFICES ASSUME InviteTypes, FoundPending, [INext]_ivars, NEW s \in Slots,
                      inv'[s].pc \in {"expiry", "membership", "write"}
               PROVE  inv'[s].seenStatus = "PENDING"
    BY DEF FoundPending
  <2>1. CASE inv'[s] = inv[s]
    BY <2>1 DEF FoundPending
  <2>2. CASE inv'[s] # inv[s]
    BY <2>2, ReadBefore DEF FoundPending, PastRead
  <2> QED
    BY <2>1, <2>2
<1> QED
  BY <1>1, <1>2, InviteTypesHold, PTL DEF ISpec

\* A settled invitation is rewritten, if at all, by a request that had found it
\* PENDING: the only writers besides it create the row, clean PENDING rows, or
\* delete the group.
THEOREM SettledByStaleReadOnly == ISpec => SettledRewrittenOnlyByStaleRead
<1> DEFINE StaleOnly ==
      \A t \in Tokens :
        status[t] \in Terminal /\ status'[t] \notin {status[t], "NONE"} =>
          \E s \in Slots : /\ inv[s].pc = "write" /\ inv'[s] = Idle
                           /\ inv[s].tok = t
                           /\ inv[s].seenStatus = "PENDING"
<1>1. InviteTypes /\ FoundPending /\ [INext]_ivars => [StaleOnly]_ivars
  BY RowWriters DEF FoundPending, Terminal
<1> QED
  BY <1>1, InviteTypesHold, AlwaysFoundPending, PTL DEF ISpec, SettledRewrittenOnlyByStaleRead

--------------------------------------------------------------------------------
(* Requests that do not overlap *)

\* Requests that do not overlap answer as the atomic group operations do, with
\* invitations as their joins.
THEOREM SerialInvitesRefine ==
  ASSUME NEW one, Slots = {one}
  PROVE  ISpec => ImplementsAtomicGroups
BY Composition, SerialRefinement DEF ImplementsMembership

\* Without overlapping requests every live group keeps an owner, with
\* invitations too.
THEOREM SerialInvitesOwned ==
  ASSUME NEW one, Slots = {one}
  PROVE  ISpec => []OwnerExists
BY Composition, SerialOwnerExists DEF ImplementsMembership

\* What the only request has read of the invitations still holds.
InviteReadsCurrent ==
  \A s \in Slots :
    /\ inv[s].pc = "create" => ~PendingInvite(inv[s].tok.email, inv[s].tok.group)
    /\ inv[s].pc \in {"expiry", "membership", "write"} =>
         status[inv[s].tok] \notin {"ACCEPTED", "DECLINED"}

\* Pending invitations are made by createInvite alone, and only grow old.
LEMMA PendingOnlyCreated ==
  ASSUME InviteTypes, [INext]_ivars, NEW t \in Tokens,
         status'[t] = "PENDING", expires'[t] > now', ~\E s \in Slots : CreateInvite(s)
  PROVE  status[t] = "PENDING" /\ expires[t] > now
<1>1. status[t] = "PENDING"
  BY RowWriters DEF Terminal
<1>2. expires' = expires
  <2>1. ASSUME NEW s \in Slots, InviteArrive(s) \/ GroupRequest(s) PROVE expires' = expires
    BY <2>1 DEF InviteArrive, StartInvite, StartWithToken, GroupRequest, rows
  <2>2. ASSUME NEW s \in Slots, InviteStep(s), ~CreateInvite(s) PROVE expires' = expires
    BY <2>2
       DEF InviteStep, InviteGuard, GenerateToken, FindInviter, FindMember, FindPending, Enqueue,
           VerifyToken, FindInvite, CheckExpiry, FindMembership, AcceptInvite, DeclineInvite,
           ExpirePreviewed, rows
  <2> QED
    BY <2>1, <2>2 DEF INext, WorkMail, CleanExpiredInvites, Tick, ivars, rows
<1>3. now \in Nat /\ expires[t] \in Nat /\ now' \in Nat /\ now' >= now
  <2>1. now \in Nat /\ expires[t] \in Nat
    BY Lifetimes DEF InviteTypes
  <2>2. now' = now \/ now' = now + 1
    BY DEF INext, InviteArrive, StartInvite, StartWithToken, GroupRequest, InviteStep, InviteGuard,
           GenerateToken, FindInviter, FindMember, FindPending, CreateInvite, Enqueue, VerifyToken,
           FindInvite, CheckExpiry, FindMembership, AcceptInvite, DeclineInvite, ExpirePreviewed,
           WorkMail, CleanExpiredInvites, Tick, ivars
  <2> QED
    BY <2>1, <2>2
<1> QED
  BY <1>1, <1>2, <1>3

\* With a single slot nothing comes between findFirst and create, nor between
\* the check of the status and the write.
LEMMA SerialInviteReads ==
  ASSUME NEW one, Slots = {one}
  PROVE  ISpec => []InviteReadsCurrent
<1>1. IInit => InviteReadsCurrent
  BY DEF IInit, InviteReadsCurrent, Idle
<1>2. InviteTypes /\ InviteReadsCurrent /\ [INext]_ivars => InviteReadsCurrent'
  <2> SUFFICES ASSUME InviteTypes, InviteReadsCurrent, [INext]_ivars
               PROVE  InviteReadsCurrent'
    OBVIOUS
  <2>1. ASSUME inv'[one].pc = "create", NEW t \in Tokens,
               SameInvite(t, inv'[one].tok.email, inv'[one].tok.group),
               status'[t] = "PENDING", expires'[t] > now'
        PROVE  FALSE
    <3>1. \A s \in Slots : ~CreateInvite(s)
      <4> SUFFICES ASSUME CreateInvite(one) PROVE FALSE
        OBVIOUS
      <4>1. inv[one] \in SignedRequest
        BY InviteKinds DEF CreateInvite
      <4> QED
        BY <2>1, <4>1 DEF CreateInvite, InvGoto, InvReply, InviteTypes, SignedRequest, Idle
    <3>2. status[t] = "PENDING" /\ expires[t] > now
      BY <2>1, <3>1, PendingOnlyCreated
    <3>3. /\ inv'[one].tok = inv[one].tok
          /\ ~PendingInvite(inv[one].tok.email, inv[one].tok.group)
      BY <2>1, ReadBefore DEF PastRead, InviteReadsCurrent
    <3> QED
      BY <2>1, <3>2, <3>3 DEF PendingInvite
  <2>2. ASSUME inv'[one].pc \in {"expiry", "membership", "write"},
               status'[inv'[one].tok] \in {"ACCEPTED", "DECLINED"}
        PROVE  FALSE
    <3>1. /\ inv'[one].tok = inv[one].tok
          /\ inv[one].tok \in Tokens
          /\ status[inv[one].tok] \notin {"ACCEPTED", "DECLINED"}
      <4>1. CASE inv'[one] = inv[one]
        BY <2>2, <4>1, InviteKinds DEF InviteReadsCurrent, TokenRequest
      <4>2. CASE inv'[one] # inv[one]
        BY <2>2, <4>2, ReadBefore DEF PastRead, InviteReadsCurrent
      <4> QED
        BY <4>1, <4>2
    <3>2. inv'[one] # Idle
      BY <2>2 DEF Idle
    <3> QED
      BY <2>2, <3>1, <3>2, RowWriters
  <2> QED
    BY <2>1, <2>2 DEF InviteReadsCurrent, PendingInvite, SameInvite
<1> QED
  BY <1>1, <1>2, InviteTypesHold, PTL DEF ISpec

\* An address has at most one pending invitation to a group when requests do not
\* overlap: findFirst sees every one that create could double.
THEOREM SerialOnePending ==
  ASSUME NEW one, Slots = {one}
  PROVE  ISpec => []OnePendingPerEmail
<1>1. IInit => OnePendingPerEmail
  BY DEF IInit, OnePendingPerEmail
<1>2. InviteTypes /\ InviteReadsCurrent /\ OnePendingPerEmail /\ [INext]_ivars
        => OnePendingPerEmail'
  <2> SUFFICES ASSUME InviteTypes, InviteReadsCurrent, OnePendingPerEmail, [INext]_ivars,
                      NEW t \in Tokens, NEW o \in Tokens,
                      SameInvite(t, o.email, o.group),
                      status'[t] = "PENDING", status'[o] = "PENDING",
                      expires'[t] > now', expires'[o] > now'
               PROVE  t = o
    BY DEF OnePendingPerEmail
  <2>1. CASE ~\E s \in Slots : CreateInvite(s)
    BY <2>1, PendingOnlyCreated DEF OnePendingPerEmail
  <2>2. CASE CreateInvite(one)
    <3>1. PICK c \in Tokens : c = inv[one].tok
      BY <2>2, InviteKinds DEF CreateInvite, SignedRequest
    <3>2. /\ now' = now
          /\ \A p \in Tokens \ {c} : status'[p] = status[p] /\ expires'[p] = expires[p]
      BY <2>2, <3>1 DEF CreateInvite, InviteTypes, rows
    <3>3. \A p \in Tokens :
            SameInvite(p, c.email, c.group) => ~(status[p] = "PENDING" /\ expires[p] > now)
      BY <2>2, <3>1 DEF CreateInvite, InviteReadsCurrent, PendingInvite
    <3>4. CASE t = c
      BY <3>2, <3>3, <3>4 DEF SameInvite
    <3>5. CASE o = c
      BY <3>2, <3>3, <3>5 DEF SameInvite
    <3>6. CASE t # c /\ o # c
      BY <3>2, <3>6 DEF OnePendingPerEmail
    <3> QED
      BY <3>4, <3>5, <3>6
  <2> QED
    BY <2>1, <2>2
<1>3. ISpec => []InviteReadsCurrent
  BY SerialInviteReads
<1> QED
  BY <1>1, <1>2, <1>3, InviteTypesHold, PTL DEF ISpec

\* The recipient's answer is final when requests do not overlap: the status that
\* ensureInvitePending found is the one the write replaces.
THEOREM SerialAnswerIsFinal ==
  ASSUME NEW one, Slots = {one}
  PROVE  ISpec => AnswerIsFinal
<1> DEFINE Final ==
      \A t \in Tokens :
        status[t] \in {"ACCEPTED", "DECLINED"} => status'[t] \in {status[t], "NONE"}
<1>1. InviteTypes /\ InviteReadsCurrent /\ [INext]_ivars => [Final]_ivars
  BY RowWriters DEF InviteReadsCurrent
<1>2. ISpec => []InviteReadsCurrent
  BY SerialInviteReads
<1> QED
  BY <1>1, <1>2, InviteTypesHold, PTL DEF ISpec, AnswerIsFinal

================================================================================
