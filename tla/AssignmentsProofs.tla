--------------------------- MODULE AssignmentsProofs ----------------------------
(***************************************************************************)
(* Theorems about Assignments, for any users, groups, assignments and      *)
(* number of overlapping requests: types, no assignment without its group, *)
(* completion, which only a status request undoes, and the checks of       *)
(* access and of a reschedule: whose a personal assignment is holds at the *)
(* write whatever overlaps, the rest unless something changed in between.  *)
(***************************************************************************)
EXTENDS Assignments, FiniteSetTheorems, TLAPS

Calls == {Idle} \cup Creations \cup Changes

\* A row is neither of the marks of an absent one.
LEMMA RowsExist ==
  ASSUME TypeOK, NEW i \in Ids
  PROVE  /\ Exists(i) <=> task[i] \in Rows
         /\ \A r \in Rows : r \notin {Unborn, Gone}
<1>1. \A r \in Rows : r.status \notin {"unborn", "gone"}
  BY Inputs DEF Rows
<1>2. Unborn.status = "unborn" /\ Gone.status = "gone"
  BY DEF Unborn, Gone
<1>3. task[i] \in Rows \cup {Unborn, Gone}
  BY DEF TypeOK
<1> QED
  BY <1>1, <1>2, <1>3 DEF Exists

\* The program counter and the operation tell the shape of a request.
LEMMA Shapes ==
  ASSUME TypeOK, NEW s \in Slots
  PROVE  /\ call[s] \in Calls
         /\ call[s] = Idle <=> call[s].pc = "idle"
         /\ call[s].pc \in {"read", "member", "owner", "groups", "day"} => call[s] \in Changes
         /\ call[s].pc = "group" => call[s] \in Creations
         /\ call[s] # Idle /\ call[s].op = "create" => call[s] \in Creations
         /\ call[s] # Idle /\ call[s].op # "create" => call[s] \in Changes
<1>1. call[s] \in Calls
  BY DEF TypeOK, Calls
<1>2. Idle.pc = "idle"
  BY DEF Idle
<1>3. \A r \in Creations : r.op = "create" /\ r.pc \in {"group", "write"}
  BY DEF Creations
<1>4. \A r \in Changes : /\ r.op # "create"
                         /\ r.pc \in {"read", "member", "owner", "groups", "day", "write"}
  BY DEF Changes
<1> QED
  BY <1>1, <1>2, <1>3, <1>4 DEF Calls

\* What a handler does to its own slot keeps the requests well formed.
LEMMA CallsKept ==
  ASSUME TypeOK, NEW s \in Slots,
         NEW c \in [Slots -> Calls], NEW r \in Calls, call' = [c EXCEPT ![s] = r]
  PROVE  call' \in [Slots -> Calls]
OBVIOUS

\* Losing the mark of an undisturbed request changes nothing else.
LEMMA UpsetKept ==
  ASSUME TypeOK
  PROVE  /\ Upset(call) \in [Slots -> Calls]
         /\ \A s \in Slots : Upset(call)[s] = Idle <=> call[s] = Idle
<1> SUFFICES ASSUME NEW s \in Slots
             PROVE  Upset(call)[s] \in Calls /\ (Upset(call)[s] = Idle <=> call[s] = Idle)
  BY DEF Upset
<1>1. CASE call[s] = Idle
  BY <1>1 DEF Upset, Calls
<1>2. CASE call[s] # Idle
  <2>1. Upset(call)[s] = [call[s] EXCEPT !.calm = FALSE]
    BY <1>2 DEF Upset
  <2>2. call[s] \in Creations \cup Changes
    BY <1>2, Shapes DEF Calls
  <2>3. [call[s] EXCEPT !.calm = FALSE] \in Creations \cup Changes
    BY <2>2 DEF Creations, Changes
  <2>4. \A r \in Creations \cup Changes : r.pc # "idle"
    BY DEF Creations, Changes
  <2>5. Idle.pc = "idle"
    BY DEF Idle
  <2> QED
    BY <1>2, <2>1, <2>3, <2>4, <2>5 DEF Calls
<1> QED
  BY <1>1, <1>2

\* How a request ends and how it goes on.
LEMMA RequestSteps ==
  ASSUME TypeOK, NEW s \in Slots
  PROVE  /\ Reply(s) \/ Written(s) => call' \in [Slots -> Calls]
         /\ \A step \in {"member", "owner", "groups", "day", "write"} :
              call[s] \in Changes /\ Goto(s, step) => call' \in [Slots -> Calls]
         /\ \A r \in Changes : Admit(s, r) => call' \in [Slots -> Calls]
<1>1. Idle \in Calls /\ call \in [Slots -> Calls] /\ Upset(call) \in [Slots -> Calls]
  BY UpsetKept DEF Calls, TypeOK
<1>2. Reply(s) \/ Written(s) => call' \in [Slots -> Calls]
  BY <1>1 DEF Reply, Written
<1>3. ASSUME NEW step \in {"member", "owner", "groups", "day", "write"}, NEW r \in Changes
      PROVE  [r EXCEPT !.pc = step] \in Calls
  BY DEF Changes, Calls
<1>4. ASSUME NEW step \in {"member", "owner", "groups", "day", "write"},
             call[s] \in Changes, Goto(s, step)
      PROVE  call' \in [Slots -> Calls]
  <2>1. call' = [call EXCEPT ![s] = [call[s] EXCEPT !.pc = step]]
    BY <1>4 DEF Goto
  <2> QED
    BY <1>1, <1>3, <1>4, <2>1
<1>5. ASSUME NEW r \in Changes, Admit(s, r) PROVE call' \in [Slots -> Calls]
  BY <1>1, <1>2, <1>3, <1>5 DEF Admit
<1> QED
  BY <1>2, <1>4, <1>5

\* A written row is a row again.
LEMMA WriteKept ==
  ASSUME TypeOK, NEW s \in Slots, NEW op, op # "create", NEW new,
         Exists(call[s].id) => new \in Rows \cup {Gone}, WriteTask(s, op, new)
  PROVE  TypeOK'
<1>1. call[s] \in Changes
  <2>1. call[s].pc = "write" /\ call[s].op # "create"
    BY DEF WriteTask
  <2> QED
    BY <2>1, Shapes
<1>2. call[s].id \in Ids
  BY <1>1 DEF Changes
<1>3. task' \in [Ids -> Rows \cup {Unborn, Gone}]
  BY <1>2 DEF WriteTask, TypeOK
<1>4. call' \in [Slots -> Calls]
  BY RequestSteps DEF WriteTask
<1> QED
  BY <1>3, <1>4 DEF WriteTask, OnlyTasks, TypeOK, Calls

LEMMA TypeInit == Init => TypeOK
BY Inputs DEF Init, TypeOK

LEMMA RequestsTyped ==
  ASSUME TypeOK, NEW s \in Slots, Arrive(s) \/ TaskStep(s)
  PROVE  TypeOK'
<1>1. call \in [Slots -> Calls]
  BY DEF TypeOK, Calls
<1>2. ASSUME Reads, call' \in [Slots -> Calls] PROVE TypeOK'
  BY <1>2 DEF Reads, TypeOK, Calls
<1>3. ASSUME NEW u \in Users, NEW home \in Users \cup Groups, StartCreate(s, u, home) PROVE TypeOK'
  <2>1. \A pc \in {"write", "group"} :
          [op |-> "create", pc |-> pc, user |-> u, home |-> home, calm |-> TRUE] \in Calls
    BY DEF Creations, Calls
  <2>2. call' \in [Slots -> Calls]
    BY <1>1, <1>3, <2>1 DEF StartCreate
  <2> QED
    BY <1>2, <1>3, <2>2 DEF StartCreate
<1>4. ASSUME NEW u \in Users, NEW op \in {"update", "remove", "status", "reschedule"}, NEW i \in Ids,
             Start(s, op, u, i)
      PROVE  TypeOK'
  <2>1. PICK d \in Days \cup {0} :
          call' = [call EXCEPT ![s] =
                     [op |-> op, pc |-> "read", user |-> u, id |-> i, home |-> u,
                      priority |-> "LOW", target |-> Midnight(d), groups |-> {}, calm |-> TRUE]]
    BY <1>4 DEF Start
  <2>2. Midnight(d) \in Int
    BY Inputs DEF Midnight, TypeOK
  <2>3. [op |-> op, pc |-> "read", user |-> u, id |-> i, home |-> u, priority |-> "LOW",
         target |-> Midnight(d), groups |-> {}, calm |-> TRUE] \in Calls
    BY <2>2 DEF Changes, Calls
  <2> QED
    BY <1>1, <1>2, <1>4, <2>1, <2>3 DEF Start
<1>5. ASSUME FindGroup(s) PROVE TypeOK'
  <2>1. call[s] \in Creations
    BY <1>5, Shapes DEF FindGroup
  <2>2. [call[s] EXCEPT !.pc = "write"] \in Calls
    BY <2>1 DEF Creations, Calls
  <2> QED
    BY <1>1, <1>2, <1>5, <2>2, RequestSteps DEF FindGroup, Goto
<1>6. ASSUME CreateTask(s) PROVE TypeOK'
  <2>1. call[s] \in Creations
    BY <1>6, Shapes DEF CreateTask, Idle
  <2>2. CASE InsertTask(s)
    <3>1. PICK i \in Ids, p \in Priorities, due \in Instants :
            task' = [task EXCEPT ![i] = [home |-> call[s].home, priority |-> p, due |-> due,
                                         status |-> "PENDING"]]
      BY <2>2 DEF InsertTask
    <3>2. [home |-> call[s].home, priority |-> p, due |-> due, status |-> "PENDING"] \in Rows
      BY <2>1, Inputs DEF Creations, Rows
    <3>3. task' \in [Ids -> Rows \cup {Unborn, Gone}]
      BY <3>1, <3>2 DEF TypeOK
    <3> QED
      BY <1>6, <3>3, RequestSteps DEF CreateTask, OnlyTasks, TypeOK, Calls
  <2>3. CASE UNCHANGED task /\ Reply(s)
    BY <1>6, <2>3, <1>2, RequestSteps DEF CreateTask, OnlyTasks, Reads
  <2> QED
    BY <1>6, <2>2, <2>3 DEF CreateTask
<1>7. ASSUME ReadTask(s) PROVE TypeOK'
  <2>1. call[s] \in Changes
    BY <1>7, Shapes DEF ReadTask
  <2> DEFINE i == call[s].id
             found == [call[s] EXCEPT !.home = task[i].home, !.priority = task[i].priority]
  <2>2. CASE Reply(s)
    BY <1>7, <2>2, <1>2, RequestSteps DEF ReadTask
  <2>3. CASE Exists(i) /\ Admit(s, found)
    <3>1. task[i] \in Rows
      BY <2>1, <2>3, RowsExist DEF Changes
    <3>2. found \in Changes
      BY <2>1, <3>1 DEF Changes, Rows
    <3> QED
      BY <1>2, <1>7, <2>3, <3>2, RequestSteps DEF ReadTask
  <2>4. CASE Exists(i) /\ call' = [call EXCEPT ![s] = [found EXCEPT !.pc = "member"]]
    <3>1. task[i] \in Rows
      BY <2>1, <2>4, RowsExist DEF Changes
    <3>2. [found EXCEPT !.pc = "member"] \in Calls
      BY <2>1, <3>1 DEF Changes, Rows, Calls
    <3> QED
      BY <1>1, <1>2, <1>7, <2>4, <3>2 DEF ReadTask
  <2> QED
    BY <1>7, <2>2, <2>3, <2>4 DEF ReadTask
<1>8. ASSUME ReadMember(s) \/ CheckOwner(s) \/ CheckDay(s) PROVE TypeOK'
  <2>1. call[s] \in Changes
    BY <1>8, Shapes DEF ReadMember, CheckOwner, CheckDay
  <2>2. Reply(s) \/ Goto(s, "owner") \/ Goto(s, "write") \/ Admit(s, call[s])
    BY <1>8 DEF ReadMember, CheckOwner, CheckDay
  <2>3. call' \in [Slots -> Calls]
    BY <2>1, <2>2, RequestSteps
  <2> QED
    BY <1>2, <1>8, <2>3 DEF ReadMember, CheckOwner, CheckDay
<1>9. ASSUME GetUserGroupIds(s) PROVE TypeOK'
  <2>1. call[s] \in Changes
    BY <1>9, Shapes DEF GetUserGroupIds
  <2>2. ASSUME NEW gs \in SUBSET Groups
        PROVE  [call[s] EXCEPT !.pc = "day", !.groups = gs] \in Calls
    BY <2>1 DEF Changes, Calls
  <2>3. {g \in Groups : role[g][call[s].user] # "NONE"} \in SUBSET Groups
    OBVIOUS
  <2> QED
    BY <1>1, <1>2, <1>9, <2>2, <2>3 DEF GetUserGroupIds
<1>10. ASSUME UpdateTask(s) PROVE TypeOK'
  <2>1. ASSUME NEW due \in Instants, NEW p \in Priorities \cup {"kept"},
               WriteTask(s, "update", [task[call[s].id] EXCEPT !.due = due,
                                         !.priority = IF p = "kept" THEN @ ELSE p])
        PROVE  TypeOK'
    <3> DEFINE new == [task[call[s].id] EXCEPT !.due = due, !.priority = IF p = "kept" THEN @ ELSE p]
    <3>1. ASSUME Exists(call[s].id) PROVE new \in Rows
      <4>1. task[call[s].id] \in Rows
        BY <2>1, <3>1, Shapes, RowsExist DEF WriteTask, Idle, Changes
      <4> QED
        BY <4>1, Inputs DEF Rows
    <3> QED
      BY <2>1, <3>1, WriteKept
  <2>2. CASE UNCHANGED task /\ Reply(s) /\ OnlyTasks
    BY <2>2, <1>2, RequestSteps DEF OnlyTasks, Reads
  <2> QED
    BY <1>10, <2>1, <2>2 DEF UpdateTask
<1>11. ASSUME RemoveTask(s) PROVE TypeOK'
  BY <1>11, WriteKept DEF RemoveTask
<1>12. ASSUME SetStatus(s) PROVE TypeOK'
  <2>1. PICK status \in Statuses :
          WriteTask(s, "status", [task[call[s].id] EXCEPT !.status = status])
    BY <1>12 DEF SetStatus
  <2>2. ASSUME Exists(call[s].id) PROVE [task[call[s].id] EXCEPT !.status = status] \in Rows
    <3>1. task[call[s].id] \in Rows
      BY <2>1, <2>2, Shapes, RowsExist DEF WriteTask, Idle, Changes
    <3> QED
      BY <3>1 DEF Rows
  <2> QED
    BY <2>1, <2>2, WriteKept
<1>13. ASSUME MoveTask(s) PROVE TypeOK'
  <2>1. WriteTask(s, "reschedule", [task[call[s].id] EXCEPT !.due = call[s].target])
    BY <1>13 DEF MoveTask
  <2>2. call[s] \in Changes
    BY <2>1, Shapes DEF WriteTask, Idle
  <2>3. ASSUME Exists(call[s].id) PROVE [task[call[s].id] EXCEPT !.due = call[s].target] \in Rows
    <3>1. task[call[s].id] \in Rows
      BY <2>2, <2>3, RowsExist DEF Changes
    <3> QED
      BY <2>2, <3>1 DEF Rows, Changes
  <2> QED
    BY <2>1, <2>3, WriteKept
<1> QED
  BY <1>3, <1>4, <1>5, <1>6, <1>7, <1>8, <1>9, <1>10, <1>11, <1>12, <1>13 DEF Arrive, TaskStep


\* The types hold, whatever the midnight job, the clock and the groups do.
THEOREM AssignmentTypes == Spec => []TypeOK
<1>1. TypeOK /\ [Next]_avars => TypeOK'
  <2> SUFFICES ASSUME TypeOK, [Next]_avars PROVE TypeOK'
    OBVIOUS
  <2>1. Upset(call) \in [Slots -> Calls]
    BY UpsetKept
  <2>2. ASSUME NEW s \in Slots, Arrive(s) \/ TaskStep(s) PROVE TypeOK'
    BY <2>2, RequestsTyped
  <2>3. CASE MarkOverdue
    <3>1. \A i \in Past \cap Unfinished : i \in Ids /\ Exists(i)
      BY DEF Past, Stored
    <3>2. ASSUME NEW i \in Past \cap Unfinished
          PROVE  [task[i] EXCEPT !.status = "OVERDUE"] \in Rows
      <4>1. task[i] \in Rows
        BY <3>1, RowsExist
      <4> QED
        BY <4>1 DEF Rows
    <3>3. task' \in [Ids -> Rows \cup {Unborn, Gone}]
      BY <2>3, <3>2 DEF MarkOverdue, Sweep, TypeOK
    <3> QED
      BY <2>1, <2>3, <3>3 DEF MarkOverdue, Sweep, TypeOK, Calls
  <2>4. CASE MissRun
    BY <2>4 DEF MissRun, TypeOK
  <2>5. CASE Tick
    <3>1. ASSUME NEW n \in Int PROVE Earlier(n) \in Int
      BY DEF Earlier, LongAgo
    <3>2. ASSUME NEW i \in Ids, Exists(i) PROVE [task[i] EXCEPT !.due = Earlier(@)] \in Rows
      <4>1. task[i] \in Rows
        BY <3>2, RowsExist
      <4> QED
        BY <3>1, <4>1 DEF Rows
    <3>3. task' \in [Ids -> Rows \cup {Unborn, Gone}]
      BY <2>5, <3>2 DEF Tick, TypeOK
    <3> DEFINE calls == IF half = 1 THEN Upset(call) ELSE call
    <3>4. calls \in [Slots -> Calls]
      BY <2>1 DEF TypeOK, Calls
    <3>5. ASSUME NEW s \in Slots, calls[s] # Idle, calls[s].op # "create"
          PROVE  [calls[s] EXCEPT !.target = Earlier(@)] \in Calls
      <4>1. calls[s] \in Changes
        <5>1. \A r \in Creations : r.op = "create"
          BY DEF Creations
        <5> QED
          BY <3>4, <3>5, <5>1 DEF Calls
      <4> QED
        BY <3>1, <4>1 DEF Changes, Calls
    <3>6. call' = [s \in Slots |-> IF calls[s] # Idle /\ calls[s].op # "create"
                                  THEN [calls[s] EXCEPT !.target = Earlier(@)] ELSE calls[s]]
      BY <2>5 DEF Tick
    <3>7. call' \in [Slots -> Calls]
      BY <3>4, <3>5, <3>6
    <3>8. half' \in {0, 1} /\ cron' \in BOOLEAN
      BY <2>5 DEF Tick, TypeOK
    <3> QED
      BY <2>5, <3>3, <3>7, <3>8 DEF Tick, TypeOK, Calls
  <2>6. ASSUME NEW u \in Users, NEW g \in Groups, NEW r \in {"NONE", "MEMBER", "OWNER"}, SetRole(u, g, r)
        PROVE  TypeOK'
    BY <2>1, <2>6 DEF SetRole, TypeOK, Calls
  <2>7. ASSUME NEW g \in live, DropGroup(g) PROVE TypeOK'
    BY <2>1, <2>7 DEF DropGroup, TypeOK, Calls
  <2>8. CASE UNCHANGED avars
    BY <2>8 DEF avars, TypeOK
  <2> QED
    BY <2>2, <2>3, <2>4, <2>5, <2>6, <2>7, <2>8 DEF Next
<1> QED
  BY TypeInit, <1>1, PTL DEF Spec

--------------------------------------------------------------------------------
(* What a request does to the table of assignments *)

\* A request that writes touches the row it names, which is there, and keeps its
\* home; only create adds a row, of a live home.
LEMMA RequestWrites ==
  ASSUME TypeOK, NEW s \in Slots, Arrive(s) \/ TaskStep(s), NEW i \in Ids, task'[i] # task[i]
  PROVE  \/ /\ task[i] = Unborn
            /\ task'[i].home \in Users \cup live /\ task'[i].status = "PENDING"
         \/ /\ Exists(i) /\ i = call[s].id /\ call[s].pc = "write" /\ call'[s] = Idle
            /\ \/ task'[i] = Gone
               \/ /\ task'[i] # Unborn /\ task'[i].home = task[i].home
                  /\ task'[i].status = task[i].status \/ call[s].op = "status"
<1>1. task' # task
  OBVIOUS
<1>2. CreateTask(s) \/ UpdateTask(s) \/ RemoveTask(s) \/ SetStatus(s) \/ MoveTask(s)
  BY <1>1 DEF Arrive, StartCreate, Start, TaskStep, Reads, FindGroup, ReadTask, ReadMember,
              CheckOwner, GetUserGroupIds, CheckDay
<1>3. CASE CreateTask(s)
  <2>1. call[s].home \in Users \cup live /\ InsertTask(s)
    BY <1>1, <1>3 DEF CreateTask
  <2>2. PICK j \in Ids, p \in Priorities, due \in Instants :
          /\ task[j] = Unborn
          /\ task' = [task EXCEPT ![j] = [home |-> call[s].home, priority |-> p, due |-> due,
                                          status |-> "PENDING"]]
    BY <2>1 DEF InsertTask
  <2>3. j = i
    BY <2>2 DEF TypeOK
  <2> QED
    BY <2>1, <2>2, <2>3 DEF TypeOK
<1>4. ASSUME NEW op, NEW new, WriteTask(s, op, new)
      PROVE  /\ Exists(i) /\ i = call[s].id /\ call[s].pc = "write" /\ call'[s] = Idle
             /\ task'[i] = new /\ call[s].op = op
  <2>1. call[s].pc = "write" /\ call[s].op = op /\ Exists(call[s].id) /\ Written(s)
        /\ task' = [task EXCEPT ![call[s].id] = new]
    BY <1>1, <1>4 DEF WriteTask
  <2>2. call[s].id = i
    BY <2>1 DEF TypeOK
  <2> QED
    BY <2>1, <2>2, UpsetKept DEF Written, TypeOK
<1>5. /\ Exists(i) => task[i] \in Rows
      /\ \A r \in Rows : r.status # "unborn"
      /\ Unborn.status = "unborn" /\ "unborn" \notin Statuses
  BY RowsExist, Inputs DEF Rows, Unborn
<1>6. CASE UpdateTask(s)
  <2>1. PICK due \in Instants, p \in Priorities \cup {"kept"} :
          WriteTask(s, "update", [task[call[s].id] EXCEPT !.due = due,
                                    !.priority = IF p = "kept" THEN @ ELSE p])
    BY <1>1, <1>6 DEF UpdateTask
  <2>2. /\ Exists(i) /\ i = call[s].id /\ call[s].pc = "write" /\ call'[s] = Idle
        /\ task'[i] = [task[i] EXCEPT !.due = due, !.priority = IF p = "kept" THEN @ ELSE p]
    BY <1>4, <2>1
  <2> QED
    BY <1>5, <2>2 DEF Rows
<1>7. CASE RemoveTask(s)
  BY <1>4, <1>7 DEF RemoveTask
<1>8. CASE SetStatus(s)
  <2>1. PICK status \in Statuses :
          WriteTask(s, "status", [task[call[s].id] EXCEPT !.status = status])
    BY <1>8 DEF SetStatus
  <2>2. /\ Exists(i) /\ i = call[s].id /\ call[s].pc = "write" /\ call'[s] = Idle
        /\ task'[i] = [task[i] EXCEPT !.status = status] /\ call[s].op = "status"
    BY <1>4, <2>1
  <2> QED
    BY <1>5, <2>2 DEF Rows
<1>9. CASE MoveTask(s)
  <2>1. /\ Exists(i) /\ i = call[s].id /\ call[s].pc = "write" /\ call'[s] = Idle
        /\ task'[i] = [task[i] EXCEPT !.due = call[s].target]
    BY <1>4, <1>9 DEF MoveTask
  <2> QED
    BY <1>5, <2>1 DEF Rows
<1> QED
  BY <1>2, <1>3, <1>6, <1>7, <1>8, <1>9

\* No assignment outlives its group, whatever overlaps: an insert is refused by
\* its foreign key and a deletion takes the assignments with it.
THEOREM NoOrphans == Spec => []NoOrphanTasks
<1>1. Init => NoOrphanTasks
  <2> SUFFICES ASSUME Init PROVE \A i \in Stored : task[i].home \in Users \cup live
    BY TypeInit DEF NoOrphanTasks
  <2> QED
    BY DEF Init, Stored, Exists
<1>2. TypeOK' /\ NoOrphanTasks /\ [Next]_avars => NoOrphanTasks'
  <2> SUFFICES ASSUME TypeOK', TypeOK, [Next]_avars, NEW i \in Ids, Exists(i)',
                      Exists(i) => task[i].home \in Users \cup live
               PROVE  (task[i].home \in Users \cup live)'
    BY DEF NoOrphanTasks, Stored
  <2>1. Exists(i) => task[i] \in Rows
    BY RowsExist
  <2>2. task[i] = Unborn \/ task[i] = Gone => ~Exists(i)
    BY DEF Exists
  <2>3. task'[i] # Gone
    BY DEF Exists
  <2>4. ASSUME live' = live, task'[i] = task[i] PROVE (task[i].home \in Users \cup live)'
    BY <2>4 DEF Exists
  <2>5. ASSUME NEW s \in Slots, Arrive(s) \/ TaskStep(s) PROVE (task[i].home \in Users \cup live)'
    <3>1. live' = live
      BY <2>5 DEF Arrive, StartCreate, Start, TaskStep, Reads, OnlyTasks, FindGroup, CreateTask,
                  ReadTask, ReadMember, CheckOwner, GetUserGroupIds, CheckDay,
                  UpdateTask, RemoveTask, SetStatus, MoveTask, WriteTask
    <3> QED
      BY <2>3, <2>4, <2>5, <3>1, RequestWrites
  <2>6. CASE MarkOverdue
    <3>1. task'[i] = task[i] \/ (Exists(i) /\ task'[i] = [task[i] EXCEPT !.status = "OVERDUE"])
      BY <2>6 DEF MarkOverdue, Sweep, Past, Stored
    <3>2. live' = live
      BY <2>6 DEF MarkOverdue, Sweep
    <3> QED
      BY <2>1, <2>4, <3>1, <3>2 DEF Rows
  <2>7. CASE MissRun
    BY <2>4, <2>7 DEF MissRun
  <2>8. CASE Tick
    <3>1. task'[i] = task[i] \/ (Exists(i) /\ task'[i] = [task[i] EXCEPT !.due = Earlier(@)])
      BY <2>8 DEF Tick
    <3>2. live' = live
      BY <2>8 DEF Tick
    <3> QED
      BY <2>1, <2>4, <3>1, <3>2 DEF Rows
  <2>9. ASSUME NEW u \in Users, NEW g \in Groups, NEW r \in {"NONE", "MEMBER", "OWNER"}, SetRole(u, g, r)
        PROVE  (task[i].home \in Users \cup live)'
    BY <2>4, <2>9 DEF SetRole
  <2>10. ASSUME NEW g \in live, DropGroup(g) PROVE (task[i].home \in Users \cup live)'
    <3>1. task'[i] = task[i] /\ (Exists(i) => task[i].home # g)
      BY <2>3, <2>10 DEF DropGroup
    <3>2. Exists(i)
      BY <3>1 DEF Exists
    <3> QED
      BY <2>10, <3>1, <3>2 DEF DropGroup
  <2>11. CASE UNCHANGED avars
    BY <2>4, <2>11 DEF avars
  <2> QED
    BY <2>5, <2>6, <2>7, <2>8, <2>9, <2>10, <2>11 DEF Next
<1> QED
  BY <1>1, <1>2, AssignmentTypes, PTL DEF Spec

\* Nothing but a request for another status undoes a completion: not the midnight
\* job, nor an update or a reschedule decided before it.
THEOREM CompletionIsKept == Spec => CompletionSticks
<1> DEFINE Kept == \A i \in Stored : task[i].status = "COMPLETED" =>
                     \/ task'[i] = Gone
                     \/ task'[i].status = "COMPLETED"
                     \/ \E s \in Slots : Writing(s, {"status"}) /\ call[s].id = i
<1>1. TypeOK /\ [Next]_avars => Kept
  <2> SUFFICES ASSUME TypeOK, [Next]_avars, NEW i \in Ids, Exists(i), task[i].status = "COMPLETED",
                      task'[i] # Gone, task'[i].status # "COMPLETED"
               PROVE  \E s \in Slots : Writing(s, {"status"}) /\ call[s].id = i
    BY DEF Stored
  <2>1. task[i] \in Rows /\ task'[i] # task[i] /\ task' # task
    BY RowsExist
  <2>2. ASSUME NEW s \in Slots, Arrive(s) \/ TaskStep(s)
        PROVE  Writing(s, {"status"}) /\ call[s].id = i
    BY <2>1, <2>2, RequestWrites DEF Writing, Exists
  <2>3. CASE MarkOverdue
    BY <2>1, <2>3 DEF MarkOverdue, Sweep, Unfinished
  <2>4. CASE Tick
    BY <2>1, <2>4 DEF Tick, Rows
  <2>5. CASE MissRun \/ UNCHANGED avars
    BY <2>1, <2>5 DEF MissRun, avars
  <2>6. ASSUME NEW u \in Users, NEW g \in Groups, NEW r \in {"NONE", "MEMBER", "OWNER"}, SetRole(u, g, r)
        PROVE  FALSE
    BY <2>1, <2>6 DEF SetRole
  <2>7. ASSUME NEW g \in live, DropGroup(g) PROVE FALSE
    BY <2>1, <2>7 DEF DropGroup
  <2> QED
    BY <2>2, <2>3, <2>4, <2>5, <2>6, <2>7 DEF Next
<1>2. TypeOK /\ [Next]_avars => [Kept]_avars
  BY <1>1
<1>3. []TypeOK /\ [][Next]_avars => [][Kept]_avars
  BY <1>2, PTL
<1> QED
  BY <1>3, AssignmentTypes, PTL DEF Spec, CompletionSticks

--------------------------------------------------------------------------------
(* Access *)

\* What a request that nothing disturbed knows: the home of its assignment since
\* it read it and, past the membership check, that its user belongs there.
Vetted(s) ==
  call[s] \in Changes /\ call[s].calm /\ call[s].pc # "read" =>
    /\ Exists(call[s].id) /\ task[call[s].id].home = call[s].home
    /\ call[s].home \in Groups \/ call[s].home = call[s].user
    /\ call[s].pc # "member" /\ call[s].home \in Groups =>
         role[call[s].home][call[s].user] # "NONE"

\* A request that goes on, or is disturbed, keeps what it knows as long as homes
\* and roles stay.
LEMMA VettedStays ==
  ASSUME NEW s \in Slots, Vetted(s),
         \/ call'[s] \notin Changes \/ ~call'[s].calm
         \/ /\ call[s] \in Changes /\ call'[s].calm = call[s].calm
            /\ call'[s].id = call[s].id /\ call'[s].home = call[s].home
            /\ call'[s].user = call[s].user
            /\ call[s].pc \notin {"read", "member"} \/ call'[s].pc = call[s].pc,
         role' = role,
         \A i \in Ids : Exists(i) => task'[i].home = task[i].home /\ task'[i] \notin {Unborn, Gone}
  PROVE  Vetted(s)'
<1> SUFFICES ASSUME call'[s] \in Changes, call'[s].calm, call'[s].pc # "read"
             PROVE  /\ task'[call'[s].id] \notin {Unborn, Gone}
                    /\ task'[call'[s].id].home = call'[s].home
                    /\ call'[s].home \in Groups \/ call'[s].home = call'[s].user
                    /\ call'[s].pc # "member" /\ call'[s].home \in Groups =>
                         role'[call'[s].home][call'[s].user] # "NONE"
  BY DEF Vetted, Exists, Unborn, Gone
<1>1. /\ call[s] \in Changes /\ call[s].calm /\ call[s].pc # "read"
      /\ call'[s].id = call[s].id /\ call'[s].home = call[s].home /\ call'[s].user = call[s].user
      /\ call'[s].pc # "member" => call[s].pc # "member"
  OBVIOUS
<1>2. call[s].id \in Ids
  BY <1>1 DEF Changes
<1> QED
  BY <1>1, <1>2 DEF Vetted, Exists

\* Disturbing a request leaves nothing to keep.
LEMMA UpsetForgets ==
  ASSUME TypeOK, NEW s \in Slots
  PROVE  Upset(call)[s] \notin Changes \/ ~Upset(call)[s].calm
<1>1. CASE call[s] = Idle
  BY <1>1 DEF Upset, Idle, Changes
<1>2. CASE call[s] # Idle
  <2>1. call[s] \in Creations \cup Changes
    BY <1>2, Shapes DEF Calls
  <2>2. Upset(call)[s] = [call[s] EXCEPT !.calm = FALSE]
    BY <1>2 DEF Upset
  <2>3. Upset(call)[s].calm = FALSE
    BY <2>1, <2>2 DEF Creations, Changes
  <2> QED
    BY <2>3
<1> QED
  BY <1>1, <1>2

LEMMA OthersVetted ==
  ASSUME TypeOK, NEW s \in Slots, Vetted(s), NEW r \in Slots, r # s, Arrive(r) \/ TaskStep(r)
  PROVE  Vetted(s)'
<1>1. role' = role
  BY DEF Arrive, StartCreate, Start, TaskStep, Reads, OnlyTasks, FindGroup, CreateTask,
         ReadTask, ReadMember, CheckOwner, GetUserGroupIds, CheckDay,
         UpdateTask, RemoveTask, SetStatus, MoveTask, WriteTask
<1>2. \/ task' = task /\ call'[s] = call[s]
      \/ Written(r)
  BY DEF Arrive, StartCreate, Start, TaskStep, Reads, FindGroup, CreateTask, Reply, Goto, Admit,
         ReadTask, ReadMember, CheckOwner, GetUserGroupIds, CheckDay,
         UpdateTask, RemoveTask, SetStatus, MoveTask, WriteTask, TypeOK
<1>3. CASE task' = task /\ call'[s] = call[s]
  BY <1>1, <1>3 DEF Vetted, Exists
<1>4. CASE Written(r)
  <2>1. call'[s] = Upset(call)[s]
    BY <1>4, UpsetKept DEF Written
  <2> QED
    BY <2>1, UpsetForgets DEF Vetted
<1> QED
  BY <1>2, <1>3, <1>4

LEMMA OwnVetted ==
  ASSUME TypeOK, NEW s \in Slots, Vetted(s), Arrive(s) \/ TaskStep(s)
  PROVE  Vetted(s)'
<1>1. ASSUME call'[s] = Idle PROVE Vetted(s)'
  <2>1. Idle \notin Changes
    BY DEF Idle, Changes
  <2> QED
    BY <1>1, <2>1 DEF Vetted
<1>2. Reply(s) \/ Written(s) => call'[s] = Idle
  BY UpsetKept DEF Reply, Written, TypeOK
<1>3. ASSUME NEW u \in Users, NEW home \in Users \cup Groups, StartCreate(s, u, home) PROVE Vetted(s)'
  <2>1. call'[s] \notin Changes
    <3>1. call'[s].op = "create"
      BY <1>3 DEF StartCreate, TypeOK
    <3> QED
      BY <3>1 DEF Changes
  <2> QED
    BY <2>1 DEF Vetted
<1>4. ASSUME NEW u \in Users, NEW op \in {"update", "remove", "status", "reschedule"}, NEW i \in Ids,
             Start(s, op, u, i)
      PROVE  Vetted(s)'
  <2>1. call'[s].pc = "read"
    BY <1>4 DEF Start, TypeOK
  <2> QED
    BY <2>1 DEF Vetted
<1>5. CASE FindGroup(s)
  <2>1. call[s] \in Creations
    BY <1>5, Shapes DEF FindGroup
  <2>2. CASE Goto(s, "write")
    <3>1. call'[s] = [call[s] EXCEPT !.pc = "write"]
      BY <2>2 DEF Goto, TypeOK
    <3>2. call'[s].op = "create"
      BY <2>1, <3>1 DEF Creations
    <3>3. call'[s] \notin Changes
      BY <3>2 DEF Changes
    <3> QED
      BY <3>3 DEF Vetted
  <2> QED
    BY <1>1, <1>2, <1>5, <2>2 DEF FindGroup
<1>6. CASE CreateTask(s) \/ UpdateTask(s) \/ RemoveTask(s) \/ SetStatus(s) \/ MoveTask(s)
  BY <1>1, <1>2, <1>6 DEF CreateTask, UpdateTask, RemoveTask, SetStatus, MoveTask, WriteTask
<1>7. ASSUME NEW r \in Changes, Admit(s, r), Reads,
             Exists(r.id), task[r.id].home = r.home, r.home \in Groups \/ r.home = r.user,
             r.home \in Groups => role[r.home][r.user] # "NONE"
      PROVE  Vetted(s)'
  <2>1. CASE Reply(s)
    BY <1>1, <1>2, <2>1
  <2>2. ASSUME NEW step \in {"write", "groups"}, call' = [call EXCEPT ![s] = [r EXCEPT !.pc = step]]
        PROVE  Vetted(s)'
    <3>1. call'[s] = [r EXCEPT !.pc = step]
      BY <2>2 DEF TypeOK
    <3>2. call'[s].id = r.id /\ call'[s].home = r.home /\ call'[s].user = r.user
      BY <3>1 DEF Changes
    <3>3. task' = task /\ role' = role
      BY <1>7 DEF Reads
    <3> QED
      BY <1>7, <3>2, <3>3 DEF Vetted, Exists
  <2> QED
    BY <1>7, <2>1, <2>2 DEF Admit
<1>8. CASE ReadTask(s)
  <2> DEFINE i == call[s].id
             found == [call[s] EXCEPT !.home = task[i].home, !.priority = task[i].priority]
  <2>1. call[s] \in Changes
    BY <1>8, Shapes DEF ReadTask
  <2>2. CASE Reply(s)
    BY <1>1, <1>2, <2>2
  <2>3. ASSUME Exists(i), task[i].home \in Groups \cup {call[s].user}
        PROVE  /\ found \in Changes /\ found.id = i /\ found.user = call[s].user
               /\ found.home = task[i].home
    <3>1. task[i] \in Rows
      BY <2>1, <2>3, RowsExist DEF Changes
    <3> QED
      BY <2>1, <3>1 DEF Changes, Rows
  <2>4. CASE Exists(i) /\ found.home = found.user /\ Admit(s, found)
             /\ task[i].home \in Groups \cup {call[s].user}
    <3>1. found.home \notin Groups
      BY <2>3, <2>4, Inputs DEF Changes
    <3>2. Reads
      BY <1>8 DEF ReadTask
    <3> HIDE DEF found
    <3> QED
      BY <1>7, <2>3, <2>4, <3>1, <3>2
  <2>5. CASE /\ Exists(i) /\ found.home \in Groups /\ task[i].home \in Groups \cup {call[s].user}
             /\ call' = [call EXCEPT ![s] = [found EXCEPT !.pc = "member"]]
    <3>1. call'[s] = [found EXCEPT !.pc = "member"]
      BY <2>5 DEF TypeOK
    <3>2. /\ call'[s].id = i /\ call'[s].home = task[i].home /\ call'[s].home \in Groups
          /\ call'[s].pc = "member"
      <4> HIDE DEF found
      <4> QED
        BY <2>3, <2>5, <3>1 DEF Changes
    <3>3. task' = task
      BY <1>8 DEF ReadTask, Reads
    <3> QED
      BY <2>5, <3>2, <3>3 DEF Vetted, Exists
  <2> QED
    BY <1>8, <2>2, <2>4, <2>5 DEF ReadTask
<1>9. CASE ReadMember(s) \/ CheckOwner(s) \/ CheckDay(s) \/ GetUserGroupIds(s)
  <2>1. call[s] \in Changes /\ Reads
        /\ call[s].pc \in {"member", "owner", "groups", "day"}
    BY <1>9, Shapes DEF ReadMember, CheckOwner, CheckDay, GetUserGroupIds
  <2>2. CASE Reply(s)
    BY <1>1, <1>2, <2>2
  <2>3. ASSUME CallerRole(s) # "NONE" \/ call[s].pc # "member",
               call'[s].id = call[s].id, call'[s].home = call[s].home, call'[s].user = call[s].user,
               call'[s].calm = call[s].calm
        PROVE  Vetted(s)'
    <3>1. task' = task /\ role' = role
      BY <2>1 DEF Reads
    <3> QED
      BY <2>1, <2>3, <3>1 DEF Vetted, Exists, CallerRole
  <2>4. ASSUME NEW step \in {"owner", "write", "groups"}, CallerRole(s) # "NONE" \/ call[s].pc # "member",
               Goto(s, step) \/ call' = [call EXCEPT ![s] = [call[s] EXCEPT !.pc = step]]
        PROVE  Vetted(s)'
    <3>1. call'[s] = [call[s] EXCEPT !.pc = step]
      BY <2>4 DEF Goto, TypeOK
    <3> QED
      BY <2>1, <2>3, <2>4, <3>1 DEF Changes
  <2>5. CASE GetUserGroupIds(s)
    <3>1. call'[s] = [call[s] EXCEPT !.pc = "day",
                                     !.groups = {g \in Groups : role[g][call[s].user] # "NONE"}]
      BY <2>5 DEF GetUserGroupIds, TypeOK
    <3>2. call[s].pc # "member"
      BY <2>5 DEF GetUserGroupIds
    <3> QED
      BY <2>1, <2>3, <3>1, <3>2 DEF Changes
  <2> QED
    BY <1>9, <2>2, <2>4, <2>5 DEF ReadMember, CheckOwner, CheckDay, Admit
<1> QED
  BY <1>3, <1>4, <1>5, <1>6, <1>8, <1>9 DEF Arrive, TaskStep

\* Every request that nothing disturbed knows that, at any moment.
AllVetted == \A s \in Slots : Vetted(s)

LEMMA CalmAreVetted == Spec => []AllVetted
<1>1. Init => AllVetted
  <2>1. Idle \notin Changes
    BY DEF Idle, Changes
  <2> QED
    BY <2>1 DEF Init, Vetted, AllVetted
<1>2. TypeOK /\ AllVetted /\ [Next]_avars => AllVetted'
  <2> SUFFICES ASSUME TypeOK, AllVetted, [Next]_avars, NEW s \in Slots PROVE Vetted(s)'
    BY DEF AllVetted
  <2>1. ASSUME NEW r \in Slots, Arrive(r) \/ TaskStep(r) PROVE Vetted(s)'
    BY <2>1, OwnVetted, OthersVetted DEF AllVetted
  <2>2. ASSUME call' = Upset(call) PROVE Vetted(s)'
    BY <2>2, UpsetForgets DEF Vetted
  <2>3. CASE Tick
    <3>1. role' = role
      BY <2>3 DEF Tick
    <3>2. ASSUME NEW i \in Ids, Exists(i)
          PROVE  task'[i].home = task[i].home /\ task'[i] \notin {Unborn, Gone}
      <4>1. task[i] \in Rows /\ task'[i] = [task[i] EXCEPT !.due = Earlier(@)]
        BY <2>3, <3>2, RowsExist DEF Tick
      <4>2. task'[i].home = task[i].home /\ task'[i].status = task[i].status
        BY <4>1 DEF Rows
      <4>3. task'[i].status \notin {"unborn", "gone"}
        BY <4>1, <4>2, Inputs DEF Rows
      <4> QED
        BY <4>2, <4>3 DEF Unborn, Gone
    <3> DEFINE calls == IF half = 1 THEN Upset(call) ELSE call
               next == IF calls[s] # Idle /\ calls[s].op # "create"
                       THEN [calls[s] EXCEPT !.target = Earlier(@)] ELSE calls[s]
    <3>3. call'[s] = next
      BY <2>3 DEF Tick
    <3>4. calls[s] \in Calls
      BY UpsetKept DEF TypeOK, Calls
    <3>5. CASE calls[s] \notin Changes
      <4>1. calls[s] = Idle \/ calls[s].op = "create"
        BY <3>4, <3>5 DEF Calls, Creations
      <4>2. call'[s] \notin Changes
        BY <3>3, <3>5, <4>1
      <4> QED
        BY <4>2 DEF Vetted
    <3>6. CASE calls[s] \in Changes
      <4>1. calls[s] # Idle /\ calls[s].op # "create"
        BY <3>6 DEF Changes, Idle
      <4>2. call'[s] = [calls[s] EXCEPT !.target = Earlier(@)]
        BY <3>3, <4>1
      <4>3. /\ call'[s].calm = calls[s].calm /\ call'[s].id = calls[s].id
            /\ call'[s].home = calls[s].home /\ call'[s].user = calls[s].user
            /\ call'[s].pc = calls[s].pc
        BY <3>6, <4>2 DEF Changes
      <4>4. CASE half = 1
        <5>1. ~call'[s].calm
          BY <3>6, <4>3, <4>4, UpsetForgets
        <5> QED
          BY <5>1 DEF Vetted
      <4>5. CASE half # 1
        <5>1. calls[s] = call[s]
          BY <4>5
        <5> HIDE DEF calls, next
        <5> QED
          BY <3>1, <3>2, <3>6, <4>3, <5>1, VettedStays DEF AllVetted
      <4> QED
        BY <4>4, <4>5
    <3> QED
      BY <3>5, <3>6
  <2>4. CASE MissRun \/ UNCHANGED avars
    BY <2>4 DEF MissRun, avars, Vetted, AllVetted, Exists
  <2> QED
    BY <2>1, <2>2, <2>3, <2>4 DEF Next, MarkOverdue, Sweep, SetRole, DropGroup
<1> QED
  BY <1>1, <1>2, AssignmentTypes, PTL DEF Spec

--------------------------------------------------------------------------------
(* What a request knows of its assignment, disturbed or not *)

\* An assignment keeps its home until it is deleted, and its id is not used again.
LEMMA HomesStay ==
  ASSUME TypeOK, [Next]_avars, NEW i \in Ids, task[i] # Unborn
  PROVE  \/ task'[i] = Gone
         \/ Exists(i) /\ Exists(i)' /\ task'[i].home = task[i].home
<1>1. CASE task'[i] = task[i]
  BY <1>1 DEF Exists
<1>2. ASSUME NEW r, r \in Rows, Exists(i), task'[i] = r, r.home = task[i].home
      PROVE  Exists(i)' /\ task'[i].home = task[i].home
  BY <1>2, RowsExist DEF Exists, Unborn, Gone
<1>3. Exists(i) => task[i] \in Rows
  BY RowsExist
<1>4. ASSUME NEW s \in Slots, Arrive(s) \/ TaskStep(s), task'[i] # task[i]
      PROVE  \/ task'[i] = Gone
             \/ Exists(i) /\ Exists(i)' /\ task'[i].home = task[i].home
  BY <1>4, RequestWrites DEF Exists, Unborn, Gone
<1>5. CASE MarkOverdue /\ task'[i] # task[i]
  <2>1. Exists(i) /\ task'[i] = [task[i] EXCEPT !.status = "OVERDUE"]
    BY <1>5 DEF MarkOverdue, Sweep, Past, Stored
  <2>2. [task[i] EXCEPT !.status = "OVERDUE"] \in Rows
    BY <1>3, <2>1 DEF Rows
  <2>3. [task[i] EXCEPT !.status = "OVERDUE"].home = task[i].home
    BY <1>3, <2>1 DEF Rows
  <2> QED
    BY <1>2, <2>1, <2>2, <2>3
<1>6. CASE Tick /\ task'[i] # task[i]
  <2>1. Exists(i) /\ task'[i] = [task[i] EXCEPT !.due = Earlier(@)]
    BY <1>6 DEF Tick
  <2>2. Earlier(task[i].due) \in Int
    <3>1. task[i].due \in Int
      BY <1>3, <2>1 DEF Rows
    <3> QED
      BY <3>1 DEF Earlier, LongAgo
  <2>3. /\ [task[i] EXCEPT !.due = Earlier(@)] \in Rows
        /\ [task[i] EXCEPT !.due = Earlier(@)].home = task[i].home
    BY <1>3, <2>1, <2>2 DEF Rows
  <2> QED
    BY <1>2, <2>1, <2>3
<1>7. ASSUME NEW g \in live, DropGroup(g), task'[i] # task[i] PROVE task'[i] = Gone
  BY <1>7 DEF DropGroup
<1> QED
  BY <1>1, <1>4, <1>5, <1>6, <1>7 DEF Next, MissRun, SetRole, avars

\* The assignment a request names was created and, once the request has read it,
\* is of its user or of a group for as long as it exists.
Homed(s) ==
  call[s] \in Changes =>
    /\ task[call[s].id] # Unborn
    /\ call[s].pc # "read" =>
         /\ call[s].home \in Groups \/ call[s].home = call[s].user
         /\ Exists(call[s].id) => task[call[s].id].home = call[s].home

\* The request c, if it changes an assignment, is the one that was in slot s.
Continues(s, c) ==
  \/ c \notin Changes
  \/ /\ call[s] \in Changes
     /\ c.id = call[s].id /\ c.home = call[s].home /\ c.user = call[s].user
     /\ c.pc # "read" => call[s].pc # "read"

LEMMA UpsetContinues ==
  ASSUME TypeOK, NEW s \in Slots
  PROVE  Continues(s, Upset(call)[s])
<1>1. CASE call[s] = Idle
  BY <1>1 DEF Continues, Upset, Idle, Changes
<1>2. CASE call[s] # Idle
  <2>1. Upset(call)[s] = [call[s] EXCEPT !.calm = FALSE]
    BY <1>2 DEF Upset
  <2>2. CASE call[s] \in Creations
    <3>1. Upset(call)[s].op = "create"
      BY <2>1, <2>2 DEF Creations
    <3> QED
      BY <3>1 DEF Continues, Changes
  <2>3. CASE call[s] \in Changes
    BY <2>1, <2>3 DEF Continues, Changes
  <2> QED
    BY <1>2, <2>2, <2>3, Shapes DEF Calls
<1> QED
  BY <1>1, <1>2

LEMMA TickContinues ==
  ASSUME TypeOK, NEW s \in Slots, Tick
  PROVE  Continues(s, call'[s])
<1> DEFINE calls == IF half = 1 THEN Upset(call) ELSE call
           next == IF calls[s] # Idle /\ calls[s].op # "create"
                   THEN [calls[s] EXCEPT !.target = Earlier(@)] ELSE calls[s]
<1>1. call'[s] = next
  BY DEF Tick
<1>2. calls[s] \in Calls
  BY UpsetKept DEF TypeOK, Calls
<1>3. Continues(s, calls[s])
  <2>1. Continues(s, call[s])
    BY DEF Continues
  <2> QED
    BY <2>1, UpsetContinues
<1> HIDE DEF calls
<1>4. CASE calls[s] \in Changes
  <2>1. next = [calls[s] EXCEPT !.target = Earlier(@)]
    BY <1>4 DEF Changes, Idle
  <2>2. /\ next.id = calls[s].id /\ next.home = calls[s].home /\ next.user = calls[s].user
        /\ next.pc = calls[s].pc
    BY <1>4, <2>1 DEF Changes
  <2> QED
    BY <1>1, <1>3, <1>4, <2>2 DEF Continues
<1>5. CASE calls[s] \notin Changes
  <2>1. next = calls[s]
    BY <1>2, <1>5 DEF Calls, Creations
  <2> QED
    BY <1>1, <1>5, <2>1 DEF Continues
<1> QED
  BY <1>4, <1>5

\* A step of a request begins it, reads its assignment, or goes on with what it has.
LEMMA RequestContinues ==
  ASSUME TypeOK, NEW s \in Slots, Arrive(s) \/ TaskStep(s)
  PROVE  \/ Continues(s, call'[s])
         \/ call'[s].pc = "read" /\ task[call'[s].id] # Unborn /\ task' = task
         \/ /\ call[s] \in Changes /\ task' = task /\ call'[s].id = call[s].id
            /\ call'[s].home \in Groups \/ call'[s].home = call'[s].user
            /\ call'[s].home = task[call[s].id].home
<1>1. Idle \notin Changes
  BY DEF Idle, Changes
<1>2. ASSUME Reply(s) \/ Written(s) PROVE Continues(s, call'[s])
  BY <1>1, <1>2, UpsetKept DEF Reply, Written, TypeOK, Continues
<1>3. ASSUME NEW u \in Users, NEW home \in Users \cup Groups, StartCreate(s, u, home)
      PROVE  Continues(s, call'[s])
  <2>1. call'[s].op = "create"
    BY <1>3 DEF StartCreate, TypeOK
  <2> QED
    BY <2>1 DEF Changes, Continues
<1>4. ASSUME NEW u \in Users, NEW op \in {"update", "remove", "status", "reschedule"}, NEW i \in Ids,
             Start(s, op, u, i)
      PROVE  call'[s].pc = "read" /\ task[call'[s].id] # Unborn /\ task' = task
  <2>1. PICK d \in Days \cup {0} :
          call' = [call EXCEPT ![s] =
                     [op |-> op, pc |-> "read", user |-> u, id |-> i, home |-> u,
                      priority |-> "LOW", target |-> Midnight(d), groups |-> {}, calm |-> TRUE]]
    BY <1>4 DEF Start
  <2>2. call'[s].pc = "read" /\ call'[s].id = i
    BY <2>1 DEF TypeOK
  <2> QED
    BY <1>4, <2>2 DEF Start, Reads
<1>5. CASE FindGroup(s)
  <2>1. CASE Goto(s, "write")
    <3>1. call[s] \in Creations
      BY <1>5, Shapes DEF FindGroup
    <3>2. call'[s] = [call[s] EXCEPT !.pc = "write"]
      BY <2>1 DEF Goto, TypeOK
    <3>3. call'[s].op = "create"
      BY <3>1, <3>2 DEF Creations
    <3> QED
      BY <3>3 DEF Changes, Continues
  <2> QED
    BY <1>2, <1>5, <2>1 DEF FindGroup
<1>6. CASE CreateTask(s) \/ UpdateTask(s) \/ RemoveTask(s) \/ SetStatus(s) \/ MoveTask(s)
  BY <1>2, <1>6 DEF CreateTask, UpdateTask, RemoveTask, SetStatus, MoveTask, WriteTask
<1>7. ASSUME NEW c \in Changes, NEW step \in {"member", "owner", "groups", "day", "write"},
             NEW gs \in SUBSET Groups, call'[s] = [c EXCEPT !.pc = step, !.groups = gs]
      PROVE  call'[s].id = c.id /\ call'[s].home = c.home /\ call'[s].user = c.user
  BY <1>7 DEF Changes
<1>8. ASSUME NEW c \in Changes, Admit(s, c)
      PROVE  \/ Reply(s)
             \/ call'[s].id = c.id /\ call'[s].home = c.home /\ call'[s].user = c.user
  <2>1. ASSUME NEW step \in {"groups", "write"}, call' = [call EXCEPT ![s] = [c EXCEPT !.pc = step]]
        PROVE  call'[s].id = c.id /\ call'[s].home = c.home /\ call'[s].user = c.user
    <3>1. call'[s] = [c EXCEPT !.pc = step]
      BY <2>1 DEF TypeOK
    <3> QED
      BY <3>1 DEF Changes
  <2> QED
    BY <1>8, <2>1 DEF Admit
<1>9. CASE ReadTask(s)
  <2> DEFINE i == call[s].id
             found == [call[s] EXCEPT !.home = task[i].home, !.priority = task[i].priority]
  <2>1. call[s] \in Changes /\ task' = task
    BY <1>9, Shapes DEF ReadTask, Reads
  <2>2. CASE Reply(s)
    BY <1>2, <2>2
  <2>3. CASE /\ ~Reply(s) /\ Exists(i) /\ task[i].home \in Groups \cup {call[s].user}
             /\ \/ Admit(s, found)
                \/ call' = [call EXCEPT ![s] = [found EXCEPT !.pc = "member"]]
    <3>1. /\ found \in Changes /\ found.id = i /\ found.user = call[s].user
          /\ found.home = task[i].home
      <4>1. task[i] \in Rows
        BY <2>1, <2>3, RowsExist DEF Changes
      <4> QED
        BY <2>1, <4>1 DEF Changes, Rows
    <3> HIDE DEF found
    <3>2. ASSUME call' = [call EXCEPT ![s] = [found EXCEPT !.pc = "member"]]
          PROVE  call'[s].id = found.id /\ call'[s].home = found.home /\ call'[s].user = found.user
      <4>1. call'[s] = [found EXCEPT !.pc = "member"]
        BY <3>2 DEF TypeOK
      <4> QED
        BY <3>1, <4>1 DEF Changes
    <3>3. call'[s].id = i /\ call'[s].home = task[i].home /\ call'[s].user = call[s].user
      BY <1>8, <2>3, <3>1, <3>2
    <3> QED
      BY <2>1, <2>3, <3>3
  <2> QED
    BY <1>9, <2>2, <2>3 DEF ReadTask
<1>10. CASE ReadMember(s) \/ CheckOwner(s) \/ CheckDay(s)
  <2>1. call[s] \in Changes /\ call[s].pc \in {"member", "owner", "day"}
    BY <1>10, Shapes DEF ReadMember, CheckOwner, CheckDay
  <2>2. Reply(s) \/ Goto(s, "owner") \/ Goto(s, "write") \/ Admit(s, call[s])
    BY <1>10 DEF ReadMember, CheckOwner, CheckDay
  <2>3. ASSUME NEW step \in {"owner", "write"}, Goto(s, step)
        PROVE  call'[s].id = call[s].id /\ call'[s].home = call[s].home /\ call'[s].user = call[s].user
    <3>1. call'[s] = [call[s] EXCEPT !.pc = step]
      BY <2>3 DEF Goto, TypeOK
    <3> QED
      BY <2>1, <3>1 DEF Changes
  <2>4. CASE call'[s].id = call[s].id /\ call'[s].home = call[s].home /\ call'[s].user = call[s].user
    BY <2>1, <2>4 DEF Continues
  <2> QED
    BY <1>2, <1>8, <2>1, <2>2, <2>3, <2>4
<1>11. CASE GetUserGroupIds(s)
  <2>1. call[s] \in Changes /\ call[s].pc = "groups"
    BY <1>11, Shapes DEF GetUserGroupIds
  <2>2. call'[s] = [call[s] EXCEPT !.pc = "day",
                                   !.groups = {g \in Groups : role[g][call[s].user] # "NONE"}]
    BY <1>11 DEF GetUserGroupIds, TypeOK
  <2>3. call'[s].id = call[s].id /\ call'[s].home = call[s].home /\ call'[s].user = call[s].user
    BY <2>1, <2>2 DEF Changes
  <2> QED
    BY <2>1, <2>3 DEF Continues
<1> QED
  BY <1>3, <1>4, <1>5, <1>6, <1>9, <1>10, <1>11 DEF Arrive, TaskStep

\* Every request knows that, at any moment.
AllHomed == \A s \in Slots : Homed(s)

LEMMA RequestsAreHomed == Spec => []AllHomed
<1>1. Init => AllHomed
  <2>1. Idle \notin Changes
    BY DEF Idle, Changes
  <2> QED
    BY <2>1 DEF Init, Homed, AllHomed
<1>2. TypeOK /\ AllHomed /\ [Next]_avars => AllHomed'
  <2> SUFFICES ASSUME TypeOK, [Next]_avars, NEW s \in Slots, Homed(s) PROVE Homed(s)'
    BY DEF AllHomed
  <2>1. ASSUME Continues(s, call'[s]) PROVE Homed(s)'
    <3> SUFFICES ASSUME call'[s] \in Changes
                 PROVE  /\ task'[call'[s].id] # Unborn
                        /\ call'[s].pc # "read" =>
                             /\ call'[s].home \in Groups \/ call'[s].home = call'[s].user
                             /\ task'[call'[s].id] \notin {Unborn, Gone} =>
                                  task'[call'[s].id].home = call'[s].home
      BY DEF Homed, Exists, Unborn, Gone
    <3>1. /\ call[s] \in Changes /\ call[s].id \in Ids
          /\ call'[s].id = call[s].id /\ call'[s].home = call[s].home
          /\ call'[s].user = call[s].user
          /\ call'[s].pc # "read" => call[s].pc # "read"
      BY <2>1 DEF Continues, Changes
    <3>2. Unborn # Gone
      BY DEF Unborn, Gone
    <3>3. \/ task'[call[s].id] = Gone
          \/ /\ Exists(call[s].id) /\ task'[call[s].id] \notin {Unborn, Gone}
             /\ task'[call[s].id].home = task[call[s].id].home
      BY <3>1, HomesStay DEF Homed, Exists, Unborn, Gone
    <3> QED
      BY <3>1, <3>2, <3>3 DEF Homed
  <2>2. ASSUME NEW r \in Slots, r # s, Arrive(r) \/ TaskStep(r) PROVE Continues(s, call'[s])
    <3>1. \/ call'[s] = call[s]
          \/ Written(r)
      BY <2>2 DEF Arrive, StartCreate, Start, TaskStep, FindGroup, CreateTask, Reply, Goto, Admit,
                  ReadTask, ReadMember, CheckOwner, GetUserGroupIds, CheckDay,
                  UpdateTask, RemoveTask, SetStatus, MoveTask, WriteTask, TypeOK
    <3>2. CASE Written(r)
      <4>1. call'[s] = Upset(call)[s]
        BY <2>2, <3>2, UpsetKept DEF Written
      <4> QED
        BY <4>1, UpsetContinues
    <3> QED
      BY <3>1, <3>2 DEF Continues
  <2>3. ASSUME Arrive(s) \/ TaskStep(s) PROVE Homed(s)'
    <3>1. CASE Continues(s, call'[s])
      BY <2>1, <3>1
    <3>2. CASE call'[s].pc = "read" /\ task[call'[s].id] # Unborn /\ task' = task
      BY <3>2 DEF Homed
    <3>3. CASE /\ call[s] \in Changes /\ task' = task /\ call'[s].id = call[s].id
               /\ call'[s].home \in Groups \/ call'[s].home = call'[s].user
               /\ call'[s].home = task[call[s].id].home
      BY <3>3 DEF Homed
    <3> QED
      BY <2>3, <3>1, <3>2, <3>3, RequestContinues
  <2>4. ASSUME call' = Upset(call) \/ call' = call PROVE Homed(s)'
    BY <2>1, <2>4, UpsetContinues DEF Continues
  <2>5. CASE Tick
    BY <2>1, <2>5, TickContinues
  <2> QED
    BY <2>1, <2>2, <2>3, <2>4, <2>5
    DEF Next, MarkOverdue, Sweep, MissRun, SetRole, DropGroup, avars
<1> QED
  BY <1>1, <1>2, AssignmentTypes, PTL DEF Spec

\* Who writes acts, and writes a row that is there.
LEMMA WritersAct ==
  ASSUME TypeOK, [Next]_avars, NEW s \in Slots, NEW ops, "create" \notin ops, Writing(s, ops)
  PROVE  call[s] \in Changes /\ call[s].pc = "write" /\ call[s].op \in ops /\ Exists(call[s].id)
<1>1. call[s].pc = "write" /\ call[s].op \in ops /\ call[s] # Idle /\ call'[s] = Idle /\ task' # task
  BY DEF Writing, Idle
<1>2. call[s] \in Changes
  BY <1>1, Shapes
<1>3. Upset(call)[s] # Idle
  BY <1>1, UpsetKept
<1>4. ASSUME NEW r \in Slots, r # s, Arrive(r) \/ TaskStep(r) PROVE FALSE
  <2>1. call'[s] = call[s] \/ Written(r)
    BY <1>4 DEF Arrive, StartCreate, Start, TaskStep, FindGroup, CreateTask, Reply, Goto, Admit,
                ReadTask, ReadMember, CheckOwner, GetUserGroupIds, CheckDay,
                UpdateTask, RemoveTask, SetStatus, MoveTask, WriteTask, TypeOK
  <2>2. Written(r) => call'[s] = Upset(call)[s]
    BY <1>4, UpsetKept DEF Written
  <2> QED
    BY <1>1, <1>3, <2>1, <2>2
<1>5. ASSUME Arrive(s) \/ TaskStep(s) PROVE Exists(call[s].id)
  BY <1>1, <1>5 DEF Arrive, StartCreate, Start, TaskStep, Reads, FindGroup, CreateTask, ReadTask,
                    ReadMember, CheckOwner, GetUserGroupIds, CheckDay,
                    UpdateTask, RemoveTask, SetStatus, MoveTask, WriteTask
<1>6. ~Tick
  <2> SUFFICES ASSUME Tick PROVE FALSE
    OBVIOUS
  <2> DEFINE calls == IF half = 1 THEN Upset(call) ELSE call
  <2>1. call'[s] = IF calls[s] # Idle /\ calls[s].op # "create"
                   THEN [calls[s] EXCEPT !.target = Earlier(@)] ELSE calls[s]
    BY DEF Tick
  <2>2. calls[s] \in Calls /\ calls[s] # Idle
    BY <1>1, <1>3, UpsetKept DEF TypeOK, Calls
  <2> HIDE DEF calls
  <2>3. calls[s] \in Creations \cup Changes
    BY <2>2 DEF Calls
  <2>4. call'[s].pc = calls[s].pc /\ calls[s].pc # "idle"
    BY <2>1, <2>2, <2>3 DEF Creations, Changes
  <2> QED
    BY <1>1, <2>4 DEF Idle
<1> QED
  BY <1>1, <1>2, <1>3, <1>4, <1>5, <1>6
  DEF Next, MarkOverdue, Sweep, MissRun, SetRole, DropGroup, avars

\* A personal assignment is changed by its owner only, whatever overlaps; a group's
\* by a member, unless something was written since the request began: the checks by
\* read and the writes by id leave no other way in.
THEOREM AccessIsChecked == Spec => ChangedByMembersOnly
<1> DEFINE Checked ==
             \A s \in Slots : Writing(s, {"update", "remove", "status"}) =>
               LET home == task[call[s].id].home
                   u == call[s].user
               IN /\ home \in {u} \cup Groups
                  /\ call[s].calm /\ home \in Groups => role[home][u] # "NONE"
<1>1. TypeOK /\ AllHomed /\ AllVetted /\ [Next]_avars => [Checked]_avars
  <2> SUFFICES ASSUME TypeOK, AllHomed, AllVetted, [Next]_avars, NEW s \in Slots,
                      Writing(s, {"update", "remove", "status"})
               PROVE  LET home == task[call[s].id].home
                          u == call[s].user
                      IN /\ home \in {u} \cup Groups
                         /\ call[s].calm /\ home \in Groups => role[home][u] # "NONE"
    OBVIOUS
  <2>1. call[s] \in Changes /\ call[s].pc = "write" /\ Exists(call[s].id)
    BY WritersAct
  <2>2. task[call[s].id].home = call[s].home /\ call[s].home \in {call[s].user} \cup Groups
    BY <2>1 DEF Homed, AllHomed
  <2>3. call[s].calm /\ call[s].home \in Groups => role[call[s].home][call[s].user] # "NONE"
    BY <2>1 DEF Vetted, AllVetted
  <2> QED
    BY <2>2, <2>3
<1>2. []TypeOK /\ []AllHomed /\ []AllVetted /\ [][Next]_avars => [][Checked]_avars
  BY <1>1, PTL
<1> QED
  BY <1>2, RequestsAreHomed, CalmAreVetted, AssignmentTypes, PTL DEF Spec, ChangedByMembersOnly

--------------------------------------------------------------------------------
(* Reschedules *)

GroupsOf(u) == {g \in Groups : role[g][u] # "NONE"}
Dueing(u, groups, target) == {i \in Pending(Visible(u, groups)) : task[i].due = target}

\* What a reschedule r that nothing disturbed knows once it has read its row.
Knows(r) ==
  /\ task[r.id].priority = r.priority /\ r.priority # "URGENT"
  /\ task[r.id].status # "COMPLETED"
  /\ Day(task[r.id].due) # Day(r.target) \/ r.target < Midnight(0)
  /\ r.pc \in {"groups", "day", "write"} =>
       r.target >= Midnight(0) /\ (r.home \in Groups => role[r.home][r.user] = "OWNER")
  /\ r.pc \in {"day", "write"} => r.groups = GroupsOf(r.user)
  /\ r.pc = "write" =>
       Load(Dueing(r.user, r.groups, r.target)) + Weight[r.priority] <= Threshold

\* A reschedule that has read its row and that nothing disturbed.
Calm(r) == r \in Changes /\ r.op = "reschedule" /\ r.pc # "read" /\ r.calm
Ready(s) == Calm(call[s]) => Knows(call[s])

\* The load of a set of assignments is a number, and one more assignment adds at
\* most its weight.
LEMMA LoadAdds ==
  ASSUME TypeOK, NEW S, S \subseteq Ids, NEW i \in Ids, Exists(i)
  PROVE  \E a \in Nat, b \in Nat, c \in Nat :
           /\ a = Load(S) /\ b = Weight[task[i].priority]
           /\ c = Load(S \cup {i}) /\ c <= a + b
<1> DEFINE units(T) == {u \in T \X (1 .. 5) : u[2] <= Weight[task[u[1]].priority]}
           w == Weight[task[i].priority]
           pair == [k \in 1 .. w |-> <<i, k>>]
<1>1. w \in 1 .. 5
  <2>1. task[i] \in Rows
    BY RowsExist
  <2>2. task[i].priority \in {"LOW", "MEDIUM", "HIGH", "URGENT"}
    BY <2>1, Inputs DEF Rows
  <2> QED
    BY <2>2 DEF Weight
<1>2. IsFiniteSet(units(S)) /\ IsFiniteSet(units({i}))
  <2>1. IsFiniteSet(1 .. 5)
    BY FS_Interval, 1 \in Int, 5 \in Int
  <2>2. IsFiniteSet(Ids \X (1 .. 5))
    BY <2>1, IdsFinite, FS_Product
  <2>3. units(S) \subseteq Ids \X (1 .. 5) /\ units({i}) \subseteq Ids \X (1 .. 5)
    OBVIOUS
  <2> QED
    BY <2>2, <2>3, FS_Subset
<1>3. Cardinality(units({i})) = w
  <2>1. pair \in Bijection(1 .. w, units({i}))
    <3>1. \A k \in 1 .. w : <<i, k>> \in units({i})
      BY <1>1
    <3>2. \A u \in units({i}) : u[2] \in 1 .. w /\ u = <<i, u[2]>>
      BY <1>1
    <3>3. pair \in [1 .. w -> units({i})]
      BY <3>1
    <3>4. \A k, l \in 1 .. w : pair[k] = pair[l] => k = l
      OBVIOUS
    <3>5. \A u \in units({i}) : \E k \in 1 .. w : pair[k] = u
      BY <3>2
    <3> QED
      BY <3>3, <3>4, <3>5 DEF Bijection, Injection, Surjection, IsInjective
  <2>2. PICK a \in Int, b \in Int : a = 1 /\ b = w
    BY <1>1
  <2>3. IsFiniteSet(a .. b) /\ Cardinality(a .. b) = IF a > b THEN 0 ELSE b - a + 1
    BY FS_Interval
  <2>4. IsFiniteSet(1 .. w) /\ Cardinality(1 .. w) = w
    BY <1>1, <2>2, <2>3
  <2>5. ExistsBijection(1 .. w, units({i}))
    BY <2>1 DEF ExistsBijection
  <2> HIDE DEF w, units
  <2> QED
    BY <2>4, <2>5, FS_Bijection
<1>4. units(S \cup {i}) = units(S) \cup units({i})
  OBVIOUS
<1> HIDE DEF units
<1>5. /\ Cardinality(units(S) \cup units({i})) =
           Cardinality(units(S)) + Cardinality(units({i}))
             - Cardinality(units(S) \cap units({i}))
      /\ Cardinality(units(S)) \in Nat /\ Cardinality(units(S) \cap units({i})) \in Nat
  <2>1. IsFiniteSet(units(S) \cap units({i}))
    BY <1>2, FS_Subset
  <2> QED
    BY <1>2, <2>1, FS_Union, FS_CardinalityType
<1>6. Load(S) = Cardinality(units(S)) /\ Load(S \cup {i}) = Cardinality(units(S \cup {i}))
  BY DEF Load, units
<1>7. PICK a \in Nat, b \in Nat, c \in Nat :
        /\ a = Cardinality(units(S)) /\ b = w /\ c = Cardinality(units(S) \cap units({i}))
  BY <1>1, <1>5
<1>8. Load(S) = a /\ Load(S \cup {i}) = a + b - c
  BY <1>3, <1>4, <1>5, <1>6, <1>7
<1>9. a + b - c \in Nat
  <2>1. IsFiniteSet(units(S) \cup units({i}))
    BY <1>2, FS_Union
  <2> QED
    BY <1>4, <1>6, <1>8, <2>1, FS_CardinalityType
<1> QED
  BY <1>7, <1>8, <1>9

\* A step that changes neither the tables nor the half day keeps what r knows.
LEMMA KnowsStays ==
  ASSUME NEW r, Knows(r), UNCHANGED <<task, role, half>>
  PROVE  Knows(r)'
<1>1. Dueing(r.user, r.groups, r.target)' = Dueing(r.user, r.groups, r.target)
  BY DEF Dueing, Pending, Visible, Stored, Exists
<1>2. Load(Dueing(r.user, r.groups, r.target))' = Load(Dueing(r.user, r.groups, r.target))
  BY <1>1 DEF Load
<1>3. /\ GroupsOf(r.user)' = GroupsOf(r.user) /\ Midnight(0)' = Midnight(0)
      /\ Day(task[r.id].due)' = Day(task[r.id].due) /\ Day(r.target)' = Day(r.target)
  BY DEF GroupsOf, Midnight, Day
<1> QED
  BY <1>2, <1>3 DEF Knows

\* What a request has read and the checks it has passed are what it knows.
LEMMA OwnReady ==
  ASSUME TypeOK, NEW s \in Slots, Vetted(s), Ready(s), Arrive(s) \/ TaskStep(s)
  PROVE  Ready(s)'
<1> SUFFICES ASSUME NEW r, r = call'[s], Calm(r) PROVE Knows(r)'
  BY DEF Ready, Calm
<1>1. r \in Changes /\ r.op = "reschedule" /\ r.pc # "read" /\ r.calm
  BY DEF Calm
<1>2. ~Reply(s) /\ ~Written(s)
  <2>1. r # Idle
    BY <1>1 DEF Idle, Changes
  <2> QED
    BY <2>1, UpsetKept DEF Reply, Written, TypeOK
<1>3. ASSUME NEW u \in Users, NEW home \in Users \cup Groups, StartCreate(s, u, home) PROVE FALSE
  BY <1>1, <1>3 DEF StartCreate, TypeOK
<1>4. ASSUME NEW u \in Users, NEW op \in {"update", "remove", "status", "reschedule"}, NEW i \in Ids,
             Start(s, op, u, i)
      PROVE  FALSE
  BY <1>1, <1>4 DEF Start, TypeOK
<1>5. CASE FindGroup(s)
  <2>1. call[s] \in Creations /\ Goto(s, "write")
    BY <1>2, <1>5, Shapes DEF FindGroup
  <2>2. r = [call[s] EXCEPT !.pc = "write"]
    BY <2>1 DEF Goto, TypeOK
  <2> QED
    BY <1>1, <2>1, <2>2 DEF Creations
<1>6. CASE CreateTask(s) \/ UpdateTask(s) \/ RemoveTask(s) \/ SetStatus(s) \/ MoveTask(s)
  BY <1>2, <1>6 DEF CreateTask, UpdateTask, RemoveTask, SetStatus, MoveTask, WriteTask
<1>7. ASSUME Reads, Knows(r) PROVE Knows(r)'
  BY <1>7, KnowsStays DEF Reads
<1>8. ASSUME NEW f \in Changes, Admit(s, f)
      PROVE  /\ r = [f EXCEPT !.pc = "groups"] /\ r.pc = "groups" /\ f.op = "reschedule"
             /\ r.id = f.id /\ r.home = f.home /\ r.user = f.user /\ r.priority = f.priority
             /\ r.target = f.target /\ r.target >= Midnight(0) /\ r.calm = f.calm
  <2>1. CASE f.op # "reschedule" /\ call' = [call EXCEPT ![s] = [f EXCEPT !.pc = "write"]]
    BY <1>1, <2>1 DEF TypeOK, Changes
  <2>2. CASE /\ f.op = "reschedule" /\ f.target >= Midnight(0)
             /\ call' = [call EXCEPT ![s] = [f EXCEPT !.pc = "groups"]]
    <3>1. r = [f EXCEPT !.pc = "groups"]
      BY <2>2 DEF TypeOK
    <3> QED
      BY <2>2, <3>1 DEF Changes
  <2> QED
    BY <1>2, <1>8, <2>1, <2>2 DEF Admit
<1>9. CASE ReadTask(s)
  <2> DEFINE i == call[s].id
             found == [call[s] EXCEPT !.home = task[i].home, !.priority = task[i].priority]
  <2>1. call[s] \in Changes /\ Reads
    BY <1>9, Shapes DEF ReadTask
  <2>2. /\ Exists(i) /\ task[i].home \in Groups \cup {call[s].user}
        /\ call[s].op = "reschedule" => Movable(i, call[s].target)
        /\ \/ found.home = found.user /\ Admit(s, found)
           \/ found.home \in Groups /\ call' = [call EXCEPT ![s] = [found EXCEPT !.pc = "member"]]
    BY <1>2, <1>9 DEF ReadTask
  <2>3. /\ found \in Changes /\ found.id = i /\ found.user = call[s].user
        /\ found.home = task[i].home /\ found.priority = task[i].priority
        /\ found.target = call[s].target /\ found.op = call[s].op
    <3>1. task[i] \in Rows
      BY <2>1, <2>2, RowsExist DEF Changes
    <3> QED
      BY <2>1, <3>1 DEF Changes, Rows
  <2> HIDE DEF found
  <2>4. ASSUME call[s].op = "reschedule"
        PROVE  /\ task[i].priority # "URGENT" /\ task[i].status # "COMPLETED"
               /\ Day(task[i].due) # Day(call[s].target)
    BY <2>2, <2>4 DEF Movable
  <2>5. CASE found.home = found.user /\ Admit(s, found)
    <3>1. found.home \notin Groups
      BY <2>3, <2>5, Inputs DEF Changes
    <3>2. /\ r.pc = "groups" /\ found.op = "reschedule" /\ r.id = found.id
          /\ r.home = found.home /\ r.priority = found.priority
          /\ r.target = found.target /\ r.target >= Midnight(0)
      BY <1>8, <2>3, <2>5
    <3>3. Knows(r)
      BY <2>3, <2>4, <3>1, <3>2 DEF Knows
    <3> QED
      BY <1>7, <2>1, <3>3
  <2>6. CASE call' = [call EXCEPT ![s] = [found EXCEPT !.pc = "member"]]
    <3>1. r = [found EXCEPT !.pc = "member"]
      BY <2>6 DEF TypeOK
    <3>2. /\ r.pc = "member" /\ r.id = i /\ r.priority = task[i].priority /\ r.target = call[s].target
          /\ call[s].op = "reschedule"
      BY <1>1, <2>3, <3>1 DEF Changes
    <3>3. Knows(r)
      BY <2>4, <3>2 DEF Knows
    <3> QED
      BY <1>7, <2>1, <3>3
  <2> QED
    BY <2>2, <2>5, <2>6
<1>10. ASSUME NEW c \in Changes, c = call[s], c.pc # "read", NEW step \in {"owner", "day", "write"},
              NEW gs \in SUBSET Groups,
              r = [c EXCEPT !.pc = step, !.groups = gs]
       PROVE  /\ r.pc = step /\ r.id = c.id /\ r.home = c.home /\ r.user = c.user
              /\ r.priority = c.priority /\ r.target = c.target /\ r.groups = gs
              /\ c.op = "reschedule" /\ Knows(c)
  <2>1. /\ r.pc = step /\ r.id = c.id /\ r.home = c.home /\ r.user = c.user
        /\ r.priority = c.priority /\ r.target = c.target /\ r.groups = gs
        /\ r.op = c.op /\ r.calm = c.calm
    BY <1>10 DEF Changes
  <2>2. Calm(c)
    BY <1>1, <1>10, <2>1 DEF Calm
  <2> QED
    BY <1>1, <1>10, <2>1, <2>2 DEF Ready
<1>11. ASSUME NEW step \in {"owner", "write"}, call[s] \in Changes, Goto(s, step)
       PROVE  /\ r = [call[s] EXCEPT !.pc = step, !.groups = call[s].groups]
              /\ call[s].groups \in SUBSET Groups
  <2>1. r = [call[s] EXCEPT !.pc = step]
    BY <1>11 DEF Goto, TypeOK
  <2> QED
    BY <1>11, <2>1 DEF Changes
<1>12. CASE ReadMember(s)
  <2>1. call[s] \in Changes /\ call[s].pc = "member" /\ Reads
    BY <1>12, Shapes DEF ReadMember
  <2>2. Goto(s, "owner")
    BY <1>2, <1>8, <1>12, <2>1 DEF ReadMember
  <2>3. Knows(call[s]) /\ r.pc = "owner" /\ r.id = call[s].id /\ r.priority = call[s].priority
        /\ r.target = call[s].target
    BY <1>10, <1>11, <2>1, <2>2
  <2>4. Knows(r)
    BY <2>3 DEF Knows
  <2> QED
    BY <1>7, <2>1, <2>4
<1>13. CASE CheckOwner(s)
  <2>1. call[s] \in Changes /\ call[s].pc = "owner" /\ Reads
    BY <1>13, Shapes DEF CheckOwner
  <2>2. CallerRole(s) = "OWNER" /\ Admit(s, call[s])
    BY <1>2, <1>13 DEF CheckOwner
  <2>3. /\ r.pc = "groups" /\ call[s].op = "reschedule" /\ r.calm = call[s].calm
        /\ r.id = call[s].id /\ r.home = call[s].home /\ r.user = call[s].user
        /\ r.priority = call[s].priority
        /\ r.target = call[s].target /\ r.target >= Midnight(0)
    BY <1>8, <2>1, <2>2
  <2>4. Knows(call[s])
    BY <1>1, <2>1, <2>3 DEF Ready, Calm
  <2>5. Knows(r)
    BY <2>2, <2>3, <2>4 DEF Knows, CallerRole
  <2> QED
    BY <1>7, <2>1, <2>5
<1>14. CASE GetUserGroupIds(s)
  <2>1. call[s] \in Changes /\ call[s].pc = "groups" /\ Reads
    BY <1>14, Shapes DEF GetUserGroupIds
  <2>2. r = [call[s] EXCEPT !.pc = "day", !.groups = GroupsOf(call[s].user)]
    BY <1>14 DEF GetUserGroupIds, TypeOK, GroupsOf
  <2>3. GroupsOf(call[s].user) \in SUBSET Groups
    BY DEF GroupsOf
  <2>4. /\ r.pc = "day" /\ r.id = call[s].id /\ r.home = call[s].home /\ r.user = call[s].user
        /\ r.priority = call[s].priority /\ r.target = call[s].target
        /\ r.groups = GroupsOf(call[s].user) /\ Knows(call[s])
    BY <1>10, <2>1, <2>2, <2>3
  <2>5. Knows(r)
    BY <2>1, <2>4 DEF Knows
  <2> QED
    BY <1>7, <2>1, <2>5
<1>15. CASE CheckDay(s)
  <2>1. call[s] \in Changes /\ call[s].pc = "day" /\ Reads
    BY <1>15, Shapes DEF CheckDay
  <2>2. /\ Goto(s, "write")
        /\ Load(Dueing(call[s].user, call[s].groups, call[s].target)) + Weight[call[s].priority]
             <= Threshold
    BY <1>2, <1>15 DEF CheckDay, Dueing
  <2>3. /\ r.pc = "write" /\ r.id = call[s].id /\ r.home = call[s].home /\ r.user = call[s].user
        /\ r.priority = call[s].priority /\ r.target = call[s].target
        /\ r.groups = call[s].groups /\ Knows(call[s])
    BY <1>10, <1>11, <2>1, <2>2
  <2>4. Knows(r)
    BY <2>1, <2>2, <2>3 DEF Knows
  <2> QED
    BY <1>7, <2>1, <2>4
<1> QED
  BY <1>3, <1>4, <1>5, <1>6, <1>9, <1>12, <1>13, <1>14, <1>15 DEF Arrive, TaskStep

\* The requests of others leave what s knows, or disturb it.
LEMMA OthersReady ==
  ASSUME TypeOK, NEW s \in Slots, Ready(s), NEW r \in Slots, r # s, Arrive(r) \/ TaskStep(r)
  PROVE  Ready(s)'
<1>1. UNCHANGED <<role, half>>
  BY DEF Arrive, StartCreate, Start, TaskStep, Reads, OnlyTasks, FindGroup, CreateTask,
         ReadTask, ReadMember, CheckOwner, GetUserGroupIds, CheckDay,
         UpdateTask, RemoveTask, SetStatus, MoveTask, WriteTask
<1>2. \/ task' = task /\ call'[s] = call[s]
      \/ Written(r)
  BY DEF Arrive, StartCreate, Start, TaskStep, Reads, FindGroup, CreateTask, Reply, Goto, Admit,
         ReadTask, ReadMember, CheckOwner, GetUserGroupIds, CheckDay,
         UpdateTask, RemoveTask, SetStatus, MoveTask, WriteTask, TypeOK
<1>3. CASE task' = task /\ call'[s] = call[s]
  BY <1>1, <1>3, KnowsStays DEF Ready, Calm
<1>4. CASE Written(r)
  <2>1. call'[s] = Upset(call)[s]
    BY <1>4, UpsetKept DEF Written
  <2> QED
    BY <2>1, UpsetForgets DEF Ready, Calm
<1> QED
  BY <1>2, <1>3, <1>4

\* Noon moves every instant by the same half day; midnight disturbs every request.
LEMMA TickReady ==
  ASSUME TypeOK, AllVetted, NEW s \in Slots, Ready(s), Tick
  PROVE  Ready(s)'
<1> SUFFICES ASSUME NEW r, r = call'[s], Calm(r) PROVE Knows(r)'
  BY DEF Ready, Calm
<1> DEFINE calls == IF half = 1 THEN Upset(call) ELSE call
           next == IF calls[s] # Idle /\ calls[s].op # "create"
                   THEN [calls[s] EXCEPT !.target = Earlier(@)] ELSE calls[s]
<1>1. r = next
  BY DEF Tick
<1>2. calls[s] \in Calls
  BY UpsetKept DEF TypeOK, Calls
<1>3. calls[s] \in Changes /\ calls[s].calm
  <2>1. CASE calls[s] \in Changes
    <3>1. next = [calls[s] EXCEPT !.target = Earlier(@)]
      BY <2>1 DEF Changes, Idle
    <3> HIDE DEF next, calls
    <3> QED
      BY <1>1, <2>1, <3>1 DEF Calm, Changes
  <2>2. CASE calls[s] \notin Changes
    <3>1. next = calls[s]
      BY <1>2, <2>2 DEF Calls, Creations
    <3> QED
      BY <1>1, <2>2, <3>1 DEF Calm
  <2> QED
    BY <2>1, <2>2
<1>4. half = 0 /\ calls[s] = call[s] /\ call[s] \in Changes
  BY <1>3, UpsetForgets DEF TypeOK
<1> HIDE DEF calls
<1>5. PICK c \in Changes : c = call[s] /\ r = [c EXCEPT !.target = Earlier(c.target)]
  <2>1. call[s] # Idle /\ call[s].op # "create"
    BY <1>4 DEF Changes, Idle
  <2> QED
    BY <1>1, <1>4, <2>1
<1> HIDE DEF next
<1>6. c.target > LongAgo + 1 /\ c.target \in Int
  <2>1. c # Idle /\ c.op # "create"
    BY DEF Changes, Idle
  <2> QED
    BY <1>5, <2>1 DEF Tick, Changes
<1>7. /\ r.target = c.target - 1 /\ r.id = c.id /\ r.home = c.home /\ r.user = c.user
      /\ r.priority = c.priority /\ r.groups = c.groups /\ r.pc = c.pc /\ r.op = c.op
      /\ r.calm = c.calm /\ c.id \in Ids
  BY <1>5, <1>6 DEF Changes, Earlier, LongAgo
<1>8. Knows(c) /\ Exists(c.id)
  <2>1. Calm(c)
    BY <1>7 DEF Calm
  <2> QED
    BY <1>5, <2>1 DEF Ready, Calm, AllVetted, Vetted
<1>9. ASSUME NEW i \in Ids
      PROVE  /\ Exists(i)' <=> Exists(i)
             /\ Exists(i) => /\ task'[i].home = task[i].home
                             /\ task'[i].priority = task[i].priority
                             /\ task'[i].status = task[i].status
                             /\ task'[i].due = r.target <=> task[i].due = c.target
  <2>1. CASE Exists(i)
    <3>1. task[i] \in Rows /\ task'[i] = [task[i] EXCEPT !.due = Earlier(@)]
      BY <2>1, RowsExist DEF Tick
    <3>2. /\ task'[i].home = task[i].home /\ task'[i].priority = task[i].priority
          /\ task'[i].status = task[i].status
          /\ task'[i].due = Earlier(task[i].due) /\ task[i].due \in Int
      BY <3>1 DEF Rows
    <3>3. task'[i].status \notin {"unborn", "gone"}
      BY <3>1, <3>2, Inputs DEF Rows
    <3>4. Exists(i)'
      BY <3>3 DEF Exists, Unborn, Gone
    <3>5. Earlier(task[i].due) = c.target - 1 <=> task[i].due = c.target
      BY <1>6, <3>2 DEF Earlier, LongAgo
    <3> QED
      BY <1>7, <2>1, <3>2, <3>4, <3>5
  <2>2. CASE ~Exists(i)
    BY <2>2 DEF Tick, Exists
  <2> QED
    BY <2>1, <2>2
<1>10. Dueing(r.user, r.groups, r.target)' = Dueing(c.user, c.groups, c.target)
  BY <1>7, <1>9 DEF Dueing, Pending, Visible, Stored
<1>11. Load(Dueing(r.user, r.groups, r.target))' = Load(Dueing(c.user, c.groups, c.target))
  <2>1. \A i \in Dueing(c.user, c.groups, c.target) : task'[i].priority = task[i].priority
    BY <1>9 DEF Dueing, Pending, Visible, Stored
  <2> QED
    BY <1>10, <2>1 DEF Load
<1>12. GroupsOf(r.user)' = GroupsOf(c.user) /\ role' = role
  BY <1>7 DEF GroupsOf, Tick
<1>13. /\ c.target >= Midnight(0) => r.target >= Midnight(0)'
       /\ c.target < Midnight(0) => r.target < Midnight(0)'
  BY <1>4, <1>6, <1>7 DEF Midnight, Tick
<1>14. Day(task[c.id].due) # Day(c.target) /\ c.target >= Midnight(0) =>
         Day(task[c.id].due)' # Day(r.target)'
  <2>1. task[c.id] \in Rows /\ task'[c.id] = [task[c.id] EXCEPT !.due = Earlier(@)]
    BY <1>7, <1>8, RowsExist DEF Tick
  <2>2. task'[c.id].due = Earlier(task[c.id].due) /\ task[c.id].due \in Int /\ half' = 1
    BY <1>4, <2>1 DEF Rows, Tick
  <2>3. PICK d \in Int, t \in Int : d = task[c.id].due /\ t = c.target
    BY <1>6, <2>2
  <2>4. ASSUME t >= 0, d \div 2 # t \div 2
        PROVE  (Earlier(d) + 1) \div 2 # (t - 1 + 1) \div 2
    BY <2>4 DEF Earlier, LongAgo
  <2> QED
    BY <1>4, <1>7, <2>2, <2>3, <2>4 DEF Day, Midnight
<1>15. \/ Day(task[c.id].due)' # Day(r.target)'
       \/ r.target < Midnight(0)'
  BY <1>4, <1>6, <1>8, <1>13, <1>14 DEF Knows, Midnight
<1> QED
  BY <1>7, <1>8, <1>9, <1>11, <1>12, <1>13, <1>15 DEF Knows

\* Every reschedule that nothing disturbed knows that, at any moment.
AllReady == \A s \in Slots : Ready(s)

LEMMA CalmAreReady == Spec => []AllReady
<1>1. Init => AllReady
  <2>1. Idle \notin Changes
    BY DEF Idle, Changes
  <2> QED
    BY <2>1 DEF Init, AllReady, Ready, Calm
<1>2. TypeOK /\ AllVetted /\ AllReady /\ [Next]_avars => AllReady'
  <2> SUFFICES ASSUME TypeOK, AllVetted, AllReady, [Next]_avars, NEW s \in Slots PROVE Ready(s)'
    BY DEF AllReady
  <2>1. ASSUME NEW r \in Slots, Arrive(r) \/ TaskStep(r) PROVE Ready(s)'
    BY <2>1, OwnReady, OthersReady DEF AllReady, AllVetted
  <2>2. ASSUME call' = Upset(call) PROVE Ready(s)'
    BY <2>2, UpsetForgets DEF Ready, Calm
  <2>3. CASE Tick
    BY <2>3, TickReady DEF AllReady
  <2>4. CASE MissRun \/ UNCHANGED avars
    BY <2>4, KnowsStays DEF MissRun, avars, Ready, Calm, AllReady
  <2> QED
    BY <2>1, <2>2, <2>3, <2>4 DEF Next, MarkOverdue, Sweep, SetRole, DropGroup
<1> QED
  BY <1>1, <1>2, AssignmentTypes, CalmAreVetted, PTL DEF Spec

\* A reschedule moves only a personal assignment of its user or a group's.  One that
\* nothing overtook obeys the other rules of its handler when it commits, though it
\* read the row, the roles and the day in separate statements.
THEOREM ReschedulesKeepRules == Spec => RescheduleKeepsRules
<1> DEFINE Kept ==
             \A s \in Slots : Writing(s, {"reschedule"}) =>
               LET t == task[call[s].id]
                   u == call[s].user
                   groups == {g \in Groups : role[g][u] # "NONE"}
                   others == {i \in Pending(Visible(u, groups)) : task[i].due = call[s].target}
               IN /\ t.home \in {u} \cup Groups
                  /\ call[s].calm =>
                       /\ t.home \in Groups => role[t.home][u] = "OWNER"
                       /\ t.priority # "URGENT" /\ t.status # "COMPLETED"
                       /\ Day(t.due) # Day(call[s].target) /\ call[s].target >= Midnight(0)
                       /\ Load(others \cup {call[s].id}) <= Threshold
<1>1. TypeOK /\ AllHomed /\ AllReady /\ [Next]_avars => [Kept]_avars
  <2> SUFFICES ASSUME TypeOK, AllHomed, AllReady, [Next]_avars, NEW s \in Slots,
                      Writing(s, {"reschedule"})
               PROVE  LET t == task[call[s].id]
                          u == call[s].user
                          groups == {g \in Groups : role[g][u] # "NONE"}
                          others == {i \in Pending(Visible(u, groups)) : task[i].due = call[s].target}
                      IN /\ t.home \in {u} \cup Groups
                         /\ call[s].calm =>
                              /\ t.home \in Groups => role[t.home][u] = "OWNER"
                              /\ t.priority # "URGENT" /\ t.status # "COMPLETED"
                              /\ Day(t.due) # Day(call[s].target) /\ call[s].target >= Midnight(0)
                              /\ Load(others \cup {call[s].id}) <= Threshold
    OBVIOUS
  <2>1. PICK c \in Changes : c = call[s] /\ c.op = "reschedule" /\ c.pc = "write"
    BY WritersAct
  <2>2. Exists(c.id) /\ c.id \in Ids
    BY <2>1, WritersAct DEF Changes
  <2>3. task[c.id].home = c.home /\ c.home \in {c.user} \cup Groups
    BY <2>1, <2>2 DEF Homed, AllHomed
  <2> DEFINE others == Dueing(c.user, GroupsOf(c.user), c.target)
  <2>4. ASSUME c.calm
        PROVE  /\ task[c.id].home \in Groups => role[task[c.id].home][c.user] = "OWNER"
               /\ task[c.id].priority # "URGENT" /\ task[c.id].status # "COMPLETED"
               /\ Day(task[c.id].due) # Day(c.target) /\ c.target >= Midnight(0)
               /\ Load(others \cup {c.id}) <= Threshold
    <3>1. Knows(c)
      BY <2>1, <2>4 DEF AllReady, Ready, Calm
    <3>2. others \subseteq Ids
      BY DEF Dueing, Pending, Visible, Stored
    <3>3. Load(others) + Weight[task[c.id].priority] <= Threshold
      BY <2>1, <3>1 DEF Knows
    <3>4. PICK a \in Nat, b \in Nat, m \in Nat :
            /\ a = Load(others) /\ b = Weight[task[c.id].priority]
            /\ m = Load(others \cup {c.id}) /\ m <= a + b
      BY <2>2, <3>2, LoadAdds
    <3>5. Load(others \cup {c.id}) <= Threshold
      BY <3>3, <3>4 DEF Threshold
    <3>6. /\ task[c.id].priority # "URGENT" /\ task[c.id].status # "COMPLETED"
          /\ c.target >= Midnight(0)
          /\ task[c.id].home \in Groups => role[task[c.id].home][c.user] = "OWNER"
      BY <2>1, <2>3, <3>1 DEF Knows
    <3>7. Day(task[c.id].due) # Day(c.target)
      <4>1. c.target \in Int /\ Midnight(0) \in Int
        BY DEF Changes, Midnight, TypeOK
      <4> QED
        BY <3>1, <3>6, <4>1 DEF Knows
    <3> QED
      BY <3>5, <3>6, <3>7
  <2> QED
    BY <2>1, <2>3, <2>4 DEF Dueing, GroupsOf
<1>2. []TypeOK /\ []AllHomed /\ []AllReady /\ [][Next]_avars => [][Kept]_avars
  BY <1>1, PTL
<1> QED
  BY <1>2, AssignmentTypes, RequestsAreHomed, CalmAreReady, PTL DEF Spec, RescheduleKeepsRules

================================================================================
