------------------------------ MODULE Assignments ------------------------------
(***************************************************************************)
(* Assignments: the handlers of assignment.service.ts that change them,    *)
(* and the nightly markOverdueAssignments of automation.service.ts.        *)
(*                                                                         *)
(* As in GroupMembership a request runs in a slot, one database statement  *)
(* per step with the code that runs on its result.  The checks and the     *)
(* write of a handler are separate statements, outside any transaction.    *)
(*                                                                         *)
(* Instants are counted in half days from now: 0 is the present half day   *)
(* and 2 the same half of tomorrow, so the clock has no bound.             *)
(***************************************************************************)
EXTENDS Integers, FiniteSets

CONSTANTS Users, Groups, Slots,
          Ids,         \* bound: the assignments that can be created
          Priorities,  \* bound: the priorities clients pick
          Statuses,    \* bound: the statuses clients set
          Instants,    \* bound: the deadlines clients pick
          Days         \* bound: the days clients reschedule to, today being 0

ASSUME Inputs ==
  /\ Users \cap Groups = {}
  /\ Priorities \subseteq {"LOW", "MEDIUM", "HIGH", "URGENT"}
  /\ Statuses \subseteq {"PENDING", "COMPLETED", "OVERDUE", "ARCHIVED"}
  /\ Instants \subseteq Int /\ Days \subseteq {-1} \cup Nat
ASSUME IdsFinite == IsFiniteSet(Ids)

VARIABLES task,   \* task[i]: the row with id i, Unborn or Gone
          role,   \* role[g][u]: the users_groups row of u in g, "NONE" if absent
          live,   \* the groups that exist
          half,   \* 0 before noon, 1 after
          cron,   \* is the midnight job due?
          call    \* call[s]: the request running in slot s

avars == <<task, role, live, half, cron, call>>

Unborn == [status |-> "unborn"]
Gone == [status |-> "gone"]
Idle == [pc |-> "idle"]

Threshold == 7
Weight == [LOW |-> 1, MEDIUM |-> 2, HIGH |-> 3, URGENT |-> 5]

\* Instants more than a day before today are not told apart.
LongAgo == -3
Earlier(i) == IF i > LongAgo THEN i - 1 ELSE i

Midnight(d) == 2 * d - half     \* the start of day d
Day(i) == (i + half) \div 2     \* the day that instant i falls on

Exists(i) == task[i] \notin {Unborn, Gone}
Stored == {i \in Ids : Exists(i)}

Init ==
  /\ task = [i \in Ids |-> Unborn]
  /\ role \in [Groups -> [Users -> {"NONE", "MEMBER", "OWNER"}]]
  /\ live = Groups
  /\ half = 0
  /\ cron = FALSE
  /\ call = [s \in Slots |-> Idle]

--------------------------------------------------------------------------------
\* "calm" is a history variable: nothing else changed since the request began.
Upset(calls) ==
  [s \in Slots |-> IF calls[s] = Idle THEN Idle ELSE [calls[s] EXCEPT !.calm = FALSE]]

Reply(s) == call' = [call EXCEPT ![s] = Idle]
Written(s) == call' = [Upset(call) EXCEPT ![s] = Idle]
Goto(s, step) == call' = [call EXCEPT ![s].pc = step]

Reads == UNCHANGED <<task, role, live, half, cron>>
OnlyTasks == UNCHANGED <<role, live, half, cron>>

\* home is the owner of a personal assignment or the group of a group one:
\* create fills exactly one of userId and groupId.
StartCreate(s, u, home) ==
  /\ call[s] = Idle
  /\ home \in {u} \cup Groups
  /\ call' = [call EXCEPT ![s] =
                [op |-> "create", pc |-> IF home = u THEN "write" ELSE "group",
                 user |-> u, home |-> home, calm |-> TRUE]]
  /\ Reads

\* A client can only name an assignment that was created.  What else it sends is
\* picked where the handler first uses it, but for the day to reschedule to, which
\* passes while the request runs.
Start(s, op, u, i) ==
  /\ call[s] = Idle
  /\ task[i] # Unborn
  /\ \E d \in IF op = "reschedule" THEN Days ELSE {0} :
       call' = [call EXCEPT ![s] =
                  [op |-> op, pc |-> "read", user |-> u, id |-> i, home |-> u,
                   priority |-> "LOW", target |-> Midnight(d), groups |-> {}, calm |-> TRUE]]
  /\ Reads

--------------------------------------------------------------------------------
(* create *)

FindGroup(s) ==
  /\ call[s].pc = "group"
  /\ \/ call[s].home \in live /\ Goto(s, "write")
     \/ call[s].home \notin live /\ Reply(s)
  /\ Reads

InsertTask(s) ==
  \E i \in Ids, p \in Priorities, due \in Instants :
    /\ task[i] = Unborn
    /\ task' = [task EXCEPT ![i] = [home |-> call[s].home, priority |-> p, due |-> due,
                                    status |-> "PENDING"]]

CreateTask_NoForeignKey(s) ==
  /\ call[s].pc = "write" /\ call[s].op = "create"
  /\ \/ InsertTask(s) /\ Written(s)
     \/ UNCHANGED task /\ Reply(s)
  /\ OnlyTasks

\* The foreign key refuses a group deleted since FindGroup; a title taken in the
\* subject, or a subject that is not there, refuses the row too.
CreateTask(s) ==
  /\ call[s].pc = "write" /\ call[s].op = "create"
  /\ \/ call[s].home \in Users \cup live /\ InsertTask(s) /\ Written(s)
     \/ UNCHANGED task /\ Reply(s)
  /\ OnlyTasks

--------------------------------------------------------------------------------
(* getAssignmentIfAccessible and the checks of rescheduleAssignment *)

Movable(i, target) ==
  /\ task[i].priority # "URGENT" /\ task[i].status # "COMPLETED"
  /\ Day(task[i].due) # Day(target)

\* Request r may act on its assignment: a reschedule goes on to the checks of the
\* target day, anything else to its write.
Admit(s, r) ==
  \/ r.op # "reschedule" /\ call' = [call EXCEPT ![s] = [r EXCEPT !.pc = "write"]]
  \/ /\ r.op = "reschedule" /\ r.target >= Midnight(0)
     /\ call' = [call EXCEPT ![s] = [r EXCEPT !.pc = "groups"]]
  \/ r.op = "reschedule" /\ r.target < Midnight(0) /\ Reply(s)

\* The code checks the priority, status and day of the row it read here after it
\* has read the roles; no refusal writes anything, so the order does not show.
ReadTask(s) ==
  /\ call[s].pc = "read"
  /\ LET i == call[s].id
         reachable == /\ Exists(i)
                      /\ task[i].home \in Groups \cup {call[s].user}
                      /\ call[s].op = "reschedule" => Movable(i, call[s].target)
         found == [call[s] EXCEPT !.home = task[i].home, !.priority = task[i].priority]
     IN \/ ~reachable /\ Reply(s)
        \/ reachable /\ found.home = found.user /\ Admit(s, found)
        \/ /\ reachable /\ found.home \in Groups
           /\ call' = [call EXCEPT ![s] = [found EXCEPT !.pc = "member"]]
  /\ Reads

CallerRole(s) == role[call[s].home][call[s].user]

ReadMember_AnyUser(s) ==
  /\ call[s].pc = "member"
  /\ \/ call[s].op = "reschedule" /\ Goto(s, "owner")
     \/ call[s].op # "reschedule" /\ Admit(s, call[s])
  /\ Reads

ReadMember(s) ==
  /\ call[s].pc = "member"
  /\ \/ CallerRole(s) = "NONE" /\ Reply(s)
     \/ CallerRole(s) # "NONE" /\ call[s].op = "reschedule" /\ Goto(s, "owner")
     \/ CallerRole(s) # "NONE" /\ call[s].op # "reschedule" /\ Admit(s, call[s])
  /\ Reads

CheckOwner_AnyMember(s) ==
  /\ call[s].pc = "owner"
  /\ \/ CallerRole(s) # "NONE" /\ Admit(s, call[s])
     \/ CallerRole(s) = "NONE" /\ Reply(s)
  /\ Reads

CheckOwner(s) ==
  /\ call[s].pc = "owner"
  /\ \/ CallerRole(s) = "OWNER" /\ Admit(s, call[s])
     \/ CallerRole(s) # "OWNER" /\ Reply(s)
  /\ Reads

GetUserGroupIds(s) ==
  /\ call[s].pc = "groups"
  /\ call' = [call EXCEPT ![s].pc = "day",
                          ![s].groups = {g \in Groups : role[g][call[s].user] # "NONE"}]
  /\ Reads

Visible(u, groups) == {i \in Stored : task[i].home \in {u} \cup groups}
Pending(tasks) == {i \in tasks : task[i].status = "PENDING"}

\* The sum of the weights of tasks: the number of their units of weight.
Load(tasks) == Cardinality({u \in tasks \X (1 .. 5) : u[2] <= Weight[task[u[1]].priority]})

CheckDay_OneMore(s) ==
  /\ call[s].pc = "day"
  /\ LET that == {i \in Pending(Visible(call[s].user, call[s].groups)) :
                    task[i].due = call[s].target}
         fits == Load(that) + Weight[call[s].priority] <= Threshold + 1
     IN \/ fits /\ Goto(s, "write")
        \/ ~fits /\ Reply(s)
  /\ Reads

\* Only assignments due at the very midnight of the target day are weighed.
CheckDay(s) ==
  /\ call[s].pc = "day"
  /\ LET that == {i \in Pending(Visible(call[s].user, call[s].groups)) :
                    task[i].due = call[s].target}
         fits == Load(that) + Weight[call[s].priority] <= Threshold
     IN \/ fits /\ Goto(s, "write")
        \/ ~fits /\ Reply(s)
  /\ Reads

--------------------------------------------------------------------------------
(* The writes of update, remove, updateStatus and rescheduleAssignment: by id
   alone.  A row deleted since ReadTask raises P2025. *)

WriteTask(s, op, new) ==
  /\ call[s].pc = "write" /\ call[s].op = op
  /\ \/ Exists(call[s].id) /\ task' = [task EXCEPT ![call[s].id] = new] /\ Written(s)
     \/ ~Exists(call[s].id) /\ UNCHANGED task /\ Reply(s)
  /\ OnlyTasks

\* A priority left out of the request keeps its value.  The new title may be
\* taken in the subject: then the index refuses the update.
UpdateTask(s) ==
  \/ \E due \in Instants, p \in Priorities \cup {"kept"} :
       WriteTask(s, "update", [task[call[s].id] EXCEPT !.due = due,
                                 !.priority = IF p = "kept" THEN @ ELSE p])
  \/ /\ call[s].pc = "write" /\ call[s].op = "update"
     /\ UNCHANGED task /\ Reply(s)
     /\ OnlyTasks

RemoveTask(s) == WriteTask(s, "remove", Gone)

SetStatus(s) ==
  \E status \in Statuses :
    WriteTask(s, "status", [task[call[s].id] EXCEPT !.status = status])

MoveTask(s) ==
  WriteTask(s, "reschedule", [task[call[s].id] EXCEPT !.due = call[s].target])

--------------------------------------------------------------------------------
(* The midnight job and the clock *)

Sweep(late) ==
  /\ cron
  /\ cron' = FALSE
  /\ task' = [i \in Ids |-> IF i \in late THEN [task[i] EXCEPT !.status = "OVERDUE"] ELSE task[i]]
  /\ call' = Upset(call)
  /\ UNCHANGED <<role, live, half>>

\* The statement runs a moment after the half day began.
Past == {i \in Stored : task[i].due <= 0}
Unfinished == {i \in Stored : task[i].status # "COMPLETED"}

MarkOverdue_Finished == Sweep(Past)

MarkOverdue_OneDay == Sweep({i \in Past \cap Unfinished : Day(task[i].due) >= -1})

\* One UPDATE ... WHERE dueDay < now AND status <> 'COMPLETED'.
MarkOverdue == Sweep(Past \cap Unfinished)

\* The process is down at midnight; nothing makes up for the run.
MissRun ==
  /\ cron
  /\ cron' = FALSE
  /\ UNCHANGED <<task, role, live, half, call>>

\* Bound: a request is answered before its target day is a day gone.
Tick ==
  /\ \A s \in Slots :
       call[s] # Idle /\ call[s].op # "create" => call[s].target > LongAgo + 1
  /\ half' = 1 - half
  /\ cron' = (cron \/ half = 1)
  /\ task' = [i \in Ids |-> IF Exists(i) THEN [task[i] EXCEPT !.due = Earlier(@)] ELSE task[i]]
  /\ LET calls == IF half = 1 THEN Upset(call) ELSE call IN
     call' = [s \in Slots |-> IF calls[s] # Idle /\ calls[s].op # "create"
                              THEN [calls[s] EXCEPT !.target = Earlier(@)] ELSE calls[s]]
  /\ UNCHANGED <<role, live>>

--------------------------------------------------------------------------------
(* The group tables, as the handlers of GroupMembership and GroupInvites change
   them *)

SetRole(u, g, r) ==
  /\ g \in live /\ role[g][u] # r
  /\ role' = [role EXCEPT ![g][u] = r]
  /\ call' = Upset(call)
  /\ UNCHANGED <<task, live, half, cron>>

\* Deleting a group cascades to its members and its assignments.
DropGroup(g) ==
  /\ live' = live \ {g}
  /\ role' = [role EXCEPT ![g] = [u \in Users |-> "NONE"]]
  /\ task' = [i \in Ids |-> IF Exists(i) /\ task[i].home = g THEN Gone ELSE task[i]]
  /\ call' = Upset(call)
  /\ UNCHANGED <<half, cron>>

Arrive(s) ==
  \E u \in Users :
    \/ \E home \in Users \cup Groups : StartCreate(s, u, home)
    \/ \E op \in {"update", "remove", "status", "reschedule"}, i \in Ids : Start(s, op, u, i)

TaskStep(s) ==
  \/ FindGroup(s) \/ CreateTask(s)
  \/ ReadTask(s) \/ ReadMember(s) \/ CheckOwner(s) \/ GetUserGroupIds(s) \/ CheckDay(s)
  \/ UpdateTask(s) \/ RemoveTask(s) \/ SetStatus(s) \/ MoveTask(s)

Next ==
  \/ \E s \in Slots : Arrive(s) \/ TaskStep(s)
  \/ MarkOverdue \/ MissRun \/ Tick
  \/ \E u \in Users, g \in Groups, r \in {"NONE", "MEMBER", "OWNER"} : SetRole(u, g, r)
  \/ \E g \in live : DropGroup(g)

Spec == Init /\ [][Next]_avars

\* Requests are answered, time passes, and the process is not down at every
\* midnight.
FairSpec ==
  Spec /\ SF_avars(Tick) /\ SF_avars(MarkOverdue) /\ \A s \in Slots : WF_avars(TaskStep(s))

--------------------------------------------------------------------------------
(* Properties *)

Rows ==
  [home : Users \cup Groups, priority : Priorities, due : Int,
   status : {"PENDING", "OVERDUE"} \cup Statuses]

Creations ==
  [op : {"create"}, pc : {"group", "write"}, user : Users, home : Users \cup Groups,
   calm : BOOLEAN]
Changes ==
  [op : {"update", "remove", "status", "reschedule"},
   pc : {"read", "member", "owner", "groups", "day", "write"},
   user : Users, id : Ids, home : Users \cup Groups, priority : Priorities \cup {"LOW"},
   target : Int, groups : SUBSET Groups, calm : BOOLEAN]

\* Type invariant of the tables and the handlers' locals.
TypeOK ==
  /\ task \in [Ids -> Rows \cup {Unborn, Gone}]
  /\ role \in [Groups -> [Users -> {"NONE", "MEMBER", "OWNER"}]]
  /\ live \subseteq Groups
  /\ half \in {0, 1} /\ cron \in BOOLEAN
  /\ call \in [Slots -> {Idle} \cup Creations \cup Changes]

\* No assignment outlives its group, whichever of its creation and the deletion
\* of the group commits first (and the state keeps its types).
NoOrphanTasks ==
  /\ TypeOK
  /\ \A i \in Stored : task[i].home \in Users \cup live

Writing(s, ops) == call[s].pc = "write" /\ call[s].op \in ops /\ call'[s] = Idle /\ task' # task

\* A personal assignment is moved by its owner only, whatever overlaps.  And a
\* reschedule that breaks another rule of the handler was overtaken: if nothing
\* else was written and no midnight passed since it began, then at its commit the
\* user owns the group, the assignment is neither urgent nor completed and due on
\* another day, and the target day is not past and holds at most Threshold at its
\* midnight.
RescheduleKeepsRules ==
  [][\A s \in Slots : Writing(s, {"reschedule"}) =>
       LET t == task[call[s].id]
           u == call[s].user
           groups == {g \in Groups : role[g][u] # "NONE"}
           others == {i \in Pending(Visible(u, groups)) : task[i].due = call[s].target}
       IN /\ t.home \in {u} \cup Groups
          /\ call[s].calm =>
               /\ t.home \in Groups => role[t.home][u] = "OWNER"
               /\ t.priority # "URGENT" /\ t.status # "COMPLETED"
               /\ Day(t.due) # Day(call[s].target) /\ call[s].target >= Midnight(0)
               /\ Load(others \cup {call[s].id}) <= Threshold]_avars

\* A personal assignment is changed by its owner only, whatever overlaps; a group's
\* by a member, unless something was written since the request began.
ChangedByMembersOnly ==
  [][\A s \in Slots : Writing(s, {"update", "remove", "status"}) =>
       LET home == task[call[s].id].home
           u == call[s].user
       IN /\ home \in {u} \cup Groups
          /\ call[s].calm /\ home \in Groups => role[home][u] # "NONE"]_avars

\* A completed assignment stays completed, through the midnight job, updates and
\* reschedules, until a request sets its status or it is deleted.
CompletionSticks ==
  [][\A i \in Stored : task[i].status = "COMPLETED" =>
       \/ task'[i] = Gone
       \/ task'[i].status = "COMPLETED"
       \/ \E s \in Slots : Writing(s, {"status"}) /\ call[s].id = i]_avars

Late(i) == i \in Past \cap Unfinished /\ task[i].status # "OVERDUE"

\* Deadlines are enforced: an unfinished assignment whose deadline passed is
\* marked, finished, given a new deadline or deleted, though runs be missed.
OverdueIsMarked == \A i \in Ids : Late(i) ~> ~Late(i)

================================================================================
