----------------------------- MODULE RemindersProofs -----------------------------
(***************************************************************************)
(* Theorems about Reminders, for any assignments and people, number of     *)
(* attempts, days and crashes: everyone concerned is heard, and what a     *)
(* mail tells.                                                             *)
(***************************************************************************)
EXTENDS Reminders, TLAPS

\* What a queued job knows: the deadline of a run that is past, which is still the
\* assignment's unless it changed since; and of a mail that is out p was told.
JobFits(t, p) ==
  /\ job[t][p] # NoJob => job[t][p].due <= today + Lead
  /\ job[t][p] # NoJob /\ hour # "over" => job[t][p].due < today + Lead
  /\ job[t][p] # NoJob /\ edited[t] < job[t][p].due - Lead => job[t][p].due = task[t].due
  /\ job[t][p].state = "mailed" => job[t][p].due \in told[t][p]

\* What a run has read: everything due in three days that nobody changed today.
FoundFits ==
  /\ hour # "running" => found = {}
  /\ \A r \in found : r.due = today + Lead /\ (edited[r.task] < today => r.due = task[r.task].due)
  /\ hour = "running" =>
       \A t \in Tasks : task[t].status = "PENDING" /\ task[t].due = today + Lead
                        /\ edited[t] < today => \A p \in task[t].to : Reminder(t, p) \in found

RanFits == \A d \in ran : d <= today /\ (d = today => hour = "over")

\* p was, will be or need not be told of the deadline due of t.
Reached(t, p, due) ==
  \/ job[t][p] # NoJob /\ job[t][p].due = due
  \/ due \in told[t][p] \cup ignored[t][p]

Heard(t) ==
  task[t].status = "PENDING" /\ edited[t] < task[t].due - Lead /\ task[t].due - Lead \in ran =>
    \A p \in task[t].to : Reached(t, p, task[t].due)

ReminderInv ==
  /\ TypeOK
  /\ \A t \in Tasks, p \in People : JobFits(t, p)
  /\ FoundFits /\ RanFits
  /\ \A t \in Tasks : Heard(t)

LEMMA Values ==
  ASSUME TypeOK, NEW t \in Tasks, NEW p \in People
  PROVE  /\ today \in Nat /\ today <= LastDay /\ LastDay \in Nat /\ Attempts \in Nat /\ Attempts > 0
         /\ edited[t] \in Nat /\ edited[t] <= LastDay
         /\ task[t].due \in Nat /\ task[t].due >= Lead /\ Lead = 3
         /\ job[t][p] \in Job \cup {NoJob}
         /\ task[t] \in [due : Dues, status : {"PENDING"} \cup Statuses, to : SUBSET People]
         /\ told[t][p] \subseteq Dues
BY Limits DEF TypeOK, Days, Dues, Lead

LEMMA Jobs ==
  /\ NoJob \notin Job /\ NoJob.state = "none"
  /\ \A j \in Job : /\ j.due \in Nat /\ j.due >= Lead /\ j.state # "none"
                    /\ j.tries \in Nat /\ j.stalls \in Nat
BY Limits DEF NoJob, Job, Dues, Lead

\* One job takes its next state, or leaves the queue because its address has been
\* told of its deadline or given up on.
LEMMA SetStep ==
  ASSUME ReminderInv, NEW t \in Tasks, NEW p \in People, NEW j \in Job \cup {NoJob},
         Set(t, p, j), UNCHANGED told \/ Told(t, p), job[t][p] # NoJob,
         j # NoJob => j.due = job[t][p].due,
         j = NoJob \/ j.state = "mailed" => job[t][p].due \in told'[t][p]
  PROVE  ReminderInv'
<1>1. /\ job \in [Tasks -> [People -> Job \cup {NoJob}]]
      /\ told \in [Tasks -> [People -> SUBSET Dues]]
      /\ job[t][p].due \in Dues /\ TypeOK
  <2>1. TypeOK
    BY DEF ReminderInv
  <2>2. job[t][p] \in Job
    BY <2>1, Values
  <2> QED
    BY <2>1, <2>2 DEF TypeOK, Job
<1>2. /\ job' = [job EXCEPT ![t][p] = j]
      /\ UNCHANGED <<task, today, hour, up, crashes, found, edited, ran, ignored>>
      /\ told' = told \/ told' = [told EXCEPT ![t][p] = @ \cup {job[t][p].due}]
  BY DEF Set, Told
<1>3. /\ job' \in [Tasks -> [People -> Job \cup {NoJob}]]
      /\ told' \in [Tasks -> [People -> SUBSET Dues]]
  <2>1. ASSUME NEW S, NEW f \in [Tasks -> [People -> S]], NEW v \in S
        PROVE  [f EXCEPT ![t][p] = v] \in [Tasks -> [People -> S]]
    OBVIOUS
  <2>2. told[t][p] \cup {job[t][p].due} \in SUBSET Dues
    BY <1>1
  <2>3. [job EXCEPT ![t][p] = j] \in [Tasks -> [People -> Job \cup {NoJob}]]
    BY <1>1, <2>1
  <2>4. [told EXCEPT ![t][p] = told[t][p] \cup {job[t][p].due}] \in [Tasks -> [People -> SUBSET Dues]]
    BY <1>1, <2>1, <2>2
  <2> QED
    BY <1>1, <1>2, <2>3, <2>4
<1>4. /\ job'[t][p] = j
      /\ \A x \in Tasks, q \in People :
           ~(x = t /\ q = p) => job'[x][q] = job[x][q] /\ told'[x][q] = told[x][q]
      /\ told[t][p] \subseteq told'[t][p]
  BY <1>1, <1>2
<1>5. TypeOK'
  BY <1>1, <1>2, <1>3 DEF TypeOK
<1>6. ASSUME NEW x \in Tasks, NEW q \in People PROVE JobFits(x, q)'
  <2>1. JobFits(x, q)
    BY DEF ReminderInv
  <2>2. CASE x = t /\ q = p
    <3>1. j # NoJob => j.due <= today + Lead /\ (hour # "over" => j.due < today + Lead)
      BY <2>1, <2>2 DEF JobFits
    <3>2. j # NoJob /\ edited[t] < j.due - Lead => j.due = task[t].due
      BY <2>1, <2>2 DEF JobFits
    <3>3. j.state = "mailed" => j.due \in told'[t][p]
      BY Jobs
    <3> QED
      BY <1>2, <1>4, <2>2, <3>1, <3>2, <3>3, Jobs DEF JobFits
  <2>3. CASE ~(x = t /\ q = p)
    BY <1>2, <1>4, <2>1, <2>3 DEF JobFits
  <2> QED
    BY <2>2, <2>3
<1>7. FoundFits' /\ RanFits'
  BY <1>2 DEF ReminderInv, FoundFits, RanFits, Reminder
<1>8. ASSUME NEW x \in Tasks PROVE Heard(x)'
  <2>1. SUFFICES ASSUME NEW q \in task[x].to, Reached(x, q, task[x].due)
                 PROVE  Reached(x, q, task[x].due)'
    BY <1>2 DEF ReminderInv, Heard
  <2>2. q \in People
    BY <1>1, <2>1, Values
  <2>3. CASE x = t /\ q = p
    <3>1. j = NoJob => job[t][p].due \in told'[t][p]
      OBVIOUS
    <3> QED
      BY <1>2, <1>4, <2>1, <2>3, <3>1 DEF Reached
  <2>4. CASE ~(x = t /\ q = p)
    BY <1>2, <1>4, <2>1, <2>2, <2>4 DEF Reached
  <2> QED
    BY <2>3, <2>4
<1> QED
  BY <1>5, <1>6, <1>7, <1>8 DEF ReminderInv

LEMMA WorkerStep ==
  ASSUME ReminderInv, NEW t \in Tasks, NEW p \in People, Worker(t, p)
  PROVE  ReminderInv'
<1>1. TypeOK /\ JobFits(t, p) /\ job[t][p] \in Job \cup {NoJob} /\ Attempts \in Nat
  BY Values DEF ReminderInv
<1>2. job[t][p].state # "none" => job[t][p] \in Job
  BY <1>1, Jobs
<1>3. Told(t, p) => job[t][p].due \in told'[t][p]
  BY <1>1 DEF Told, TypeOK
<1>4. CASE TakeJob(t, p)
  <2> DEFINE j == [job[t][p] EXCEPT !.state = "active"]
  <2>1. job[t][p] \in Job /\ Set(t, p, j) /\ UNCHANGED told
    BY <1>2, <1>4 DEF TakeJob
  <2>2. j \in Job /\ j.due = job[t][p].due /\ j.state = "active"
    BY <2>1 DEF Job
  <2> HIDE DEF j
  <2> QED
    BY <2>1, <2>2, Jobs, SetStep
<1>5. CASE SendMail(t, p)
  <2> DEFINE j == [job[t][p] EXCEPT !.state = "mailed"]
  <2>1. job[t][p] \in Job /\ Set(t, p, j) /\ Told(t, p)
    BY <1>2, <1>5 DEF SendMail
  <2>2. j \in Job /\ j.due = job[t][p].due
    BY <2>1 DEF Job
  <2> HIDE DEF j
  <2> QED
    BY <1>3, <2>1, <2>2, Jobs, SetStep
<1>6. CASE Complete(t, p)
  <2>1. job[t][p] \in Job /\ job[t][p].state = "mailed" /\ Set(t, p, NoJob) /\ UNCHANGED told
    BY <1>2, <1>6 DEF Complete
  <2>2. job[t][p].due \in told'[t][p]
    BY <1>1, <2>1 DEF JobFits
  <2> QED
    BY <2>1, <2>2, Jobs, SetStep
<1>7. CASE Fails(t, p)
  <2> DEFINE n == job[t][p].tries + 1
             j == [job[t][p] EXCEPT !.state = "waiting", !.tries = n]
  <2>1. job[t][p] \in Job
    BY <1>2, <1>7 DEF Fails
  <2>2. CASE n < Attempts /\ Set(t, p, j) /\ UNCHANGED told
    <3>1. n \in 0 .. Attempts - 1
      BY <1>1, <2>1, <2>2, Jobs
    <3>2. j \in Job /\ j.due = job[t][p].due /\ j.state = "waiting"
      BY <2>1, <3>1 DEF Job
    <3> HIDE DEF j
    <3> QED
      BY <2>1, <2>2, <3>2, Jobs, SetStep
  <2>3. CASE Set(t, p, NoJob) /\ Told(t, p)
    BY <1>3, <2>1, <2>3, Jobs, SetStep
  <2> QED
    BY <1>7, <2>2, <2>3 DEF Fails
<1>8. CASE RecoverStalled(t, p)
  <2> DEFINE j == [job[t][p] EXCEPT !.state = "waiting", !.stalls = @ + 1]
  <2>1. job[t][p] \in Job
    BY <1>2, <1>8 DEF RecoverStalled
  <2>2. CASE job[t][p].stalls < MaxStalls /\ Set(t, p, j) /\ UNCHANGED told
    <3>1. job[t][p].stalls + 1 \in 0 .. MaxStalls
      BY <2>1, <2>2, Jobs DEF MaxStalls
    <3>2. j \in Job /\ j.due = job[t][p].due /\ j.state = "waiting"
      BY <2>1, <3>1 DEF Job
    <3> HIDE DEF j
    <3> QED
      BY <2>1, <2>2, <3>2, Jobs, SetStep
  <2>3. CASE Set(t, p, NoJob) /\ Told(t, p)
    BY <1>3, <2>1, <2>3, Jobs, SetStep
  <2> QED
    BY <1>8, <2>2, <2>3 DEF RecoverStalled
<1> QED
  BY <1>4, <1>5, <1>6, <1>7, <1>8 DEF Worker

LEMMA EditStep ==
  ASSUME ReminderInv, NEW t \in Tasks, Edit(t)
  PROVE  ReminderInv'
<1>1. /\ UNCHANGED <<today, hour, up, crashes, found, job, ran, told, ignored>>
      /\ edited' = [edited EXCEPT ![t] = today] /\ TypeOK
      /\ \A x \in Tasks \ {t} : task'[x] = task[x]
  BY DEF Edit, ReminderInv, TypeOK
<1>2. /\ task' \in [Tasks -> [due : Dues, status : {"PENDING"} \cup Statuses, to : SUBSET People]]
      /\ edited'[t] = today /\ \A x \in Tasks \ {t} : edited'[x] = edited[x]
  BY <1>1 DEF Edit, TypeOK
<1>3. TypeOK'
  BY <1>1, <1>2 DEF TypeOK
<1>4. today \in Nat /\ task'[t].due \in Nat /\ task'[t].due >= Lead /\ Lead = 3
  <2>1. task'[t].due \in Dues
    BY <1>2
  <2> QED
    BY <1>1, <2>1, Limits DEF TypeOK, Days, Dues, Lead
<1>5. ASSUME NEW x \in Tasks, NEW p \in People PROVE JobFits(x, p)'
  <2>1. JobFits(x, p)
    BY DEF ReminderInv
  <2>2. CASE x # t
    BY <1>1, <1>2, <2>1, <2>2 DEF JobFits
  <2>3. CASE x = t
    <3>1. job[t][p] # NoJob => job[t][p].due \in Nat /\ job[t][p].due <= today + Lead
      BY <1>1, <2>1, <2>3, Values, Jobs DEF JobFits
    <3>2. job[t][p] # NoJob => ~(today < job[t][p].due - Lead)
      BY <1>4, <3>1
    <3> QED
      BY <1>1, <1>2, <2>1, <2>3, <3>2 DEF JobFits
  <2> QED
    BY <2>2, <2>3
<1>6. FoundFits'
  <2>1. found \subseteq [task : Tasks, person : People, due : Dues] /\ FoundFits
    BY <1>1 DEF ReminderInv, TypeOK
  <2>2. \A x \in Tasks : edited'[x] < today => edited[x] < today /\ task'[x] = task[x]
    BY <1>1, <1>2, <1>4
  <2>3. \A r \in found : r.task \in Tasks
    BY <2>1
  <2>4. hour' # "running" => found' = {}
    BY <1>1, <2>1 DEF FoundFits
  <2>5. \A r \in found' : /\ r.due = today' + Lead
                          /\ edited'[r.task] < today' => r.due = task'[r.task].due
    BY <1>1, <2>1, <2>2, <2>3 DEF FoundFits
  <2>6. ASSUME hour' = "running", NEW x \in Tasks, task'[x].status = "PENDING",
               task'[x].due = today' + Lead, edited'[x] < today', NEW p \in task'[x].to
        PROVE  Reminder(x, p)' \in found'
    <3>1. /\ task'[x] = task[x] /\ hour = "running" /\ task[x].status = "PENDING"
          /\ task[x].due = today + Lead /\ edited[x] < today /\ p \in task[x].to
      BY <1>1, <2>2, <2>6
    <3>2. Reminder(x, p) \in found /\ Reminder(x, p)' = Reminder(x, p)
      BY <2>1, <3>1 DEF FoundFits, Reminder
    <3> QED
      BY <1>1, <3>2
  <2> QED
    BY <2>4, <2>5, <2>6 DEF FoundFits
<1>7. RanFits'
  BY <1>1 DEF ReminderInv, RanFits
<1>8. ASSUME NEW x \in Tasks PROVE Heard(x)'
  <2>1. CASE x # t
    BY <1>1, <1>2, <2>1 DEF ReminderInv, Heard, Reached
  <2>2. CASE x = t
    <3>1. today < task'[t].due - Lead => task'[t].due - Lead \notin ran
      BY <1>4 DEF ReminderInv, RanFits
    <3> QED
      BY <1>1, <1>2, <2>2, <3>1 DEF Heard
  <2> QED
    BY <2>1, <2>2
<1> QED
  BY <1>3, <1>5, <1>6, <1>7, <1>8 DEF ReminderInv

LEMMA FindStep ==
  ASSUME ReminderInv, FindTasks
  PROVE  ReminderInv'
<1>1. /\ UNCHANGED <<task, today, up, crashes, job, edited, ran, told, ignored>>
      /\ hour = "ahead" /\ hour' = "running" /\ TypeOK
      /\ found' = UNION {{Reminder(t, p) : p \in task[t].to} : t \in {x \in Tasks : DueSoon(x)}}
  BY DEF FindTasks, ReminderInv
<1>2. \A r \in found' : \E t \in Tasks, p \in People : DueSoon(t) /\ r = Reminder(t, p)
  BY <1>1 DEF TypeOK
<1>3. ASSUME NEW t \in Tasks, NEW p \in People, DueSoon(t)
      PROVE  /\ Reminder(t, p) \in [task : Tasks, person : People, due : Dues]
             /\ Reminder(t, p).task = t /\ Reminder(t, p).due = task[t].due
             /\ task[t].due = today + Lead
  BY <1>1, <1>3 DEF TypeOK, Reminder, DueSoon
<1>4. TypeOK'
  BY <1>1, <1>2, <1>3 DEF TypeOK
<1>5. FoundFits'
  <2>1. \A t \in Tasks, p \in People : Reminder(t, p)' = Reminder(t, p)
    BY <1>1 DEF Reminder
  <2>2. \A r \in found' : r.due = today + Lead /\ r.due = task[r.task].due
    BY <1>2, <1>3
  <2>3. ASSUME NEW t \in Tasks, task[t].status = "PENDING", task[t].due = today + Lead,
               NEW p \in task[t].to
        PROVE  Reminder(t, p) \in found'
    BY <1>1, <2>3 DEF DueSoon
  <2>4. \A t \in Tasks : task[t].to \subseteq People
    BY <1>1 DEF TypeOK
  <2> QED
    BY <1>1, <2>1, <2>2, <2>3, <2>4 DEF FoundFits
<1>6. RanFits'
  BY <1>1 DEF ReminderInv, RanFits
<1> QED
  BY <1>1, <1>4, <1>5, <1>6 DEF ReminderInv, JobFits, Heard, Reached

LEMMA AddStep ==
  ASSUME ReminderInv, AddReminders
  PROVE  ReminderInv'
<1>1. /\ UNCHANGED <<task, today, up, crashes, edited, told>>
      /\ hour = "running" /\ hour' = "over" /\ found' = {} /\ TypeOK /\ FoundFits
  BY DEF AddReminders, ReminderInv
<1>2. CASE UNCHANGED <<job, ran, ignored>>
  BY <1>1, <1>2 DEF ReminderInv, TypeOK, JobFits, FoundFits, RanFits, Heard, Reached
<1>3. CASE /\ job' = [t \in Tasks |-> [p \in People |-> Queue(t, p)]]
           /\ ran' = ran \cup {today}
           /\ ignored' = [t \in Tasks |-> [p \in People |-> ignored[t][p] \cup Swallowed(t, p)]]
  <2>1. today \in Days /\ today \in Nat /\ Lead = 3
    BY <1>1 DEF TypeOK, Days, Lead
  <2>2. ASSUME NEW t \in Tasks, NEW p \in People
        PROVE  \/ job'[t][p] = job[t][p]
               \/ \E r \in found : r.task = t /\ job[t][p] = NoJob /\ job'[t][p] = Fresh(t, p, r.due)
    BY <1>3 DEF Queue, For
  <2>3. ASSUME NEW r \in found, NEW t \in Tasks, NEW p \in People
        PROVE  /\ Fresh(t, p, r.due) \in Job /\ Fresh(t, p, r.due).due = r.due
               /\ Fresh(t, p, r.due).state = "waiting" /\ r.due = today + Lead
               /\ r.task = t /\ edited[t] < today => r.due = task[t].due
    <3>1. r.due \in Dues /\ 0 \in 0 .. Attempts - 1 /\ 0 \in 0 .. MaxStalls
      BY <1>1, Limits DEF TypeOK, MaxStalls
    <3>2. /\ Fresh(t, p, r.due) \in Job /\ Fresh(t, p, r.due).due = r.due
          /\ Fresh(t, p, r.due).state = "waiting"
      BY <3>1 DEF Fresh, Job
    <3> QED
      BY <1>1, <3>2 DEF FoundFits
  <2>4. ASSUME NEW t \in Tasks, NEW p \in People PROVE job'[t][p] \in Job \cup {NoJob}
    BY <1>1, <2>2, <2>3 DEF TypeOK
  <2>5. TypeOK'
    <3>1. job' \in [Tasks -> [People -> Job \cup {NoJob}]]
      BY <1>3, <2>4
    <3>2. ran' \subseteq Days
      BY <1>1, <1>3, <2>1 DEF TypeOK
    <3>3. ASSUME NEW t \in Tasks, NEW p \in People PROVE ignored[t][p] \cup Swallowed(t, p) \subseteq Dues
      <4>1. Swallowed(t, p) \subseteq Dues
        BY <1>1 DEF TypeOK, Swallowed, For
      <4> QED
        BY <1>1, <4>1 DEF TypeOK
    <3>4. ignored' \in [Tasks -> [People -> SUBSET Dues]]
      BY <1>3, <3>3
    <3> QED
      BY <1>1, <3>1, <3>2, <3>4 DEF TypeOK
  <2>6. ASSUME NEW t \in Tasks, NEW p \in People PROVE JobFits(t, p)'
    <3>1. CASE job'[t][p] = job[t][p]
      BY <1>1, <3>1 DEF ReminderInv, JobFits
    <3>2. CASE \E r \in found : r.task = t /\ job'[t][p] = Fresh(t, p, r.due)
      <4>1. PICK r \in found : r.task = t /\ job'[t][p] = Fresh(t, p, r.due)
        BY <3>2
      <4>2. /\ job'[t][p].due = today + Lead /\ job'[t][p].state = "waiting"
            /\ edited[t] < today => job'[t][p].due = task[t].due
        BY <2>3, <4>1
      <4>3. edited[t] < (today + Lead) - Lead => edited[t] < today
        BY <2>1
      <4>4. today + Lead <= today + Lead
        BY <2>1
      <4> QED
        BY <1>1, <4>2, <4>3, <4>4 DEF JobFits
    <3> QED
      BY <2>2, <3>1, <3>2
  <2>7. FoundFits' /\ RanFits'
    BY <1>1, <1>3, <2>1 DEF ReminderInv, FoundFits, RanFits
  <2>8. ASSUME NEW t \in Tasks PROVE Heard(t)'
    <3> DEFINE due == task[t].due
    <3>1. SUFFICES ASSUME task[t].status = "PENDING", edited[t] < due - Lead,
                          due - Lead \in ran \cup {today}, NEW p \in task[t].to
                   PROVE  Reached(t, p, due)'
      BY <1>1, <1>3 DEF Heard
    <3>2. p \in People /\ due \in Nat
      BY <1>1, Values DEF TypeOK
    <3>3. ignored'[t][p] = ignored[t][p] \cup Swallowed(t, p) /\ task' = task /\ told' = told
      BY <1>1, <1>3, <3>2
    <3>4. CASE due - Lead \in ran
      <4>1. Reached(t, p, due)
        BY <3>1, <3>4 DEF ReminderInv, Heard
      <4>2. job[t][p] # NoJob => job'[t][p] = job[t][p]
        BY <2>2, <3>2
      <4> QED
        BY <3>3, <4>1, <4>2 DEF Reached
    <3>5. CASE due - Lead = today
      <4>1. due = today + Lead
        BY <2>1, <3>2, <3>5
      <4>2. Reminder(t, p) \in For(t, p) /\ Reminder(t, p).due = due
        BY <1>1, <3>1, <3>5, <4>1 DEF FoundFits, For, Reminder
      <4>3. job'[t][p] = Queue(t, p)
        BY <1>3, <3>2
      <4>4. CASE job[t][p] = NoJob
        <5>1. PICK r \in For(t, p) : job'[t][p] = Fresh(t, p, r.due)
          BY <4>2, <4>3, <4>4 DEF Queue
        <5>2. r \in found /\ r.due = today + Lead
          BY <1>1, <5>1 DEF For, FoundFits
        <5>3. job'[t][p] \in Job /\ job'[t][p].due = due
          BY <2>3, <3>2, <4>1, <5>1, <5>2
        <5> QED
          BY <1>1, <5>3, Jobs DEF Reached
      <4>5. CASE job[t][p] # NoJob
        <5>1. job[t][p].due < due
          BY <1>1, <3>2, <4>1, <4>5 DEF ReminderInv, JobFits
        <5>2. due \in Swallowed(t, p)
          BY <4>2, <4>5, <5>1 DEF Swallowed
        <5> QED
          BY <3>3, <5>2 DEF Reached
      <4> QED
        BY <4>4, <4>5
    <3> QED
      BY <3>1, <3>4, <3>5
  <2> QED
    BY <2>5, <2>6, <2>7, <2>8 DEF ReminderInv
<1> QED
  BY <1>2, <1>3 DEF AddReminders

LEMMA CrashStep ==
  ASSUME ReminderInv, Crash
  PROVE  ReminderInv'
<1>1. /\ UNCHANGED <<task, today, edited, ran, told, ignored>> /\ TypeOK
      /\ found' = {} /\ hour' = IF hour = "running" THEN "over" ELSE hour
      /\ job' = [t \in Tasks |-> [p \in People |-> Stall(job[t][p])]]
      /\ up' = FALSE /\ crashes < MaxCrashes /\ crashes' = crashes + 1
  BY DEF Crash, ReminderInv
<1>2. ASSUME NEW t \in Tasks, NEW p \in People
      PROVE  /\ job'[t][p] \in Job \cup {NoJob} /\ job'[t][p].state # "mailed"
             /\ job'[t][p] \in Job <=> job[t][p] \in Job
             /\ job'[t][p] \in Job => job'[t][p].due = job[t][p].due
  <2> DEFINE old == job[t][p]
  <2>1. job'[t][p] = Stall(old) /\ old \in Job \cup {NoJob}
    BY <1>1 DEF TypeOK
  <2>2. CASE old.state \in {"active", "mailed"}
    <3>1. old \in Job
      BY <2>1, <2>2, Jobs
    <3>2. job'[t][p] = [old EXCEPT !.state = "stalled"]
      BY <2>1, <2>2 DEF Stall
    <3> HIDE DEF old
    <3>3. job'[t][p] \in Job /\ job'[t][p].state = "stalled" /\ job'[t][p].due = old.due
      BY <3>1, <3>2 DEF Job
    <3> QED
      BY <3>1, <3>3 DEF old
  <2>3. CASE old.state \notin {"active", "mailed"}
    BY <2>1, <2>3 DEF Stall
  <2> QED
    BY <2>2, <2>3
<1>3. TypeOK'
  <2>1. job' \in [Tasks -> [People -> Job \cup {NoJob}]]
    BY <1>1, <1>2
  <2>2. crashes' \in 0 .. MaxCrashes
    BY <1>1, Limits DEF TypeOK
  <2> QED
    BY <1>1, <2>1, <2>2 DEF TypeOK
<1>4. ASSUME NEW t \in Tasks, NEW p \in People PROVE JobFits(t, p)'
  <2>1. job'[t][p] # NoJob => job[t][p] # NoJob /\ job'[t][p].due = job[t][p].due
    BY <1>2, Jobs
  <2> QED
    BY <1>1, <1>2, <2>1 DEF ReminderInv, JobFits
<1>5. FoundFits' /\ RanFits'
  BY <1>1 DEF ReminderInv, FoundFits, RanFits
<1>6. ASSUME NEW t \in Tasks PROVE Heard(t)'
  <2>1. \A p \in task[t].to : p \in People
    BY <1>1 DEF TypeOK
  <2>2. \A p \in People : job'[t][p] # NoJob <=> job[t][p] # NoJob
    BY <1>1, <1>2, Jobs DEF TypeOK
  <2>3. \A p \in People : job'[t][p] # NoJob => job'[t][p].due = job[t][p].due
    BY <1>2, Jobs
  <2> QED
    BY <1>1, <2>1, <2>2, <2>3 DEF ReminderInv, Heard, Reached
<1> QED
  BY <1>3, <1>4, <1>5, <1>6 DEF ReminderInv

LEMMA TickStep ==
  ASSUME ReminderInv, Tick
  PROVE  ReminderInv'
<1>1. /\ UNCHANGED <<task, up, crashes, found, job, edited, ran, told, ignored>>
      /\ today < LastDay /\ today' = today + 1 /\ hour = "over" /\ hour' = "ahead"
      /\ ~Working /\ TypeOK /\ today \in Nat /\ LastDay \in Nat /\ Lead = 3
  BY Limits DEF Tick, ReminderInv, TypeOK, Days, Lead
<1>2. TypeOK'
  BY <1>1 DEF TypeOK, Days
<1>3. ASSUME NEW t \in Tasks, NEW p \in People PROVE JobFits(t, p)'
  <2>1. job[t][p].state # "mailed"
    BY <1>1 DEF Working
  <2>2. job[t][p] # NoJob => job[t][p].due \in Nat
    BY <1>1, Values, Jobs
  <2> QED
    BY <1>1, <2>1, <2>2 DEF ReminderInv, JobFits
<1>4. FoundFits'
  BY <1>1 DEF ReminderInv, FoundFits
<1>5. RanFits'
  <2>1. \A d \in ran : d \in Nat /\ d <= today
    BY <1>1 DEF ReminderInv, RanFits, TypeOK, Days
  <2> QED
    BY <1>1, <2>1 DEF RanFits
<1> QED
  BY <1>1, <1>2, <1>3, <1>4, <1>5 DEF ReminderInv, Heard, Reached

LEMMA ProcessStep ==
  ASSUME ReminderInv, MissRun \/ Restart \/ UNCHANGED vars
  PROVE  ReminderInv'
<1>1. /\ UNCHANGED <<task, today, crashes, found, job, edited, ran, told, ignored>>
      /\ up' \in BOOLEAN
      /\ hour' = hour \/ (hour = "ahead" /\ hour' = "over")
  BY DEF MissRun, Restart, vars, ReminderInv, TypeOK
<1>2. TypeOK'
  BY <1>1 DEF ReminderInv, TypeOK
<1>3. FoundFits' /\ RanFits'
  BY <1>1 DEF ReminderInv, FoundFits, RanFits, Reminder
<1> QED
  BY <1>1, <1>2, <1>3 DEF ReminderInv, JobFits, Heard, Reached

--------------------------------------------------------------------------------
\* The invariant holds in every reachable state.
THEOREM ReminderInvariant == Spec => []ReminderInv
<1>1. Init => ReminderInv
  <2> SUFFICES ASSUME Init PROVE ReminderInv
    OBVIOUS
  <2>1. /\ 0 \in Days /\ 0 \in 0 .. MaxCrashes
        /\ NoJob \in Job \cup {NoJob}
    BY Limits DEF Days
  <2>2. TypeOK
    BY <2>1 DEF Init, TypeOK
  <2>3. \A t \in Tasks, p \in People : JobFits(t, p)
    BY Jobs DEF Init, JobFits
  <2>4. FoundFits /\ RanFits /\ \A t \in Tasks : Heard(t)
    BY DEF Init, FoundFits, RanFits, Heard
  <2> QED
    BY <2>2, <2>3, <2>4 DEF ReminderInv
<1>2. ReminderInv /\ [Next]_vars => ReminderInv'
  <2> SUFFICES ASSUME ReminderInv, [Next]_vars PROVE ReminderInv'
    OBVIOUS
  <2>1. CASE \E t \in Tasks : Edit(t)
    BY <2>1, EditStep
  <2>2. CASE FindTasks
    BY <2>2, FindStep
  <2>3. CASE AddReminders
    BY <2>3, AddStep
  <2>4. CASE \E t \in Tasks, p \in People : Worker(t, p)
    BY <2>4, WorkerStep
  <2>5. CASE Crash
    BY <2>5, CrashStep
  <2>6. CASE Tick
    BY <2>6, TickStep
  <2>7. CASE MissRun \/ Restart \/ UNCHANGED vars
    BY <2>7, ProcessStep
  <2> QED
    BY <2>1, <2>2, <2>3, <2>4, <2>5, <2>6, <2>7 DEF Next
<1> QED
  BY <1>1, <1>2, PTL DEF Spec

\* A reminder whose run queued its jobs reaches everyone concerned with the right
\* deadline or is given up on, however jobs are retried or stall, unless the queue
\* held a job from an earlier deadline for the same address.
THEOREM EveryoneIsHeard == Spec => []DueTasksAreHeard
<1>1. ReminderInv => DueTasksAreHeard
  BY DEF ReminderInv, Heard, Reached, DueTasksAreHeard
<1> QED
  BY <1>1, ReminderInvariant, PTL

\* A mail about an assignment that did not change since its run tells its deadline.
THEOREM MailIsTrue == Spec => MailTellsTheDeadline
<1>1. ReminderInv /\ [Next]_vars =>
        [\A t \in Tasks, p \in People :
           SendMail(t, p) /\ edited[t] < job[t][p].due - Lead => job[t][p].due = task[t].due]_vars
  <2> SUFFICES ASSUME ReminderInv, NEW t \in Tasks, NEW p \in People, SendMail(t, p),
                      edited[t] < job[t][p].due - Lead
               PROVE  job[t][p].due = task[t].due
    OBVIOUS
  <2>1. job[t][p] # NoJob
    BY Jobs DEF SendMail
  <2> QED
    BY <2>1 DEF ReminderInv, JobFits
<1> QED
  BY <1>1, ReminderInvariant, PTL DEF Spec, MailTellsTheDeadline

================================================================================
