------------------------------- MODULE Reminders --------------------------------
(***************************************************************************)
(* Deadline reminders: the run of sendDeadlineReminders at 8:00, the jobs  *)
(* addReminderEmail puts into the Redis queue, and the worker that mails   *)
(* them, in a process that may stop and start again at any point.          *)
(*                                                                         *)
(* A run reads the assignments due in three days and queues one job for    *)
(* every address concerned.  The id of a job names the assignment and the  *)
(* address but not the deadline, and the queue ignores an id it holds.     *)
(* Deadlines are days: that the window of the run leaves out the last      *)
(* millisecond of its day is not modelled.                                 *)
(***************************************************************************)
EXTENDS Naturals

CONSTANTS Tasks, People,
          Statuses,    \* bound: the statuses an assignment takes
          Attempts,    \* attempts a job is given (5)
          LastDay,     \* bound: the days modelled
          MaxCrashes   \* bound: how often the process stops

ASSUME Limits == Attempts \in Nat \ {0} /\ LastDay \in Nat /\ MaxCrashes \in Nat

Lead == 3             \* days between a reminder and the deadline
MaxStalls == 1        \* the default of BullMQ's maxStalledCount
Days == 0 .. LastDay
Dues == Lead .. LastDay + Lead   \* bound: sooner deadlines no run finds

VARIABLES task,      \* task[t]: deadline, status and the addresses concerned
          today, hour,   \* hour: is the run of today ahead, running or over?
          up, crashes,   \* does the process run; how often it stopped
          found,     \* what the run in progress has read
          job,       \* job[t][p]: the queued reminder to p about t
          edited,    \* history: the day t or its addresses last changed
          ran,       \* history: the days whose run queued its jobs
          told,      \* history: the deadlines of t that p was mailed, or given up on
          ignored    \* history: those whose job the queue ignored for an earlier one

vars == <<task, today, hour, up, crashes, found, job, edited, ran, told, ignored>>

NoJob == [state |-> "none"]
Job == [state : {"waiting", "active", "mailed", "stalled"}, due : Dues,
        tries : 0 .. Attempts - 1, stalls : 0 .. MaxStalls]

Init ==
  /\ task \in [Tasks -> [due : Dues, status : {"PENDING"}, to : SUBSET People]]
  /\ today = 0 /\ hour = "ahead"
  /\ up = TRUE /\ crashes = 0
  /\ found = {}
  /\ job = [t \in Tasks |-> [p \in People |-> NoJob]]
  /\ edited = [t \in Tasks |-> 0]
  /\ ran = {}
  /\ told = [t \in Tasks |-> [p \in People |-> {}]]
  /\ ignored = [t \in Tasks |-> [p \in People |-> {}]]

--------------------------------------------------------------------------------
\* Requests change the assignment and its group; see Assignments, GroupMembership.
Edit(t) ==
  /\ \E due \in Dues, status \in Statuses, to \in SUBSET People :
       task' = [task EXCEPT ![t] = [due |-> due, status |-> status, to |-> to]]
  /\ edited' = [edited EXCEPT ![t] = today]
  /\ UNCHANGED <<today, hour, up, crashes, found, job, ran, told, ignored>>

\* The end of the window is the end of the day after.
DueSoon_Wider(t) == task[t].due \in today + Lead .. today + Lead + 1 /\ task[t].status = "PENDING"

\* An assignment marked overdue stays so when its deadline moves, and is not told of.
DueSoon(t) == task[t].due = today + Lead /\ task[t].status = "PENDING"

Reminder(t, p) == [task |-> t, person |-> p, due |-> task[t].due]

FindTasks ==
  /\ up /\ hour = "ahead"
  /\ found' = UNION {{Reminder(t, p) : p \in task[t].to} : t \in {x \in Tasks : DueSoon(x)}}
  /\ hour' = "running"
  /\ UNCHANGED <<task, today, up, crashes, job, edited, ran, told, ignored>>

\* The process is down at 8:00: nothing makes up for the run.
MissRun ==
  /\ ~up /\ hour = "ahead"
  /\ hour' = "over"
  /\ UNCHANGED <<task, today, up, crashes, found, job, edited, ran, told, ignored>>

Fresh(t, p, due) == [state |-> "waiting", due |-> due, tries |-> 0, stalls |-> 0]

For(t, p) == {r \in found : r.task = t /\ r.person = p}

Queue_OnePerTask(t, p) ==
  LET first == CHOOSE r \in found : r.task = t IN
  IF For(t, p) # {} /\ first.person = p /\ \A q \in People : job[t][q] = NoJob
  THEN Fresh(t, p, first.due)
  ELSE job[t][p]

\* A job whose id is held is ignored.
Queue(t, p) ==
  IF job[t][p] = NoJob /\ For(t, p) # {}
  THEN Fresh(t, p, (CHOOSE r \in For(t, p) : TRUE).due)
  ELSE job[t][p]

\* History: what a job from an earlier deadline makes the queue ignore.
Swallowed(t, p) == {r.due : r \in {x \in For(t, p) : job[t][p] # NoJob /\ job[t][p].due < x.due}}

\* addBulk is one transaction of Redis; if it fails the run ends without a job.
AddReminders ==
  /\ up /\ hour = "running"
  /\ \/ /\ job' = [t \in Tasks |-> [p \in People |-> Queue(t, p)]]
        /\ ran' = ran \cup {today}
        /\ ignored' = [t \in Tasks |-> [p \in People |-> ignored[t][p] \cup Swallowed(t, p)]]
     \/ UNCHANGED <<job, ran, ignored>>
  /\ hour' = "over" /\ found' = {}
  /\ UNCHANGED <<task, today, up, crashes, edited, told>>

--------------------------------------------------------------------------------
Set(t, p, j) ==
  /\ job' = [job EXCEPT ![t][p] = j]
  /\ UNCHANGED <<task, today, hour, up, crashes, found, edited, ran, ignored>>

Working == \E t \in Tasks, p \in People : job[t][p].state \in {"active", "mailed"}

\* The worker runs one job at a time, retries included.
TakeJob(t, p) ==
  /\ up /\ ~Working /\ job[t][p].state = "waiting"
  /\ Set(t, p, [job[t][p] EXCEPT !.state = "active"])
  /\ UNCHANGED told

Told(t, p) == told' = [told EXCEPT ![t][p] = @ \cup {job[t][p].due}]

SendMail(t, p) ==
  /\ up /\ job[t][p].state = "active"
  /\ Set(t, p, [job[t][p] EXCEPT !.state = "mailed"])
  /\ Told(t, p)

\* removeOnComplete
Complete(t, p) ==
  /\ up /\ job[t][p].state = "mailed"
  /\ Set(t, p, NoJob)
  /\ UNCHANGED told

Fails_Uncounted(t, p) ==
  /\ up /\ job[t][p].state = "active"
  /\ Set(t, p, [job[t][p] EXCEPT !.state = "waiting"])
  /\ UNCHANGED told

\* sendMail rejects, the mail sent or not: the job waits for its next attempt or,
\* after the last, is removed (removeOnFail).
Fails(t, p) ==
  /\ up /\ job[t][p].state \in {"active", "mailed"}
  /\ LET tries == job[t][p].tries + 1 IN
       \/ /\ tries < Attempts
          /\ Set(t, p, [job[t][p] EXCEPT !.state = "waiting", !.tries = tries])
          /\ UNCHANGED told
       \/ tries = Attempts /\ Set(t, p, NoJob) /\ Told(t, p)

\* A job whose process died goes back to the queue, once.
RecoverStalled(t, p) ==
  /\ up /\ job[t][p].state = "stalled"
  /\ \/ /\ job[t][p].stalls < MaxStalls
        /\ Set(t, p, [job[t][p] EXCEPT !.state = "waiting", !.stalls = @ + 1])
        /\ UNCHANGED told
     \/ job[t][p].stalls = MaxStalls /\ Set(t, p, NoJob) /\ Told(t, p)

--------------------------------------------------------------------------------
Stall(j) == IF j.state \in {"active", "mailed"} THEN [j EXCEPT !.state = "stalled"] ELSE j

\* The process ends: what a run has read is gone, the queue is Redis's and stays.
Crash ==
  /\ up /\ crashes < MaxCrashes
  /\ up' = FALSE /\ crashes' = crashes + 1
  /\ found' = {}
  /\ hour' = IF hour = "running" THEN "over" ELSE hour
  /\ job' = [t \in Tasks |-> [p \in People |-> Stall(job[t][p])]]
  /\ UNCHANGED <<task, today, edited, ran, told, ignored>>

Restart ==
  /\ ~up
  /\ up' = TRUE
  /\ UNCHANGED <<task, today, hour, crashes, found, job, edited, ran, told, ignored>>

\* A process that runs finishes the job it has within the day.
Tick ==
  /\ today < LastDay /\ hour = "over" /\ ~Working
  /\ today' = today + 1 /\ hour' = "ahead"
  /\ UNCHANGED <<task, up, crashes, found, job, edited, ran, told, ignored>>

Worker(t, p) ==
  TakeJob(t, p) \/ SendMail(t, p) \/ Complete(t, p) \/ Fails(t, p) \/ RecoverStalled(t, p)

Next ==
  \/ \E t \in Tasks : Edit(t)
  \/ FindTasks \/ MissRun \/ AddReminders
  \/ \E t \in Tasks, p \in People : Worker(t, p)
  \/ Crash \/ Restart \/ Tick

Fairness ==
  /\ WF_vars(Restart)
  /\ \A t \in Tasks, p \in People : WF_vars(Worker(t, p))

Spec == Init /\ [][Next]_vars /\ Fairness

--------------------------------------------------------------------------------
TypeOK ==
  /\ task \in [Tasks -> [due : Dues, status : {"PENDING"} \cup Statuses, to : SUBSET People]]
  /\ today \in Days /\ hour \in {"ahead", "running", "over"}
  /\ up \in BOOLEAN /\ crashes \in 0 .. MaxCrashes
  /\ found \subseteq [task : Tasks, person : People, due : Dues]
  /\ job \in [Tasks -> [People -> Job \cup {NoJob}]]
  /\ edited \in [Tasks -> Days] /\ ran \subseteq Days
  /\ told \in [Tasks -> [People -> SUBSET Dues]]
  /\ ignored \in [Tasks -> [People -> SUBSET Dues]]

\* Why a reminder is missed: if nothing about a pending assignment changed on the
\* day of its run or later, then everyone concerned has been mailed this very
\* deadline (or given up on after all attempts), or will be by a job held for it;
\* unless that run did not queue its jobs, or the queue ignored this one because
\* it still held a job from an earlier deadline.  (And the state keeps its types.)
DueTasksAreHeard ==
  /\ TypeOK
  /\ \A t \in Tasks : LET due == task[t].due IN
       task[t].status = "PENDING" /\ edited[t] < due - Lead /\ due - Lead \in ran =>
         \A p \in task[t].to :
           \/ job[t][p] # NoJob /\ job[t][p].due = due
           \/ due \in told[t][p] \cup ignored[t][p]

\* Whatever waits, retries, crashes or ignored jobs come between, a mail tells a
\* deadline the assignment no longer has only if it changed on the day of the run
\* that queued the mail, or later.
MailTellsTheDeadline ==
  [][\A t \in Tasks, p \in People :
       SendMail(t, p) /\ edited[t] < job[t][p].due - Lead => job[t][p].due = task[t].due]_vars

\* Every job leaves the queue: mailed, or given up after its attempts.
JobsSettle == \A t \in Tasks, p \in People : job[t][p] # NoJob ~> job[t][p] = NoJob

================================================================================
