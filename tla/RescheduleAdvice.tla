----------------------------- MODULE RescheduleAdvice -----------------------------
(***************************************************************************)
(* The advice of SchedulerService.suggestReschedule for one user's pending *)
(* assignments, and what rescheduleAssignment makes of it when the user    *)
(* follows it, one suggestion after the other.                             *)
(*                                                                         *)
(* Days are counted from today, in one time zone.  Costs are in tenths:    *)
(* over the scores that occur the code's floating point orders them alike. *)
(* The advice is about every pending assignment the user sees; those of a  *)
(* group only its owners may reschedule.  How roles change, and requests   *)
(* that overlap, are in Assignments.                                       *)
(***************************************************************************)
EXTENDS Naturals, FiniteSets, Sequences

CONSTANTS SearchDays,   \* MAX_SEARCH_DAYS (7)
          Kinds,        \* bound: the assignments created, but for their day
          LastDay,      \* bound: the days they are created for, today being 0
          MaxTasks      \* bound: how many there are

VARIABLES tasks,    \* the pending assignments, in the order findMany returns them
          score,    \* mutableScores, while suggestReschedule runs
          left,     \* the movable assignments it has still to visit
          advice,   \* the suggestions of the last getRescheduleSuggestions
          done      \* how many of them have been followed

vars == <<tasks, score, left, advice, done>>

Threshold == 7
Weight == [LOW |-> 1, MEDIUM |-> 2, HIGH |-> 3, URGENT |-> 5]
Horizon == LastDay + 2 * SearchDays   \* bound: rescheduling goes no further

ASSUME Search == SearchDays \in Nat \ {0} /\ LastDay \in Nat /\ MaxTasks \in Nat
ASSUME Weighted == Kinds \subseteq [priority : DOMAIN Weight, start : BOOLEAN, owned : BOOLEAN]

\* An assignment has a priority, a day in 0 .. Horizon and two flags.  start: is it
\* due at the very start of its day?  owned: is it the user's own or that of a
\* group the user owns?  A suggestion names an assignment and a day.

WeightOf(t) == Weight[t.priority]

\* The sum of the weights: an assignment contributes one unit per point of its own.
Load(ts, S) == Cardinality({u \in S \X (1 .. 5) : u[2] <= WeightOf(ts[u[1]])})
OnDay(ts, d) == {i \in DOMAIN ts : ts[i].day = d}

--------------------------------------------------------------------------------
(* suggestReschedule.  Its two loops visit one movable assignment at a time. *)
(* Nothing is awaited in them, so nothing else happens before they return.   *)

NoScores == <<>>
Idle == score = NoScores

CalculateScores == [d \in 0 .. Horizon |-> Load(tasks, OnDay(tasks, d))]

IsMovable(t) == t.priority # "URGENT" /\ t.day > 0

\* groupByDate puts the days in the order in which the list mentions them.
GroupedBefore(c, d) == \E i \in OnDay(tasks, c) : \A j \in OnDay(tasks, d) : i < j

\* Light assignments first, of equal ones the later in the day.
Before(ts, i, j) ==
  \/ WeightOf(ts[i]) < WeightOf(ts[j])
  \/ WeightOf(ts[i]) = WeightOf(ts[j]) /\ ~ts[i].start /\ ts[j].start
  \/ WeightOf(ts[i]) = WeightOf(ts[j]) /\ ts[i].start = ts[j].start /\ i < j

VisitedBefore(i, j) ==
  \/ GroupedBefore(tasks[i].day, tasks[j].day)
  \/ tasks[i].day = tasks[j].day /\ Before(tasks, i, j)

\* The first of the cheapest offsets.
Cheapest(cost) ==
  CHOOSE o \in DOMAIN cost : \A q \in DOMAIN cost : cost[o] < cost[q] \/ (cost[o] = cost[q] /\ o <= q)

\* The cheapest day that stays below the threshold or, if there is none, the
\* cheapest day, distance weighing more.
FindBestTargetDate(t) ==
  LET new(o) == score[t.day + o] + WeightOf(t)
      fitting == {o \in 1 .. SearchDays : new(o) < Threshold}
  IN  t.day + IF fitting # {} THEN Cheapest([o \in fitting |-> 10 * new(o) + 2 * o])
              ELSE Cheapest([o \in 1 .. SearchDays |-> 10 * new(o) + 5 * o])

Suggest_OldScores(i) ==
  LET to == FindBestTargetDate(tasks[i]) IN
    /\ score' = [score EXCEPT ![tasks[i].day] = @ - WeightOf(tasks[i])]
    /\ advice' = Append(advice, [task |-> i, to |-> to])

Suggest(i) ==
  LET to == FindBestTargetDate(tasks[i]) IN
    /\ score' = [score EXCEPT ![tasks[i].day] = @ - WeightOf(tasks[i]),
                              ![to] = @ + WeightOf(tasks[i])]
    /\ advice' = Append(advice, [task |-> i, to |-> to])

Visit_OnePerDay ==
  \E i \in left :
    /\ \A j \in left \ {i} : VisitedBefore(i, j)
    /\ left' = left \ OnDay(tasks, tasks[i].day)
    /\ \/ score[tasks[i].day] < Threshold /\ UNCHANGED <<score, advice>>
       \/ score[tasks[i].day] >= Threshold /\ Suggest(i)
    /\ UNCHANGED <<tasks, done>>

Visit ==
  \E i \in left :
    /\ \A j \in left \ {i} : VisitedBefore(i, j)
    /\ left' = left \ {i}
    /\ \/ score[tasks[i].day] < Threshold /\ UNCHANGED <<score, advice>>
       \/ score[tasks[i].day] >= Threshold /\ Suggest(i)
    /\ UNCHANGED <<tasks, done>>

Return == ~Idle /\ left = {} /\ score' = NoScores /\ UNCHANGED <<tasks, left, advice, done>>

\* ConflictDetectorService.detect, with a threshold and weights of its own
Conflicts(ts) == {d \in 0 .. Horizon : Load(ts, OnDay(ts, d)) >= 7}

--------------------------------------------------------------------------------
Init ==
  /\ tasks = <<>> /\ left = {} /\ advice = <<>> /\ done = 0
  /\ score = NoScores

\* What was advised no longer counts.
NoAdvice == advice' = <<>> /\ done' = 0 /\ UNCHANGED <<score, left>>

Create ==
  /\ Idle /\ Len(tasks) < MaxTasks
  /\ \E k \in Kinds, d \in 0 .. LastDay :
       tasks' = Append(tasks, [priority |-> k.priority, start |-> k.start, owned |-> k.owned,
                               day |-> d])
  /\ NoAdvice

\* The query, the scores and the filter; Visit and Return are the rest of it.
GetRescheduleSuggestions ==
  /\ Idle /\ \A i \in DOMAIN tasks : tasks[i].day <= LastDay + SearchDays
  /\ score' = CalculateScores
  /\ left' = {i \in DOMAIN tasks : IsMovable(tasks[i])}
  /\ advice' = <<>> /\ done' = 0
  /\ UNCHANGED tasks

CanFitInDay_DayLeft(i, d) ==
  Load(tasks, {j \in OnDay(tasks, tasks[i].day) : tasks[j].start}) + WeightOf(tasks[i]) <= Threshold

\* Only what is due at the very start of the target day is weighed.
CanFitInDay(i, d) ==
  Load(tasks, {j \in OnDay(tasks, d) : tasks[j].start}) + WeightOf(tasks[i]) <= Threshold

\* checkOwner and the refusals behind it.
MayReschedule(i, d) ==
  /\ tasks[i].owned
  /\ tasks[i].priority # "URGENT" /\ tasks[i].day # d /\ CanFitInDay(i, d)

MoveTo(i, d) == [tasks EXCEPT ![i].day = d, ![i].start = TRUE]

\* The user sends the next suggestion to rescheduleAssignment.
Follow ==
  /\ Idle /\ done < Len(advice)
  /\ LET next == advice[done + 1] IN
       \/ /\ MayReschedule(next.task, next.to)
          /\ tasks' = MoveTo(next.task, next.to)
          /\ done' = done + 1
          /\ UNCHANGED <<score, left, advice>>
       \/ /\ ~MayReschedule(next.task, next.to)
          /\ NoAdvice /\ UNCHANGED tasks

\* Any other reschedule.
Reschedule ==
  /\ Idle
  /\ \E i \in DOMAIN tasks, d \in 0 .. LastDay :
       MayReschedule(i, d) /\ tasks' = MoveTo(i, d)
  /\ NoAdvice

Next == Create \/ GetRescheduleSuggestions \/ Visit \/ Return \/ Follow \/ Reschedule

Spec == Init /\ [][Next]_vars

--------------------------------------------------------------------------------
Room(t, d) == Load(tasks, OnDay(tasks, d)) + WeightOf(t) < Threshold

\* What the advice counts with is what following it brings about: when its next
\* suggestion comes up the assignment sits on a day still in conflict, and not
\* today, and the day named has room for it, or no day within reach has.
AdviceHoldsWhenFollowed ==
  done < Len(advice) =>
    LET next == advice[done + 1]
        t == tasks[next.task]
        reach == t.day + 1 .. t.day + SearchDays
    IN  /\ t.priority # "URGENT" /\ t.day > 0 /\ next.to \in reach
        /\ t.day \in Conflicts(tasks)
        /\ Room(t, next.to) \/ \A d \in reach : ~Room(t, d)

\* A suggestion is refused for one of two reasons only: it is about an assignment
\* of a group the user does not own, which the advice does not look at, or no day
\* had room.  Otherwise rescheduleAssignment, with its own threshold and its own
\* view of the day, accepts it.
AdviceIsAccepted ==
  [][done < Len(advice) /\ Follow =>
       LET next == advice[done + 1]
           t == tasks[next.task]
       IN  tasks'[next.task].day = next.to \/ ~t.owned \/ ~Room(t, next.to)]_vars

\* Once all of it was followed, a day that still conflicts holds nothing that
\* could have been moved, or was itself the best place within somebody's reach.
OverloadIsRelieved ==
  advice # <<>> /\ done = Len(advice) =>
    \A d \in Conflicts(tasks) \ {0} :
      \/ \A i \in OnDay(tasks, d) : tasks[i].priority = "URGENT"
      \/ \E k \in DOMAIN advice : advice[k].to = d

================================================================================
