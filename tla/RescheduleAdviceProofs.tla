------------------------- MODULE RescheduleAdviceProofs -------------------------
(***************************************************************************)
(* What the advice of suggestReschedule is worth, for any priorities, any  *)
(* number of assignments and of days, and any number of days it searches.  *)
(***************************************************************************)
EXTENDS RescheduleAdvice, FiniteSetTheorems, SequenceTheorems, WellFoundedInduction, TLAPS

--------------------------------------------------------------------------------
(* The invariant *)

Assignment ==
  [priority : DOMAIN Weight, day : 0 .. Horizon, start : BOOLEAN, owned : BOOLEAN]
Suggestion == [task : Nat, to : 0 .. Horizon]

AdviceTypes ==
  /\ tasks \in Seq(Assignment)
  /\ Idle \/ score \in [0 .. Horizon -> Nat]
  /\ left \subseteq DOMAIN tasks
  /\ advice \in Seq(Suggestion)
  /\ done \in 0 .. Len(advice)

\* The assignments that are on day d once the suggestions up to the k-th are followed.
Then(k, d) ==
  {i \in DOMAIN tasks :
     \/ \E m \in done + 1 .. k : advice[m].task = i /\ advice[m].to = d
     \/ tasks[i].day = d /\ \A m \in done + 1 .. k : advice[m].task # i}

RoomThen(k, t, d) == Load(tasks, Then(k, d)) + WeightOf(t) < Threshold

\* No assignment is suggested twice.
Distinct ==
  \A m \in DOMAIN advice :
    /\ advice[m].task \in DOMAIN tasks
    /\ \A k \in DOMAIN advice : advice[m].task = advice[k].task => m = k

\* What is still to be visited can be moved, is on no suggestion yet, and has
\* its reach within the days that are counted.
Visiting ==
  /\ Idle => left = {}
  /\ \A i \in left :
       /\ IsMovable(tasks[i]) /\ tasks[i].day + SearchDays <= Horizon
       /\ \A m \in DOMAIN advice : advice[m].task # i

\* The scores are the loads that following the advice so far would give.
Scored ==
  ~Idle => done = 0 /\ \A d \in 0 .. Horizon : score[d] = Load(tasks, Then(Len(advice), d))

\* The m-th suggestion, seen after the ones before it.
SoundAt(m) ==
  LET t == tasks[advice[m].task]
      reach == t.day + 1 .. t.day + SearchDays
  IN  /\ IsMovable(t) /\ advice[m].to \in reach
      /\ Load(tasks, Then(m - 1, t.day)) >= Threshold
      /\ RoomThen(m - 1, t, advice[m].to) \/ \A d \in reach : ~RoomThen(m - 1, t, d)
Sound == \A m \in done + 1 .. Len(advice) : SoundAt(m)

\* A day is below the threshold once the advice is followed, unless what is on
\* it cannot be moved or is still to be visited, or it was somebody's best place.
RelievedAt(d) ==
  \/ Load(tasks, Then(Len(advice), d)) < Threshold
  \/ \A i \in Then(Len(advice), d) : tasks[i].priority = "URGENT" \/ i \in left
  \/ \E k \in DOMAIN advice : advice[k].to = d
Relieved == ~Idle \/ advice # <<>> => \A d \in 1 .. Horizon : RelievedAt(d)

AdviceInv == AdviceTypes /\ Distinct /\ Visiting /\ Scored /\ Sound /\ Relieved

--------------------------------------------------------------------------------
(* Weights and loads *)

\* An assignment weighs 1 to 5.
LEMMA Weights ==
  ASSUME NEW t \in Assignment
  PROVE  WeightOf(t) \in 1 .. 5
<1>1. t.priority \in {"LOW", "MEDIUM", "HIGH", "URGENT"}
  BY DEF Assignment, Weight
<1> QED
  BY <1>1 DEF WeightOf, Weight

\* Loads are numbers, and more assignments weigh no less.
LEMMA LoadGrows ==
  ASSUME NEW ts \in Seq(Assignment), NEW S \in SUBSET DOMAIN ts, NEW T \in SUBSET S
  PROVE  /\ Load(ts, S) \in Nat /\ Load(ts, T) \in Nat
         /\ Load(ts, T) <= Load(ts, S)
<1> DEFINE units(R) == {u \in R \X (1 .. 5) : u[2] <= WeightOf(ts[u[1]])}
<1>1. IsFiniteSet(units(S))
  <2>1. PICK n \in Nat : n = Len(ts)
    OBVIOUS
  <2>2. IsFiniteSet(1 .. n) /\ IsFiniteSet(1 .. 5)
    BY FS_Interval, 1 \in Int, 5 \in Int, n \in Int
  <2>3. IsFiniteSet((1 .. n) \X (1 .. 5))
    BY <2>2, FS_Product
  <2>4. units(S) \subseteq (1 .. n) \X (1 .. 5)
    BY <2>1
  <2> QED
    BY <2>3, <2>4, FS_Subset
<1>2. units(T) \subseteq units(S)
  OBVIOUS
<1>3. Load(ts, S) = Cardinality(units(S)) /\ Load(ts, T) = Cardinality(units(T))
  BY DEF Load
<1> HIDE DEF units
<1>4. IsFiniteSet(units(T))
  BY <1>1, <1>2, FS_Subset
<1>5. Cardinality(units(T)) <= Cardinality(units(S))
  BY <1>1, <1>2, FS_Subset
<1> QED
  BY <1>1, <1>3, <1>4, <1>5, FS_CardinalityType

\* One assignment more adds its weight.
LEMMA LoadAdds ==
  ASSUME NEW ts \in Seq(Assignment), NEW S \in SUBSET DOMAIN ts,
         NEW i \in DOMAIN ts, i \notin S
  PROVE  Load(ts, S \cup {i}) = Load(ts, S) + WeightOf(ts[i])
<1> DEFINE units(R) == {u \in R \X (1 .. 5) : u[2] <= WeightOf(ts[u[1]])}
           w == WeightOf(ts[i])
           pair == [k \in 1 .. w |-> <<i, k>>]
<1>1. w \in 1 .. 5
  BY Weights
<1>2. IsFiniteSet(units(S)) /\ IsFiniteSet(units({i}))
  <2>1. PICK n \in Nat : n = Len(ts)
    OBVIOUS
  <2>2. IsFiniteSet(1 .. n) /\ IsFiniteSet(1 .. 5)
    BY FS_Interval, 1 \in Int, 5 \in Int, n \in Int
  <2>3. IsFiniteSet((1 .. n) \X (1 .. 5))
    BY <2>2, FS_Product
  <2>4. units(S) \subseteq (1 .. n) \X (1 .. 5) /\ units({i}) \subseteq (1 .. n) \X (1 .. 5)
    BY <2>1
  <2> QED
    BY <2>3, <2>4, FS_Subset
<1>3. Cardinality(units({i})) = w
  <2>1. pair \in Bijection(1 .. w, units({i}))
    <3>1. \A k \in 1 .. w : <<i, k>> \in units({i})
      BY <1>1
    <3>2. \A u \in units({i}) : u[2] \in 1 .. w /\ u = <<i, u[2]>>
      BY <1>1
    <3>3. pair \in [1 .. w -> units({i})]
      BY <3>1
    <3>4. \A k, l \in 1 .. w : pair[k] = pair[l] => k = l
      OBVIOUS
    <3>5. \A u \in units({i}) : \E k \in 1 .. w : pair[k] = u
      BY <3>2
    <3> QED
      BY <3>3, <3>4, <3>5 DEF Bijection, Injection, Surjection, IsInjective
  <2>2. PICK a \in Int, b \in Int : a = 1 /\ b = w
    BY <1>1
  <2>3. IsFiniteSet(a .. b) /\ Cardinality(a .. b) = IF a > b THEN 0 ELSE b - a + 1
    BY FS_Interval
  <2>4. IsFiniteSet(1 .. w) /\ Cardinality(1 .. w) = w
    BY <1>1, <2>2, <2>3
  <2>5. ExistsBijection(1 .. w, units({i}))
    BY <2>1 DEF ExistsBijection
  <2> HIDE DEF w, units
  <2> QED
    BY <2>4, <2>5, FS_Bijection
<1>4. units(S \cup {i}) = units(S) \cup units({i}) /\ units(S) \cap units({i}) = {}
  OBVIOUS
<1>5. Load(ts, S) = Cardinality(units(S)) /\ Load(ts, S \cup {i}) = Cardinality(units(S \cup {i}))
  BY DEF Load
<1> HIDE DEF units
<1>6. Cardinality(units(S) \cup units({i})) =
        Cardinality(units(S)) + Cardinality(units({i})) - Cardinality(units(S) \cap units({i}))
  BY <1>2, FS_Union
<1>7. Cardinality(units(S) \cap units({i})) = 0 /\ Cardinality(units(S)) \in Nat
  BY <1>2, <1>4, FS_EmptySet, FS_CardinalityType
<1>8. PICK a \in Nat : a = Load(ts, S)
  BY <1>5, <1>7
<1>9. Load(ts, S \cup {i}) = a + Cardinality(units({i})) - 0
  BY <1>4, <1>5, <1>6, <1>7, <1>8
<1> HIDE DEF w
<1>10. Load(ts, S \cup {i}) = a + w
  BY <1>1, <1>3, <1>9
<1> QED
  BY <1>8, <1>10 DEF w

\* A load depends on the priorities only.
LEMMA LoadByPriority ==
  ASSUME NEW ts, NEW us, NEW S, \A i \in S : us[i].priority = ts[i].priority
  PROVE  Load(us, S) = Load(ts, S)
BY DEF Load, WeightOf

\* A set of numbers has a least one.
LEMMA Least ==
  ASSUME NEW S \in SUBSET Nat, S # {}
  PROVE  \E m \in S : \A n \in S : m <= n
<1> DEFINE less == OpToRel(<, Nat)
<1>1. IsWellFoundedOn(less, Nat)
  BY NatLessThanWellFounded
<1>2. \A m, n \in Nat : <<n, m>> \in less <=> n < m
  BY DEF OpToRel
<1> HIDE DEF less
<1>3. PICK m \in S : \A n \in S : ~(<<n, m>> \in less)
  BY <1>1, WFMin
<1>4. ASSUME NEW n \in S PROVE m <= n
  <2>1. ~(n < m)
    BY <1>2, <1>3
  <2> QED
    BY <2>1
<1> QED
  BY <1>4

\* There is a cheapest offset wherever there is an offset.
LEMMA CheapestExists ==
  ASSUME NEW S \in SUBSET Nat, S # {}, NEW cost \in [S -> Nat]
  PROVE  Cheapest(cost) \in S
<1>1. PICK m \in {cost[o] : o \in S} : \A n \in {cost[o] : o \in S} : m <= n
  <2>1. {cost[o] : o \in S} \in SUBSET Nat /\ {cost[o] : o \in S} # {}
    OBVIOUS
  <2> QED
    BY <2>1, Least
<1>2. PICK o \in {x \in S : cost[x] = m} : \A x \in {x \in S : cost[x] = m} : o <= x
  <2>1. {x \in S : cost[x] = m} \in SUBSET Nat /\ {x \in S : cost[x] = m} # {}
    BY <1>1
  <2> QED
    BY <2>1, Least
<1>3. \A q \in S : cost[o] < cost[q] \/ (cost[o] = cost[q] /\ o <= q)
  BY <1>1, <1>2
<1>4. DOMAIN cost = S /\ o \in S
  BY <1>2
<1> QED
  BY <1>3, <1>4 DEF Cheapest

\* A day within reach is some number of days away.
LEMMA Offset ==
  ASSUME NEW c \in Nat, NEW n \in Nat, NEW d \in c + 1 .. c + n
  PROVE  \E o \in 1 .. n : d = c + o
<1>1. d - c \in 1 .. n /\ d = c + (d - c)
  OBVIOUS
<1> QED
  BY <1>1

\* The day found is within reach and has room if any day within reach has.
LEMMA TargetFits ==
  ASSUME NEW t \in Assignment, t.day + SearchDays <= Horizon, score \in [0 .. Horizon -> Nat]
  PROVE  LET reach == t.day + 1 .. t.day + SearchDays
             to == FindBestTargetDate(t)
         IN  /\ to \in reach /\ reach \subseteq 0 .. Horizon
             /\ \/ score[to] + WeightOf(t) < Threshold
                \/ \A d \in reach : ~(score[d] + WeightOf(t) < Threshold)
<1> DEFINE new(o) == score[t.day + o] + WeightOf(t)
           fitting == {o \in 1 .. SearchDays : new(o) < Threshold}
<1>1. PICK c \in Nat, n \in Nat \ {0}, h \in Nat, w \in Nat :
        c = t.day /\ n = SearchDays /\ h = Horizon /\ w = WeightOf(t)
  <2>1. t.day \in Nat /\ SearchDays \in Nat \ {0}
    BY Search DEF Assignment
  <2>2. Horizon \in Nat
    BY Search DEF Horizon
  <2>3. WeightOf(t) \in Nat
    BY Weights
  <2> QED
    BY <2>1, <2>2, <2>3
<1>2. c + n <= h
  BY <1>1
<1>3. \A o \in 1 .. n : c + o \in 0 .. h /\ c + o \in c + 1 .. c + n
  BY <1>2
<1>4. c + 1 .. c + n \subseteq 0 .. h
  BY <1>2
<1>5. ASSUME NEW o \in 1 .. n
      PROVE  new(o) = score[c + o] + w /\ new(o) \in Nat /\ 10 * new(o) + 2 * o \in Nat
               /\ 10 * new(o) + 5 * o \in Nat
  <2>1. score[c + o] \in Nat
    BY <1>1, <1>3
  <2>2. new(o) = score[c + o] + w
    BY <1>1
  <2>3. PICK a \in Nat : a = new(o)
    BY <1>1, <2>1, <2>2
  <2> HIDE DEF new
  <2> QED
    BY <2>2, <2>3
<1>6. CASE fitting # {}
  <2>1. fitting \in SUBSET Nat
    OBVIOUS
  <2>2. [o \in fitting |-> 10 * new(o) + 2 * o] \in [fitting -> Nat]
    BY <1>1, <1>5
  <2>3. PICK o \in fitting : o = Cheapest([x \in fitting |-> 10 * new(x) + 2 * x])
    BY <1>6, <2>1, <2>2, CheapestExists
  <2>4. FindBestTargetDate(t) = c + o
    BY <1>1, <1>6, <2>3 DEF FindBestTargetDate
  <2>5. o \in 1 .. n /\ score[c + o] + w < Threshold
    BY <1>1, <1>5, <2>3
  <2>6. c + o \in c + 1 .. c + n
    BY <1>3, <2>5
  <2> QED
    BY <1>1, <1>4, <2>4, <2>5, <2>6
<1>7. CASE fitting = {}
  <2>1. 1 .. n \in SUBSET Nat /\ 1 \in 1 .. n
    BY <1>1
  <2>2. [o \in 1 .. n |-> 10 * new(o) + 5 * o] \in [1 .. n -> Nat]
    BY <1>5
  <2>3. PICK o \in 1 .. n : o = Cheapest([x \in 1 .. n |-> 10 * new(x) + 5 * x])
    BY <2>1, <2>2, CheapestExists
  <2>4. FindBestTargetDate(t) = c + o
    BY <1>1, <1>7, <2>3 DEF FindBestTargetDate
  <2>5. c + o \in c + 1 .. c + n
    BY <1>3
  <2>6. ASSUME NEW d \in c + 1 .. c + n PROVE ~(score[d] + w < Threshold)
    <3>1. PICK x \in 1 .. n : d = c + x
      BY Offset
    <3>2. ~(new(x) < Threshold)
      <4>1. \A y \in 1 .. SearchDays : ~(new(y) < Threshold)
        BY <1>7
      <4> HIDE DEF new
      <4> QED
        BY <1>1, <3>1, <4>1
    <3> QED
      BY <1>5, <3>1, <3>2
  <2> QED
    BY <1>1, <1>4, <2>4, <2>5, <2>6
<1> QED
  BY <1>6, <1>7

--------------------------------------------------------------------------------
(* The list once part of the advice is followed *)

\* Before any of it is followed the list is as it is.
LEMMA ThenNow ==
  ASSUME AdviceTypes, NEW d
  PROVE  Then(done, d) = OnDay(tasks, d)
<1>1. done + 1 .. done = {}
  BY DEF AdviceTypes
<1> QED
  BY <1>1 DEF Then, OnDay

\* Whatever is followed, the assignments on a day are assignments of the list.
LEMMA ThenListed ==
  ASSUME NEW k, NEW d
  PROVE  Then(k, d) \in SUBSET DOMAIN tasks
BY DEF Then

\* A later suggestion makes no difference to what comes before it.
LEMMA ThenBefore ==
  ASSUME AdviceTypes, UNCHANGED <<tasks, done>>,
         NEW e \in Suggestion, advice' = Append(advice, e),
         NEW k \in 0 .. Len(advice), NEW d
  PROVE  Then(k, d)' = Then(k, d)
<1>1. \A m \in done + 1 .. k : advice'[m] = advice[m]
  BY DEF AdviceTypes
<1> QED
  BY <1>1 DEF Then

\* What a suggestion does to the days: its assignment was on no suggestion before.
LEMMA ThenMoves ==
  ASSUME AdviceTypes, UNCHANGED <<tasks, done>>, NEW i \in DOMAIN tasks,
         \A m \in DOMAIN advice : advice[m].task # i,
         NEW c, c = tasks[i].day, NEW to \in 0 .. Horizon, to # c,
         NEW n \in Nat, n = Len(advice), advice' = Append(advice, [task |-> i, to |-> to])
  PROVE  /\ i \in Then(n, c) /\ Then(n + 1, c)' = Then(n, c) \ {i}
         /\ i \notin Then(n, to) /\ Then(n + 1, to)' = Then(n, to) \cup {i}
         /\ \A d : d # c /\ d # to => Then(n + 1, d)' = Then(n, d)
<1>1. /\ done \in 0 .. n /\ DOMAIN advice = 1 .. n
      /\ \A m \in done + 1 .. n : advice'[m] = advice[m]
      /\ advice'[n + 1] = [task |-> i, to |-> to]
      /\ done + 1 .. n + 1 = (done + 1 .. n) \cup {n + 1}
  BY DEF AdviceTypes
<1>2. \A m \in done + 1 .. n : advice[m].task # i
  BY <1>1
<1>3. \A d : (i \in Then(n, d)) <=> (d = c)
  BY <1>2 DEF Then
<1>4. ASSUME NEW d PROVE (i \in Then(n + 1, d)') <=> (d = to)
  <2>1. \E m \in done + 1 .. n + 1 : advice'[m].task = i
    BY <1>1
  <2>2. (\E m \in done + 1 .. n + 1 : advice'[m].task = i /\ advice'[m].to = d) <=> d = to
    BY <1>1, <1>2
  <2> QED
    BY <2>1, <2>2 DEF Then
<1>5. ASSUME NEW j \in DOMAIN tasks, j # i, NEW d
      PROVE  (j \in Then(n + 1, d)') <=> (j \in Then(n, d))
  <2>1. (\E m \in done + 1 .. n + 1 : advice'[m].task = j /\ advice'[m].to = d)
          <=> \E m \in done + 1 .. n : advice[m].task = j /\ advice[m].to = d
    BY <1>1, <1>5
  <2>2. (\A m \in done + 1 .. n + 1 : advice'[m].task # j)
          <=> \A m \in done + 1 .. n : advice[m].task # j
    BY <1>1, <1>5
  <2> QED
    BY <2>1, <2>2 DEF Then
<1>6. \A d : Then(n, d) \subseteq DOMAIN tasks /\ Then(n + 1, d)' \subseteq DOMAIN tasks
  BY DEF Then
<1>7. i \in Then(n, c) /\ i \notin Then(n, to)
  BY <1>3
<1>8. Then(n + 1, c)' = Then(n, c) \ {i}
  BY <1>4, <1>5, <1>6
<1>9. Then(n + 1, to)' = Then(n, to) \cup {i}
  BY <1>4, <1>5, <1>6
<1>10. ASSUME NEW d, d # c, d # to PROVE Then(n + 1, d)' = Then(n, d)
  <2>1. i \notin Then(n, d) /\ i \notin Then(n + 1, d)'
    BY <1>3, <1>4, <1>10
  <2>2. \A j \in DOMAIN tasks : (j \in Then(n + 1, d)') <=> (j \in Then(n, d))
    BY <1>5, <2>1
  <2> QED
    BY <1>6, <2>2
<1> QED
  BY <1>7, <1>8, <1>9, <1>10

\* A move keeps the list typed and touches the day of one assignment.
LEMMA MoveMoves ==
  ASSUME tasks \in Seq(Assignment), NEW i \in DOMAIN tasks, NEW d \in 0 .. Horizon
  PROVE  /\ MoveTo(i, d) \in Seq(Assignment) /\ DOMAIN MoveTo(i, d) = DOMAIN tasks
         /\ MoveTo(i, d)[i].day = d /\ MoveTo(i, d)[i].priority = tasks[i].priority
         /\ \A j \in DOMAIN tasks : j # i => MoveTo(i, d)[j] = tasks[j]
<1> DEFINE e == [tasks[i] EXCEPT !.day = d, !.start = TRUE]
<1>1. tasks[i] \in Assignment
  OBVIOUS
<1>2. e \in Assignment /\ e.day = d /\ e.priority = tasks[i].priority
  BY <1>1 DEF Assignment
<1>3. MoveTo(i, d) = [tasks EXCEPT ![i] = e]
  BY DEF MoveTo
<1> HIDE DEF e
<1>4. i \in 1 .. Len(tasks) /\ DOMAIN tasks = 1 .. Len(tasks)
  OBVIOUS
<1>5. [tasks EXCEPT ![i] = e] \in Seq(Assignment)
  BY <1>2, <1>4, ExceptSeq
<1> QED
  BY <1>2, <1>3, <1>5

\* Following a suggestion makes no difference to what comes after it.
LEMMA ThenAfter ==
  ASSUME AdviceTypes, Distinct, done < Len(advice), UNCHANGED advice, done' = done + 1,
         tasks' = MoveTo(advice[done + 1].task, advice[done + 1].to),
         NEW k \in done + 1 .. Len(advice), NEW d
  PROVE  Then(k, d)' = Then(k, d)
<1> DEFINE i == advice[done + 1].task
<1>1. /\ done \in Nat /\ Len(advice) \in Nat /\ DOMAIN advice = 1 .. Len(advice)
      /\ done + 1 .. k = {done + 1} \cup (done + 1 + 1 .. k)
  BY DEF AdviceTypes
<1>2. \A m \in done + 1 + 1 .. k : advice[m].task # i
  BY <1>1 DEF Distinct
<1>3. /\ DOMAIN tasks' = DOMAIN tasks /\ tasks'[i].day = advice[done + 1].to
      /\ \A j \in DOMAIN tasks : j # i => tasks'[j] = tasks[j]
  <2>1. i \in DOMAIN tasks
    BY <1>1 DEF Distinct
  <2>2. advice[done + 1].to \in 0 .. Horizon
    <3>1. advice[done + 1] \in Suggestion
      BY <1>1 DEF AdviceTypes
    <3> QED
      BY <3>1 DEF Suggestion
  <2> QED
    BY <2>1, <2>2, MoveMoves DEF AdviceTypes
<1>4. i \in DOMAIN tasks
  BY <1>1 DEF Distinct
<1>5. i \in Then(k, d) <=> advice[done + 1].to = d
  BY <1>1, <1>2, <1>4 DEF Then
<1>6. i \in Then(k, d)' <=> advice[done + 1].to = d
  BY <1>2, <1>3, <1>4 DEF Then
<1>7. \A j \in DOMAIN tasks : j # i => (j \in Then(k, d)' <=> j \in Then(k, d))
  BY <1>1, <1>3 DEF Then
<1>8. Then(k, d) \subseteq DOMAIN tasks /\ Then(k, d)' \subseteq DOMAIN tasks
  BY <1>3 DEF Then
<1> QED
  BY <1>5, <1>6, <1>7, <1>8

\* A suggestion is as sound as it was when its assignment, its day and the loads
\* it is judged by are what they were.
LEMMA SoundStays ==
  ASSUME NEW m, SoundAt(m), (advice[m])' = advice[m],
         (tasks[advice[m].task])' = tasks[advice[m].task],
         \A d : Load(tasks, Then(m - 1, d))' = Load(tasks, Then(m - 1, d))
  PROVE  SoundAt(m)'
<1> DEFINE t == tasks[advice[m].task]
           to == advice[m].to
<1>1. t' = t /\ to' = to
  OBVIOUS
<1>2. PICK c, e : c = t.day /\ e = to
  OBVIOUS
<1>3. \A d : RoomThen(m - 1, t, d)' <=> RoomThen(m - 1, t, d)
  BY <1>1 DEF RoomThen
<1>4. Load(tasks, Then(m - 1, c)) >= Threshold
  BY <1>2 DEF SoundAt
<1>5. (Load(tasks, Then(m - 1, c)) >= Threshold)'
  BY <1>4
<1> QED
  BY <1>1, <1>2, <1>3, <1>5 DEF SoundAt

--------------------------------------------------------------------------------
(* Each action keeps the invariant *)

\* Without advice there is nothing to be wrong.
LEMMA NoAdviceKeeps ==
  ASSUME AdviceInv, Idle, NoAdvice, tasks' \in Seq(Assignment)
  PROVE  AdviceInv'
<1>1. left = {} /\ left' = {} /\ score' = score /\ advice' = <<>> /\ done' = 0 /\ Len(advice') = 0
  BY DEF AdviceInv, Visiting, NoAdvice
<1>2. AdviceTypes'
  BY <1>1 DEF AdviceInv, AdviceTypes, Idle
<1>3. Distinct' /\ Visiting' /\ Scored' /\ Sound' /\ Relieved'
  BY <1>1 DEF Distinct, Visiting, Scored, Sound, Relieved, Idle
<1> QED
  BY <1>2, <1>3 DEF AdviceInv

\* create drops the advice.
LEMMA CreateKeeps ==
  ASSUME AdviceInv, Create
  PROVE  AdviceInv'
<1>1. PICK k \in Kinds, d \in 0 .. LastDay :
        tasks' = Append(tasks, [priority |-> k.priority, start |-> k.start, owned |-> k.owned,
                                day |-> d])
  BY DEF Create
<1>2. d \in 0 .. Horizon
  BY Search DEF Horizon
<1>3. [priority |-> k.priority, start |-> k.start, owned |-> k.owned, day |-> d] \in Assignment
  BY <1>2, Weighted DEF Assignment
<1>4. tasks' \in Seq(Assignment)
  BY <1>1, <1>3 DEF AdviceInv, AdviceTypes
<1> QED
  BY <1>4, NoAdviceKeeps DEF Create

\* So does a reschedule nobody suggested.
LEMMA RescheduleKeeps ==
  ASSUME AdviceInv, Reschedule
  PROVE  AdviceInv'
<1>1. PICK i \in DOMAIN tasks, d \in 0 .. LastDay : tasks' = MoveTo(i, d)
  BY DEF Reschedule
<1>2. d \in 0 .. Horizon
  BY Search DEF Horizon
<1>3. tasks' \in Seq(Assignment)
  BY <1>1, <1>2, MoveMoves DEF AdviceInv, AdviceTypes
<1> QED
  BY <1>3, NoAdviceKeeps DEF Reschedule

\* The scores the loops start with are the loads of the list as it is.
LEMMA StartKeeps ==
  ASSUME AdviceInv, GetRescheduleSuggestions
  PROVE  AdviceInv'
<1>1. /\ tasks' = tasks /\ advice' = <<>> /\ done' = 0 /\ Len(advice') = 0
      /\ score' = CalculateScores /\ left' = {i \in DOMAIN tasks : IsMovable(tasks[i])}
      /\ \A i \in DOMAIN tasks : tasks[i].day <= LastDay + SearchDays
  BY DEF GetRescheduleSuggestions
<1>2. tasks \in Seq(Assignment) /\ \A i \in DOMAIN tasks : tasks[i] \in Assignment
  BY DEF AdviceInv, AdviceTypes
<1>3. \A d : Then(Len(advice), d)' = OnDay(tasks, d)
  BY <1>1 DEF Then, OnDay
<1>4. score' \in [0 .. Horizon -> Nat]
  <2>1. ASSUME NEW d PROVE Load(tasks, OnDay(tasks, d)) \in Nat
    <3>1. OnDay(tasks, d) \in SUBSET DOMAIN tasks /\ {} \in SUBSET OnDay(tasks, d)
      BY DEF OnDay
    <3> QED
      BY <1>2, <3>1, LoadGrows
  <2> QED
    BY <1>1, <2>1 DEF CalculateScores
<1>5. AdviceTypes'
  BY <1>1, <1>2, <1>4 DEF AdviceTypes
<1>6. ~Idle'
  <2>1. 0 \in DOMAIN score'
    BY <1>4, Search DEF Horizon
  <2>2. DOMAIN NoScores = {}
    BY DEF NoScores
  <2> QED
    BY <2>1, <2>2 DEF Idle
<1>7. Distinct' /\ Sound'
  BY <1>1 DEF Distinct, Sound
<1>8. Visiting'
  <2>1. ASSUME NEW i \in left' PROVE (tasks[i].day + SearchDays <= Horizon)'
    <3>1. PICK c \in Nat : c = tasks[i].day
      BY <1>1, <1>2 DEF Assignment
    <3>2. c <= LastDay + SearchDays
      BY <1>1, <3>1
    <3> QED
      BY <1>1, <3>1, <3>2, Search DEF Horizon
  <2> QED
    BY <1>1, <1>6, <2>1 DEF Visiting
<1>9. Scored'
  <2>1. \A d \in 0 .. Horizon : score'[d] = Load(tasks, OnDay(tasks, d))
    BY <1>1 DEF CalculateScores
  <2> QED
    BY <1>1, <1>3, <2>1 DEF Scored
<1>10. Relieved'
  <2>1. ASSUME NEW d \in 1 .. Horizon, NEW i \in Then(Len(advice), d)'
        PROVE  tasks'[i].priority = "URGENT" \/ i \in left'
    <3>1. i \in DOMAIN tasks /\ tasks[i].day = d /\ d > 0
      BY <1>3, <2>1 DEF OnDay
    <3> QED
      BY <1>1, <3>1 DEF IsMovable
  <2> QED
    BY <2>1 DEF Relieved, RelievedAt
<1> QED
  BY <1>5, <1>7, <1>8, <1>9, <1>10 DEF AdviceInv

\* The scores go out of scope.
LEMMA ReturnKeeps ==
  ASSUME AdviceInv, Return
  PROVE  AdviceInv'
<1>1. UNCHANGED <<tasks, left, advice, done>> /\ left = {} /\ ~Idle /\ Idle'
  BY DEF Return, Idle
<1>2. \A k, d : Then(k, d)' = Then(k, d)
  BY <1>1 DEF Then
<1>3. AdviceTypes' /\ Distinct' /\ Visiting' /\ Scored'
  BY <1>1 DEF AdviceInv, AdviceTypes, Distinct, Visiting, Scored
<1>4. Sound'
  BY <1>1, <1>2, SoundStays DEF AdviceInv, Sound
<1>5. Relieved'
  BY <1>1, <1>2 DEF AdviceInv, Relieved, RelievedAt
<1> QED
  BY <1>3, <1>4, <1>5 DEF AdviceInv

\* An assignment that is passed over is on a day below the threshold.
LEMMA SkipKeeps ==
  ASSUME AdviceInv, NEW i \in left, left' = left \ {i}, score[tasks[i].day] < Threshold,
         UNCHANGED <<tasks, score, advice, done>>
  PROVE  AdviceInv'
<1>1. \A k, d : Then(k, d)' = Then(k, d)
  BY DEF Then
<1>2. AdviceTypes' /\ Distinct' /\ Visiting' /\ Scored'
  BY <1>1 DEF AdviceInv, AdviceTypes, Distinct, Visiting, Scored, Idle
<1>3. Sound'
  BY <1>1, SoundStays DEF AdviceInv, Sound
<1>4. Relieved'
  <2>1. PICK c \in 0 .. Horizon : c = tasks[i].day
    <3>1. tasks[i] \in Assignment
      BY DEF AdviceInv, AdviceTypes
    <3> QED
      BY <3>1 DEF Assignment
  <2>2. Load(tasks, Then(Len(advice), c)) < Threshold
    BY <2>1 DEF AdviceInv, Visiting, Scored
  <2>3. \A d : d # c => i \notin Then(Len(advice), d)
    BY <2>1 DEF AdviceInv, AdviceTypes, Visiting, Then
  <2>4. ASSUME NEW d \in 1 .. Horizon PROVE RelievedAt(d)'
    <3>1. RelievedAt(d)
      BY DEF AdviceInv, Visiting, Relieved
    <3> QED
      BY <1>1, <2>2, <2>3, <3>1 DEF RelievedAt
  <2> QED
    BY <2>4 DEF Relieved
<1> QED
  BY <1>2, <1>3, <1>4 DEF AdviceInv

\* A suggestion moves one assignment, in the scores as on the days.
LEMMA SuggestKeeps ==
  ASSUME AdviceInv, NEW i \in left, left' = left \ {i}, score[tasks[i].day] >= Threshold,
         Suggest(i), UNCHANGED <<tasks, done>>
  PROVE  AdviceInv'
<1> DEFINE t == tasks[i]
           w == WeightOf(t)
<1>1. /\ AdviceTypes /\ Distinct /\ Visiting /\ Scored /\ Sound /\ Relieved
      /\ ~Idle /\ done = 0 /\ i \in DOMAIN tasks
      /\ tasks \in Seq(Assignment) /\ score \in [0 .. Horizon -> Nat]
      /\ IsMovable(t) /\ \A m \in DOMAIN advice : advice[m].task # i
  BY DEF AdviceInv, AdviceTypes, Visiting, Scored
<1>2. t \in Assignment /\ t.day + SearchDays <= Horizon
  BY <1>1 DEF Visiting
<1>3. PICK c \in 0 .. Horizon : c = t.day
  BY <1>2 DEF Assignment
<1>4. PICK to : to = FindBestTargetDate(t)
  OBVIOUS
<1>5. /\ to \in c + 1 .. c + SearchDays /\ c + 1 .. c + SearchDays \subseteq 0 .. Horizon
      /\ \/ score[to] + w < Threshold
         \/ \A d \in c + 1 .. c + SearchDays : ~(score[d] + w < Threshold)
  BY <1>1, <1>2, <1>3, <1>4, TargetFits
<1>6. to \in 0 .. Horizon /\ to # c
  BY <1>3, <1>5, Search
<1>7. PICK n \in Nat : n = Len(advice)
  BY <1>1 DEF AdviceTypes
<1>8. /\ advice' = Append(advice, [task |-> i, to |-> to])
      /\ score' = [score EXCEPT ![c] = @ - w, ![to] = @ + w]
  BY <1>3, <1>4 DEF Suggest
<1>9. /\ [task |-> i, to |-> to] \in Suggestion
      /\ advice' \in Seq(Suggestion) /\ Len(advice') = n + 1
      /\ DOMAIN advice = 1 .. n /\ DOMAIN advice' = 1 .. n + 1
      /\ advice'[n + 1] = [task |-> i, to |-> to]
      /\ \A m \in 1 .. n : advice'[m] = advice[m]
  <2>1. i \in Nat
    BY <1>1
  <2>2. [task |-> i, to |-> to] \in Suggestion
    BY <1>6, <2>1 DEF Suggestion
  <2> QED
    BY <1>1, <1>7, <1>8, <2>2 DEF AdviceTypes
<1>10. /\ i \in Then(n, c) /\ Then(n + 1, c)' = Then(n, c) \ {i}
       /\ i \notin Then(n, to) /\ Then(n + 1, to)' = Then(n, to) \cup {i}
       /\ \A d : d # c /\ d # to => Then(n + 1, d)' = Then(n, d)
  <2>1. \A m \in DOMAIN advice : advice[m].task # i
    BY <1>1
  <2>2. AdviceTypes /\ i \in DOMAIN tasks /\ c = tasks[i].day
    BY <1>1, <1>3
  <2>3. n = Len(advice) /\ advice' = Append(advice, [task |-> i, to |-> to])
    BY <1>7, <1>8
  <2> QED
    <3>1. i \in Then(n, c)
      BY <2>1, <2>2, <2>3, <1>6, ThenMoves
    <3>2. Then(n + 1, c)' = Then(n, c) \ {i}
      BY <2>1, <2>2, <2>3, <1>6, ThenMoves
    <3>3. i \notin Then(n, to)
      BY <2>1, <2>2, <2>3, <1>6, ThenMoves
    <3>4. Then(n + 1, to)' = Then(n, to) \cup {i}
      BY <2>1, <2>2, <2>3, <1>6, ThenMoves
    <3>5. \A d : d # c /\ d # to => Then(n + 1, d)' = Then(n, d)
      BY <2>1, <2>2, <2>3, <1>6, ThenMoves
    <3> QED
      BY <3>1, <3>2, <3>3, <3>4, <3>5
<1>11. \A k \in 0 .. n : \A d : Then(k, d)' = Then(k, d)
  BY <1>1, <1>7, <1>8, <1>9, ThenBefore
<1>12. \A d \in 0 .. Horizon : score[d] = Load(tasks, Then(n, d))
  BY <1>1, <1>7 DEF Scored
<1>13. score'[c] = Load(tasks, Then(n + 1, c)') /\ score'[c] \in Nat
  <2>1. Then(n, c) = (Then(n, c) \ {i}) \cup {i} /\ Then(n, c) \ {i} \in SUBSET DOMAIN tasks
    BY <1>10, ThenListed
  <2>2. Load(tasks, Then(n, c)) = Load(tasks, Then(n, c) \ {i}) + w
    BY <1>1, <2>1, LoadAdds
  <2>3. PICK a \in Nat : a = Load(tasks, Then(n, c) \ {i})
    BY <1>1, <2>1, LoadGrows
  <2>4. w \in Nat
    BY <1>2, Weights
  <2>5. score[c] = a + w
    BY <1>12, <2>2, <2>3
  <2>6. score'[c] = score[c] - w
    BY <1>1, <1>3, <1>6, <1>8
  <2>7. Load(tasks, Then(n + 1, c)') = a
    BY <1>10, <2>3
  <2>8. score'[c] = a
    <3> HIDE DEF w
    <3> QED
      BY <2>4, <2>5, <2>6
  <2> QED
    BY <2>7, <2>8
<1>14. score'[to] = Load(tasks, Then(n + 1, to)') /\ score'[to] \in Nat
  <2>1. Then(n, to) \in SUBSET DOMAIN tasks
    BY ThenListed
  <2>2. Load(tasks, Then(n, to) \cup {i}) = Load(tasks, Then(n, to)) + w
    BY <1>1, <1>10, <2>1, LoadAdds
  <2>3. score'[to] = score[to] + w
    BY <1>1, <1>6, <1>8
  <2>4. w \in Nat /\ score[to] \in Nat
    BY <1>1, <1>2, <1>6, Weights
  <2>5. Load(tasks, Then(n + 1, to)') = score'[to]
    BY <1>6, <1>10, <1>12, <2>2, <2>3
  <2>6. score'[to] \in Nat
    <3> HIDE DEF w
    <3> QED
      BY <2>3, <2>4
  <2> QED
    BY <2>5, <2>6
<1>15. ASSUME NEW d \in 0 .. Horizon
       PROVE  score'[d] = Load(tasks, Then(n + 1, d)') /\ score'[d] \in Nat
  <2>1. CASE d # c /\ d # to
    BY <1>1, <1>8, <1>10, <1>12, <2>1
  <2> QED
    BY <1>13, <1>14, <2>1
<1>16. score' \in [0 .. Horizon -> Nat] /\ ~Idle'
  <2>1. score \in [0 .. Horizon -> Nat]
    BY <1>1
  <2>2. score' \in [0 .. Horizon -> Int]
    <3>1. w \in Int /\ score \in [0 .. Horizon -> Int]
      BY <1>2, <2>1, Weights
    <3> HIDE DEF w
    <3> QED
      BY <1>6, <1>8, <3>1
  <2>3. DOMAIN NoScores = {} /\ 0 \in 0 .. Horizon
    BY Search DEF NoScores, Horizon
  <2> QED
    BY <1>15, <2>2, <2>3 DEF Idle
<1>17. AdviceTypes'
  BY <1>1, <1>9, <1>16 DEF AdviceTypes
<1>18. Distinct'
  <2>1. ASSUME NEW m \in 1 .. n + 1
        PROVE  (advice'[m] = [task |-> i, to |-> to] /\ m = n + 1) \/ (m \in 1 .. n /\ advice'[m] = advice[m])
    BY <1>7, <1>9
  <2>2. \A m \in 1 .. n : advice[m].task \in DOMAIN tasks /\ advice[m].task # i
    BY <1>1, <1>9 DEF Distinct
  <2>3. \A m, k \in 1 .. n : advice[m].task = advice[k].task => m = k
    BY <1>1, <1>9 DEF Distinct
  <2>4. \A m \in 1 .. n + 1 : advice'[m].task \in DOMAIN tasks'
    BY <1>1, <2>1, <2>2
  <2>5. \A m, k \in 1 .. n + 1 : advice'[m].task = advice'[k].task => m = k
    BY <2>1, <2>2, <2>3
  <2> QED
    BY <1>9, <2>4, <2>5 DEF Distinct
<1>19. Visiting'
  BY <1>1, <1>9, <1>16 DEF Visiting
<1>20. Scored'
  BY <1>1, <1>9, <1>15 DEF Scored
<1>21. Sound'
  <2>1. ASSUME NEW m \in 1 .. n PROVE SoundAt(m)'
    <3>1. m - 1 \in 0 .. n /\ SoundAt(m)
      BY <1>1, <1>7 DEF Sound
    <3>2. \A d : Load(tasks, Then(m - 1, d))' = Load(tasks, Then(m - 1, d))
      BY <1>11, <3>1
    <3> QED
      BY <1>9, <3>1, <3>2, SoundStays
  <2>2. SoundAt(n + 1)'
    <3>1. n + 1 - 1 = n /\ n \in 0 .. n
      BY <1>7
    <3>2. \A d : Load(tasks, Then(n + 1 - 1, d))' = Load(tasks, Then(n, d))
      BY <1>11, <3>1
    <3>3. \A d \in 0 .. Horizon : RoomThen(n + 1 - 1, tasks[i], d)' <=> score[d] + w < Threshold
      BY <1>12, <3>2 DEF RoomThen
    <3>4. (Load(tasks, Then(n + 1 - 1, c)) >= Threshold)'
      BY <1>3, <1>12, <3>2
    <3> QED
      BY <1>1, <1>3, <1>5, <1>6, <1>9, <3>3, <3>4 DEF SoundAt
  <2> QED
    BY <1>1, <1>9, <2>1, <2>2 DEF Sound
<1>22. Relieved'
  <2>1. ASSUME NEW d \in 1 .. Horizon PROVE RelievedAt(d)'
    <3>1. RelievedAt(d)
      BY <1>1 DEF Relieved
    <3>2. CASE d = to
      BY <1>9, <3>2 DEF RelievedAt
    <3>3. CASE d # to /\ d # c
      <4>1. Then(n + 1, d)' = Then(n, d)
        BY <1>10, <3>3
      <4>2. i \notin Then(n, d)
        <5>1. \A m \in done + 1 .. n : m \in DOMAIN advice
          BY <1>1, <1>9
        <5>2. tasks[i].day # d
          BY <1>3, <3>3
        <5> QED
          BY <1>1, <5>1, <5>2 DEF Then
      <4>3. (\E k \in DOMAIN advice : advice[k].to = d) =>
              (\E k \in DOMAIN advice : advice[k].to = d)'
        BY <1>9
      <4> QED
        BY <1>7, <1>9, <3>1, <4>1, <4>2, <4>3 DEF RelievedAt
    <3>4. CASE d = c
      <4>1. Then(n + 1, d)' = Then(n, d) \ {i}
        BY <1>10, <3>4
      <4>2. (\E k \in DOMAIN advice : advice[k].to = d) =>
              (\E k \in DOMAIN advice : advice[k].to = d)'
        BY <1>9
      <4>3. ~(Load(tasks, Then(n, d)) < Threshold)
        BY <1>1, <1>3, <1>12, <3>4 DEF Threshold
      <4> QED
        BY <1>7, <1>9, <3>1, <4>1, <4>2, <4>3 DEF RelievedAt
    <3> QED
      BY <3>2, <3>3, <3>4
  <2> QED
    BY <2>1 DEF Relieved
<1> QED
  BY <1>17, <1>18, <1>19, <1>20, <1>21, <1>22 DEF AdviceInv

\* A step of the loops passes over an assignment or suggests a day for it.
LEMMA VisitKeeps ==
  ASSUME AdviceInv, Visit
  PROVE  AdviceInv'
BY SkipKeeps, SuggestKeeps DEF Visit

\* What is followed happens as it was counted.
LEMMA FollowKeeps ==
  ASSUME AdviceInv, Follow
  PROVE  AdviceInv'
<1> DEFINE next == advice[done + 1]
<1>1. CASE NoAdvice /\ UNCHANGED tasks
  BY <1>1, NoAdviceKeeps DEF AdviceInv, AdviceTypes, Follow
<1>2. CASE /\ tasks' = MoveTo(next.task, next.to) /\ done' = done + 1
           /\ UNCHANGED <<score, left, advice>>
  <2>1. /\ AdviceTypes /\ Distinct /\ Visiting /\ Sound /\ Relieved
        /\ Idle /\ Idle' /\ left = {} /\ left' = {} /\ advice # <<>> /\ done < Len(advice)
    BY <1>2 DEF AdviceInv, Visiting, Follow, Idle, AdviceTypes
  <2>2. PICK n \in Nat : n = Len(advice) /\ DOMAIN advice = 1 .. n
    BY <2>1 DEF AdviceTypes
  <2>3. done + 1 \in 1 .. n /\ done \in Nat
    BY <2>1, <2>2 DEF AdviceTypes
  <2>4. next \in Suggestion /\ next.task \in DOMAIN tasks /\ next.to \in 0 .. Horizon
    <3>1. next \in Suggestion /\ next.task \in DOMAIN tasks
      BY <2>1, <2>2, <2>3 DEF AdviceTypes, Distinct
    <3> QED
      BY <3>1 DEF Suggestion
  <2>5. /\ tasks' \in Seq(Assignment) /\ DOMAIN tasks' = DOMAIN tasks
        /\ \A j \in DOMAIN tasks : j # next.task => tasks'[j] = tasks[j]
        /\ \A j \in DOMAIN tasks : tasks'[j].priority = tasks[j].priority
    <3> DEFINE moved == MoveTo(next.task, next.to)
    <3>1. /\ moved \in Seq(Assignment) /\ DOMAIN moved = DOMAIN tasks
          /\ moved[next.task].priority = tasks[next.task].priority
          /\ \A j \in DOMAIN tasks : j # next.task => moved[j] = tasks[j]
      BY <2>1, <2>4, MoveMoves DEF AdviceTypes
    <3>2. tasks' = moved
      BY <1>2
    <3> HIDE DEF moved, next
    <3> QED
      BY <3>1, <3>2
  <2>6. \A k \in done + 1 .. n : \A d : Then(k, d)' = Then(k, d)
    BY <1>2, <2>1, <2>2, ThenAfter
  <2>7. ASSUME NEW k \in done + 1 .. n, NEW d
        PROVE  Load(tasks, Then(k, d))' = Load(tasks, Then(k, d))
    <3>1. PICK S : S = Then(k, d) /\ S \in SUBSET DOMAIN tasks
      BY ThenListed
    <3>2. Then(k, d)' = S
      BY <2>6, <3>1
    <3>3. Load(tasks', S) = Load(tasks, S)
      BY <2>5, <3>1, LoadByPriority
    <3> QED
      BY <3>1, <3>2, <3>3
  <2>8. AdviceTypes'
    BY <1>2, <2>1, <2>2, <2>3, <2>5 DEF AdviceTypes
  <2>9. Distinct' /\ Visiting' /\ Scored'
    BY <1>2, <2>1, <2>5 DEF Distinct, Visiting, Scored
  <2>10. Sound'
    <3>1. ASSUME NEW m \in done + 1 + 1 .. n PROVE SoundAt(m)'
      <4>1. m \in done + 1 .. n /\ m \in 1 .. n /\ m - 1 \in done + 1 .. n /\ m # done + 1
        BY <2>2, <2>3
      <4>2. SoundAt(m)
        BY <2>1, <2>2, <4>1 DEF Sound
      <4>3. advice[m].task \in DOMAIN tasks /\ advice[m].task # next.task
        BY <2>1, <2>2, <2>3, <4>1 DEF Distinct
      <4>4. (tasks[advice[m].task])' = tasks[advice[m].task]
        BY <1>2, <2>5, <4>3
      <4>5. \A d : Load(tasks, Then(m - 1, d))' = Load(tasks, Then(m - 1, d))
        BY <2>7, <4>1
      <4>6. (advice[m])' = advice[m]
        BY <1>2
      <4> QED
        BY <4>2, <4>4, <4>5, <4>6, SoundStays
    <3> QED
      BY <1>2, <2>2, <3>1 DEF Sound
  <2>11. Relieved'
    <3>1. n \in done + 1 .. n
      BY <2>2, <2>3
    <3>2. ASSUME NEW d \in 1 .. Horizon PROVE RelievedAt(d)'
      <4>1. RelievedAt(d)
        BY <2>1 DEF Relieved
      <4>2. Then(n, d)' = Then(n, d) /\ Load(tasks, Then(n, d))' = Load(tasks, Then(n, d))
        BY <2>6, <2>7, <3>1
      <4>3. (\A i \in Then(n, d) : tasks[i].priority = "URGENT" \/ i \in left) =>
              (\A i \in Then(n, d) : tasks[i].priority = "URGENT" \/ i \in left)'
        BY <1>2, <2>5, <4>2, ThenListed
      <4>4. Len(advice)' = n
        BY <1>2, <2>2
      <4> QED
        BY <1>2, <2>2, <4>1, <4>2, <4>3, <4>4 DEF RelievedAt
    <3> QED
      BY <3>2 DEF Relieved
  <2> QED
    BY <2>8, <2>9, <2>10, <2>11 DEF AdviceInv
<1> QED
  BY <1>1, <1>2 DEF Follow

\* Nothing changes when nothing happens.
LEMMA StutterKeeps ==
  ASSUME AdviceInv, UNCHANGED vars
  PROVE  AdviceInv'
<1>1. UNCHANGED <<tasks, score, left, advice, done>>
  BY DEF vars
<1>2. \A k, d : Then(k, d)' = Then(k, d)
  BY <1>1 DEF Then
<1>3. AdviceTypes' /\ Distinct' /\ Visiting' /\ Scored' /\ Relieved'
  BY <1>1, <1>2 DEF AdviceInv, AdviceTypes, Distinct, Visiting, Scored, Relieved, RelievedAt, Idle
<1>4. Sound'
  BY <1>1, <1>2, SoundStays DEF AdviceInv, Sound
<1> QED
  BY <1>3, <1>4 DEF AdviceInv

\* The scores, the advice and what following it brings about always agree.
LEMMA AdviceInvariant == Spec => []AdviceInv
<1>1. Init => AdviceInv
  <2> SUFFICES ASSUME Init PROVE AdviceInv
    OBVIOUS
  <2>1. tasks = <<>> /\ left = {} /\ advice = <<>> /\ done = 0 /\ Len(advice) = 0 /\ Idle
    BY DEF Init, Idle
  <2> QED
    BY <2>1 DEF AdviceInv, AdviceTypes, Distinct, Visiting, Scored, Sound, Relieved
<1>2. AdviceInv /\ [Next]_vars => AdviceInv'
  BY CreateKeeps, StartKeeps, VisitKeeps, ReturnKeeps, FollowKeeps, RescheduleKeeps, StutterKeeps
  DEF Next
<1> QED
  BY <1>1, <1>2, PTL DEF Spec

--------------------------------------------------------------------------------
(* What the advice is worth *)

\* The suggestion that comes up, seen on the list as it now is.
LEMMA NextIsSound ==
  ASSUME AdviceInv, done < Len(advice)
  PROVE  LET next == advice[done + 1]
             t == tasks[next.task]
             reach == t.day + 1 .. t.day + SearchDays
         IN  /\ next.task \in DOMAIN tasks /\ t \in Assignment /\ IsMovable(t)
             /\ next.to \in reach
             /\ Load(tasks, OnDay(tasks, t.day)) >= Threshold
             /\ Room(t, next.to) \/ \A d \in reach : ~Room(t, d)
<1>1. done \in Nat /\ done + 1 \in DOMAIN advice /\ done + 1 \in done + 1 .. Len(advice)
  BY DEF AdviceInv, AdviceTypes
<1>2. SoundAt(done + 1) /\ done + 1 - 1 = done
  BY <1>1 DEF AdviceInv, Sound
<1>3. advice[done + 1].task \in DOMAIN tasks /\ tasks[advice[done + 1].task] \in Assignment
  BY <1>1 DEF AdviceInv, AdviceTypes, Distinct
<1>4. \A d : Then(done, d) = OnDay(tasks, d)
  BY ThenNow DEF AdviceInv
<1>5. \A t, d : RoomThen(done, t, d) <=> Room(t, d)
  BY <1>4 DEF RoomThen, Room
<1> DEFINE next == advice[done + 1]
           t == tasks[next.task]
           reach == t.day + 1 .. t.day + SearchDays
<1>6. /\ IsMovable(t) /\ next.to \in reach
      /\ Load(tasks, Then(done, t.day)) >= Threshold
      /\ RoomThen(done, t, next.to) \/ \A d \in reach : ~RoomThen(done, t, d)
  <2>1. PICK k : k = done + 1 - 1
    OBVIOUS
  <2>2. /\ IsMovable(t) /\ next.to \in reach
        /\ Load(tasks, Then(k, t.day)) >= Threshold
        /\ RoomThen(k, t, next.to) \/ \A d \in reach : ~RoomThen(k, t, d)
    BY <1>2, <2>1 DEF SoundAt
  <2>3. k = done
    BY <1>2, <2>1
  <2> QED
    BY <2>2, <2>3
<1>7. Load(tasks, OnDay(tasks, t.day)) >= Threshold
  BY <1>4, <1>6
<1>8. Room(t, next.to) \/ \A d \in reach : ~Room(t, d)
  BY <1>5, <1>6
<1> QED
  BY <1>3, <1>6, <1>7, <1>8

\* suggestReschedule: every suggestion still is what it was computed as when its
\* turn comes, on the list as following the earlier ones has made it.
THEOREM AdviceHolds == Spec => []AdviceHoldsWhenFollowed
<1>1. AdviceInv => AdviceHoldsWhenFollowed
  <2> SUFFICES ASSUME AdviceInv, done < Len(advice)
               PROVE  LET next == advice[done + 1]
                          t == tasks[next.task]
                          reach == t.day + 1 .. t.day + SearchDays
                      IN  /\ t.priority # "URGENT" /\ t.day > 0 /\ next.to \in reach
                          /\ t.day \in Conflicts(tasks)
                          /\ Room(t, next.to) \/ \A d \in reach : ~Room(t, d)
    BY DEF AdviceHoldsWhenFollowed
  <2> DEFINE t == tasks[advice[done + 1].task]
  <2>1. t.day \in 0 .. Horizon
    BY NextIsSound DEF Assignment
  <2>2. t.day \in Conflicts(tasks)
    BY <2>1, NextIsSound DEF Conflicts, Threshold
  <2> QED
    BY <2>2, NextIsSound DEF IsMovable
<1> QED
  BY <1>1, AdviceInvariant, PTL

\* suggestReschedule: a movable assignment stays on a day in conflict only where
\* the advice itself put something.
THEOREM OverloadRelieved == Spec => []OverloadIsRelieved
<1>1. AdviceInv => OverloadIsRelieved
  <2> SUFFICES ASSUME AdviceInv, advice # <<>>, done = Len(advice),
                      NEW d \in Conflicts(tasks) \ {0}
               PROVE  \/ \A i \in OnDay(tasks, d) : tasks[i].priority = "URGENT"
                      \/ \E k \in DOMAIN advice : advice[k].to = d
    BY DEF OverloadIsRelieved
  <2>1. d \in 1 .. Horizon /\ Load(tasks, OnDay(tasks, d)) >= 7
    BY DEF Conflicts
  <2>2. done # 0
    BY DEF AdviceInv, AdviceTypes
  <2>3. left = {} /\ RelievedAt(d)
    BY <2>1, <2>2 DEF AdviceInv, Visiting, Scored, Relieved
  <2>4. Then(Len(advice), d) = OnDay(tasks, d)
    BY ThenNow DEF AdviceInv
  <2>5. ~(Load(tasks, OnDay(tasks, d)) < Threshold)
    <3>1. OnDay(tasks, d) \in SUBSET DOMAIN tasks /\ {} \in SUBSET OnDay(tasks, d)
      BY DEF OnDay
    <3>2. Load(tasks, OnDay(tasks, d)) \in Nat
      BY <3>1, LoadGrows DEF AdviceInv, AdviceTypes
    <3> QED
      BY <2>1, <3>2 DEF Threshold
  <2> QED
    BY <2>3, <2>4, <2>5 DEF RelievedAt
<1> QED
  BY <1>1, AdviceInvariant, PTL

\* rescheduleAssignment accepts every suggestion about an assignment that the user
\* may reschedule and whose day has room, though it weighs less of the day and has
\* a threshold of its own.
THEOREM AdviceAccepted == Spec => AdviceIsAccepted
<1> DEFINE X == done < Len(advice) /\ Follow =>
                  LET next == advice[done + 1]
                      t == tasks[next.task]
                  IN  tasks'[next.task].day = next.to \/ ~t.owned \/ ~Room(t, next.to)
<1>1. AdviceInv => X
  <2> DEFINE next == advice[done + 1]
             t == tasks[next.task]
  <2> SUFFICES ASSUME AdviceInv, done < Len(advice), Follow, t.owned, Room(t, next.to)
               PROVE  tasks'[next.task].day = next.to
    OBVIOUS
  <2>1. /\ tasks \in Seq(Assignment)
        /\ next.task \in DOMAIN tasks /\ t \in Assignment /\ t.priority # "URGENT"
        /\ next.to \in t.day + 1 .. t.day + SearchDays
    BY NextIsSound DEF AdviceInv, AdviceTypes, IsMovable
  <2>2. next.to # t.day /\ next.to \in 0 .. Horizon
    <3>1. next.to # t.day
      BY <2>1 DEF Assignment
    <3>2. done + 1 \in DOMAIN advice
      BY DEF AdviceInv, AdviceTypes
    <3>3. next \in Suggestion
      BY <3>2 DEF AdviceInv, AdviceTypes
    <3> QED
      BY <3>1, <3>3 DEF Suggestion
  <2>3. CanFitInDay(next.task, next.to)
    <3> DEFINE due == OnDay(tasks, next.to)
               early == {j \in due : tasks[j].start}
    <3>1. due \in SUBSET DOMAIN tasks /\ early \in SUBSET due
      BY DEF OnDay
    <3>2. PICK a \in Nat, b \in Nat, w \in Nat :
            a = Load(tasks, due) /\ b = Load(tasks, early) /\ w = WeightOf(t) /\ b <= a
      <4>1. /\ Load(tasks, due) \in Nat /\ Load(tasks, early) \in Nat
            /\ Load(tasks, early) <= Load(tasks, due)
        BY <2>1, <3>1, LoadGrows
      <4>2. WeightOf(t) \in Nat
        BY <2>1, Weights
      <4> HIDE DEF due, early, t
      <4> QED
        BY <4>1, <4>2
    <3>3. a + w < Threshold
      BY <3>2 DEF Room
    <3>4. b + w <= Threshold
      BY <3>2, <3>3 DEF Threshold
    <3> QED
      BY <3>2, <3>4 DEF CanFitInDay
  <2>4. MayReschedule(next.task, next.to)
    BY <2>1, <2>2, <2>3 DEF MayReschedule
  <2>5. tasks' = MoveTo(next.task, next.to)
    BY <2>4 DEF Follow
  <2> QED
    BY <2>1, <2>2, <2>5, MoveMoves
<1>2. AdviceInv => [X]_vars
  BY <1>1
<1> QED
  BY <1>2, AdviceInvariant, PTL DEF AdviceIsAccepted

================================================================================
