-------------------------- MODULE DashboardCacheProofs --------------------------
(***************************************************************************)
(* Theorems about DashboardCache, for any users, number of overlapping     *)
(* requests, times to live and number of changes: types, and the bound on  *)
(* the age of a dashboard that is served, and what such a dashboard shows  *)
(* of the changes that its reader made.                                    *)
(***************************************************************************)
EXTENDS DashboardCache, FiniteSetTheorems, TLAPS

Calls == {Idle} \cup Dashboards \cup Writes

Committing == {s \in Slots : call[s].pc = "commit"}
Bumping(u) == {s \in Slots : call[s].pc = "incr" /\ call[s].user = u}

\* Why a version number never leaves Versions: a change that is still to be
\* committed has its place below MaxWrites, and a bump still to come its change.
Numbered ==
  \A u \in Users : /\ seq[u] + Cardinality(Committing) <= MaxWrites
                   /\ counter[u].value + Cardinality(Bumping(u)) <= seq[u]
                   /\ Present(counter[u]) => counter[u].value >= 1

\* Why a dashboard never gets old: what is read ages no faster than its request,
\* and then uses up its time to live.
Paced(r) ==
  r \in Dashboards => r.age <= r.spent /\ (r.pc # "version" => r.version \in Versions)
Aging ==
  \A u \in Users, v \in Versions :
    Present(entry[u][v]) => entry[u][v].age + entry[u][v].ttl <= MaxAge

CacheInv == TypeOK /\ Numbered /\ Aging /\ \A s \in Slots : Paced(call[s])

LEMMA Shapes ==
  ASSUME TypeOK, NEW s \in Slots
  PROVE  /\ call[s] \in Calls
         /\ call[s] = Idle <=> call[s].pc = "idle"
         /\ call[s].pc \in {"version", "get", "count", "set"} <=> call[s] \in Dashboards
         /\ call[s].pc \in {"commit", "incr", "expire"} <=> call[s] \in Writes
         /\ call[s] # Idle => call[s] \in Dashboards \cup Writes
         /\ call[s] \in Writes => call[s].op = "write" /\ call[s] # Idle
<1>1. call[s] \in Calls
  BY DEF TypeOK, Calls
<1>2. Idle.pc = "idle"
  BY DEF Idle
<1>3. \A r \in Dashboards : r.pc \in {"version", "get", "count", "set"}
  BY DEF Dashboards
<1>4. \A r \in Writes : r.pc \in {"commit", "incr", "expire"} /\ r.op = "write"
  BY DEF Writes
<1> QED
  BY <1>1, <1>2, <1>3, <1>4 DEF Calls

LEMMA Counted ==
  ASSUME NEW u \in Users
  PROVE  /\ IsFiniteSet(Committing) /\ Cardinality(Committing) \in Nat
         /\ IsFiniteSet(Bumping(u)) /\ Cardinality(Bumping(u)) \in Nat
<1>1. Committing \subseteq Slots /\ Bumping(u) \subseteq Slots
  BY DEF Committing, Bumping
<1> QED
  BY <1>1, SlotsFinite, FS_Subset, FS_CardinalityType

\* What a step of slot s does to these counts.
LEMMA Recount ==
  ASSUME TypeOK, NEW s \in Slots, NEW r, call' = [call EXCEPT ![s] = r], NEW u \in Users
  PROVE  /\ Cardinality(Committing)' = Cardinality(Committing)
              + (IF r.pc = "commit" /\ s \notin Committing THEN 1 ELSE 0)
              - (IF r.pc # "commit" /\ s \in Committing THEN 1 ELSE 0)
         /\ Cardinality(Bumping(u))' = Cardinality(Bumping(u))
              + (IF r.pc = "incr" /\ r.user = u /\ s \notin Bumping(u) THEN 1 ELSE 0)
              - (IF ~(r.pc = "incr" /\ r.user = u) /\ s \in Bumping(u) THEN 1 ELSE 0)
<1>1. call'[s] = r /\ \A o \in Slots \ {s} : call'[o] = call[o]
  BY DEF TypeOK
<1>2. Committing' = IF r.pc = "commit" THEN Committing \cup {s} ELSE Committing \ {s}
  BY <1>1 DEF Committing
<1>3. Bumping(u)' = IF r.pc = "incr" /\ r.user = u THEN Bumping(u) \cup {s} ELSE Bumping(u) \ {s}
  BY <1>1 DEF Bumping
<1>4. ASSUME NEW S, IsFiniteSet(S), NEW T, NEW in \in BOOLEAN,
             T = IF in THEN S \cup {s} ELSE S \ {s}
      PROVE  Cardinality(T) = Cardinality(S) + (IF in /\ s \notin S THEN 1 ELSE 0)
                                             - (IF ~in /\ s \in S THEN 1 ELSE 0)
  <2>1. Cardinality(S) \in Nat
    BY <1>4, FS_CardinalityType
  <2>2. CASE in /\ s \notin S
    BY <1>4, <2>1, <2>2, FS_AddElement
  <2>3. CASE ~in /\ s \in S
    <3>1. Cardinality(S \ {s}) = Cardinality(S) - 1
      BY <1>4, <2>3, FS_RemoveElement
    <3> QED
      BY <1>4, <2>1, <2>3, <3>1
  <2>4. CASE (in /\ s \in S) \/ (~in /\ s \notin S)
    <3>1. T = S
      BY <1>4, <2>4
    <3> QED
      BY <2>1, <2>4, <3>1
  <2> QED
    BY <2>2, <2>3, <2>4
<1>5. Cardinality(Committing') = Cardinality(Committing)
        + (IF r.pc = "commit" /\ s \notin Committing THEN 1 ELSE 0)
        - (IF r.pc # "commit" /\ s \in Committing THEN 1 ELSE 0)
  BY <1>2, <1>4, Counted
<1>6. Cardinality(Bumping(u)') = Cardinality(Bumping(u))
        + (IF r.pc = "incr" /\ r.user = u /\ s \notin Bumping(u) THEN 1 ELSE 0)
        - (IF ~(r.pc = "incr" /\ r.user = u) /\ s \in Bumping(u) THEN 1 ELSE 0)
  <2> DEFINE in == r.pc = "incr" /\ r.user = u
  <2>1. in \in BOOLEAN /\ Bumping(u)' = IF in THEN Bumping(u) \cup {s} ELSE Bumping(u) \ {s}
    BY <1>3
  <2> HIDE DEF in
  <2>2. Cardinality(Bumping(u)') = Cardinality(Bumping(u))
          + (IF in /\ s \notin Bumping(u) THEN 1 ELSE 0) - (IF ~in /\ s \in Bumping(u) THEN 1 ELSE 0)
    BY <1>4, <2>1, Counted
  <2> QED
    BY <2>2 DEF in
<1> QED
  BY <1>5, <1>6

\* The arithmetic of the values in TypeOK.
LEMMA Values ==
  ASSUME TypeOK, NEW u \in Users
  PROVE  /\ seq[u] \in Nat /\ counter[u].value \in Nat /\ counter[u].ttl \in Nat
         /\ counter[u] \in [value : Changes, ttl : 0 .. VersionTtl \cup {Forever}]
         /\ MaxWrites \in Nat /\ MaxAge \in Nat /\ Forever \in Nat
BY Durations DEF TypeOK, Changes, MaxAge, Forever

\* A step that neither commits nor is about to, and bumps nothing.
LEMMA QuietStep ==
  ASSUME CacheInv, NEW s \in Slots, NEW r \in Calls, call' = [call EXCEPT ![s] = r],
         r.pc \notin {"commit", "incr"}, Paced(r), seq' = seq,
         \A u \in Users : /\ counter'[u].value = counter[u].value
                          /\ Present(counter'[u]) => Present(counter[u])
  PROVE  Numbered' /\ call' \in [Slots -> Calls] /\ \A o \in Slots : Paced(call[o])'
<1>1. call' \in [Slots -> Calls] /\ call'[s] = r /\ \A o \in Slots \ {s} : call'[o] = call[o]
  BY DEF CacheInv, TypeOK, Calls
<1>2. ASSUME NEW u \in Users
      PROVE  /\ seq'[u] + Cardinality(Committing)' <= MaxWrites
             /\ counter'[u].value + Cardinality(Bumping(u))' <= seq'[u]
  <2>1. /\ Cardinality(Committing)' <= Cardinality(Committing) /\ Cardinality(Committing)' \in Int
        /\ Cardinality(Bumping(u))' <= Cardinality(Bumping(u)) /\ Cardinality(Bumping(u))' \in Int
    <3>1. TypeOK /\ r.pc # "commit" /\ r.pc # "incr"
      BY DEF CacheInv
    <3>2. /\ Cardinality(Committing)' = Cardinality(Committing)
               + (IF r.pc = "commit" /\ s \notin Committing THEN 1 ELSE 0)
               - (IF r.pc # "commit" /\ s \in Committing THEN 1 ELSE 0)
          /\ Cardinality(Bumping(u))' = Cardinality(Bumping(u))
               + (IF r.pc = "incr" /\ r.user = u /\ s \notin Bumping(u) THEN 1 ELSE 0)
               - (IF ~(r.pc = "incr" /\ r.user = u) /\ s \in Bumping(u) THEN 1 ELSE 0)
      BY <3>1, Recount
    <3>3. /\ (IF r.pc = "commit" /\ s \notin Committing THEN 1 ELSE 0) = 0
          /\ (IF r.pc = "incr" /\ r.user = u /\ s \notin Bumping(u) THEN 1 ELSE 0) = 0
      BY <3>1
    <3>4. Cardinality(Committing) \in Nat /\ Cardinality(Bumping(u)) \in Nat
      BY Counted
    <3> QED
      BY <3>2, <3>3, <3>4
  <2>2. /\ seq[u] + Cardinality(Committing) <= MaxWrites
        /\ counter[u].value + Cardinality(Bumping(u)) <= seq[u]
    BY DEF CacheInv, Numbered
  <2>3. /\ Cardinality(Committing) \in Nat /\ Cardinality(Bumping(u)) \in Nat
        /\ seq[u] \in Nat /\ counter[u].value \in Nat /\ MaxWrites \in Nat
    BY Counted, Values DEF CacheInv
  <2>4. seq'[u] = seq[u] /\ counter'[u].value = counter[u].value
    OBVIOUS
  <2> QED
    BY <2>1, <2>2, <2>3, <2>4
<1>3. \A o \in Slots : Paced(call[o])'
  BY <1>1 DEF CacheInv, Paced
<1>4. \A u \in Users : Present(counter'[u]) => counter'[u].value >= 1
  BY DEF CacheInv, Numbered
<1> QED
  BY <1>1, <1>2, <1>3, <1>4 DEF Numbered

LEMMA DashboardSteps ==
  ASSUME CacheInv, NEW s \in Slots,
         \/ \E u \in Users : StartDashboard(s, u)
         \/ GetVersionKey(s) \/ GetCached(s) \/ CountVisible(s)
  PROVE  CacheInv'
<1>1. /\ UNCHANGED <<seq, counter, entry, acked, restart>>
      /\ Numbered' /\ call' \in [Slots -> Calls] /\ (\A o \in Slots : Paced(call[o])') => CacheInv'
  BY DEF StartDashboard, GetVersionKey, GetCached, CountVisible, CacheInv, TypeOK, Calls, Aging
<1>2. Idle \in Calls /\ Idle.pc = "idle" /\ Paced(Idle)
  BY DEF Calls, Idle, Dashboards, Paced
<1>3. ASSUME NEW u \in Users, StartDashboard(s, u) PROVE CacheInv'
  <2> DEFINE r == [op |-> "dashboard", pc |-> "version", user |-> u, owed |-> acked[u],
                   spent |-> 0, version |-> 0, seen |-> 0, age |-> 0]
  <2>1. r \in Calls /\ Paced(r)
    BY Durations DEF CacheInv, TypeOK, Calls, Dashboards, Changes, Paced
  <2>2. call' = [call EXCEPT ![s] = r] /\ r.pc = "version"
    BY <1>3 DEF StartDashboard
  <2> HIDE DEF r
  <2> QED
    BY <1>1, <2>1, <2>2, QuietStep
<1>4. CASE GetVersionKey(s)
  <2>1. call[s] \in Dashboards /\ Paced(call[s])
    BY <1>4, Shapes DEF GetVersionKey, CacheInv
  <2> DEFINE key == counter[call[s].user]
             number == IF Present(key) THEN key.value ELSE 1
             r == [call[s] EXCEPT !.pc = "get", !.version = number]
  <2>2. key.value \in Changes /\ (Present(key) => key.value >= 1)
    BY <2>1, Values DEF CacheInv, Dashboards, Numbered
  <2>3. number \in Versions
    BY <2>2, Durations DEF Versions, Changes
  <2> HIDE DEF number
  <2>4. /\ r \in Calls /\ r.pc = "get" /\ r.version = number
        /\ r.age = call[s].age /\ r.spent = call[s].spent
    BY <2>1, <2>3 DEF Dashboards, Calls
  <2>5. call' = [call EXCEPT ![s] = r]
    BY <1>4 DEF GetVersionKey, number
  <2> HIDE DEF r
  <2>6. Paced(r)
    BY <2>1, <2>3, <2>4 DEF Paced
  <2> QED
    BY <1>1, <2>4, <2>5, <2>6, QuietStep
<1>5. CASE GetCached(s)
  <2>1. call[s] \in Dashboards /\ Paced(call[s]) /\ call[s].pc = "get"
    BY <1>5, Shapes DEF GetCached, CacheInv
  <2>2. CASE Reply(s)
    BY <1>1, <1>2, <2>2, QuietStep DEF Reply
  <2>3. CASE call' = [call EXCEPT ![s].pc = "count"]
    <3> DEFINE r == [call[s] EXCEPT !.pc = "count"]
    <3>1. /\ r \in Calls /\ r.pc = "count" /\ r.version = call[s].version
          /\ r.age = call[s].age /\ r.spent = call[s].spent
      BY <2>1 DEF Dashboards, Calls
    <3>2. call' = [call EXCEPT ![s] = r]
      BY <2>3
    <3> HIDE DEF r
    <3>3. Paced(r)
      BY <2>1, <3>1 DEF Paced
    <3> QED
      BY <1>1, <3>1, <3>2, <3>3, QuietStep
  <2> QED
    BY <1>5, <2>2, <2>3 DEF GetCached
<1>6. CASE CountVisible(s)
  <2>1. call[s] \in Dashboards /\ Paced(call[s]) /\ call[s].pc = "count"
    BY <1>6, Shapes DEF CountVisible, CacheInv
  <2> DEFINE r == [call[s] EXCEPT !.pc = "set", !.seen = seq[call[s].user]]
  <2>2. seq[call[s].user] \in Changes
    BY <2>1 DEF CacheInv, TypeOK, Dashboards
  <2>3. /\ r \in Calls /\ r.pc = "set" /\ r.version = call[s].version
        /\ r.age = call[s].age /\ r.spent = call[s].spent
    BY <2>1, <2>2 DEF Dashboards, Calls
  <2>4. call' = [call EXCEPT ![s] = r]
    BY <1>6 DEF CountVisible
  <2> HIDE DEF r
  <2>5. Paced(r)
    BY <2>1, <2>3 DEF Paced
  <2> QED
    BY <1>1, <2>3, <2>4, <2>5, QuietStep
<1> QED
  BY <1>3, <1>4, <1>5, <1>6

LEMMA SetCachedStep ==
  ASSUME CacheInv, NEW s \in Slots, SetCached(s)
  PROVE  CacheInv'
<1>1. /\ call[s] \in Dashboards /\ Paced(call[s]) /\ call[s].pc = "set"
      /\ call[s].version \in Versions /\ call[s].user \in Users
      /\ call[s].seen \in Changes /\ call[s].age \in 0 .. MaxLatency
      /\ UNCHANGED <<seq, counter, acked, restart>>
  BY Shapes DEF SetCached, StoreFor, CacheInv, Paced, Dashboards
<1> DEFINE e == [seen |-> call[s].seen, age |-> call[s].age, ttl |-> DashTtl]
<1>2. /\ e \in [seen : Changes, age : 0 .. MaxAge, ttl : 0 .. DashTtl]
      /\ e.age + e.ttl <= MaxAge
  <2>1. /\ DashTtl \in Nat /\ MaxLatency \in Nat /\ MaxAge = DashTtl + MaxLatency
        /\ call[s].age \in Nat /\ call[s].age <= MaxLatency
    BY <1>1, Durations DEF MaxAge
  <2>2. call[s].age \in 0 .. MaxAge /\ DashTtl \in 0 .. DashTtl /\ call[s].age + DashTtl <= MaxAge
    BY <2>1
  <2> QED
    BY <1>1, <2>2
<1>3. entry' = [entry EXCEPT ![call[s].user][call[s].version] = e]
  BY DEF SetCached, StoreFor
<1> HIDE DEF e
<1>4. entry' \in [Users -> [Versions -> [seen : Changes, age : 0 .. MaxAge, ttl : 0 .. DashTtl]]]
  BY <1>1, <1>2, <1>3 DEF CacheInv, TypeOK
<1>5. \A u \in Users, v \in Versions : entry'[u][v] \in {e, entry[u][v]}
  BY <1>1, <1>3 DEF CacheInv, TypeOK
<1>6. Aging'
  BY <1>2, <1>5 DEF CacheInv, Aging, Present
<1>7. Idle \in Calls /\ Idle.pc = "idle" /\ Paced(Idle) /\ call' = [call EXCEPT ![s] = Idle]
  BY DEF Calls, Idle, Dashboards, Paced, SetCached, StoreFor, Reply
<1>8. Numbered' /\ call' \in [Slots -> Calls] /\ \A o \in Slots : Paced(call[o])'
  BY <1>1, <1>7, QuietStep
<1> QED
  BY <1>1, <1>4, <1>6, <1>8 DEF CacheInv, TypeOK, Calls

LEMMA BumpEnds ==
  ASSUME CacheInv, NEW s \in Slots, BumpExpire(s) \/ BumpFails(s)
  PROVE  CacheInv'
<1>1. call[s] \in Writes /\ call[s].user \in Users /\ call[s].wrote \in Changes
  BY Shapes DEF BumpExpire, BumpFails, CacheInv, Writes
<1>2. UNCHANGED <<seq, entry, restart>> /\ call' = [call EXCEPT ![s] = Idle]
  BY DEF BumpExpire, BumpFails, Reply
<1> DEFINE u == call[s].user
           key == [counter[u] EXCEPT !.ttl = VersionTtl]
           Keys == [value : Changes, ttl : 0 .. VersionTtl \cup {Forever}]
<1>3. \/ counter' = counter
      \/ Present(counter[u]) /\ counter' = [counter EXCEPT ![u] = key]
  BY DEF BumpExpire, BumpFails
<1>4. counter \in [Users -> Keys] /\ key \in Keys /\ key.value = counter[u].value
  <2>1. counter \in [Users -> Keys] /\ counter[u] \in Keys
    BY <1>1 DEF CacheInv, TypeOK
  <2>2. VersionTtl \in 0 .. VersionTtl
    BY Durations
  <2> QED
    BY <2>1, <2>2
<1>5. acked' \in [Users -> Changes]
  BY <1>1 DEF BumpExpire, BumpFails, CacheInv, TypeOK
<1> HIDE DEF key
<1>6. /\ counter' \in [Users -> Keys]
      /\ \A v \in Users : /\ counter'[v].value = counter[v].value
                          /\ Present(counter'[v]) => Present(counter[v])
  BY <1>1, <1>3, <1>4
<1>7. Idle \in Calls /\ Idle.pc = "idle" /\ Paced(Idle)
  BY DEF Calls, Idle, Dashboards, Paced
<1>8. Numbered' /\ call' \in [Slots -> Calls] /\ \A o \in Slots : Paced(call[o])'
  BY <1>2, <1>6, <1>7, QuietStep
<1> QED
  BY <1>2, <1>5, <1>6, <1>8 DEF CacheInv, TypeOK, Calls, Aging

\* Writes in flight include those that have their change still to commit.
LEMMA CommittingInFlight ==
  ASSUME TypeOK
  PROVE  /\ Cardinality(WritesInFlight) \in Nat
         /\ Cardinality(Committing) <= Cardinality(WritesInFlight)
<1>1. Committing \subseteq WritesInFlight /\ WritesInFlight \subseteq Slots
  BY Shapes DEF Committing, WritesInFlight
<1> QED
  BY <1>1, SlotsFinite, FS_Subset, FS_CardinalityType

\* A request that writes takes another place in call.
LEMMA WriteStep ==
  ASSUME CacheInv, NEW s \in Slots, NEW r \in Writes, call' = [call EXCEPT ![s] = r]
  PROVE  call' \in [Slots -> Calls] /\ \A o \in Slots : Paced(call[o])'
<1>1. r \in Calls /\ Paced(r)
  BY DEF Calls, Writes, Dashboards, Paced
<1>2. call' \in [Slots -> Calls] /\ call'[s] = r /\ \A o \in Slots \ {s} : call'[o] = call[o]
  BY <1>1 DEF CacheInv, TypeOK, Calls
<1> QED
  BY <1>1, <1>2 DEF CacheInv, Paced

LEMMA StartWriteStep ==
  ASSUME CacheInv, NEW s \in Slots, NEW u \in Users, StartWrite(s, u)
  PROVE  CacheInv'
<1> DEFINE r == [op |-> "write", pc |-> "commit", user |-> u, spent |-> 0, wrote |-> 0]
<1>1. r \in Writes /\ r.pc = "commit"
  BY Durations DEF Writes, Changes
<1>2. /\ call' = [call EXCEPT ![s] = r] /\ call[s] = Idle
      /\ UNCHANGED <<seq, counter, entry, acked, restart>>
      /\ \A v \in Users : seq[v] + Cardinality(WritesInFlight) < MaxWrites
  BY DEF StartWrite
<1>3. s \notin Committing /\ \A v \in Users : s \notin Bumping(v)
  BY <1>2 DEF Committing, Bumping, Idle
<1> HIDE DEF r
<1>4. ASSUME NEW v \in Users
      PROVE  /\ seq'[v] + Cardinality(Committing)' <= MaxWrites
             /\ counter'[v].value + Cardinality(Bumping(v))' <= seq'[v]
             /\ Present(counter'[v]) => counter'[v].value >= 1
  <2>1. /\ Cardinality(Committing)' = Cardinality(Committing)
             + (IF r.pc = "commit" /\ s \notin Committing THEN 1 ELSE 0)
             - (IF r.pc # "commit" /\ s \in Committing THEN 1 ELSE 0)
        /\ Cardinality(Bumping(v))' = Cardinality(Bumping(v))
             + (IF r.pc = "incr" /\ r.user = v /\ s \notin Bumping(v) THEN 1 ELSE 0)
             - (IF ~(r.pc = "incr" /\ r.user = v) /\ s \in Bumping(v) THEN 1 ELSE 0)
    BY <1>2, Recount DEF CacheInv
  <2>2. Cardinality(Committing) \in Nat /\ Cardinality(Bumping(v)) \in Nat
    BY Counted
  <2>3. /\ Cardinality(Committing)' = Cardinality(Committing) + 1
        /\ Cardinality(Bumping(v))' = Cardinality(Bumping(v))
    BY <1>1, <1>3, <2>1, <2>2
  <2>4. /\ Cardinality(WritesInFlight) \in Nat
        /\ Cardinality(Committing) <= Cardinality(WritesInFlight)
    BY CommittingInFlight DEF CacheInv
  <2>5. /\ seq[v] \in Nat /\ MaxWrites \in Nat
        /\ seq'[v] = seq[v] /\ counter' = counter
        /\ seq[v] + Cardinality(WritesInFlight) < MaxWrites
    BY <1>2, Values DEF CacheInv
  <2> QED
    BY <2>2, <2>3, <2>4, <2>5 DEF CacheInv, Numbered
<1>5. call' \in [Slots -> Calls] /\ \A o \in Slots : Paced(call[o])'
  BY <1>1, <1>2, WriteStep
<1> QED
  BY <1>2, <1>4, <1>5 DEF CacheInv, TypeOK, Calls, Numbered, Aging

LEMMA CommitStep ==
  ASSUME CacheInv, NEW s \in Slots, NEW seers \in SUBSET Users, Commit(s, seers)
  PROVE  CacheInv'
<1> DEFINE u == call[s].user
           r == [call[s] EXCEPT !.pc = "incr", !.wrote = seq'[u]]
<1>1. call[s] \in Writes /\ call[s].pc = "commit" /\ u \in Users /\ u \in seers
  BY Shapes DEF Commit, CacheInv, Writes
<1>2. /\ call' = [call EXCEPT ![s] = r] /\ seq' = SeenBy(seers)
      /\ UNCHANGED <<counter, entry, acked, restart>>
  BY DEF Commit
<1>3. \A v \in Users : seq'[v] = IF v \in seers THEN seq[v] + 1 ELSE seq[v]
  BY <1>2 DEF SeenBy
<1>4. s \in Committing /\ \A v \in Users : s \notin Bumping(v)
  BY <1>1 DEF Committing, Bumping
<1>5. r.pc = "incr" /\ r.user = u
  BY <1>1 DEF Writes
<1> HIDE DEF r
<1>6. ASSUME NEW v \in Users
      PROVE  /\ seq'[v] \in Nat
             /\ seq'[v] + Cardinality(Committing)' <= MaxWrites /\ Cardinality(Committing)' \in Nat
             /\ counter'[v].value + Cardinality(Bumping(v))' <= seq'[v]
             /\ Present(counter'[v]) => counter'[v].value >= 1
  <2>1. /\ Cardinality(Committing)' = Cardinality(Committing)
             + (IF r.pc = "commit" /\ s \notin Committing THEN 1 ELSE 0)
             - (IF r.pc # "commit" /\ s \in Committing THEN 1 ELSE 0)
        /\ Cardinality(Bumping(v))' = Cardinality(Bumping(v))
             + (IF r.pc = "incr" /\ r.user = v /\ s \notin Bumping(v) THEN 1 ELSE 0)
             - (IF ~(r.pc = "incr" /\ r.user = v) /\ s \in Bumping(v) THEN 1 ELSE 0)
    BY <1>2, Recount DEF CacheInv
  <2>2. Cardinality(Committing) \in Nat /\ Cardinality(Bumping(v)) \in Nat
    BY Counted
  <2>3. Cardinality(Committing)' = Cardinality(Committing) - 1
    BY <1>4, <1>5, <2>1, <2>2
  <2>4. Cardinality(Bumping(v))' = Cardinality(Bumping(v)) + (IF v = u THEN 1 ELSE 0)
    BY <1>4, <1>5, <2>1, <2>2
  <2>5. /\ seq[v] \in Nat /\ MaxWrites \in Nat /\ counter[v].value \in Nat
        /\ counter' = counter
        /\ seq[v] + Cardinality(Committing) <= MaxWrites
        /\ counter[v].value + Cardinality(Bumping(v)) <= seq[v]
        /\ Present(counter[v]) => counter[v].value >= 1
    BY <1>2, Values DEF CacheInv, Numbered
  <2>6. Cardinality(Committing)' \in Nat
    <3>1. Committing' \subseteq Slots
      BY DEF Committing
    <3> QED
      BY <3>1, SlotsFinite, FS_Subset, FS_CardinalityType
  <2>7. (v = u => seq'[v] = seq[v] + 1) /\ seq'[v] \in {seq[v], seq[v] + 1}
    BY <1>1, <1>3
  <2> QED
    BY <2>2, <2>3, <2>4, <2>5, <2>6, <2>7
<1>7. seq' \in [Users -> Changes]
  <2>1. \A v \in Users : seq'[v] \in Changes
    BY <1>6, Durations DEF Changes
  <2>2. seq' = [v \in Users |-> seq'[v]]
    BY <1>2 DEF SeenBy
  <2> QED
    BY <2>1, <2>2
<1>8. r \in Writes
  BY <1>1, <1>7 DEF Writes, r
<1>9. call' \in [Slots -> Calls] /\ \A o \in Slots : Paced(call[o])'
  BY <1>2, <1>8, WriteStep
<1> QED
  BY <1>2, <1>6, <1>7, <1>9 DEF CacheInv, TypeOK, Calls, Numbered, Aging

LEMMA OthersStep ==
  ASSUME CacheInv, NEW seers \in SUBSET Users, ChangeByOthers(seers)
  PROVE  CacheInv'
<1>1. /\ UNCHANGED <<counter, entry, call, acked, restart>> /\ seq' = SeenBy(seers)
      /\ \A v \in Users : seq[v] + Cardinality(WritesInFlight) < MaxWrites
  BY DEF ChangeByOthers
<1>2. Committing' = Committing /\ \A v \in Users : Bumping(v)' = Bumping(v)
  BY <1>1 DEF Committing, Bumping
<1>3. ASSUME NEW v \in Users
      PROVE  /\ seq'[v] \in Changes
             /\ seq'[v] + Cardinality(Committing)' <= MaxWrites
             /\ counter'[v].value + Cardinality(Bumping(v))' <= seq'[v]
             /\ Present(counter'[v]) => counter'[v].value >= 1
  <2>1. /\ seq'[v] \in {seq[v], seq[v] + 1} /\ counter' = counter
        /\ seq[v] + Cardinality(WritesInFlight) < MaxWrites
    BY <1>1 DEF SeenBy
  <2>2. /\ Cardinality(Committing) \in Nat /\ Cardinality(Bumping(v)) \in Nat
        /\ Cardinality(WritesInFlight) \in Nat
        /\ Cardinality(Committing) <= Cardinality(WritesInFlight)
        /\ seq[v] \in Nat /\ counter[v].value \in Nat /\ MaxWrites \in Nat
    BY Counted, CommittingInFlight, Values DEF CacheInv
  <2>3. /\ counter[v].value + Cardinality(Bumping(v)) <= seq[v]
        /\ Present(counter[v]) => counter[v].value >= 1
    BY DEF CacheInv, Numbered
  <2>4. Cardinality(Committing)' = Cardinality(Committing) /\ Cardinality(Bumping(v))' = Cardinality(Bumping(v))
    BY <1>2
  <2> QED
    BY <2>1, <2>2, <2>3, <2>4 DEF Changes
<1>4. seq' \in [Users -> Changes]
  BY <1>1, <1>3 DEF SeenBy
<1> QED
  BY <1>1, <1>3, <1>4 DEF CacheInv, TypeOK, Numbered, Aging, Paced

LEMMA BumpIncrStep ==
  ASSUME CacheInv, NEW s \in Slots, BumpIncr(s)
  PROVE  CacheInv'
<1> DEFINE u == call[s].user
           r == [call[s] EXCEPT !.pc = "expire"]
<1>1. call[s] \in Writes /\ call[s].pc = "incr" /\ u \in Users
  BY Shapes DEF BumpIncr, CacheInv, Writes
<1>2. /\ call' = [call EXCEPT ![s] = r] /\ UNCHANGED <<seq, entry, acked>>
      /\ restart' \in {restart, [restart EXCEPT ![u] = 0]}
  BY DEF BumpIncr
<1>3. \/ /\ Present(counter[u])
         /\ counter' = [counter EXCEPT ![u].value = @ + 1]
      \/ /\ ~Present(counter[u])
         /\ counter' = [counter EXCEPT ![u] = [value |-> 1, ttl |-> Forever]]
  BY DEF BumpIncr
<1>4. r \in Writes /\ r.pc = "expire"
  BY <1>1 DEF Writes
<1>5. s \notin Committing /\ s \in Bumping(u) /\ \A v \in Users \ {u} : s \notin Bumping(v)
  BY <1>1 DEF Committing, Bumping
<1> HIDE DEF r
<1>6. counter \in [Users -> [value : Changes, ttl : 0 .. VersionTtl \cup {Forever}]]
  BY DEF CacheInv, TypeOK
<1>7. /\ counter'[u].value \in {1, counter[u].value + 1}
      /\ counter'[u].ttl \in {counter[u].ttl, Forever}
      /\ \A v \in Users \ {u} : counter'[v] = counter[v]
  BY <1>1, <1>3, <1>6
<1>8. ASSUME NEW v \in Users
      PROVE  /\ seq'[v] + Cardinality(Committing)' <= MaxWrites
             /\ counter'[v].value + Cardinality(Bumping(v))' <= seq'[v]
             /\ Present(counter'[v]) => counter'[v].value >= 1
             /\ counter'[v].value \in Changes
  <2>1. /\ Cardinality(Committing)' = Cardinality(Committing)
             + (IF r.pc = "commit" /\ s \notin Committing THEN 1 ELSE 0)
             - (IF r.pc # "commit" /\ s \in Committing THEN 1 ELSE 0)
        /\ Cardinality(Bumping(v))' = Cardinality(Bumping(v))
             + (IF r.pc = "incr" /\ r.user = v /\ s \notin Bumping(v) THEN 1 ELSE 0)
             - (IF ~(r.pc = "incr" /\ r.user = v) /\ s \in Bumping(v) THEN 1 ELSE 0)
    BY <1>2, Recount DEF CacheInv
  <2>2. Cardinality(Committing) \in Nat /\ Cardinality(Bumping(v)) \in Nat
    BY Counted
  <2>3. Cardinality(Committing)' = Cardinality(Committing)
    BY <1>4, <1>5, <2>1, <2>2
  <2>4. Cardinality(Bumping(v))' = Cardinality(Bumping(v)) - (IF v = u THEN 1 ELSE 0)
    BY <1>4, <1>5, <2>1, <2>2
  <2>5. /\ seq[v] \in Nat /\ MaxWrites \in Nat /\ counter[v].value \in Nat
        /\ counter[v].value \in Changes /\ seq' = seq
        /\ seq[v] + Cardinality(Committing) <= MaxWrites
        /\ counter[v].value + Cardinality(Bumping(v)) <= seq[v]
        /\ Present(counter[v]) => counter[v].value >= 1
    BY <1>2, Values DEF CacheInv, Numbered
  <2>6. CASE v # u
    BY <1>7, <2>2, <2>3, <2>4, <2>5, <2>6
  <2>7. CASE v = u
    <3>1. Cardinality(Bumping(v)) >= 1
      <4>1. IsFiniteSet(Bumping(v)) /\ Bumping(v) # {}
        BY <1>5, <2>7, Counted
      <4> QED
        BY <4>1, <2>2, FS_EmptySet
    <3>2. counter'[v].value \in Nat /\ counter'[v].value >= 1 /\ counter'[v].value <= counter[v].value + 1
      BY <1>7, <2>5, <2>7
    <3>3. counter'[v].value + (Cardinality(Bumping(v)) - 1) <= seq[v]
      BY <2>2, <2>5, <3>2
    <3>4. counter'[v].value <= MaxWrites
      BY <2>2, <2>5, <3>1, <3>2, <3>3
    <3> QED
      BY <2>2, <2>3, <2>4, <2>5, <2>7, <3>2, <3>3, <3>4 DEF Changes
  <2> QED
    BY <2>6, <2>7
<1>9. counter' \in [Users -> [value : Changes, ttl : 0 .. VersionTtl \cup {Forever}]]
  <2>1. counter'[u].value \in Changes
    BY <1>1, <1>8
  <2>2. CASE Present(counter[u])
    <3>1. counter' = [counter EXCEPT ![u] = [counter[u] EXCEPT !.value = @ + 1]]
      BY <1>3, <2>2
    <3>2. [counter[u] EXCEPT !.value = @ + 1].value \in Changes
      BY <1>1, <1>6, <2>1, <3>1
    <3>3. counter[u] \in [value : Changes, ttl : 0 .. VersionTtl \cup {Forever}]
      BY <1>1, <1>6
    <3>4. [counter[u] EXCEPT !.value = @ + 1] \in [value : Changes, ttl : 0 .. VersionTtl \cup {Forever}]
      BY <3>2, <3>3
    <3> QED
      BY <1>1, <1>6, <3>1, <3>4
  <2>3. CASE ~Present(counter[u])
    <3>1. [value |-> 1, ttl |-> Forever] \in [value : Changes, ttl : 0 .. VersionTtl \cup {Forever}]
      BY Durations DEF Changes
    <3> QED
      BY <1>1, <1>3, <1>6, <2>3, <3>1
  <2> QED
    BY <2>2, <2>3
<1>10. restart' \in [Users -> 0 .. MaxAge]
  <2>1. 0 \in 0 .. MaxAge /\ restart \in [Users -> 0 .. MaxAge]
    BY Durations DEF CacheInv, TypeOK, MaxAge
  <2> QED
    BY <1>1, <1>2, <2>1
<1>11. call' \in [Slots -> Calls] /\ \A o \in Slots : Paced(call[o])'
  BY <1>2, <1>4, WriteStep
<1> QED
  BY <1>2, <1>8, <1>9, <1>10, <1>11 DEF CacheInv, TypeOK, Calls, Numbered, Aging

\* What a moment does to a key with a time to live of its own.
LEMMA Expired ==
  ASSUME NEW key, key.ttl \in Nat, NEW empty, empty.ttl = 0
  PROVE  \/ Expire(key, empty) = key /\ key.ttl = Forever
         \/ Expire(key, empty) = empty
         \/ key.ttl > 1 /\ Expire(key, empty) = [key EXCEPT !.ttl = @ - 1]
BY DEF Expire

LEMMA TickCounters ==
  ASSUME CacheInv, Tick, NEW u \in Users
  PROVE  /\ counter'[u] \in [value : Changes, ttl : 0 .. VersionTtl \cup {Forever}]
         /\ counter'[u].value <= counter[u].value
         /\ Present(counter'[u]) => counter'[u].value >= 1
<1> DEFINE Keys == [value : Changes, ttl : 0 .. VersionTtl \cup {Forever}]
           key == counter[u]
<1>1. /\ counter'[u] = Expire(key, NoKey) /\ key \in Keys
      /\ key.value \in Nat /\ key.ttl \in Nat /\ VersionTtl \in Nat
  BY Values, Durations DEF Tick, CacheInv
<1>2. NoKey \in Keys /\ NoKey.value = 0 /\ NoKey.ttl = 0
  BY Durations DEF NoKey, Changes
<1>3. Present(key) => key.value >= 1
  BY DEF CacheInv, Numbered
<1> HIDE DEF key
<1>4. CASE counter'[u] = key
  BY <1>1, <1>3, <1>4 DEF key
<1>5. CASE counter'[u] = NoKey
  BY <1>1, <1>2, <1>5 DEF Present, key
<1>6. CASE key.ttl > 1 /\ key.ttl # Forever /\ counter'[u] = [key EXCEPT !.ttl = @ - 1]
  <2>1. key.ttl - 1 \in 0 .. VersionTtl
    BY <1>1, <1>6
  <2>2. counter'[u] \in Keys /\ counter'[u].value = key.value
    BY <1>1, <1>6, <2>1
  <2>3. Present(key)
    BY <1>1, <1>6 DEF Present
  <2> QED
    BY <1>1, <1>3, <2>2, <2>3 DEF key
<1> QED
  BY <1>1, <1>2, <1>4, <1>5, <1>6 DEF Expire, key

LEMMA TickEntries ==
  ASSUME CacheInv, Tick, NEW u \in Users, NEW v \in Versions
  PROVE  /\ entry'[u][v] \in [seen : Changes, age : 0 .. MaxAge, ttl : 0 .. DashTtl]
         /\ Present(entry'[u][v]) => entry'[u][v].age + entry'[u][v].ttl <= MaxAge
<1> DEFINE Entries == [seen : Changes, age : 0 .. MaxAge, ttl : 0 .. DashTtl]
           old == entry[u][v]
           e == Expire(old, NoEntry)
<1>1. entry'[u][v] = IF Present(e) THEN [e EXCEPT !.age = Older(@)] ELSE NoEntry
  BY DEF Tick
<1>2. /\ old \in Entries /\ old.ttl \in Nat /\ old.age \in Nat /\ old.ttl <= DashTtl
      /\ DashTtl \in Nat /\ MaxAge \in Nat /\ old.ttl # Forever /\ old.age <= MaxAge
  BY Durations DEF CacheInv, TypeOK, MaxAge, Forever
<1>3. NoEntry \in Entries /\ ~Present(NoEntry)
  BY Durations DEF NoEntry, Changes, MaxAge, Present
<1>4. Present(old) => old.age + old.ttl <= MaxAge
  BY DEF CacheInv, Aging
<1>5. CASE ~Present(e)
  BY <1>1, <1>3, <1>5
<1>6. CASE Present(e)
  <2>1. old.ttl > 1 /\ e = [old EXCEPT !.ttl = @ - 1]
    BY <1>2, <1>3, <1>6 DEF Expire
  <2>2. e.seen = old.seen /\ e.age = old.age /\ e.ttl = old.ttl - 1 /\ e \in Entries
    BY <1>2, <2>1
  <2>3. old.age + old.ttl <= MaxAge
    BY <1>2, <1>4, <2>1 DEF Present
  <2>4. Older(e.age) = old.age + 1
    BY <1>2, <2>1, <2>2, <2>3 DEF Older
  <2>5. entry'[u][v] = [e EXCEPT !.age = Older(e.age)]
    BY <1>1, <1>6
  <2> HIDE DEF e, old
  <2>6. Older(e.age) \in 0 .. MaxAge
    BY <1>2, <2>1, <2>3, <2>4
  <2>7. entry'[u][v] \in Entries /\ entry'[u][v].age = old.age + 1 /\ entry'[u][v].ttl = old.ttl - 1
    BY <2>2, <2>4, <2>5, <2>6
  <2> QED
    BY <1>2, <2>3, <2>7
<1> QED
  BY <1>5, <1>6

LEMMA TickCalls ==
  ASSUME CacheInv, Tick, NEW s \in Slots
  PROVE  /\ call'[s] \in Calls /\ Paced(call'[s])
         /\ call'[s].pc = call[s].pc
         /\ call[s] # Idle => call'[s].user = call[s].user
<1>1. /\ call'[s] = CASE call[s] = Idle -> Idle
                      [] call[s].pc = "set" -> [call[s] EXCEPT !.spent = @ + 1, !.age = @ + 1]
                      [] OTHER -> [call[s] EXCEPT !.spent = @ + 1]
      /\ call[s] # Idle => call[s].spent < MaxLatency
  BY DEF Tick
<1>2. Idle \in Calls /\ Paced(Idle)
  BY DEF Calls, Idle, Dashboards, Paced
<1>3. Paced(call[s]) /\ MaxLatency \in Nat
  BY Durations DEF CacheInv
<1>4. CASE call[s] = Idle
  <2>1. call[s].pc # "set"
    BY <1>4 DEF Idle
  <2>2. call'[s] = Idle
    BY <1>1, <1>4, <2>1
  <2> QED
    BY <1>2, <1>4, <2>2
<1>5. CASE call[s] \in Writes
  <2>1. call[s] # Idle /\ call[s].pc # "set"
    BY <1>5 DEF Writes, Idle
  <2>2. call'[s] = [call[s] EXCEPT !.spent = @ + 1] /\ call[s].spent + 1 \in 0 .. MaxLatency
    BY <1>1, <1>3, <1>5, <2>1 DEF Writes
  <2>3. call'[s] \in Writes
    BY <1>5, <2>2 DEF Writes
  <2>4. call'[s].pc = call[s].pc /\ call'[s].user = call[s].user
    BY <1>5, <2>2 DEF Writes
  <2> QED
    BY <2>3, <2>4 DEF Calls, Writes, Dashboards, Paced
<1>6. CASE call[s] \in Dashboards
  <2>1. call[s] # Idle
    BY <1>6 DEF Dashboards, Idle
  <2>2. /\ call[s].spent \in Nat /\ call[s].spent + 1 \in 0 .. MaxLatency
        /\ call[s].age \in Nat /\ call[s].age <= call[s].spent
        /\ call[s].age + 1 \in 0 .. MaxLatency /\ call[s].age \in 0 .. MaxLatency
    BY <1>1, <1>3, <1>6, <2>1 DEF Dashboards, Paced
  <2>3. CASE call[s].pc = "set"
    <3>1. call'[s] = [call[s] EXCEPT !.spent = @ + 1, !.age = @ + 1]
      BY <1>1, <2>1, <2>3
    <3>2. /\ call'[s] \in Dashboards /\ call'[s].pc = call[s].pc /\ call'[s].user = call[s].user
          /\ call'[s].version = call[s].version
          /\ call'[s].age = call[s].age + 1 /\ call'[s].spent = call[s].spent + 1
      BY <1>6, <2>2, <3>1 DEF Dashboards
    <3> QED
      BY <1>3, <1>6, <2>2, <3>2 DEF Calls, Paced
  <2>4. CASE call[s].pc # "set"
    <3>1. call'[s] = [call[s] EXCEPT !.spent = @ + 1]
      BY <1>1, <2>1, <2>4
    <3>2. /\ call'[s] \in Dashboards /\ call'[s].pc = call[s].pc /\ call'[s].user = call[s].user
          /\ call'[s].version = call[s].version
          /\ call'[s].age = call[s].age /\ call'[s].spent = call[s].spent + 1
      BY <1>6, <2>2, <3>1 DEF Dashboards
    <3> QED
      BY <1>3, <1>6, <2>2, <3>2 DEF Calls, Paced
  <2> QED
    BY <2>3, <2>4
<1> QED
  BY <1>4, <1>5, <1>6, Shapes DEF CacheInv

LEMMA TickStep ==
  ASSUME CacheInv, Tick
  PROVE  CacheInv'
<1>1. UNCHANGED <<seq, acked>>
  BY DEF Tick
<1>2. Committing' = Committing /\ \A u \in Users : Bumping(u)' = Bumping(u)
  <2>1. Idle.pc # "incr"
    BY DEF Idle
  <2> QED
    BY <2>1, TickCalls DEF Committing, Bumping
<1>3. ASSUME NEW u \in Users
      PROVE  /\ seq'[u] + Cardinality(Committing)' <= MaxWrites
             /\ counter'[u].value + Cardinality(Bumping(u))' <= seq'[u]
             /\ Present(counter'[u]) => counter'[u].value >= 1
  <2>1. Cardinality(Committing)' = Cardinality(Committing) /\ Cardinality(Bumping(u))' = Cardinality(Bumping(u))
    BY <1>2
  <2>2. /\ seq[u] + Cardinality(Committing) <= MaxWrites
        /\ counter[u].value + Cardinality(Bumping(u)) <= seq[u]
    BY DEF CacheInv, Numbered
  <2>3. Cardinality(Bumping(u)) \in Nat /\ counter[u].value \in Nat /\ seq[u] \in Nat
    BY Counted, Values DEF CacheInv
  <2>4. /\ counter'[u].value <= counter[u].value /\ counter'[u].value \in Nat
        /\ Present(counter'[u]) => counter'[u].value >= 1
    BY TickCounters, Durations DEF Changes
  <2> QED
    BY <1>1, <2>1, <2>2, <2>3, <2>4
<1>4. counter' \in [Users -> [value : Changes, ttl : 0 .. VersionTtl \cup {Forever}]]
  BY TickCounters DEF Tick
<1>5. entry' \in [Users -> [Versions -> [seen : Changes, age : 0 .. MaxAge, ttl : 0 .. DashTtl]]]
  BY TickEntries DEF Tick
<1>6. call' \in [Slots -> Calls]
  BY TickCalls DEF Tick
<1>7. restart' \in [Users -> 0 .. MaxAge]
  <2>1. MaxAge \in Nat /\ restart \in [Users -> 0 .. MaxAge]
    BY Durations DEF CacheInv, TypeOK, MaxAge
  <2>2. \A u \in Users : Older(restart[u]) \in 0 .. MaxAge /\ 0 \in 0 .. MaxAge
    BY <2>1 DEF Older
  <2> QED
    BY <2>2 DEF Tick
<1> QED
  BY <1>1, <1>3, <1>4, <1>5, <1>6, <1>7, TickCalls, TickEntries
     DEF CacheInv, TypeOK, Calls, Numbered, Aging

--------------------------------------------------------------------------------
\* The invariant holds in every reachable state.
THEOREM CacheInvariant == Spec => []CacheInv
<1>1. Init => CacheInv
  <2> SUFFICES ASSUME Init PROVE CacheInv
    OBVIOUS
  <2>1. /\ 0 \in Changes /\ NoKey \in [value : Changes, ttl : 0 .. VersionTtl \cup {Forever}]
        /\ NoEntry \in [seen : Changes, age : 0 .. MaxAge, ttl : 0 .. DashTtl]
        /\ MaxAge \in 0 .. MaxAge /\ MaxWrites \in Nat
    BY Durations DEF Changes, NoKey, NoEntry, MaxAge
  <2>2. TypeOK
    BY <2>1 DEF Init, TypeOK
  <2>3. Committing = {} /\ \A u \in Users : Bumping(u) = {}
    BY DEF Init, Committing, Bumping, Idle
  <2>4. Numbered
    <3>1. Cardinality({}) = 0
      BY FS_EmptySet
    <3> QED
      <4>1. ASSUME NEW u \in Users
            PROVE  /\ seq[u] = 0 /\ counter[u].value = 0 /\ ~Present(counter[u])
                   /\ Cardinality(Committing) = 0 /\ Cardinality(Bumping(u)) = 0
        BY <2>3, <3>1 DEF Init, NoKey, Present
      <4> QED
        BY <2>1, <4>1 DEF Numbered
  <2>5. Aging /\ \A s \in Slots : Paced(call[s])
    BY DEF Init, Aging, Paced, NoEntry, Present, Idle, Dashboards
  <2> QED
    BY <2>2, <2>4, <2>5 DEF CacheInv
<1>2. CacheInv /\ [Next]_cvars => CacheInv'
  <2> SUFFICES ASSUME CacheInv, [Next]_cvars PROVE CacheInv'
    OBVIOUS
  <2>1. CASE UNCHANGED cvars
    BY <2>1 DEF cvars, CacheInv, TypeOK, Numbered, Aging, Paced, Committing, Bumping
  <2>2. ASSUME NEW s \in Slots, RequestStep(s) PROVE CacheInv'
    BY <2>2, DashboardSteps, SetCachedStep, StartWriteStep, CommitStep, BumpIncrStep, BumpEnds
       DEF RequestStep
  <2>3. ASSUME NEW seers \in SUBSET Users, ChangeByOthers(seers) PROVE CacheInv'
    BY <2>3, OthersStep
  <2>4. CASE Tick
    BY <2>4, TickStep
  <2> QED
    BY <2>1, <2>2, <2>3, <2>4 DEF Next
<1> QED
  BY <1>1, <1>2, PTL DEF Spec

\* Every key, version number and age stays in its range, whatever overlaps.
THEOREM CacheTypes == Spec => []TypeOK
<1>1. CacheInv => TypeOK
  BY DEF CacheInv
<1> QED
  BY <1>1, CacheInvariant, PTL

\* Only the cache hit of getDashboard ends a request that looks for a copy.
LEMMA ServedFromCache ==
  ASSUME CacheInv, Next, NEW s \in Slots, Served(s)
  PROVE  /\ call[s] \in Dashboards /\ call[s].user \in Users /\ call[s].version \in Versions
         /\ Present(Cached(s))
<1>1. /\ call[s] \in Dashboards /\ call[s].pc = "get" /\ call'[s] = Idle
      /\ call[s].user \in Users /\ call[s].version \in Versions
  BY Shapes DEF Served, CacheInv, Paced, Dashboards
<1>2. GetCached(s)
  <2>1. \A o \in Slots \ {s} : RequestStep(o) => call'[s] = call[s]
    <3>1. \A r, o : o # s /\ call' = [call EXCEPT ![o] = r] => call'[s] = call[s]
      BY DEF CacheInv, TypeOK
    <3>2. \A o \in Slots : RequestStep(o) => \E r : call' = [call EXCEPT ![o] = r]
      <4> SUFFICES ASSUME NEW o \in Slots, RequestStep(o)
                   PROVE  \E r : call' = [call EXCEPT ![o] = r]
        OBVIOUS
      <4>1. ASSUME NEW u \in Users, StartDashboard(o, u) \/ StartWrite(o, u)
            PROVE  \E r : call' = [call EXCEPT ![o] = r]
        BY <4>1 DEF StartDashboard, StartWrite
      <4>2. ASSUME GetVersionKey(o) \/ CountVisible(o) PROVE \E r : call' = [call EXCEPT ![o] = r]
        BY <4>2 DEF GetVersionKey, CountVisible
      <4>3. ASSUME GetCached(o) \/ SetCached(o) PROVE \E r : call' = [call EXCEPT ![o] = r]
        BY <4>3 DEF GetCached, SetCached, StoreFor, Reply
      <4>4. ASSUME NEW seers, Commit(o, seers) PROVE \E r : call' = [call EXCEPT ![o] = r]
        BY <4>4 DEF Commit
      <4>5. ASSUME BumpIncr(o) \/ BumpExpire(o) \/ BumpFails(o)
            PROVE  \E r : call' = [call EXCEPT ![o] = r]
        BY <4>5 DEF BumpIncr, BumpExpire, BumpFails, Reply
      <4> QED
        BY <4>1, <4>2, <4>3, <4>4, <4>5 DEF RequestStep
    <3> QED
      BY <3>1, <3>2
  <2>2. RequestStep(s) => GetCached(s)
    BY <1>1 DEF RequestStep, StartDashboard, StartWrite, GetVersionKey, CountVisible,
                SetCached, StoreFor, Commit, BumpIncr, BumpExpire, BumpFails, Idle
  <2>3. call[s] # Idle
    BY <1>1 DEF Idle
  <2>4. ~Tick /\ \A seers \in SUBSET Users : ~ChangeByOthers(seers)
    <3>1. Idle.pc # "get"
      BY DEF Idle
    <3> QED
      BY <1>1, <2>3, <3>1, TickCalls DEF ChangeByOthers
  <2> QED
    BY <1>1, <2>1, <2>2, <2>3, <2>4 DEF Next
<1>3. Present(Cached(s))
  <2>1. ~(call' = [call EXCEPT ![s].pc = "count"])
    <3>1. [call[s] EXCEPT !.pc = "count"].pc = "count"
      BY <1>1 DEF Dashboards
    <3>2. call \in [Slots -> Calls] /\ Idle.pc # "count"
      BY DEF CacheInv, TypeOK, Calls, Idle
    <3> QED
      BY <1>1, <3>1, <3>2
  <2> QED
    BY <1>2, <2>1 DEF GetCached
<1> QED
  BY <1>1, <1>3

\* A dashboard served from the cache was read less than its time to live and one
\* request ago.
THEOREM StalenessIsBounded == Spec => StalenessBounded
<1>1. CacheInv /\ [Next]_cvars =>
        [\A s \in Slots : Served(s) => Cached(s).age < MaxAge]_cvars
  <2> SUFFICES ASSUME CacheInv, Next, NEW s \in Slots, Served(s)
               PROVE  Cached(s).age < MaxAge
    OBVIOUS
  <2>1. /\ call[s].user \in Users /\ call[s].version \in Versions /\ Present(Cached(s))
    BY ServedFromCache
  <2>2. /\ Cached(s).ttl \in Nat /\ Cached(s).age \in Nat /\ MaxAge \in Nat
        /\ Cached(s).age + Cached(s).ttl <= MaxAge
    <3>1. Cached(s) \in [seen : Changes, age : 0 .. MaxAge, ttl : 0 .. DashTtl]
      BY <2>1 DEF CacheInv, TypeOK, Cached
    <3>2. Cached(s).age + Cached(s).ttl <= MaxAge
      BY <2>1 DEF CacheInv, Aging, Cached
    <3>3. DashTtl \in Nat /\ MaxAge \in Nat
      BY Durations DEF MaxAge
    <3> QED
      BY <3>1, <3>2, <3>3
  <2> QED
    BY <2>1, <2>2 DEF Present
<1> QED
  BY <1>1, CacheInvariant, PTL DEF Spec, StalenessBounded

--------------------------------------------------------------------------------
(* A user's own changes *)

Current(u) == IF Present(counter[u]) THEN counter[u].value ELSE 1

\* Began after the counter last started over; stored by a request that did.
Recent(s) == call[s].spent < restart[call[s].user]
RecentEntry(u, v) == Present(entry[u][v]) /\ entry[u][v].ttl + restart[u] > MaxAge

\* A request that has read the version it works under.
Looked(s) == call[s] \in Dashboards /\ call[s].pc # "version"

\* A dashboard under version v that shows n changes is good for u as long as the
\* counter runs on: it is not ahead of the counter; if it is the current one it
\* misses no change that was bumped for; and it misses none that a request which
\* may still be served with it waits for.
Good(u, v, n) ==
  /\ v <= Current(u)
  /\ v = Current(u) =>
       /\ acked[u] <= n
       /\ \A w \in Slots : call[w].pc = "expire" /\ call[w].user = u => call[w].wrote <= n
  /\ \A c \in Slots : Looked(c) /\ Recent(c) /\ call[c].user = u /\ call[c].version = v
                      => call[c].owed <= n

Known ==
  /\ \A u \in Users : acked[u] <= seq[u]
  /\ \A s \in Slots : call[s].pc \in {"incr", "expire"} => call[s].wrote <= seq[call[s].user]
  /\ \A s \in Slots : call[s] \in Dashboards => call[s].owed <= acked[call[s].user]

GoodCopies ==
  /\ \A s \in Slots : Looked(s) /\ Recent(s) => call[s].version <= Current(call[s].user)
  /\ \A s \in Slots : call[s].pc = "set" /\ Recent(s) =>
                         Good(call[s].user, call[s].version, call[s].seen)
  /\ \A u \in Users, v \in Versions : RecentEntry(u, v) => Good(u, v, entry[u][v].seen)

OwnInv == Known /\ GoodCopies

LEMMA MoreValues ==
  ASSUME CacheInv, NEW u \in Users
  PROVE  /\ Current(u) \in Nat /\ acked[u] \in Nat /\ seq[u] \in Nat
         /\ restart[u] \in Nat /\ restart[u] <= MaxAge /\ MaxAge \in Nat
         /\ MaxLatency < MaxAge /\ MaxLatency \in Nat /\ DashTtl < MaxAge /\ DashTtl \in Nat
         /\ MaxAge = DashTtl + MaxLatency
<1>1. MaxAge = DashTtl + MaxLatency /\ DashTtl \in Nat \ {0} /\ MaxLatency \in Nat \ {0}
  BY Durations DEF MaxAge
<1> QED
  BY <1>1, Values DEF CacheInv, TypeOK, Current, Changes

\* What a step of slot s, by which no counter starts over, leaves good.
LEMMA KeepsGood ==
  ASSUME CacheInv, NEW s \in Slots, NEW r, call' = [call EXCEPT ![s] = r], restart' = restart,
         NEW u \in Users, NEW v \in Versions, NEW n \in Changes, Good(u, v, n),
         Current(u)' \in Nat, Current(u) <= Current(u)',
         v = Current(u)' => /\ acked'[u] <= n
                            /\ r.pc = "expire" /\ r.user = u => r.wrote <= n,
         r \in Dashboards /\ r.pc # "version" /\ r.user = u /\ r.version = v
           /\ r.spent < restart[u] => r.owed <= n
  PROVE  Good(u, v, n)'
<1>1. call'[s] = r /\ \A o \in Slots \ {s} : call'[o] = call[o]
  BY DEF CacheInv, TypeOK
<1>2. v \in Nat /\ Current(u) \in Nat
  BY MoreValues DEF Versions
<1>3. v <= Current(u)'
  BY <1>2 DEF Good
<1>4. v = Current(u)' => v = Current(u)
  BY <1>2, <1>3 DEF Good
<1>5. ASSUME v = Current(u)', NEW w \in Slots, call'[w].pc = "expire", call'[w].user = u
      PROVE  call'[w].wrote <= n
  BY <1>1, <1>4, <1>5 DEF Good
<1>6. ASSUME NEW c \in Slots, Looked(c)', Recent(c)', call'[c].user = u, call'[c].version = v
      PROVE  call'[c].owed <= n
  <2>1. CASE c = s
    BY <1>1, <1>6, <2>1 DEF Looked, Recent
  <2>2. CASE c # s
    BY <1>1, <1>6, <2>2 DEF Looked, Recent, Good
  <2> QED
    BY <2>1, <2>2
<1> QED
  BY <1>3, <1>5, <1>6 DEF Good

\* What a step of slot s has to bring, when no counter starts over, to leave the
\* whole invariant as it found it.
LEMMA OwnStep ==
  ASSUME CacheInv, OwnInv, NEW s \in Slots, NEW r \in Calls, call' = [call EXCEPT ![s] = r],
         restart' = restart, Paced(r),
         \A u \in Users : /\ Current(u)' \in Nat /\ Current(u) <= Current(u)'
                          /\ acked'[u] \in Nat /\ seq'[u] \in Nat
                          /\ acked[u] <= acked'[u] /\ acked'[u] <= seq'[u] /\ seq[u] <= seq'[u],
         r.pc \in {"incr", "expire"} => r.wrote <= seq'[r.user],
         r \in Dashboards => r.owed <= acked'[r.user],
         \A u \in Users, v \in Versions, n \in Changes : Good(u, v, n) =>
            /\ v = Current(u)' => /\ acked'[u] <= n
                                  /\ r.pc = "expire" /\ r.user = u => r.wrote <= n
            /\ r \in Dashboards /\ r.pc # "version" /\ r.user = u /\ r.version = v
                 /\ r.spent < restart[u] => r.owed <= n,
         \A u \in Users : r \in Dashboards /\ r.pc # "version" /\ r.user = u
                            /\ r.spent < restart[u] => r.version <= Current(u),
         \A u \in Users : r.pc = "set" /\ r.user = u /\ r.spent < restart[u] =>
                            Good(u, r.version, r.seen),
         \A u \in Users, v \in Versions : RecentEntry(u, v)' =>
            entry'[u][v].seen \in Changes /\ Good(u, v, entry'[u][v].seen)
  PROVE  OwnInv'
<1>1. call'[s] = r /\ \A o \in Slots \ {s} : call'[o] = call[o]
  BY DEF CacheInv, TypeOK
<1>2. \A u \in Users, v \in Versions, n \in Changes : Good(u, v, n) => Good(u, v, n)'
  BY KeepsGood
<1>3. \A o \in Slots : /\ call[o] \in Dashboards => /\ call[o].user \in Users
                                                    /\ call[o].seen \in Changes
                                                    /\ call[o].owed \in Nat
                       /\ call[o] \in Writes => call[o].user \in Users /\ call[o].wrote \in Nat
                       /\ Looked(o) => call[o].version \in Versions
  BY DEF CacheInv, Dashboards, Writes, Changes, Looked, Paced
<1>4. \A u \in Users : Current(u) \in Nat /\ acked[u] \in Nat /\ seq[u] \in Nat
  BY MoreValues
<1>5. Known'
  <2>1. \A u \in Users : acked'[u] <= seq'[u]
    OBVIOUS
  <2>2. ASSUME NEW o \in Slots, call'[o].pc \in {"incr", "expire"}
        PROVE  call'[o].wrote <= seq'[call'[o].user]
    <3>1. CASE o = s
      BY <1>1, <2>2, <3>1
    <3>2. CASE o # s
      <4>1. call[o] \in Writes /\ call'[o] = call[o] /\ call[o].wrote <= seq[call[o].user]
        BY <1>1, <2>2, <3>2, Shapes DEF CacheInv, OwnInv, Known
      <4> QED
        BY <1>3, <1>4, <4>1
    <3> QED
      BY <3>1, <3>2
  <2>3. ASSUME NEW o \in Slots, call'[o] \in Dashboards
        PROVE  call'[o].owed <= acked'[call'[o].user]
    <3>1. CASE o = s
      BY <1>1, <2>3, <3>1
    <3>2. CASE o # s
      <4>1. call[o] \in Dashboards /\ call'[o] = call[o] /\ call[o].owed <= acked[call[o].user]
        BY <1>1, <2>3, <3>2 DEF OwnInv, Known
      <4> QED
        BY <1>3, <1>4, <4>1
    <3> QED
      BY <3>1, <3>2
  <2> QED
    BY <2>1, <2>2, <2>3 DEF Known
<1>6. ASSUME NEW o \in Slots, Looked(o)', Recent(o)'
      PROVE  call'[o].version <= Current(call[o].user)'
  <2> DEFINE u == call'[o].user
  <2>1. u \in Users
    BY <1>1, <1>3, <1>6 DEF Looked, Calls, Dashboards
  <2>2. call'[o].version \in Versions /\ call'[o].version <= Current(u)
    <3>1. CASE o = s
      BY <1>1, <1>6, <2>1, <3>1 DEF Looked, Recent, Paced
    <3>2. CASE o # s
      BY <1>1, <1>3, <1>6, <3>2 DEF Looked, Recent, OwnInv, GoodCopies
    <3> QED
      BY <3>1, <3>2
  <2>3. \A w \in Users : w = u => call'[o].version <= Current(w)'
    BY <1>4, <2>2 DEF Versions
  <2> QED
    BY <2>1, <2>3 DEF Current
<1>7. ASSUME NEW o \in Slots, call'[o].pc = "set", Recent(o)'
      PROVE  \A u \in Users, v \in Versions, n \in Changes :
                u = call'[o].user /\ v = call'[o].version /\ n = call'[o].seen => Good(u, v, n)'
  <2>1. CASE o = s
    BY <1>1, <1>2, <1>7, <2>1 DEF Recent
  <2>2. CASE o # s
    BY <1>1, <1>2, <1>7, <2>2 DEF Recent, OwnInv, GoodCopies
  <2> QED
    BY <2>1, <2>2
<1>8. ASSUME NEW u \in Users, NEW v \in Versions, RecentEntry(u, v)'
      PROVE  Good(u, v, entry[u][v].seen)'
  <2>1. \A n \in Changes : n = entry'[u][v].seen => Good(u, v, n)'
    BY <1>2, <1>8
  <2> QED
    BY <1>8, <2>1 DEF Good
<1>9. ASSUME NEW o \in Slots, call'[o].pc = "set", Recent(o)'
      PROVE  Good(call[o].user, call[o].version, call[o].seen)'
  <2>1. /\ call'[o].user \in Users /\ call'[o].version \in Versions /\ call'[o].seen \in Changes
    <3>1. call'[o] \in Dashboards /\ Paced(call'[o])
      BY <1>1, <1>9, Shapes DEF CacheInv, Calls, Writes, Idle
    <3> QED
      BY <1>9, <3>1 DEF Dashboards, Paced
  <2> QED
    BY <1>7, <1>9, <2>1 DEF Good
<1> QED
  BY <1>5, <1>6, <1>8, <1>9 DEF OwnInv, GoodCopies

\* The values the slots of a good state hold.
LEMMA OwnValues ==
  ASSUME CacheInv, OwnInv, NEW s \in Slots
  PROVE  /\ call[s] \in Dashboards =>
              /\ call[s].user \in Users /\ call[s].owed \in Nat /\ call[s].seen \in Changes
              /\ call[s].owed <= acked[call[s].user]
         /\ call[s] \in Writes =>
              /\ call[s].user \in Users /\ call[s].wrote \in Nat
              /\ call[s].pc # "commit" => call[s].wrote <= seq[call[s].user]
BY DEF CacheInv, OwnInv, Known, Dashboards, Writes, Changes

\* A step that changes no counter and acknowledges nothing.
LEMMA OwnQuiet ==
  ASSUME CacheInv, OwnInv, NEW s \in Slots, NEW r \in Calls, call' = [call EXCEPT ![s] = r],
         Paced(r), UNCHANGED <<seq, counter, acked, restart>>,
         r.pc \notin {"incr", "expire"},
         r \in Dashboards => r.owed <= acked[r.user],
         \A u \in Users : r \in Dashboards /\ r.pc # "version" /\ r.user = u
                            /\ r.spent < restart[u] =>
            /\ r.version <= Current(u)
            /\ \A n \in Changes : Good(u, r.version, n) => r.owed <= n
            /\ r.pc = "set" => Good(u, r.version, r.seen),
         \A u \in Users, v \in Versions : RecentEntry(u, v)' =>
            entry'[u][v].seen \in Changes /\ Good(u, v, entry'[u][v].seen)
  PROVE  OwnInv'
<1>1. \A u \in Users : /\ Current(u)' \in Nat /\ Current(u) <= Current(u)'
                       /\ acked'[u] \in Nat /\ seq'[u] \in Nat
                       /\ acked[u] <= acked'[u] /\ acked'[u] <= seq'[u] /\ seq[u] <= seq'[u]
  BY MoreValues DEF Current, OwnInv, Known
<1>2. ASSUME NEW u \in Users, NEW v \in Versions, NEW n \in Changes, Good(u, v, n)
      PROVE  /\ v = Current(u)' => /\ acked'[u] <= n
                                   /\ r.pc = "expire" /\ r.user = u => r.wrote <= n
             /\ r \in Dashboards /\ r.pc # "version" /\ r.user = u /\ r.version = v
                  /\ r.spent < restart[u] => r.owed <= n
  <2>1. Current(u)' = Current(u)
    BY DEF Current
  <2>2. v = Current(u) => acked[u] <= n
    BY <1>2 DEF Good
  <2> QED
    BY <1>2, <2>1, <2>2
<1>3. r.pc = "set" => r \in Dashboards /\ r.pc # "version"
  BY DEF Calls, Writes, Idle
<1>4. \A u \in Users : r.pc = "set" /\ r.user = u /\ r.spent < restart[u] =>
                         Good(u, r.version, r.seen)
  BY <1>3
<1>5. \A u \in Users : r \in Dashboards /\ r.pc # "version" /\ r.user = u
                         /\ r.spent < restart[u] => r.version <= Current(u)
  OBVIOUS
<1>6. r.pc \in {"incr", "expire"} => r.wrote <= seq'[r.user]
  OBVIOUS
<1>7. r \in Dashboards => r.owed <= acked'[r.user]
  OBVIOUS
<1> QED
  BY <1>1, <1>2, <1>4, <1>5, <1>6, <1>7, OwnStep

LEMMA DashboardStepsOwn ==
  ASSUME CacheInv, OwnInv, NEW s \in Slots,
         \/ \E u \in Users : StartDashboard(s, u)
         \/ GetVersionKey(s) \/ GetCached(s) \/ CountVisible(s)
  PROVE  OwnInv'
<1>1. UNCHANGED <<seq, counter, entry, acked, restart>>
  BY DEF StartDashboard, GetVersionKey, GetCached, CountVisible
<1>2. \A u \in Users : /\ Current(u)' = Current(u) /\ Current(u) \in Nat
                       /\ acked[u] \in Nat /\ seq[u] \in Nat /\ acked[u] <= seq[u]
  BY <1>1, MoreValues DEF Current, OwnInv, Known
<1>3. \A u \in Users, v \in Versions, n \in Changes :
         Good(u, v, n) /\ v = Current(u) => acked[u] <= n
  BY DEF Good
<1>4. \A u \in Users, v \in Versions : RecentEntry(u, v)' =>
         entry'[u][v].seen \in Changes /\ Good(u, v, entry'[u][v].seen)
  BY <1>1 DEF RecentEntry, OwnInv, GoodCopies, CacheInv, TypeOK
<1>5. ASSUME NEW r \in Calls, call' = [call EXCEPT ![s] = r], Paced(r),
             r.pc \notin {"incr", "expire"},
             r \in Dashboards =>
               /\ r.owed <= acked[r.user]
               /\ r.pc # "version" =>
                    \A u \in Users : r.user = u /\ r.spent < restart[u] =>
                      /\ r.version <= Current(u)
                      /\ \A n \in Changes : Good(u, r.version, n) => r.owed <= n
                      /\ r.pc = "set" => Good(u, r.version, r.seen)
      PROVE  OwnInv'
  BY <1>1, <1>4, <1>5, OwnQuiet
<1>6. Idle \in Calls /\ Idle.pc = "idle" /\ Paced(Idle) /\ Idle \notin Dashboards
  BY DEF Calls, Idle, Dashboards, Paced
<1>7. ASSUME NEW u \in Users, StartDashboard(s, u) PROVE OwnInv'
  <2> DEFINE r == [op |-> "dashboard", pc |-> "version", user |-> u, owed |-> acked[u],
                   spent |-> 0, version |-> 0, seen |-> 0, age |-> 0]
  <2>1. r \in Calls /\ Paced(r)
    BY Durations DEF CacheInv, TypeOK, Calls, Dashboards, Changes, Paced
  <2>2. call' = [call EXCEPT ![s] = r] /\ r.pc = "version" /\ r.owed = acked[u] /\ r.user = u
    BY <1>7 DEF StartDashboard
  <2> HIDE DEF r
  <2>3. r.owed <= acked[r.user]
    BY <1>2, <2>2
  <2> QED
    BY <1>5, <2>1, <2>2, <2>3
<1>8. CASE GetVersionKey(s)
  <2>1. call[s] \in Dashboards /\ Paced(call[s]) /\ call[s].user \in Users
    BY <1>8, Shapes DEF GetVersionKey, CacheInv, Dashboards
  <2> DEFINE w == call[s].user
             r == [call[s] EXCEPT !.pc = "get", !.version = Current(w)]
  <2>2. Current(w) \in Versions
    BY <2>1, Values, Durations DEF CacheInv, Numbered, Versions, Changes, Current
  <2>3. /\ r \in Calls /\ r.pc = "get" /\ r.version = Current(w) /\ r.user = w
        /\ r.age = call[s].age /\ r.spent = call[s].spent /\ r.owed = call[s].owed
    BY <2>1, <2>2 DEF Dashboards, Calls
  <2>4. call' = [call EXCEPT ![s] = r]
    BY <1>8 DEF GetVersionKey, Current
  <2>5. call[s].owed <= acked[w] /\ call[s].owed \in Nat
    BY <2>1, OwnValues
  <2> HIDE DEF r, w
  <2>6. Paced(r)
    BY <2>1, <2>2, <2>3 DEF Paced
  <2>7. \A u \in Users : r.user = u =>
           /\ r.version <= Current(u)
           /\ \A n \in Changes : Good(u, r.version, n) => r.owed <= n
    BY <1>2, <1>3, <2>2, <2>3, <2>5 DEF Changes
  <2> QED
    BY <1>5, <2>3, <2>4, <2>5, <2>6, <2>7
\* A request that has looked keeps its version and what it waits for.
<1>9. ASSUME Looked(s), NEW u \in Users, call[s].user = u, call[s].spent < restart[u]
      PROVE  /\ call[s].version <= Current(u)
             /\ \A n \in Changes : Good(u, call[s].version, n) => call[s].owed <= n
  BY <1>9 DEF OwnInv, GoodCopies, Recent, Good
<1>10. CASE GetCached(s)
  <2>1. /\ call[s] \in Dashboards /\ Paced(call[s]) /\ call[s].pc = "get" /\ Looked(s)
        /\ call[s].owed <= acked[call[s].user]
    BY <1>10, Shapes, OwnValues DEF GetCached, CacheInv, Looked
  <2>2. CASE Reply(s)
    BY <1>5, <1>6, <2>2 DEF Reply
  <2>3. CASE call' = [call EXCEPT ![s].pc = "count"]
    <3> DEFINE r == [call[s] EXCEPT !.pc = "count"]
    <3>1. /\ r \in Calls /\ r.pc = "count" /\ r.version = call[s].version /\ r.user = call[s].user
          /\ r.age = call[s].age /\ r.spent = call[s].spent /\ r.owed = call[s].owed
      BY <2>1 DEF Dashboards, Calls
    <3>2. call' = [call EXCEPT ![s] = r]
      BY <2>3
    <3> HIDE DEF r
    <3>3. Paced(r)
      BY <2>1, <3>1 DEF Paced
    <3> QED
      BY <1>5, <1>9, <2>1, <3>1, <3>2, <3>3
  <2> QED
    BY <1>10, <2>2, <2>3 DEF GetCached
<1>11. CASE CountVisible(s)
  <2>1. /\ call[s] \in Dashboards /\ Paced(call[s]) /\ call[s].pc = "count" /\ Looked(s)
        /\ call[s].user \in Users /\ call[s].owed <= acked[call[s].user]
    BY <1>11, Shapes, OwnValues DEF CountVisible, CacheInv, Looked
  <2> DEFINE w == call[s].user
             r == [call[s] EXCEPT !.pc = "set", !.seen = seq[w]]
  <2>2. seq[w] \in Changes
    BY <2>1 DEF CacheInv, TypeOK
  <2>3. /\ r \in Calls /\ r.pc = "set" /\ r.version = call[s].version /\ r.user = w
        /\ r.age = call[s].age /\ r.spent = call[s].spent /\ r.owed = call[s].owed
        /\ r.seen = seq[w]
    BY <2>1, <2>2 DEF Dashboards, Calls
  <2>4. call' = [call EXCEPT ![s] = r]
    BY <1>11 DEF CountVisible
  <2> HIDE DEF r, w
  <2>5. Paced(r)
    BY <2>1, <2>3 DEF Paced
  <2>6. ASSUME NEW u \in Users, call[s].user = u, call[s].spent < restart[u]
        PROVE  Good(u, call[s].version, seq[u])
    <3>1. acked[u] <= seq[u] /\ acked[u] \in Nat /\ seq[u] \in Nat
      BY <1>2
    <3>2. \A o \in Slots : call[o].pc = "expire" /\ call[o].user = u => call[o].wrote <= seq[u]
      BY DEF OwnInv, Known
    <3>3. \A c \in Slots : Looked(c) /\ call[c].user = u => call[c].owed <= seq[u]
      BY <3>1, OwnValues DEF Looked
    <3> QED
      BY <1>9, <2>1, <2>6, <3>1, <3>2, <3>3 DEF Good
  <2> QED
    BY <1>5, <1>9, <2>1, <2>3, <2>4, <2>5, <2>6 DEF w
<1> QED
  BY <1>7, <1>8, <1>10, <1>11

\* What is stored less than DashTtl before was read by a request that began after
\* the counter last started over.
LEMMA SetCachedOwn ==
  ASSUME CacheInv, OwnInv, NEW s \in Slots, SetCached(s)
  PROVE  OwnInv'
<1>1. /\ call[s] \in Dashboards /\ call[s].pc = "set" /\ call[s].version \in Versions
      /\ call[s].user \in Users /\ call[s].seen \in Changes /\ call[s].spent \in 0 .. MaxLatency
      /\ UNCHANGED <<seq, counter, acked, restart>> /\ call' = [call EXCEPT ![s] = Idle]
  BY Shapes DEF SetCached, StoreFor, Reply, CacheInv, Paced, Dashboards
<1> DEFINE w == call[s].user
           e == [seen |-> call[s].seen, age |-> call[s].age, ttl |-> DashTtl]
<1>2. entry' = [entry EXCEPT ![w][call[s].version] = e] /\ e.seen = call[s].seen /\ e.ttl = DashTtl
  BY DEF SetCached, StoreFor
<1> HIDE DEF e
<1>3. \A u \in Users, v \in Versions :
         entry'[u][v] = IF u = w /\ v = call[s].version THEN e ELSE entry[u][v]
  BY <1>1, <1>2 DEF CacheInv, TypeOK
<1>4. ASSUME NEW u \in Users, NEW v \in Versions, RecentEntry(u, v)'
      PROVE  entry'[u][v].seen \in Changes /\ Good(u, v, entry'[u][v].seen)
  <2>1. CASE u = w /\ v = call[s].version
    <3>1. DashTtl + restart[u] > MaxAge
      BY <1>1, <1>2, <1>3, <1>4, <2>1 DEF RecentEntry
    <3>2. call[s].spent < restart[u]
      BY <1>1, <3>1, MoreValues
    <3>3. Recent(s)
      BY <2>1, <3>2 DEF Recent
    <3> QED
      BY <1>1, <1>2, <1>3, <2>1, <3>3 DEF OwnInv, GoodCopies
  <2>2. CASE ~(u = w /\ v = call[s].version)
    BY <1>1, <1>3, <1>4, <2>2 DEF RecentEntry, OwnInv, GoodCopies, CacheInv, TypeOK
  <2> QED
    BY <2>1, <2>2
<1>5. Idle \in Calls /\ Idle.pc = "idle" /\ Paced(Idle) /\ Idle \notin Dashboards
  BY DEF Calls, Idle, Dashboards, Paced
<1> QED
  BY <1>1, <1>4, <1>5, OwnQuiet

LEMMA StartWriteOwn ==
  ASSUME CacheInv, OwnInv, NEW s \in Slots, NEW u \in Users, StartWrite(s, u)
  PROVE  OwnInv'
<1> DEFINE r == [op |-> "write", pc |-> "commit", user |-> u, spent |-> 0, wrote |-> 0]
<1>1. /\ call' = [call EXCEPT ![s] = r] /\ r.pc = "commit"
      /\ UNCHANGED <<seq, counter, entry, acked, restart>>
  BY DEF StartWrite
<1>2. r \in Writes
  BY Durations DEF Writes, Changes
<1>3. r \in Calls /\ r \notin Dashboards
  BY <1>1, <1>2 DEF Calls, Dashboards
<1> HIDE DEF r
<1>4. Paced(r)
  BY <1>3 DEF Paced
<1>5. \A w \in Users, v \in Versions : RecentEntry(w, v)' =>
         entry'[w][v].seen \in Changes /\ Good(w, v, entry'[w][v].seen)
  BY <1>1 DEF RecentEntry, OwnInv, GoodCopies, CacheInv, TypeOK
<1> QED
  BY <1>1, <1>3, <1>4, <1>5, OwnQuiet

LEMMA BumpFailsOwn ==
  ASSUME CacheInv, OwnInv, NEW s \in Slots, BumpFails(s)
  PROVE  OwnInv'
<1>1. Idle \in Calls /\ Idle.pc = "idle" /\ Paced(Idle) /\ Idle \notin Dashboards
  BY DEF Calls, Idle, Dashboards, Paced
<1>2. call' = [call EXCEPT ![s] = Idle] /\ UNCHANGED <<seq, counter, entry, acked, restart>>
  BY DEF BumpFails, Reply
<1>3. \A w \in Users, v \in Versions : RecentEntry(w, v)' =>
         entry'[w][v].seen \in Changes /\ Good(w, v, entry'[w][v].seen)
  BY <1>2 DEF RecentEntry, OwnInv, GoodCopies, CacheInv, TypeOK
<1> QED
  BY <1>1, <1>2, <1>3, OwnQuiet

\* A commit puts its change ahead of every copy; no copy owes it before the bump.
LEMMA CommitOwn ==
  ASSUME CacheInv, CacheInv', OwnInv, NEW s \in Slots, NEW seers \in SUBSET Users,
         Commit(s, seers)
  PROVE  OwnInv'
<1>1. /\ call[s] \in Writes /\ call[s].user \in Users
      /\ UNCHANGED <<counter, entry, acked, restart>> /\ seq' = SeenBy(seers)
  BY Shapes DEF Commit, CacheInv, Writes
<1>2. PICK n \in Changes : n = seq'[call[s].user]
  BY <1>1 DEF CacheInv, TypeOK
<1> DEFINE r == [call[s] EXCEPT !.pc = "incr", !.wrote = n]
<1>3. /\ r \in Calls /\ r \notin Dashboards /\ r.pc = "incr" /\ r.user = call[s].user
      /\ r.wrote = n /\ n \in Nat
  <2>1. call[s] \in Writes
    BY <1>1
  <2>2. /\ r \in Writes /\ r.pc = "incr" /\ r.user = call[s].user /\ r.wrote = n
        /\ r.op = "write"
    BY <2>1 DEF Writes
  <2>3. n \in Nat
    BY Durations DEF Changes
  <2> QED
    BY <2>2, <2>3 DEF Calls, Dashboards
<1>4. call' = [call EXCEPT ![s] = r]
  BY <1>2 DEF Commit
<1> HIDE DEF r
<1>5. Paced(r)
  BY <1>3 DEF Paced
<1>6. \A u \in Users : /\ Current(u)' \in Nat /\ Current(u) <= Current(u)'
                       /\ acked'[u] \in Nat /\ seq'[u] \in Nat
                       /\ acked[u] <= acked'[u] /\ acked'[u] <= seq'[u] /\ seq[u] <= seq'[u]
  <2> SUFFICES ASSUME NEW u \in Users
               PROVE  /\ Current(u)' \in Nat /\ Current(u) <= Current(u)'
                      /\ acked'[u] \in Nat /\ seq'[u] \in Nat
                      /\ acked[u] <= acked'[u] /\ acked'[u] <= seq'[u] /\ seq[u] <= seq'[u]
    OBVIOUS
  <2>1. Current(u)' = Current(u) /\ acked'[u] = acked[u]
    BY <1>1 DEF Current
  <2>2. seq'[u] \in {seq[u], seq[u] + 1}
    BY <1>1 DEF SeenBy
  <2>3. acked[u] <= seq[u]
    BY DEF OwnInv, Known
  <2> QED
    BY <2>1, <2>2, <2>3, MoreValues
<1>7. ASSUME NEW u \in Users, NEW v \in Versions, NEW m \in Changes, Good(u, v, m)
      PROVE  v = Current(u)' => acked'[u] <= m
  BY <1>1, <1>7 DEF Good, Current
<1>8. \A w \in Users, v \in Versions : RecentEntry(w, v)' =>
         entry'[w][v].seen \in Changes /\ Good(w, v, entry'[w][v].seen)
  BY <1>1 DEF RecentEntry, OwnInv, GoodCopies, CacheInv, TypeOK
<1>9. r.wrote <= seq'[r.user]
  BY <1>2, <1>3
<1> QED
  BY <1>1, <1>3, <1>4, <1>5, <1>6, <1>7, <1>8, <1>9, OwnStep

LEMMA OthersOwn ==
  ASSUME CacheInv, OwnInv, NEW seers \in SUBSET Users, ChangeByOthers(seers)
  PROVE  OwnInv'
<1>1. UNCHANGED <<counter, entry, call, acked, restart>> /\ seq' = SeenBy(seers)
  BY DEF ChangeByOthers
<1>2. \A u \in Users : /\ seq'[u] \in {seq[u], seq[u] + 1} /\ seq[u] \in Nat /\ acked[u] \in Nat
                       /\ seq[u] <= seq'[u]
  BY <1>1, MoreValues DEF SeenBy
<1>3. Known'
  <2>1. ASSUME NEW s \in Slots, call[s].pc \in {"incr", "expire"}
        PROVE  call[s].wrote <= seq'[call[s].user]
    BY <1>2, <2>1, Shapes, OwnValues DEF CacheInv, Writes
  <2> QED
    BY <1>1, <1>2, <2>1 DEF OwnInv, Known
<1>4. GoodCopies'
  BY <1>1 DEF OwnInv, GoodCopies, Good, Looked, Recent, RecentEntry, Present, Current
<1> QED
  BY <1>3, <1>4 DEF OwnInv

\* INCR takes the user to a version no copy has yet, or starts the numbering over.
LEMMA BumpIncrOwn ==
  ASSUME CacheInv, CacheInv', OwnInv, NEW s \in Slots, BumpIncr(s)
  PROVE  OwnInv'
<1> DEFINE r == [call[s] EXCEPT !.pc = "expire"]
<1> PICK w \in Users : w = call[s].user
  BY Shapes, OwnValues DEF BumpIncr, CacheInv
<1>1. /\ call[s] \in Writes /\ UNCHANGED <<seq, entry, acked>>
      /\ call' = [call EXCEPT ![s] = r] /\ call[s].pc = "incr"
  BY Shapes DEF BumpIncr, CacheInv, Writes
<1>2. /\ r \in Calls /\ r \notin Dashboards /\ r.pc = "expire" /\ r.user = w
      /\ r.wrote = call[s].wrote
  BY <1>1 DEF Calls, Writes, Dashboards
<1>3. r.wrote <= seq[w]
  BY <1>1, <1>2, OwnValues
<1>4. /\ call'[s] = r /\ \A o \in Slots \ {s} : call'[o] = call[o]
  BY <1>1 DEF CacheInv, TypeOK
<1> HIDE DEF r
<1>5. Paced(r)
  BY <1>2 DEF Paced
<1>6. CASE Present(counter[w])
  <2>1. counter' = [counter EXCEPT ![w].value = @ + 1] /\ restart' = restart
    BY <1>6 DEF BumpIncr
  <2>2. \A u \in Users : u # w => Current(u)' = Current(u)
    BY <2>1 DEF CacheInv, TypeOK, Current, Present
  <2>3. Current(w)' = Current(w) + 1
    <3>1. counter'[w].value = counter[w].value + 1 /\ counter'[w].ttl = counter[w].ttl
      BY <1>1, <2>1 DEF CacheInv, TypeOK
    <3> QED
      BY <1>6, <3>1 DEF Current, Present
  <2>4. \A u \in Users : /\ Current(u)' \in Nat /\ Current(u) <= Current(u)'
                         /\ acked'[u] \in Nat /\ seq'[u] \in Nat
                         /\ acked[u] <= acked'[u] /\ acked'[u] <= seq'[u] /\ seq[u] <= seq'[u]
    <3> SUFFICES ASSUME NEW u \in Users
                 PROVE  /\ Current(u)' \in Nat /\ Current(u) <= Current(u)'
                        /\ acked[u] <= seq[u] /\ acked[u] \in Nat /\ seq[u] \in Nat
      BY <1>1
    <3>1. Current(u)' \in {Current(u), Current(u) + 1}
      BY <2>2, <2>3
    <3> QED
      BY <3>1, MoreValues DEF OwnInv, Known
  <2>5. ASSUME NEW u \in Users, NEW v \in Versions, NEW n \in Changes, Good(u, v, n)
        PROVE  v = Current(u)' => /\ acked'[u] <= n
                                  /\ r.pc = "expire" /\ r.user = u => r.wrote <= n
    <3>1. v <= Current(u) /\ v \in Nat /\ Current(u) \in Nat
      BY <2>5, MoreValues DEF Good, Versions
    <3>2. CASE u = w
      BY <2>3, <3>1, <3>2
    <3>3. CASE u # w
      BY <1>1, <1>2, <2>2, <2>5, <3>3 DEF Good
    <3> QED
      BY <3>2, <3>3
  <2>6. \A u \in Users, v \in Versions : RecentEntry(u, v)' =>
           entry'[u][v].seen \in Changes /\ Good(u, v, entry'[u][v].seen)
    <3>1. entry' = entry /\ restart' = restart
      BY <1>1, <2>1
    <3> QED
      BY <3>1 DEF RecentEntry, Present, OwnInv, GoodCopies, CacheInv, TypeOK
  <2>7. r.wrote <= seq'[r.user]
    BY <1>1, <1>2, <1>3
  <2> QED
    BY <1>1, <1>2, <1>5, <2>1, <2>4, <2>5, <2>6, <2>7, OwnStep
<1>7. CASE ~Present(counter[w])
  <2>1. /\ counter' = [counter EXCEPT ![w] = [value |-> 1, ttl |-> Forever]]
        /\ restart' = [restart EXCEPT ![w] = 0]
    BY <1>7 DEF BumpIncr
  <2>2. /\ restart'[w] = 0
        /\ \A u \in Users \ {w} : restart'[u] = restart[u] /\ counter'[u] = counter[u]
    BY <1>1, <2>1 DEF CacheInv, TypeOK
  <2>3. \A o \in Slots : Looked(o)' /\ Recent(o)' =>
           o # s /\ call'[o] = call[o] /\ Looked(o) /\ Recent(o) /\ call[o].user \in Users \ {w}
    <3> SUFFICES ASSUME NEW o \in Slots, Looked(o)', Recent(o)'
                 PROVE  o # s /\ call'[o] = call[o] /\ Looked(o) /\ Recent(o)
                        /\ call[o].user \in Users \ {w}
      OBVIOUS
    <3>1. o # s /\ call'[o] = call[o] /\ Looked(o)
      BY <1>2, <1>4 DEF Looked
    <3>2. call[o].user \in Users /\ call[o].spent \in Nat
      BY <3>1, Durations DEF Looked, Dashboards
    <3>3. call[o].user # w
      BY <2>2, <3>1, <3>2 DEF Recent
    <3> QED
      BY <2>2, <3>1, <3>2, <3>3 DEF Recent
  <2>4. ASSUME NEW u \in Users \ {w}, NEW v, NEW n, Good(u, v, n)
        PROVE  Good(u, v, n)'
    <3>1. Current(u)' = Current(u) /\ acked'[u] = acked[u] /\ w # u
      BY <1>1, <2>2 DEF Current
    <3>2. \A o \in Slots : call'[o].pc = "expire" /\ call'[o].user = u =>
             call'[o] = call[o]
      BY <1>2, <1>4, <3>1
    <3> QED
      BY <2>3, <2>4, <3>1, <3>2 DEF Good
  <2>5. Known'
    BY <1>1, <1>2, <1>3, <1>4 DEF OwnInv, Known
  <2>6. \A o \in Slots : Looked(o)' /\ Recent(o)' =>
           call'[o].version <= Current(call[o].user)'
    BY <2>2, <2>3 DEF OwnInv, GoodCopies, Current
  <2>7. ASSUME NEW o \in Slots, call'[o].pc = "set", Recent(o)'
        PROVE  Good(call[o].user, call[o].version, call[o].seen)'
    <3>1. Looked(o)'
      BY <2>7, Shapes, <1>2, <1>4 DEF Looked, CacheInv
    <3>2. /\ call'[o] = call[o] /\ call[o].user \in Users \ {w}
          /\ Good(call[o].user, call[o].version, call[o].seen)
      BY <2>3, <2>7, <3>1 DEF OwnInv, GoodCopies
    <3>3. \A u \in Users \ {w} : \A v, n : u = call[o].user /\ v = call[o].version /\ n = call[o].seen
             => Good(u, v, n)'
      BY <2>4, <3>2
    <3> QED
      BY <3>2, <3>3 DEF Good
  <2>8. ASSUME NEW u \in Users, NEW v \in Versions, RecentEntry(u, v)'
        PROVE  Good(u, v, entry[u][v].seen)'
    <3>1. u # w /\ RecentEntry(u, v)
      <4>1. entry[u][v].ttl \in Nat /\ entry[u][v].ttl <= DashTtl /\ entry'[u][v] = entry[u][v]
        BY <1>1, Durations DEF CacheInv, TypeOK
      <4>2. entry[u][v].ttl + restart'[u] > MaxAge
        BY <2>8, <4>1 DEF RecentEntry
      <4>3. u # w
        BY <2>2, <4>1, <4>2, MoreValues
      <4> QED
        BY <2>2, <2>8, <4>1, <4>2, <4>3 DEF RecentEntry, Present
    <3>2. \A n : n = entry[u][v].seen => Good(u, v, n)'
      BY <2>4, <3>1 DEF OwnInv, GoodCopies
    <3> QED
      BY <1>1, <3>2 DEF Good
  <2> QED
    BY <2>5, <2>6, <2>7, <2>8 DEF OwnInv, GoodCopies
<1> QED
  BY <1>6, <1>7

\* The change is acknowledged: the copies under the current version show it.
LEMMA BumpExpireOwn ==
  ASSUME CacheInv, OwnInv, NEW s \in Slots, BumpExpire(s)
  PROVE  OwnInv'
<1> DEFINE w == call[s].user
<1>1. /\ call[s] \in Writes /\ w \in Users /\ UNCHANGED <<seq, entry, restart>>
      /\ call' = [call EXCEPT ![s] = Idle] /\ call[s].pc = "expire"
      /\ call[s].wrote \in Nat /\ call[s].wrote <= seq[w]
  BY Shapes, OwnValues DEF BumpExpire, Reply, CacheInv
<1>2. \A u \in Users : Current(u)' = Current(u)
  BY <1>1, Durations DEF BumpExpire, CacheInv, TypeOK, Current, Present
<1>3. /\ \A u \in Users \ {w} : acked'[u] = acked[u]
      /\ acked'[w] \in {acked[w], call[s].wrote} /\ acked[w] <= acked'[w]
  <2>1. acked' = [acked EXCEPT ![w] = IF @ < call[s].wrote THEN call[s].wrote ELSE @]
    BY DEF BumpExpire
  <2>2. acked[w] \in Nat
    BY <1>1, MoreValues
  <2> QED
    BY <1>1, <2>1, <2>2 DEF CacheInv, TypeOK
<1>4. \A u \in Users : /\ Current(u)' \in Nat /\ Current(u) <= Current(u)'
                       /\ acked'[u] \in Nat /\ seq'[u] \in Nat
                       /\ acked[u] <= acked'[u] /\ acked'[u] <= seq'[u] /\ seq[u] <= seq'[u]
  <2> SUFFICES ASSUME NEW u \in Users
               PROVE  /\ Current(u)' \in Nat /\ Current(u) <= Current(u)'
                      /\ acked'[u] \in Nat /\ seq'[u] \in Nat
                      /\ acked[u] <= acked'[u] /\ acked'[u] <= seq'[u] /\ seq[u] <= seq'[u]
    OBVIOUS
  <2>1. acked[u] <= seq[u]
    BY DEF OwnInv, Known
  <2> QED
    BY <1>1, <1>2, <1>3, <2>1, MoreValues
<1>5. ASSUME NEW u \in Users, NEW v \in Versions, NEW n \in Changes, Good(u, v, n)
      PROVE  v = Current(u)' => acked'[u] <= n
  BY <1>1, <1>2, <1>3, <1>5 DEF Good
<1>6. \A u \in Users, v \in Versions : RecentEntry(u, v)' =>
         entry'[u][v].seen \in Changes /\ Good(u, v, entry'[u][v].seen)
  BY <1>1 DEF RecentEntry, OwnInv, GoodCopies, CacheInv, TypeOK
<1>7. Idle \in Calls /\ Idle.pc = "idle" /\ Paced(Idle) /\ Idle \notin Dashboards
  BY DEF Calls, Idle, Dashboards, Paced
<1> QED
  BY <1>1, <1>4, <1>5, <1>6, <1>7, OwnStep

\* What the passing of time leaves of a request, a counter and a copy.
LEMMA TickRequests ==
  ASSUME CacheInv, Tick, NEW s \in Slots
  PROVE  /\ call'[s].pc = call[s].pc
         /\ call'[s] \in Dashboards <=> call[s] \in Dashboards
         /\ call[s] \in Dashboards =>
              /\ call'[s].user = call[s].user /\ call'[s].version = call[s].version
              /\ call'[s].owed = call[s].owed /\ call'[s].seen = call[s].seen
              /\ call'[s].spent = call[s].spent + 1
         /\ call[s] \in Writes => call'[s].user = call[s].user /\ call'[s].wrote = call[s].wrote
<1>1. call'[s] = CASE call[s] = Idle -> Idle
                   [] call[s].pc = "set" -> [call[s] EXCEPT !.spent = @ + 1, !.age = @ + 1]
                   [] OTHER -> [call[s] EXCEPT !.spent = @ + 1]
  BY DEF Tick
<1>2. call'[s] \in Calls /\ call'[s].pc = call[s].pc
  BY TickCalls
<1>3. CASE call[s] = Idle
  <2>1. call'[s] = Idle
    BY <1>1, <1>3 DEF Idle
  <2> QED
    BY <1>3, <2>1 DEF Idle, Dashboards, Writes
<1>4. CASE call[s] \in Writes
  <2>1. call'[s] = [call[s] EXCEPT !.spent = @ + 1]
    BY <1>1, <1>4 DEF Writes, Idle
  <2>2. call'[s].user = call[s].user /\ call'[s].wrote = call[s].wrote
    BY <1>4, <2>1 DEF Writes
  <2>3. call'[s] \notin Dashboards /\ call[s] \notin Dashboards
    BY <1>2, <1>4 DEF Writes, Dashboards
  <2> QED
    BY <1>2, <2>2, <2>3
<1>5. CASE call[s] \in Dashboards
  <2>1. call[s] # Idle /\ call[s] \notin Writes
    BY <1>5 DEF Dashboards, Writes, Idle
  <2>2. CASE call[s].pc = "set"
    <3>1. call'[s] = [call[s] EXCEPT !.spent = @ + 1, !.age = @ + 1]
      BY <1>1, <2>1, <2>2
    <3>2. /\ call'[s].user = call[s].user /\ call'[s].version = call[s].version
          /\ call'[s].owed = call[s].owed /\ call'[s].seen = call[s].seen
          /\ call'[s].spent = call[s].spent + 1
      BY <1>5, <3>1 DEF Dashboards
    <3>3. call'[s] \in Dashboards
      BY <1>2, <1>5 DEF Calls, Dashboards, Writes, Idle
    <3> QED
      BY <1>2, <1>5, <2>1, <3>2, <3>3
  <2>3. CASE call[s].pc # "set"
    <3>1. call'[s] = [call[s] EXCEPT !.spent = @ + 1]
      BY <1>1, <2>1, <2>3
    <3>2. /\ call'[s].user = call[s].user /\ call'[s].version = call[s].version
          /\ call'[s].owed = call[s].owed /\ call'[s].seen = call[s].seen
          /\ call'[s].spent = call[s].spent + 1
      BY <1>5, <3>1 DEF Dashboards
    <3>3. call'[s] \in Dashboards
      BY <1>2, <1>5 DEF Calls, Dashboards, Writes, Idle
    <3> QED
      BY <1>2, <1>5, <2>1, <3>2, <3>3
  <2> QED
    BY <2>2, <2>3
<1> QED
  BY <1>3, <1>4, <1>5, Shapes DEF CacheInv

LEMMA TickKeys ==
  ASSUME CacheInv, Tick, NEW u \in Users
  PROVE  /\ counter[u].ttl = 1 => restart'[u] = 0
         /\ counter[u].ttl # 1 => Current(u)' = Current(u)
         /\ restart'[u] \in Nat /\ restart'[u] <= restart[u] + 1
<1>1. restart'[u] = IF counter[u].ttl = 1 THEN 0 ELSE Older(restart[u])
  BY DEF Tick
<1>2. counter'[u] = Expire(counter[u], NoKey)
  BY DEF Tick
<1>3. counter[u].ttl # 1 => Current(u)' = Current(u)
  <2>1. CASE counter[u].ttl = Forever
    <3>1. counter'[u] = counter[u]
      BY <1>2, <2>1, Durations DEF Expire, Forever
    <3> QED
      BY <3>1 DEF Current, Present
  <2>2. CASE counter[u].ttl = 0
    <3>1. counter'[u] = NoKey
      BY <1>2, <2>2, Durations DEF Expire, Forever
    <3> QED
      BY <2>2, <3>1 DEF Current, Present, NoKey
  <2>3. CASE counter[u].ttl > 1 /\ counter[u].ttl # Forever
    <3>1. counter'[u] = [counter[u] EXCEPT !.ttl = @ - 1]
      BY <1>2, <2>3, Values DEF Expire, CacheInv
    <3>2. counter'[u].value = counter[u].value /\ counter'[u].ttl = counter[u].ttl - 1
      BY <3>1, Values DEF CacheInv
    <3> QED
      BY <2>3, <3>2, Values DEF Current, Present, CacheInv
  <2> QED
    BY <2>1, <2>2, <2>3, Values DEF CacheInv
<1> QED
  BY <1>1, <1>3, MoreValues DEF Older

LEMMA TickCopies ==
  ASSUME CacheInv, Tick, NEW u \in Users, NEW v \in Versions, RecentEntry(u, v)'
  PROVE  RecentEntry(u, v) /\ entry'[u][v].seen = entry[u][v].seen /\ counter[u].ttl # 1
<1> DEFINE old == entry[u][v]
           e == Expire(old, NoEntry)
<1>1. entry'[u][v] = IF Present(e) THEN [e EXCEPT !.age = Older(@)] ELSE NoEntry
  BY DEF Tick
<1>2. /\ old \in [seen : Changes, age : 0 .. MaxAge, ttl : 0 .. DashTtl]
      /\ old.ttl \in Nat /\ old.ttl <= DashTtl /\ old.ttl # Forever
  BY Durations DEF CacheInv, TypeOK, Forever
<1>3. Present(entry'[u][v]) /\ entry'[u][v].ttl + restart'[u] > MaxAge
  BY DEF RecentEntry, Present
<1>4. ~Present(NoEntry)
  BY DEF NoEntry, Present
<1>5. Present(e)
  BY <1>1, <1>3, <1>4
<1>6. old.ttl > 1 /\ e = [old EXCEPT !.ttl = @ - 1]
  BY <1>2, <1>4, <1>5 DEF Expire
<1>7. e.seen = old.seen /\ e.ttl = old.ttl - 1
      /\ e \in [seen : Changes, age : 0 .. MaxAge, ttl : 0 .. DashTtl]
  BY <1>2, <1>6, Durations
<1>8. entry'[u][v] = [e EXCEPT !.age = Older(e.age)]
  BY <1>1, <1>5
<1> HIDE DEF e, old
<1>9. entry'[u][v].seen = old.seen /\ entry'[u][v].ttl = old.ttl - 1
  BY <1>7, <1>8
<1>10. counter[u].ttl # 1
  BY <1>2, <1>3, <1>9, TickKeys, MoreValues
<1>11. old.ttl + restart[u] > MaxAge
  BY <1>2, <1>3, <1>9, TickKeys, MoreValues
<1> QED
  BY <1>2, <1>6, <1>9, <1>10, <1>11 DEF RecentEntry, Present, old

\* Time makes nothing recent that was not, and good copies stay good unless the
\* counter expires, after which nothing of that user is recent.
LEMMA TickOwn ==
  ASSUME CacheInv, OwnInv, Tick
  PROVE  OwnInv'
<1>1. UNCHANGED <<seq, acked>>
  BY DEF Tick
<1>2. ASSUME NEW o \in Slots, Looked(o)', Recent(o)'
      PROVE  /\ Looked(o) /\ Recent(o) /\ call[o].user \in Users
             /\ counter[call[o].user].ttl # 1
  <2>1. /\ Looked(o) /\ call'[o].user = call[o].user /\ call'[o].spent = call[o].spent + 1
        /\ call[o].user \in Users /\ call[o].spent \in Nat
    BY <1>2, TickRequests, Durations DEF Looked, Dashboards
  <2>2. call[o].spent + 1 < restart'[call[o].user]
    BY <1>2, <2>1 DEF Recent
  <2>3. counter[call[o].user].ttl # 1 /\ call[o].spent < restart[call[o].user]
    BY <2>1, <2>2, TickKeys, MoreValues
  <2> QED
    BY <2>1, <2>3 DEF Recent
<1>3. ASSUME NEW u \in Users, NEW v, NEW n, counter[u].ttl # 1, Good(u, v, n)
      PROVE  Good(u, v, n)'
  <2>1. Current(u)' = Current(u) /\ acked'[u] = acked[u]
    BY <1>1, <1>3, TickKeys
  <2>2. \A w \in Slots : call'[w].pc = "expire" /\ call'[w].user = u =>
           call[w].pc = "expire" /\ call[w].user = u /\ call'[w].wrote = call[w].wrote
    BY TickRequests, Shapes DEF CacheInv
  <2>3. \A c \in Slots : Looked(c)' /\ Recent(c)' =>
           /\ Looked(c) /\ Recent(c) /\ call'[c].user = call[c].user
           /\ call'[c].version = call[c].version /\ call'[c].owed = call[c].owed
    BY <1>2, TickRequests DEF Looked
  <2> QED
    BY <1>3, <2>1, <2>2, <2>3 DEF Good
<1>4. Known'
  <2>1. ASSUME NEW s \in Slots, call'[s].pc \in {"incr", "expire"}
        PROVE  call'[s].wrote <= seq'[call'[s].user]
    <3>1. call[s].pc \in {"incr", "expire"} /\ call[s] \in Writes
      BY <2>1, TickRequests, Shapes DEF CacheInv
    <3> QED
      BY <1>1, <3>1, TickRequests DEF OwnInv, Known
  <2>2. ASSUME NEW s \in Slots, call'[s] \in Dashboards
        PROVE  call'[s].owed <= acked'[call'[s].user]
    BY <1>1, <2>2, TickRequests DEF OwnInv, Known
  <2> QED
    BY <1>1, <2>1, <2>2 DEF OwnInv, Known
<1>5. ASSUME NEW o \in Slots, Looked(o)', Recent(o)'
      PROVE  call'[o].version <= Current(call[o].user)'
  <2>1. \A u \in Users : u = call[o].user => Current(u)' = Current(u)
    BY <1>2, <1>5, TickKeys
  <2>2. /\ call'[o].user = call[o].user /\ call'[o].version = call[o].version
        /\ call[o].version <= Current(call[o].user) /\ call[o].user \in Users
    BY <1>2, <1>5, TickRequests DEF Looked, OwnInv, GoodCopies
  <2>3. \A u \in Users : u = call'[o].user => call'[o].version <= Current(u)'
    BY <2>1, <2>2
  <2> QED
    BY <2>2, <2>3 DEF Current
<1>6. ASSUME NEW o \in Slots, call'[o].pc = "set", Recent(o)'
      PROVE  Good(call[o].user, call[o].version, call[o].seen)'
  <2>1. Looked(o)'
    <3>1. call[o].pc = "set" /\ call[o] \in Dashboards
      BY <1>6, TickRequests, Shapes DEF CacheInv
    <3> QED
      BY <1>6, <3>1, TickRequests DEF Looked
  <2>2. /\ Good(call[o].user, call[o].version, call[o].seen)
        /\ call[o].user \in Users /\ counter[call[o].user].ttl # 1
        /\ call'[o].user = call[o].user /\ call'[o].version = call[o].version
        /\ call'[o].seen = call[o].seen
    BY <1>2, <1>6, <2>1, TickRequests DEF Looked, OwnInv, GoodCopies
  <2>3. \A u \in Users : \A v, n : u = call[o].user /\ v = call[o].version /\ n = call[o].seen
           => Good(u, v, n)'
    BY <1>3, <2>2
  <2> QED
    BY <2>2, <2>3 DEF Good
<1>7. ASSUME NEW u \in Users, NEW v \in Versions, RecentEntry(u, v)'
      PROVE  Good(u, v, entry[u][v].seen)'
  <2>1. /\ Good(u, v, entry[u][v].seen) /\ counter[u].ttl # 1
        /\ entry'[u][v].seen = entry[u][v].seen
    BY <1>7, TickCopies DEF OwnInv, GoodCopies
  <2>2. \A n : n = entry[u][v].seen => Good(u, v, n)'
    BY <1>3, <2>1
  <2> QED
    BY <2>1, <2>2 DEF Good
<1> QED
  BY <1>4, <1>5, <1>6, <1>7 DEF OwnInv, GoodCopies

--------------------------------------------------------------------------------
\* What copies show, and what requests wait for, holds in every reachable state.
THEOREM OwnInvariant == Spec => []OwnInv
<1>1. Init => OwnInv
  <2> SUFFICES ASSUME Init PROVE OwnInv
    OBVIOUS
  <2>1. \A s \in Slots : call[s].pc = "idle" /\ call[s] \notin Dashboards
    BY DEF Init, Idle, Dashboards
  <2>2. \A u \in Users : acked[u] = 0 /\ seq[u] = 0
    BY DEF Init
  <2>3. \A u \in Users, v \in Versions : ~RecentEntry(u, v)
    BY DEF Init, RecentEntry, Present, NoEntry
  <2> QED
    BY <2>1, <2>2, <2>3 DEF OwnInv, Known, GoodCopies, Looked
<1>2. CacheInv /\ CacheInv' /\ OwnInv /\ [Next]_cvars => OwnInv'
  <2> SUFFICES ASSUME CacheInv, CacheInv', OwnInv, [Next]_cvars PROVE OwnInv'
    OBVIOUS
  <2>1. CASE UNCHANGED cvars
    BY <2>1 DEF cvars, OwnInv, Known, GoodCopies, Good, Looked, Recent, RecentEntry,
                Present, Current
  <2>2. ASSUME NEW s \in Slots, RequestStep(s) PROVE OwnInv'
    BY <2>2, DashboardStepsOwn, SetCachedOwn, StartWriteOwn, CommitOwn, BumpIncrOwn,
       BumpExpireOwn, BumpFailsOwn DEF RequestStep
  <2>3. ASSUME NEW seers \in SUBSET Users, ChangeByOthers(seers) PROVE OwnInv'
    BY <2>3, OthersOwn
  <2>4. CASE Tick
    BY <2>4, TickOwn
  <2> QED
    BY <2>1, <2>2, <2>3, <2>4 DEF Next
<1> QED
  BY <1>1, <1>2, CacheInvariant, PTL DEF Spec

\* A dashboard that misses a change the same user's request completed before is
\* served only while copies and requests from before a restart of the version
\* counter may still be about, less than MaxAge after it.
THEOREM OwnChangesAreSeen == Spec => OwnChangeMissedOnlyAfterRestart
<1>1. CacheInv /\ OwnInv /\ [Next]_cvars =>
        [\A s \in Slots : Served(s) /\ Cached(s).seen < call[s].owed
                            => restart[call[s].user] < MaxAge]_cvars
  <2> SUFFICES ASSUME CacheInv, OwnInv, Next, NEW s \in Slots, Served(s),
                      Cached(s).seen < call[s].owed
               PROVE  restart[call[s].user] < MaxAge
    OBVIOUS
  <2> SUFFICES ASSUME restart[call[s].user] >= MaxAge PROVE FALSE
    BY ServedFromCache, MoreValues
  <2>1. /\ call[s] \in Dashboards /\ Looked(s) /\ call[s].user \in Users
        /\ call[s].version \in Versions /\ Present(Cached(s))
        /\ call[s].spent \in 0 .. MaxLatency /\ call[s].owed \in Nat
    BY ServedFromCache, OwnValues DEF Served, Looked, Dashboards
  <2>2. Recent(s)
    BY <2>1, MoreValues DEF Recent
  <2>3. RecentEntry(call[s].user, call[s].version)
    <3>1. Cached(s).ttl \in Nat /\ Cached(s).ttl > 0
      BY <2>1 DEF CacheInv, TypeOK, Cached, Present
    <3> QED
      BY <2>1, <3>1, MoreValues DEF RecentEntry, Cached
  <2>4. Good(call[s].user, call[s].version, Cached(s).seen) /\ Cached(s).seen \in Nat
    BY <2>1, <2>3 DEF OwnInv, GoodCopies, Cached, CacheInv, TypeOK, Changes
  <2>5. call[s].owed <= Cached(s).seen
    BY <2>1, <2>2, <2>4 DEF Good
  <2> QED
    BY <2>1, <2>4, <2>5
<1> QED
  BY <1>1, CacheInvariant, OwnInvariant, PTL DEF Spec, OwnChangeMissedOnlyAfterRestart

================================================================================
