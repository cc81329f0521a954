----------------------------- MODULE DashboardCache -----------------------------
(***************************************************************************)
(* The dashboard of a user and its cache in Redis: getDashboard and the    *)
(* bumps of assignment.service.ts over cache.service.ts.                   *)
(*                                                                         *)
(* A dashboard is cached under the user's version counter; a handler that  *)
(* changes an assignment bumps the counter of the user it runs for, after  *)
(* its commit.  What a dashboard shows is abstracted to seq[u], the number *)
(* of committed changes that u can see.  Time is kept as the age of what   *)
(* was read and the time to live of each key, so the clock has no bound.   *)
(***************************************************************************)
EXTENDS Naturals, FiniteSets

CONSTANTS Users, Slots,
          DashTtl,     \* DASHBOARD_TTL (60 s)
          VersionTtl,  \* VERSION_TTL (24 h)
          MaxLatency,  \* no request stays in flight longer than this
          MaxWrites    \* bound: changes committed or in flight

ASSUME SlotsFinite == IsFiniteSet(Slots)
ASSUME Durations ==
  /\ DashTtl \in Nat \ {0} /\ VersionTtl \in Nat \ {0}
  /\ MaxLatency \in Nat \ {0} /\ MaxWrites \in Nat \ {0}

VARIABLES seq,      \* seq[u]: committed changes to what u's dashboard shows
          counter,  \* counter[u]: the key cache:user:v:u, [value, ttl]
          entry,    \* entry[u][v]: the cached dashboard of u at version v
          call,     \* call[s]: the request running in slot s
          acked,    \* history: the last change of u whose request succeeded
          restart   \* history: how long ago u's counter expired or was created

cvars == <<seq, counter, entry, call, acked, restart>>

\* How old a dashboard a correct cache may serve: read at the start of a request
\* that stored it at its end, then kept for DashTtl.
MaxAge == DashTtl + MaxLatency

Idle == [pc |-> "idle"]
NoKey == [value |-> 0, ttl |-> 0]
NoEntry == [seen |-> 0, age |-> 0, ttl |-> 0]
Forever == VersionTtl + DashTtl + 1   \* the ttl of a key that never expires

Versions == 1 .. MaxWrites
Changes == 0 .. MaxWrites
Present(key) == key.ttl > 0

Init ==
  /\ seq = [u \in Users |-> 0]
  /\ counter = [u \in Users |-> NoKey]
  /\ entry = [u \in Users |-> [v \in Versions |-> NoEntry]]
  /\ call = [s \in Slots |-> Idle]
  /\ acked = [u \in Users |-> 0]
  /\ restart = [u \in Users |-> MaxAge]

Reply(s) == call' = [call EXCEPT ![s] = Idle]

--------------------------------------------------------------------------------
(* getDashboard *)

StartDashboard(s, u) ==
  /\ call[s] = Idle
  /\ call' = [call EXCEPT ![s] =
                [op |-> "dashboard", pc |-> "version", user |-> u, owed |-> acked[u],
                 spent |-> 0, version |-> 0, seen |-> 0, age |-> 0]]
  /\ UNCHANGED <<seq, counter, entry, acked, restart>>

\* A missing counter reads as 1, the value INCR gives to a counter it creates.
GetVersionKey(s) ==
  /\ call[s].pc = "version"
  /\ LET key == counter[call[s].user] IN
     call' = [call EXCEPT ![s].pc = "get",
                          ![s].version = IF Present(key) THEN key.value ELSE 1]
  /\ UNCHANGED <<seq, counter, entry, acked, restart>>

Cached(s) == entry[call[s].user][call[s].version]

GetCached(s) ==
  /\ call[s].pc = "get"
  /\ \/ Present(Cached(s)) /\ Reply(s)
     \/ ~Present(Cached(s)) /\ call' = [call EXCEPT ![s].pc = "count"]
  /\ UNCHANGED <<seq, counter, entry, acked, restart>>

\* The groups of the user are read first, then the counts run side by side, each
\* on what is committed when it runs: the result misses no change committed
\* before the first of these reads.
CountVisible(s) ==
  /\ call[s].pc = "count"
  /\ call' = [call EXCEPT ![s].pc = "set", ![s].seen = seq[call[s].user]]
  /\ UNCHANGED <<seq, counter, entry, acked, restart>>

StoreFor(s, ttl) ==
  /\ call[s].pc = "set"
  /\ entry' = [entry EXCEPT ![call[s].user][call[s].version] =
                 [seen |-> call[s].seen, age |-> call[s].age, ttl |-> ttl]]
  /\ Reply(s)
  /\ UNCHANGED <<seq, counter, acked, restart>>

SetCached_NoTtl(s) == StoreFor(s, Forever)

SetCached(s) == StoreFor(s, DashTtl)

--------------------------------------------------------------------------------
(* create, update, remove, updateStatus, rescheduleAssignment *)

WritesInFlight == {s \in Slots : call[s] # Idle /\ call[s].op = "write"}

\* The checks of the handler come first; a refused request changes nothing and
\* is not started here.
StartWrite(s, u) ==
  /\ call[s] = Idle
  /\ \A v \in Users : seq[v] + Cardinality(WritesInFlight) < MaxWrites
  /\ call' = [call EXCEPT ![s] =
                [op |-> "write", pc |-> "commit", user |-> u, spent |-> 0, wrote |-> 0]]
  /\ UNCHANGED <<seq, counter, entry, acked, restart>>

SeenBy(seers) == [u \in Users |-> IF u \in seers THEN seq[u] + 1 ELSE seq[u]]

\* Every user in seers can see the assignment, the one who changes it among them.
Commit(s, seers) ==
  /\ call[s].pc = "commit" /\ call[s].user \in seers
  /\ seq' = SeenBy(seers)
  /\ call' = [call EXCEPT ![s].pc = "incr", ![s].wrote = seq'[call[s].user]]
  /\ UNCHANGED <<counter, entry, acked, restart>>

\* The nightly markOverdue, or a change of another user's groups: no bump.
ChangeByOthers(seers) ==
  /\ seers # {}
  /\ \A v \in Users : seq[v] + Cardinality(WritesInFlight) < MaxWrites
  /\ seq' = SeenBy(seers)
  /\ UNCHANGED <<counter, entry, call, acked, restart>>

\* Redis refuses the bump, or the process dies: the change stays committed.
BumpFails(s) ==
  /\ call[s].pc \in {"incr", "expire"}
  /\ Reply(s)
  /\ UNCHANGED <<seq, counter, entry, acked, restart>>

BumpIncr_Reset(s) ==
  /\ call[s].pc = "incr"
  /\ counter' = [counter EXCEPT ![call[s].user] = [value |-> 1, ttl |-> Forever]]
  /\ call' = [call EXCEPT ![s].pc = "expire"]
  /\ UNCHANGED <<seq, entry, acked, restart>>

\* INCR keeps the time to live of a counter it finds and gives none to one it
\* creates.
BumpIncr(s) ==
  /\ call[s].pc = "incr"
  /\ LET u == call[s].user IN
     \/ /\ Present(counter[u])
        /\ counter' = [counter EXCEPT ![u].value = @ + 1]
        /\ UNCHANGED restart
     \/ /\ ~Present(counter[u])
        /\ counter' = [counter EXCEPT ![u] = [value |-> 1, ttl |-> Forever]]
        /\ restart' = [restart EXCEPT ![u] = 0]
  /\ call' = [call EXCEPT ![s].pc = "expire"]
  /\ UNCHANGED <<seq, entry, acked>>

\* EXPIRE renews a counter that is still there; then the request succeeds.
BumpExpire(s) ==
  /\ call[s].pc = "expire"
  /\ LET u == call[s].user IN
     /\ counter' = IF Present(counter[u]) THEN [counter EXCEPT ![u].ttl = VersionTtl]
                                          ELSE counter
     /\ acked' = [acked EXCEPT ![u] = IF @ < call[s].wrote THEN call[s].wrote ELSE @]
  /\ Reply(s)
  /\ UNCHANGED <<seq, entry, restart>>

--------------------------------------------------------------------------------
(* Redis and the clock *)

Expire(key, empty) ==
  CASE key.ttl = Forever -> key
    [] key.ttl <= 1 -> empty
    [] OTHER -> [key EXCEPT !.ttl = @ - 1]

\* No dashboard gets older than MaxAge plus the time it can stay cached by
\* mistake: older ages are not told apart.
Older(age) == IF age < MaxAge THEN age + 1 ELSE age

\* Time passes while no request outlives MaxLatency.  Redis drops the keys whose
\* time is up; a counter it drops makes the numbering start over.
Tick ==
  /\ \A s \in Slots : call[s] # Idle => call[s].spent < MaxLatency
  /\ counter' = [u \in Users |-> Expire(counter[u], NoKey)]
  /\ entry' = [u \in Users |-> [v \in Versions |->
                 LET e == Expire(entry[u][v], NoEntry) IN
                 IF Present(e) THEN [e EXCEPT !.age = Older(@)] ELSE NoEntry]]
  /\ call' = [s \in Slots |->
                CASE call[s] = Idle -> Idle
                  [] call[s].pc = "set" -> [call[s] EXCEPT !.spent = @ + 1, !.age = @ + 1]
                  [] OTHER -> [call[s] EXCEPT !.spent = @ + 1]]
  /\ restart' = [u \in Users |-> IF counter[u].ttl = 1 THEN 0 ELSE Older(restart[u])]
  /\ UNCHANGED <<seq, acked>>

RequestStep(s) ==
  \/ \E u \in Users : StartDashboard(s, u) \/ StartWrite(s, u)
  \/ GetVersionKey(s) \/ GetCached(s) \/ CountVisible(s) \/ SetCached(s)
  \/ \E seers \in SUBSET Users : Commit(s, seers)
  \/ BumpIncr(s) \/ BumpExpire(s) \/ BumpFails(s)

Next ==
  \/ \E s \in Slots : RequestStep(s)
  \/ \E seers \in SUBSET Users : ChangeByOthers(seers)
  \/ Tick

Spec == Init /\ [][Next]_cvars

--------------------------------------------------------------------------------
(* Properties *)

Dashboards ==
  [op : {"dashboard"}, pc : {"version", "get", "count", "set"}, user : Users, owed : Changes,
   spent : 0 .. MaxLatency, version : Versions \cup {0}, seen : Changes, age : 0 .. MaxLatency]
Writes ==
  [op : {"write"}, pc : {"commit", "incr", "expire"}, user : Users,
   spent : 0 .. MaxLatency, wrote : Changes]

\* Type invariant of the Redis keys and the handlers' locals: in particular a
\* version number never exceeds the number of changes, and a dashboard is stored
\* for no longer than DashTtl.
TypeOK ==
  /\ seq \in [Users -> Changes]
  /\ counter \in [Users -> [value : Changes, ttl : 0 .. VersionTtl \cup {Forever}]]
  /\ entry \in [Users -> [Versions -> [seen : Changes, age : 0 .. MaxAge, ttl : 0 .. DashTtl]]]
  /\ call \in [Slots -> {Idle} \cup Dashboards \cup Writes]
  /\ acked \in [Users -> Changes]
  /\ restart \in [Users -> 0 .. MaxAge]

Served(s) == call[s].pc = "get" /\ call'[s] = Idle

\* A cached dashboard that is served was read less than DashTtl and one request
\* ago, so it shows everything committed before, whoever committed it: colleagues'
\* changes, the nightly job and changes of membership, none of which bumps the
\* reader's counter, included.
StalenessBounded == [][\A s \in Slots : Served(s) => Cached(s).age < MaxAge]_cvars

\* A user's dashboard misses a change that user's own request completed before
\* only shortly after the version counter started over (INCR then gives numbers
\* that were served before): as long as the counter runs on, the bump after each
\* commit makes every older cached dashboard unreachable.
OwnChangeMissedOnlyAfterRestart ==
  [][\A s \in Slots :
       Served(s) /\ Cached(s).seen < call[s].owed => restart[call[s].user] < MaxAge]_cvars
================================================================================
