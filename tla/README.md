# Assignment manager: a verification project

This directory holds a formal model of the assignment manager, a NestJS service
over PostgreSQL (Prisma), Redis and BullMQ in which students keep assignments,
share them in groups, invite each other by e-mail and see a dashboard. The
modules are TLA+; TLC checks them on small instances and TLAPS proves the theorems
about them for every size. Paths are relative to the repository root as it is laid
out here (`src/src/...` is the application, `src/prisma/schema.prisma` the schema).

Contents

1. The system: components, state, operations, what is hard
2. What a step of the models is
3. The modules and how they correspond to the code
4. What each run checks
5. Bounds, fairness and symmetry
6. What is proved, and how
7. What disagrees with the code's own words
8. What is not modelled

## 1. The system

| Component | State | Operations that change it | Talks to |
|---|---|---|---|
| Groups and members (`group/group.service.ts`, `group/member/member.service.ts`, `group/guards/group-role.guard.ts`) | `groups`, `users_groups` | createGroup, delete, shareOwnership, removeMember, leaveGroup | invitations and assignments hang from a group by cascading foreign keys |
| Invitations (`group/invite/invite.service.ts`) | `group_invites`, signed tokens | inviteUser, previewInvite, acceptInvite, declineInvite | joins the group tables, queues mail |
| Mail queue and worker (`queue/`) | BullMQ jobs in Redis | addInviteEmail, addReminderEmail, the worker's two kinds of job | invitations, scheduled jobs |
| Assignments (`assignment/assignment.service.ts`, `builders/`) | `assignments` | create, update, remove, updateStatus, rescheduleAssignment | reads group roles, bumps the dashboard cache |
| Conflict detection and suggestions (`conflict-detector`, `sheduler`, `workload`, `priority-resolver`) | none | pure functions over the assignments read | used by reschedule, the dashboard and create |
| Dashboard and cache (`cache.service.ts`, `getDashboard`) | Redis: a version counter per user, a dashboard per user and version | get, set, bumpUserVersion | every handler that changes assignments |
| Scheduled jobs (`cron/automation.service.ts`) | none of its own | markOverdueAssignments, sendDeadlineReminders, cleanExpiredTokensAndInvites | assignments, invitations, refresh tokens, queue |
| Sessions (`auth/auth.service.ts`) | `users`, `refresh_tokens`, cookies | register, login, refresh, logout | attempt counters, scheduled clean-up |
| Attempt counters (`auth/services/brute-force.service.ts`, the rate-limit guard) | Redis counters and blocks | checkBlocked, registerFailedAttempt, clearAttempts | login |
| Database access (`prisma/prisma.service.ts`) | the connections of one pg pool | every query and `$transaction` | all of the above |
| Subjects (`subject/`) | `subjects` | create, update, delete | assignments refer to one |

No component holds mutable state in process memory. All of it lives in
PostgreSQL and Redis, so the interleaving unit is the statement sent to one of
them, and every process of the service may interleave with every other.

What makes the system hard:

* **Check, then act.** Nearly every handler reads a row, decides, and writes *by
  primary key* in a later statement. The interactive transactions around some of
  them run at PostgreSQL's default level, READ COMMITTED: they roll back together,
  but they lock and re-check nothing they read.
* **Cascades.** Deleting a group takes its members, invitations and assignments
  with it, in the middle of whatever other requests are doing.
* **Two stores.** A change commits in PostgreSQL, and the cache bump or the mail
  job follows in Redis; either may fail alone.
* **Clocks.** A token, its row, its mail, the nightly jobs, deadlines, cache keys
  and version counters expire on clocks of their own.
* **A limited pool.** A transaction keeps a connection for as long as it runs, and one
  handler asks for a second one meanwhile.
* **Retries.** Mail jobs fail, stall and run again; a job that is held makes the queue
  ignore another of the same id.
* **Things that must happen eventually.** Invitations must settle, late
  assignments must be marked, jobs must leave the queue, blocks must end and requests be
  answered, though single runs of a job are missed.

What makes each component correct, in words; section 3 names the formulas:

* *Groups.* A live group has an owner. Names are unique and no membership outlives its
  group.
* *Invitations.* Nobody enters a group but by an invitation that was mailed, for
  their own address. An answer is final, an address has one pending invitation, a
  mailed link finds its row, and an unanswered invitation is settled.
* *Assignments.* None outlives its group. A personal one is changed by its owner alone,
  one of a group by members. A reschedule that nothing overtakes obeys every rule of its
  handler. Completion is not undone by a job. A late one is marked in the end.
* *Dashboard.* What is served is at most one TTL and one request old. A user's own
  acknowledged change is missed only when the version counter had to start over.
* *Sessions.* One account per address. A session is opened only by a sign-in that was
  granted, a refresh never makes two of one, what was ended does not come back, and the
  nightly job ends nothing that still verifies.
* *Attempt counters.* Counters expire, a limit that is reached becomes a block however
  many failures overlap, and a block ends.
* *Reminders.* Whoever a run concerns hears of the deadline, unless the queue still held a
  job from an earlier one; the mail tells the deadline, and every job leaves the queue.
* *Connections.* None is lost, an answer tells what was committed, and every request is
  answered, even those that wait for each other.
* *Advice.* What the suggestions count with is what following them brings about; one is
  refused only for want of ownership or of room, and they relieve the days in conflict.

## 2. What a step of the models is

A **request** occupies a *slot*, and a slot is a record with a program counter and
the locals that the handler carries from one `await` to the next. One action is one
database or Redis statement together with the code that runs on its result up to the
next `await`. Everything another request can observe or disturb happens between two
actions, so the interleavings of the model are those of the code.

* A **write and the commit behind it are one step.** Under READ COMMITTED nobody
  sees the write before the commit. A competing write of the same row waits for it,
  re-evaluates its `WHERE`, and then acts on the new row, as it does here when it
  runs second. No transaction of the modelled handlers writes anything but in its
  last statements: `acceptInvite` inserts the membership and marks the invitation, `createGroup`
  inserts the group and its first owner. The constraint a later statement could
  break (primary key, foreign key, unique index) is evaluated in that one step and
  undoes all of it.
* **Reads that answer as one are merged**, and only where the merge cannot be seen.
  In `FindInviter` the group is read before the caller's row, and an owner's row
  cannot outlive its group. `ReadTask` decides at the read what the code decides a
  few statements later *from the very row it read*; refusals write nothing.
* **Errors that change nothing** (a 403, a unique violation, Prisma's P2025 for a row
  that is gone) end the request: `Reply(s)`.
* **Inputs** come from small sets with `\E`. A client can name only ids that were
  handed out, and answer only tokens that reached a mailbox.
* An operator with an underscore in its name (`CountOwners_OffByOne`) is **not part
  of the model**. It is a variant of the operator it is named after, with a
  plausible slip. `PROJECT.json` names, for each property, the variant that breaks
  it: no property holds because of how the model is shaped.

## 3. The modules

### GroupMembership, and AtomicGroups above it

`group[g]` is the row of a group (its name, or `"unborn"`/`"deleted"`), `role[g][u]`
the `users_groups` row, `req[s]` the request in slot `s`.

| Action | Code |
|---|---|
| `FindName`, `CreateGroup` | `createGroup`: the look-up of the name, then the nested create of group and first owner |
| `RoleGuard` | `GroupRoleGuard.canActivate`, in front of delete, share and remove |
| `GetUserRole` | the second role check, inside the handler |
| `FindTarget` | the read of the other member; share takes anybody, remove refuses an owner |
| `DeleteGroup`, `PromoteTarget`, `RemoveMember` | the writes, by key alone |
| `FindSelf`, `CountOwners`, `LeaveGroup` | `leaveGroup`: own row, number of owners, delete |
| `Join` | the commit of `acceptInvite` seen from these tables |

Properties: `GroupIntegrity`, `OrphanedOnlyByStaleRead` (which holds under every
interleaving: a live group loses its last owner *only* in a leave or removal whose
reads were overtaken), and, for requests that do not overlap, `OwnerExists` and
`ImplementsAtomicGroups`.

`AtomicGroups` is the abstract specification: the same two tables and six
indivisible operations, each with the promise of its endpoint as its guard. The
refinement mapping is the identity on the tables, and the slots disappear.

### GroupInvites (extends GroupMembership)

The invitation handlers take steps on the same tables as the group handlers: a slot
holds a request of either kind, and `GroupRequest` is a step of `GroupMembership`
followed by the cascade into the invitations.

A token is the record of its claims `[email, group, by, iat]`. The signature has no
salt, so the same inviter inviting the same address in the same second signs the
same token, which the unique index on `token` then refuses. `status[t]` and
`expires[t]` are the row of token `t`, `mail[t]` the job that carries it.

| Action | Code |
|---|---|
| `InviteGuard`, `GenerateToken`, `FindInviter`, `FindMember`, `FindPending`, `CreateInvite`, `Enqueue` | `inviteUser`, up to the hand-over to the queue *after* the transaction |
| `VerifyToken`, `FindInvite`, `CheckExpiry` | the checks shared by preview, accept and decline |
| `FindMembership`, `AcceptInvite` | `acceptInvite` |
| `DeclineInvite`, `ExpirePreviewed` | the updates by id of decline and preview |
| `WorkMail` | the worker: delivered at some attempt, or dropped after the last |
| `CleanExpiredInvites` | the invitation half of the nightly clean-up |
| `Tick` | the clock that tokens and rows expire on |

Three details carry weight. `Enqueue` may lose the mail in every run: the process ends, or
Redis refuses the job, after the invitation is committed. Inside the transaction of accept and decline, the EXPIRED
mark is rolled back by the exception that follows it, so only preview keeps it
(`CheckExpiry`). And `users` is searched for the address as it was typed while the
recipient is compared in lower case, so an address has more than one spelling
(`Canon`).

Properties: `MailOnlyAfterCommit`, `JoinOnlyByInvite`, `SettledRewrittenOnlyByStaleRead` and `ImplementsMembership` (a refinement: seen from
the group tables an invitation is a `Join` or nothing) under every interleaving;
`OnePendingPerEmail` and `AnswerIsFinal` for requests that do
not overlap; `InvitesSettle` under fairness. `InviteIntegrity`, that no invitation
outlives its group, is proved and needs no run.

### Assignments

`task[i]` is the row (`Unborn` before, `Gone` after), `role` and `live` what the group
handlers leave in the group tables, changed here by the environment actions
`SetRole` and `DropGroup`. Instants are *relative*, counted in half days from now, so
the clock runs for ever in a finite model: `Tick` moves every deadline half a day
closer, and what lies more than a day back is not told apart. `cron` says that
midnight has passed and the job has not run.

| Action | Code |
|---|---|
| `FindGroup`, `CreateTask` | `create`: the group look-up, then the insert under its foreign key |
| `ReadTask`, `ReadMember`, `CheckOwner` | `getAssignmentIfAccessible`, `assertAssignmentAccess`, `checkOwner` |
| `GetUserGroupIds`, `CheckDay` | the load of the target day in `rescheduleAssignment`, with the weights and the threshold of the scheduler |
| `UpdateTask`, `RemoveTask`, `SetStatus`, `MoveTask` | the writes, by id alone |
| `MarkOverdue`, `MissRun` | the job at midnight, or a process that was down then |

Whose a personal assignment is never changes, so that no overlap lets a request write
one of another user: `RescheduleKeepsRules` and `ChangedByMembersOnly` say so without a
condition. Every other rule the handlers check can be overtaken. The history field
`calm` is TRUE as long as nothing but this request changed anything since it began (a
new midnight is a change as well), and a calm request obeys the rest *at the write*:
membership, and for a reschedule ownership of the group, a priority and status that
may be moved, another day than the one it leaves, no day that is past, and a load at
the target's midnight within the threshold. Without `calm` these fail, for the reason
given in section 7.

`CompletionSticks` and `NoOrphanTasks` hold under every interleaving,
`OverdueIsMarked` under fairness.

### DashboardCache

`counter[u]` is the key `cache:user:v:<u>`, `entry[u][v]` the dashboard cached under version
`v`. What a dashboard shows is abstracted to `seq[u]`, the number of committed changes
the user can see: a cached value is out of date by a number of changes. Time
is relative here too: `ttl` counts down, `age` counts up to the largest age a property
tells apart.

| Action | Code |
|---|---|
| `GetVersionKey`, `GetCached`, `CountVisible`, `SetCached` | `getDashboard` |
| `Commit`, `BumpIncr`, `BumpExpire`, `BumpFails` | a handler's commit and the INCR and EXPIRE of `bumpUserVersion`, each of which may be the last thing that happens |
| `ChangeByOthers` | colleagues, the nightly job, membership: changes the user sees and nobody bumps for |
| `Tick` | time and Redis key expiry |

`StalenessBounded`: whatever is served is less than a TTL and a request old.
`OwnChangeMissedOnlyAfterRestart`: a change whose own request succeeded is missing from a
served dashboard only within that same time of a *restart* of the counter. Read the
other way round it describes a weakness of the code: a missing counter is read as 1,
and INCR on a missing key also gives 1, so the first bump after the counter expired or
was never there changes nothing and leaves the old dashboard reachable for its TTL.

### Sessions, and SessionLedger above it

A refresh token is named by its user and a number. `status[t]` follows it from
`"unsigned"` over `"signed"` to its row, `"stored"` and then `"gone"`; `exp[t]` is the
claim in the token and `expiresAt[t]` the column of the row, which is computed after
`bcrypt.hash` and so counts from a later moment. `req[s]` is the request in slot `s`.

| Action | Code |
|---|---|
| `FindUser`, `CreateUser` | `register`: the look-up and the insert under the unique address |
| `ComparePassword` | `login` |
| `VerifyToken`, `FindSession`, `DeleteSession`, `WipeSessions` | `refresh` and `logout`: the token is verified, the rows are searched, the row found is deleted (P2025 if it is gone), or none was found and all are deleted |
| `SignToken`, `StoreToken` | `auth`, before and after `bcrypt.hash` |
| `CleanExpiredTokens` | the token half of the nightly clean-up |
| `Lose`, `Tick` | a request that ends anywhere; the clock |

`findMatchingRefreshToken` compares with bcrypt, which reads 72 bytes: the header of a
JWT and the first characters of the user's id. Every row of the user matches, so
`FindSession` takes any of them.

`SessionLedger` is the abstract specification: register, login, open, renew, close. The
mapping: a slot is *entering* while a sign-in that was granted has no row yet, a session
is *open* while its row is stored or a refresh that deleted it has not stored the next
one, and a token was *issued* once it had a row. `OneRefreshWins` and
`CleanUpSparesLive` are what the mapping rests on.

### LoginAttempts

`fail[k]` is the counter `auth:failed:<k>` (`ttl` 0 with a positive count: no expiry),
`block[k]` what is left of `auth:blocked:<k>`; keys are addresses of callers and
e-mails. A process talks to Redis over one connection, so what is sent together runs
together.

| Action | Code |
|---|---|
| `CheckBlocked` | the rate-limit guard and `checkBlocked` |
| `ComparePassword` | the middle of `login`, either outcome |
| `CountFailure`, `ArmLimits` | `registerFailedAttempt`: the two INCRs, then MULTI .. EXEC by the counts they returned |
| `ClearAttempts` | `clearAttempts` |
| `Lose`, `Tick` | a request that dies between its round trips; key expiry |

`lost` remembers the keys whose counter a dead request left behind: `CountersExpire` and
`LimitNotForgotten` say that nothing else can leave a counter without expiry or a limit
without its block.

### Reminders

`task[t]` is what a run reads of an assignment (deadline as a day, status, the addresses
concerned), `job[t][p]` the job in the queue under the id of `t` and `p`, `found` what
the run in progress has read. Two histories are read by the properties only: `told[t][p]`,
the deadlines of `t` that were mailed to `p` or given up on, and `ignored[t][p]`, those whose
job the queue ignored because it held one from an earlier deadline.

| Action | Code |
|---|---|
| `FindTasks`, `AddReminders` | `sendDeadlineReminders`: the query, then `addReminderEmail`'s `addBulk`, which skips ids the queue holds |
| `MissRun` | the process is down at 8:00 |
| `TakeJob`, `SendMail`, `Complete`, `Fails` | the worker, its attempts and `removeOnComplete`/`removeOnFail` |
| `Crash`, `Restart`, `RecoverStalled` | a process that ends anywhere; BullMQ returns a stalled job to the queue once |
| `Edit`, `Tick` | requests that change the assignment; midnight |

`DueTasksAreHeard` accounts for every reminder a run should have brought: it was told, a job
for this very deadline holds it, or it is in `ignored`. That last case is a weakness of the
code which the property names and does not excuse as heard: a job of the old deadline
is no reminder of the new one.

### ConnectionPool

`queue` holds the requests waiting for a connection, oldest first, `tx[s]` the
transaction of slot `s`, `running[s]` its plain queries that have a connection; `Lent` is
the set of connections these make up. Four
routes stand for their classes: `share` (a role guard, then a transaction that asks for
another connection), `remove` (the same without), `leave` (a transaction at once) and
`dashboard` (one query, then many side by side).

| Action | Code |
|---|---|
| `Start`, `RoleGuard`, `GetDashboard`, `CountsReturn` | the queries outside transactions |
| `ServeQuery`, `ServeTransaction` | pg's pool |
| `MaxWait`, `TimeOut` | Prisma's two limits on a transaction, which no call overrides |
| `AskOutside`, `GetUserRole` | `shareOwnership` calls `getUserRole` without the transaction |
| `CheckRole`, `FindMember`, `WriteMember`, `Commit` | the statements on the transaction's client |

### RescheduleAdvice

`SchedulerService.suggestReschedule` visits the movable assignments of the days one after
the other and keeps scores, updated as if what it has suggested were done. The two nested
loops are a step that is repeated, so that what they compute is an invariant. Between
`GetRescheduleSuggestions` and `Return` no other action is enabled, for the function is
synchronous.

| Action | Code |
|---|---|
| `GetRescheduleSuggestions` | the query, `calculateScores`, the filter `isMovable` |
| `Visit` | one turn of the inner loop: days in the order of `groupByDate`, then the order of `sort`; on a day below the threshold nothing (`continue`, `break`), else `Suggest`: `findBestTargetDate`, the two updated scores, `push` |
| `Return` | the answer; the scores go out of scope |
| `Follow` | the user sends the next suggestion to `rescheduleAssignment`, which checks the ownership (`checkOwner`) and has a threshold and a view of the day of its own |
| `Create`, `Reschedule` | anything else that changes the list; the advice no longer counts |

An assignment carries the flag `owned`: the user's own, or of a group the user owns. The
advice is about everything the user sees and does not look at the flag;
`rescheduleAssignment` refuses what is not owned. `AdviceIsAccepted` says that want of
ownership and want of room are the only reasons for a refusal.

`Conflicts` is the detector. Costs are in tenths, so that they are integers.

### MC modules

`MCGroups`, `MCInvites`, `MCAssignments`, `MCDashboard`, `MCSessions`, `MCLogins`,
`MCReminders`, `MCPool` and `MCAdvice` hold the values a `.cfg` cannot write down
(functions, symmetry sets, negative numbers), nothing else.

Three runs have no type invariant of their own: `NoConnectionLost`, `DueTasksAreHeard`
and `NoOrphanTasks` have `TypeOK` as their first conjunct.

## 4. What each run checks

| Run | Instance | Shows |
|---|---|---|
| `groups_concurrent` | 3 users, 2 ids, 1 name, 2 slots | tables stay consistent; only an overtaken read orphans a group |
| `groups_orphaned` | the same | *violation*: a member read as MEMBER is promoted and leaves uncounted beside the other owner, who counted two |
| `invites_concurrent` | owner and guest, 1 group, 2 slots, 1 invitation, clock to 2 | the safety properties of the composition, and that the group tables see only `Join` |
| `invites_serial` | the same, 1 slot, 2 invitations | group and invitation handlers together implement `AtomicGroups`; one pending per address, answers final, every invitation settles, hand-overs to the queue lost or not |
| `assignments_concurrent` | 2 users, 1 group, 1 assignment, 2 slots | access, rules, cascade and completion under overlap; whose a personal assignment is, whatever overlaps |
| `assignments_liveness` | 1 user, 2 assignments, 1 slot, three weights | the threshold of a day with a rival, met exactly (MEDIUM and URGENT) and passed by one (HIGH and URGENT); days that are past; late assignments are marked |
| `dashboard_cache` | 1 user, 2 slots, TTLs 2, latency 1, 3 changes | staleness bound; own changes are missed only after a restart of the counter |
| `sessions_overlap` | 1 user, 2 slots, 2 tokens, clock to 3 | overlapping sign-ins, refreshes and logouts, lost anywhere, implement the ledger |
| `logins_attempts` | 1 caller, 2 e-mails, 2 slots, limit 2 | limits and expiry survive overlap; blocks end |
| `reminders_queue` | 1 assignment, 2 addresses, 2 runs, 1 crash | who is not told was passed over for a job of an earlier deadline; mails are true, jobs settle |
| `pool_shared` | 3 slots, 2 connections | no connection is lost; what it takes to stall the pool, and that a stall ends |
| `advice_followed` | up to 4 assignments on 4 days, one kind of them not owned | advice followed in its order holds and relieves; what is refused is not owned or has no room |

A run with one slot answers "is the handler right by itself?"; a run with two answers
"what survives overlap?". A property that fails with two slots is not dropped. It is
checked with one slot, what two slots do is reported in section 7, and a weaker form that
names the stale read is checked with two slots.

## 5. Bounds, fairness and symmetry

*Slots = 2.* Every conflict here is between the reads of one request and a write of
another. A third request adds only a longer run of writes, which the joins, the nightly jobs,
`SetRole` and `ChangeByOthers` already supply without a slot. The pool has three: two that
exhaust its connections and one that waits.

*Users.* Groups need three: two owners and the member who is promoted or removed. In
the invitation runs an owner and a guest (whose address has two spellings) play every
part; the group runs cover the rest. Only the guest is invited, under both spellings. Sessions have
one user: no statement of a request touches rows of another, which the proof of
`SessionTypes` shows for any number. Two e-mails behind one caller make two logins share
one counter and not the other. Two users of assignments make personal assignments of another; the
clock, the rules of the load and the job need one, since `SetRole` takes roles away and gives them back.

*Ids.* A group id is never reused, so a second id is what lets a name come back after a
deletion. `IdsLeft`, `MaxInvites`, `Ids`, `MaxWrites`, `MaxTokens` and `MaxTasks` stop creation, never another handler.
A second token is what a refresh replaces the first by, and a fourth assignment what lets two
suggestions from different days meet on a third. With `MaxInvites` 1 two `inviteUser` calls never overlap
in `invites_concurrent`: what they do to each other is in section 7.

*Time.* Invitations: rows live 1 tick and the clock stops at 2. A token lives 3 ticks, so that its
row expires under it, and a single one in `invites_serial`, where the token dies first. Sessions
live 2 ticks and the clock stops at 3, one tick past the life of the first. Two days of reminders let the job
of one run meet the next. Assignments, login attempts and the cache have no clock bound. `MaxLatency` says that a request does not
outlive one tick, and `StalenessBounded` is relative to it.

*Deadlines and days.* In `assignments_liveness` an assignment due at the target's midnight and the one that
is moved there weigh 7 together (MEDIUM 2, URGENT 5) or 8 (HIGH 3, URGENT 5): the threshold itself and one
past it. Deadlines picked are tomorrow's same half day, which in the first half is the exact
midnight the scheduler compares with, and the clock makes them past; days asked for are tomorrow and yesterday, which is refused.
`assignments_concurrent` has one priority, one deadline (yesterday) and one target (today, which is past once
a midnight comes between): it is about who writes what and when. Two reschedules that overfill a day together take two slots and a third
assignment, which no run has; the theorem `ReschedulesKeepRules` covers any number. No run sets ARCHIVED.

*Fairness.* `FairISpec` assumes that the clock advances and that the nightly job, when an
expired pending invitation is there for it, runs: `@Cron` fires daily whatever
requests do, and its statement waits for no request. No request, mail or
client is assumed to make progress. `FairSpec` of `Assignments` is fair to the clock (strongly:
by a bound of the model `Tick` waits for a request whose target day is about to be a
day gone), to a request once started (a promise chain that nothing external blocks), and
*strongly* to the midnight job: a process may be down at any number of midnights but not
at all of them. Weak fairness would not do, since a missed run disables the job until the
next midnight.

`FairSpec` of `LoginAttempts` is fair to the clock and to a request that is not lost. `Spec` of
`Reminders` is fair to the restart of the process and to the worker, not to anything that makes new jobs; by a
bound of the model a running process finishes the job it has taken within the day, and it
crashes `MaxCrashes` times. `Spec` of `ConnectionPool` is fair to the pool, to handlers whose query has returned, and to
the timer of an open transaction; `EveryRequestAnswered` rests on that timer and fails without it. `Sessions` and
`RescheduleAdvice` state no liveness.

*Limits.* `MaxAttempts` is 2 instead of 5: the first failure and the last before a block must differ. `Attempts` is 2
for the same reason. `PoolSize` is 2, the least at which a pool that is full differs from one connection in use, and `Fan` 2 lets a
dashboard alone fill it. `SearchDays` is 2 of 7: a day that fits and one that does not. The
priorities LOW, HIGH and URGENT of `Kinds` weigh 1, 3 and 5 against the threshold of 7; four assignments make two
conflicts, and HIGH comes owned and not.

*Symmetry* is used only in runs without a liveness property, over slots, and over users
where the configuration treats them alike.

*Deadlock* is checked in every run.

## 6. What is proved

The proofs are in modules of their own; `tlapm` checks every leaf. They hold for any number
of users, groups, names, addresses and slots.
Assumptions: the sets of users, of assignments and, for the cache and the pool, of slots are finite (`Cardinality`), the marks of absent groups are no
names, nobody is no user, addresses of callers are not e-mails, users are not groups, and lifetimes,
limits and bounds have their types, and every priority has a weight. TLC evaluates each of them in the runs.

| Theorem | Statement | Argument |
|---|---|---|
| `TypeCorrect` | `Spec => []TypeOK` | inductive by itself |
| `IntegrityHolds` | `Spec => []GroupIntegrity` | inductive with `TypeOK`: `CreateGroup` re-checks the name by the index, `DeleteGroup` clears the roles it cascades to |
| `LastOwnerGuarded` | `Spec => OrphanedOnlyByStaleRead` | needs `ChecksPassed`: a leave that saw an owner saw more than one, and a removal saw a plain member. At the write, either that is still so, and then an owner remains, or the read is stale |
| `SerialRefinement` | one slot: `Spec => ImplementsAtomicGroups` | needs `ReadsCurrent`: with one slot everything a request has read still holds, since only joins come between and they neither add nor remove an owner. Each write then meets the guard of its atomic operation; everything else stutters |
| `SerialOwnerExists` | one slot: `Spec => []OwnerExists` | from the same `ReadsCurrent` |
| `Composition` | `ISpec => ImplementsMembership` | each action of the composition is a `Next` step of `GroupMembership` or leaves its variables alone (`AcceptIsJoin`), so its theorems hold with invitations too |
| `ITypeCorrect` | `ISpec => []ITypeOK` | `Composition`, `TypeCorrect` and the types of the invitation half |
| `InviteIntegrityHolds` | `ISpec => []InviteIntegrity` | foreign key at creation, cascade at deletion (`RowSteps`, `LiveAfter`) |
| `MailAfterCommit` | `ISpec => []MailOnlyAfterCommit` | needs `MailOrder`: a request at its enqueue step, and a token with a job, has a stored row, or its group is gone |
| `InviteIsTheOnlyEntrance` | `ISpec => JoinOnlyByInvite` | needs `JoinChecked` (an accept at its write carries a mailed token for its user's address) and, for every other action, that it adds no member and marks nothing ACCEPTED (`OnlyAcceptJoins`) |
| `SettledByStaleReadOnly` | `ISpec => SettledRewrittenOnlyByStaleRead` | needs `FoundPending`: a request at its write found its invitation PENDING. Every other writer of a row creates it, cleans PENDING rows or deletes the group (`RowWriters`) |
| `SerialInvitesRefine`, `SerialInvitesOwned` | one slot: `ISpec => ImplementsAtomicGroups`, `ISpec => []OwnerExists` | from `Composition` and the theorems about `GroupMembership`: what the invitations add are its joins |
| `SerialOnePending` | one slot: `ISpec => []OnePendingPerEmail` | needs `InviteReadsCurrent`: an `inviteUser` past its look-up knows that no pending invitation of that address is alive, since nobody else creates one and time only expires them |
| `SerialAnswerIsFinal` | one slot: `ISpec => AnswerIsFinal` | the same invariant, for accept and decline: the row they found was not answered meanwhile: it still is PENDING, or the job settled it EXPIRED |
| `SessionTypes` | `Spec => []TypeOK` | inductive by itself; a request's row is its own user's |
| `RefreshesDoNotFork` | `Spec => []OneRefreshWins` | inductive with the types: a row is deleted once, and what is gone stays gone |
| `CleanUpIsSafe` | `Spec => CleanUpSparesLive` | a stored row's `exp` is at most its `expiresAt`, for the token is signed before the row is dated |
| `SessionsImplementLedger` | `Spec => ImplementsLedger` | needs that a token is stored by the one request that signed it, besides the invariants above. Each action then maps to one of the ledger's or to a stutter |
| `AttemptTypes` | `Spec => []TypeOK` | inductive by itself |
| `NoImmortalCounter` | `Spec => []CountersExpire` | inductive with the types: a request that read 1 created the counter and still has to arm it |
| `LimitIsNoticed` | `Spec => []LimitNotForgotten` | inductive with the types: the request whose INCR reaches the limit is told so |
| `NoOrphans` | `Spec => []NoOrphanTasks` | inductive: the foreign key at the insert, the cascade at the deletion |
| `CompletionIsKept` | `Spec => CompletionSticks` | per action, from the types: only a status request writes another status over COMPLETED |
| `AccessIsChecked` | `Spec => ChangedByMembersOnly` | needs `Homed`, inductive: a request past its read names a row that has kept its home for as long as it exists, whatever overlaps (`HomesStay`), and whoever writes is such a request (`WritersAct`). And `Vetted`: a calm request past its check has a membership that is still there, since any change by another request ends its calm |
| `ReschedulesKeepRules` | `Spec => RescheduleKeepsRules` | the unconditional part from `Homed`. The rest needs `Knows`, inductive with `Vetted`: a calm reschedule knows that its row still has the priority, the status and another day than the target (from `ReadTask`), that its user owns the group (`CheckOwner`), that the target is not past, which groups the user is in and, at the write, that the load of the target and its own weight stay within the threshold. The clock is the hard step: noon moves the target and every deadline alike (`TickReady`), midnight ends the calm. `LoadAdds` adds the weight to the load |
| `ConnectionsAreKept` | `Spec => []NoConnectionLost` | needs `PoolInv`, inductive: `Fits` says of every step of a request how many waiters and running queries it has and in which states its transaction may be, `AskersWait` that the queue holds a transaction exactly for the requests at `begin`. A step moves one slot, so the connections of the others are as they were (`LentStep`), and what that slot gives up is what becomes free (`SlotMoves`) |
| `AnswersTellCommits` | `Spec => []AnswerTellsCommit` | from `PoolInv`: a transaction that is "committed" belongs to a request at "ok" |
| `StallTakesShares` | `Spec => []StallTakesAPoolOfShares` | from `PoolInv`: without running queries the connections lent are the holders' (`LentToTransactions`), and a holder can wait only at `outside`, where only `shareOwnership` goes |
| `CacheTypes` | `Spec => []TypeOK` | needs `Numbered`: a change still to be committed has its place below `MaxWrites`, a bump still to come its change, so a version number never passes the number of changes; and a counter that exists is at least 1, the number a missing one reads as |
| `StalenessIsBounded` | `Spec => StalenessBounded` | needs `Aging` (age and remaining life of an entry add up to `MaxAge` at most) and `Paced` (what a request has read is no older than the request). An entry that is served has life left |
| `OwnChangesAreSeen` | `Spec => OwnChangeMissedOnlyAfterRestart` | needs `OwnInv`: whatever was stored, or is about to be, by a request younger than the last restart of the counter (`Recent`, `RecentEntry`) is `Good`: it has no number ahead of the counter, and under the current number it shows every change bumped for. A bump therefore makes a number no copy has; a restart leaves nothing of that user recent, and `MaxAge` later everything older is gone |
| `EveryoneIsHeard` | `Spec => []DueTasksAreHeard` | needs `FoundFits` (what a run has read covers every assignment nobody changed that day), `RanFits` and, in `JobFits`, that a mail that is out is of today: then a job leaves the queue only once the deadline it carries was told to its address, and a job with another deadline than the run's can only be an earlier one, which `ignored` records |
| `MailIsTrue` | `Spec => MailTellsTheDeadline` | from the rest of `JobFits`: a job is of a run that is past, so any later change of the assignment shows in `edited` |
| `AdviceHolds` | `Spec => []AdviceHoldsWhenFollowed` | needs `AdviceInv`, inductive. `Then(k, d)` are the assignments on day `d` once the suggestions up to the `k`-th are followed. While the loops run the scores are the loads of `Then` (`Scored`), so every suggestion is sound where it stands (`Sound`), and following one changes nothing for those after it (`ThenAfter`), no assignment being suggested twice (`Distinct`). `SuggestKeeps` is the hard step: the two scores and the two days change alike (`ThenMoves`, `LoadAdds`) |
| `OverloadRelieved` | `Spec => []OverloadIsRelieved` | from the same invariant: whatever is visited leaves its day below the threshold, or leaves its day (`Relieved`) |
| `AdviceAccepted` | `Spec => AdviceIsAccepted` | from the same invariant: what is suggested is no URGENT work and goes to another day (`Sound`), and what is due at the start of a day weighs no more than the day (`LoadGrows`); so of the refusals of `rescheduleAssignment` only ownership and room are left |

The single slot of the serial theorems is a hypothesis of the theorem (`Slots = {one}`), not an assumption of the module.

The counts in these theorems are cardinalities of sets, for which the library has facts that
need no induction: the load of a day is the number of units of weight in it (`Load`), a queue
is counted by its places (`PlacesQueued`, `PlacesServed`), and the pool by the set of the
connections that are lent (`Lent`).

`GroupProofs` holds the theorems about `GroupMembership` and, after them, those about
`GroupInvites`; the first part uses nothing of the second.

Only model-checked: the liveness properties, for fairness and ENABLED are out of the prover's
reach.

## 7. What disagrees with the code's own words

One run ends in a counterexample to what the program itself says.

* **A group without owner** (`groups_orphaned`). `leaveGroup` reads the role, counts the owners and
  deletes in three statements. In the counterexample a user is read as MEMBER (line 21), promoted
  by `shareOwnership`, and deletes the row without counting, while the other owner has counted two and
  deletes as well. "Нельзя выйти из группы, если вы единственный владелец", `member.service.ts:30`.
  Two owners who leave together and both count two get there as well, in a longer run than
  the shortest one TLC reports; `OrphanedOnlyByStaleRead` covers both.

The same pattern, a check and a write with room between them, shows in places that have no
run of their own, because the property that is checked beside each already tells the story:

* Accept and decline check PENDING and write by id, so both of them may succeed and an accepted
  invitation end DECLINED with the membership in place, where "Приглашение уже обработано"
  (`invite.service.ts:245`) is meant to refuse the second: `AnswerIsFinal` fails with two slots.
* The mail is queued after the commit (`invite.service.ts:100`). When that hand-over is lost, by a crash or a
  job Redis refuses, the next call answers "already sent" (`invite.service.ts:85`) about an invitation nobody
  received, until the row expires. No overlap is needed, and no property of the project says otherwise.
* Two overlapping `inviteUser` calls for one address both create an invitation
  (`OnePendingPerEmail` fails with two slots), although `invite.e2e-spec.ts:78` expects a refusal.
* `removeMember` deletes an owner when `shareOwnership` promotes the target between its check and
  its delete.
* An assignment that turns URGENT between the check and the write of a reschedule is moved
  (`RescheduleKeepsRules` without `calm` fails).

Other differences met on the way:

* `canFitInDay` admits a score of 7 and the conflict detector reports from 7 on, so that a reschedule can
  fill a day into a conflict (`README.md:51` of the repository speaks of preventing them). It also weighs only
  what is due at the exact midnight. Suggestions stay below 7, and the fallback for a
  stretch of full days names a day that is over it, which following may refuse.
* A refresh replaces any row of its user, not the row of its own token, because of the 72 bytes bcrypt reads.
  The number of sessions is right, as the ledger shows; which of them is replaced is not determined.
* Suggestions are about every pending assignment the user sees, those of groups included. For a group of which
  the user is only a member, `rescheduleAssignment` refuses them with 403 (`checkOwner`,
  `assignment.service.ts:304`), whatever room the day has.
* The id of a reminder job leaves out the deadline, so that a job still held from an earlier deadline makes the
  queue ignore the one for the new deadline (`queue.service.ts:44`); a missed 8:00 run is not made up for, and an assignment that was
  marked OVERDUE is not reminded of when it gets a new deadline.
* As many `shareOwnership` calls as the pool has connections stall it until Prisma's timer ends
  them, because `getUserRole` is called without the transaction (`group.service.ts:68`).
* The midnight job marks ARCHIVED assignments OVERDUE, and nothing but a status request ends
  OVERDUE, not even a new deadline. "Today" as a reschedule target is a midnight already past, so that the
  next run marks it.
* The version counter of a dashboard reads as 1 when it is missing and is 1 after its first bump.
* Days are UTC in the scheduler's grouping and local in its arithmetic.
* The repository's README speaks of the roles `MEMBER` and `ADMIN` (line 61) where the schema has
  OWNER, of Argon2 (line 71) where the code calls bcrypt; the controller's summary says ownership is
  handed over (`group.controller.ts:120`) where the handler shares it. These are wordings, not runs.

## 8. What is not modelled

Not modelled:

* *Generated code.* Four fifths of the repository's TypeScript is the Prisma client under
  `src/src/generated/`: types and tables of names without behaviour of this program. What its calls do
  (unique indexes, cascades, P2025, transactions, timers) is part of every model of a table. The modules
  cover most of the remaining lines that change state, which is a small share of all lines.
* *Routing, DTO validation, decorators, bootstrap, wording of answers and mails*: no state.
* *Reads that only list rows*, with their pages; the last page of a list is computed with the limit asked for while at
  most 50 rows are returned (`assignment.service.ts:111`).
* *Subjects*: one table; two creations of one name are decided by its unique index.
* *Priorities*: a pure table of scores with unit tests. Its result is a choice in `CreateTask` and `UpdateTask`.
* *The contents of a dashboard*: six counts on separate connections, abstracted to the changes they
  show; `CountVisible` takes them all at the first, the earliest moment any of them can be from.
* *Time zones*, the last millisecond of the reminder window (`automation.service.ts:47`), the delays of
  back-off, reconnecting to Redis and PostgreSQL.

To repeat the checks, in this directory:

    tlc -workers 2 -config MCGroups_concurrent.cfg MCGroups
    tlapm GroupProofs.tla
