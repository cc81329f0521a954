----------------------------- MODULE ConnectionPool -----------------------------
(***************************************************************************)
(* How requests share the connections of PrismaService: one pg Pool, made  *)
(* without options, so of PoolSize connections and with a first-come queue *)
(* that never gives up.  A plain query borrows a connection for its own    *)
(* time; a $transaction keeps one until it commits, is rolled back, or is  *)
(* closed by Prisma's timer, which no call of the repository overrides.    *)
(*                                                                         *)
(* shareOwnership is the exception among the transactions: it calls        *)
(* getUserRole without the transaction's client, so it queues for a second *)
(* connection while it keeps the first.                                    *)
(*                                                                         *)
(* Requests stand for their class: "share" and "remove" for the routes     *)
(* behind the role guard, "leave" for those that open a transaction        *)
(* directly, "dashboard" for the ones that send several queries at once.   *)
(* What the queries read and write is modelled in GroupMembership.         *)
(***************************************************************************)
EXTENDS Naturals, Sequences, FiniteSets

CONSTANTS Slots,      \* requests in flight
          PoolSize,   \* connections of the pool (10, the default of pg)
          Fan         \* queries a dashboard sends at once (8)

ASSUME PoolPositive == PoolSize \in Nat \ {0} /\ Fan \in Nat \ {0}
ASSUME SlotsFinite == IsFiniteSet(Slots)

VARIABLES req,       \* req[s]: what slot s serves and where it stands
          tx,        \* tx[s]: its transaction
          running,   \* running[s]: its plain queries that have a connection
          queue,     \* requests for a connection, oldest first
          free       \* connections nobody has

vars == <<req, tx, running, queue, free>>

Ops == {"share", "remove", "leave", "dashboard"}
Transactional == {"share", "remove", "leave"}
Guarded == {"share", "remove"}
Resting == {"new", "ok", "error"}
InTransaction == {"role", "outside", "member", "write", "commit"}
Steps == Resting \cup InTransaction \cup {"guard", "groups", "fan", "begin"}

Goto(s, step) == req' = [req EXCEPT ![s].pc = step]
Waits(s) == Cardinality({i \in DOMAIN queue : queue[i].slot = s})
Query(s) == [slot |-> s, for |-> "query"]

Init ==
  /\ req = [s \in Slots |-> [op |-> "leave", pc |-> "new"]]
  /\ tx = [s \in Slots |-> "none"]
  /\ running = [s \in Slots |-> 0]
  /\ queue = <<>>
  /\ free = PoolSize

--------------------------------------------------------------------------------
\* n plain queries of s, sent together, and the step that awaits them all
Ask(s, n, step) ==
  /\ queue' = queue \o [i \in 1 .. n |-> Query(s)]
  /\ Goto(s, step)

\* $transaction asks the pool for a connection of its own.
AskTransaction(s) ==
  /\ queue' = Append(queue, [slot |-> s, for |-> "transaction"])
  /\ Goto(s, "begin")

Start(s, op) ==
  /\ req[s].pc \in Resting
  /\ tx' = [tx EXCEPT ![s] = "none"]
  /\ LET first == IF op \in Guarded THEN "guard"
                  ELSE IF op = "leave" THEN "begin" ELSE "groups"
         wanted == IF op = "leave" THEN "transaction" ELSE "query"
     IN  /\ req' = [req EXCEPT ![s] = [op |-> op, pc |-> first]]
         /\ queue' = Append(queue, [slot |-> s, for |-> wanted])
  /\ UNCHANGED <<running, free>>

\* The pool serves its oldest waiter.
ServeQuery ==
  /\ free > 0 /\ queue # <<>> /\ Head(queue).for = "query"
  /\ running' = [running EXCEPT ![Head(queue).slot] = @ + 1]
  /\ queue' = Tail(queue)
  /\ free' = free - 1
  /\ UNCHANGED <<req, tx>>

ServeTransaction ==
  /\ free > 0 /\ queue # <<>> /\ Head(queue).for = "transaction"
  /\ LET s == Head(queue).slot IN
       IF tx[s] = "late"
       THEN /\ Goto(s, "error")
            /\ tx' = [tx EXCEPT ![s] = "closed"]
            /\ free' = free
       ELSE /\ Goto(s, "role")
            /\ tx' = [tx EXCEPT ![s] = "open"]
            /\ free' = free - 1
  /\ queue' = Tail(queue)
  /\ UNCHANGED running

\* maxWait passes before the pool has served a transaction.
MaxWait(s) ==
  /\ req[s].pc = "begin" /\ tx[s] = "none"
  /\ tx' = [tx EXCEPT ![s] = "late"]
  /\ UNCHANGED <<req, running, queue, free>>

Returned(s) ==
  /\ running[s] > 0
  /\ running' = [running EXCEPT ![s] = @ - 1]
  /\ free' = free + 1

Last(s) == running[s] = 1 /\ Waits(s) = 0

\* The guard reads the caller's membership before the handler runs.
RoleGuard(s) ==
  /\ req[s].pc = "guard"
  /\ Returned(s)
  /\ \/ Goto(s, "error") /\ UNCHANGED queue
     \/ AskTransaction(s)
  /\ UNCHANGED tx

\* getDashboard reads the user's groups, then sends all its counts.
GetDashboard(s) ==
  /\ req[s].pc = "groups"
  /\ Returned(s)
  /\ Ask(s, Fan, "fan")
  /\ UNCHANGED tx

CountsReturn(s) ==
  /\ req[s].pc = "fan"
  /\ Returned(s)
  /\ IF Last(s) THEN Goto(s, "ok") ELSE UNCHANGED req
  /\ UNCHANGED <<tx, queue>>

--------------------------------------------------------------------------------
\* Closing a transaction gives its connection back.
Finish(s, end, answer) ==
  /\ tx' = [tx EXCEPT ![s] = end]
  /\ free' = free + 1
  /\ Goto(s, answer)
  /\ UNCHANGED <<running, queue>>

\* A rolled back transaction that keeps its connection.
TransactionStep_Leaks(s, from, to) ==
  /\ req[s].pc = from
  /\ \/ tx[s] = "open" /\ Goto(s, to) /\ UNCHANGED <<tx, running, queue, free>>
     \/ /\ Goto(s, "error")
        /\ tx' = [tx EXCEPT ![s] = "closed"]
        /\ UNCHANGED <<running, queue, free>>

\* A query on the transaction's own client: Prisma refuses it once the
\* transaction is closed, and an exception of the handler rolls it back.
TransactionStep(s, from, to) ==
  /\ req[s].pc = from
  /\ \/ /\ tx[s] = "open"
        /\ Goto(s, to)
        /\ UNCHANGED <<tx, running, queue, free>>
     \/ /\ tx[s] = "open"
        /\ Finish(s, "closed", "error")
     \/ /\ tx[s] = "closed"
        /\ Goto(s, "error")
        /\ UNCHANGED <<tx, running, queue, free>>

\* removeMember calls getUserRole without its third argument as well.
AskOutside_EveryRole(s) ==
  /\ req[s].pc = "role" /\ req[s].op \in Guarded
  /\ Ask(s, 1, "outside")
  /\ UNCHANGED <<tx, running, free>>

\* shareOwnership asks for the role on the pool, whatever its transaction does.
AskOutside(s) ==
  /\ req[s].pc = "role" /\ req[s].op = "share"
  /\ Ask(s, 1, "outside")
  /\ UNCHANGED <<tx, running, free>>

\* The refusal of a role gives back a connection the timer already took.
GetUserRole(s) ==
  /\ req[s].pc = "outside"
  /\ running[s] > 0
  /\ running' = [running EXCEPT ![s] = 0]
  /\ UNCHANGED queue
  /\ \/ Goto(s, "member") /\ free' = free + 1 /\ UNCHANGED tx
     \/ /\ Goto(s, "error")
        /\ tx' = [tx EXCEPT ![s] = "closed"]
        /\ free' = free + IF tx[s] = "open" THEN 2 ELSE 1

CheckRole(s) ==
  /\ req[s].op # "share"
  /\ TransactionStep(s, "role", "member")

FindMember(s) == TransactionStep(s, "member", "write")

WriteMember(s) == TransactionStep(s, "write", "commit")

\* The result of the handler is returned without asking how the commit went.
Commit_Blind(s) ==
  /\ req[s].pc = "commit"
  /\ \/ tx[s] = "open" /\ Finish(s, "committed", "ok")
     \/ /\ tx[s] = "closed"
        /\ Goto(s, "ok")
        /\ UNCHANGED <<tx, running, queue, free>>

Commit(s) ==
  /\ req[s].pc = "commit"
  /\ \/ tx[s] = "open" /\ Finish(s, "committed", "ok")
     \/ /\ tx[s] = "closed"
        /\ Goto(s, "error")
        /\ UNCHANGED <<tx, running, queue, free>>

\* A transaction whose limit passes without closing it.
TimeOut_Ignored(s) == tx[s] = "open" /\ UNCHANGED vars

\* Prisma's timer rolls back a transaction that is open for too long; the
\* handler goes on until it touches the transaction again.
TimeOut(s) ==
  /\ tx[s] = "open"
  /\ tx' = [tx EXCEPT ![s] = "closed"]
  /\ free' = free + 1
  /\ UNCHANGED <<req, running, queue>>

--------------------------------------------------------------------------------
Handler(s) ==
  \/ RoleGuard(s) \/ GetDashboard(s) \/ CountsReturn(s)
  \/ AskOutside(s) \/ GetUserRole(s)
  \/ CheckRole(s) \/ FindMember(s) \/ WriteMember(s) \/ Commit(s)

Serve == ServeQuery \/ ServeTransaction

Next ==
  \/ \E s \in Slots : \/ \E op \in Ops : Start(s, op)
                      \/ Handler(s) \/ MaxWait(s) \/ TimeOut(s)
  \/ Serve

Fairness ==
  /\ WF_vars(Serve)
  /\ \A s \in Slots : WF_vars(Handler(s)) /\ WF_vars(TimeOut(s))

Spec == Init /\ [][Next]_vars /\ Fairness

--------------------------------------------------------------------------------
TypeOK ==
  /\ req \in [Slots -> [op : Ops, pc : Steps]]
  /\ tx \in [Slots -> {"none", "late", "open", "closed", "committed"}]
  /\ running \in [Slots -> 0 .. Fan]
  /\ queue \in Seq([slot : Slots, for : {"query", "transaction"}])
  /\ free \in 0 .. PoolSize

Holders == {s \in Slots : tx[s] = "open"}

\* The connections that are lent: number 0 of a slot is its transaction's, the
\* others are its running queries'.
Lent == {c \in Slots \X (0 .. Fan) :
           IF c[2] = 0 THEN tx[c[1]] = "open" ELSE c[2] <= running[c[1]]}

\* However a request ends (answered, refused, late, timed out while it waits),
\* every connection is either free or lent, and none to a request that rests
\* (and the state keeps its types).
NoConnectionLost ==
  /\ TypeOK
  /\ free + Cardinality(Lent) = PoolSize
  /\ \A s \in Slots : req[s].pc \in Resting =>
       s \notin Holders /\ running[s] = 0 /\ Waits(s) = 0

\* A handler that outlives its transaction never reports what was rolled back,
\* and one that committed never reports a failure.
AnswerTellsCommit ==
  \A s \in Slots :
    req[s].op \in Transactional /\ req[s].pc \in Resting \ {"new"} =>
      (req[s].pc = "ok" <=> tx[s] = "committed")

\* The pool stalls, with requests queued and every connection kept by someone
\* who queues, only when as many shareOwnership calls as it has connections are
\* inside their transaction: one fewer, or any number of other requests, never.
StallTakesAPoolOfShares ==
  (queue # <<>> /\ free = 0 /\ (\A s \in Slots : running[s] = 0)
     /\ \A s \in Holders : Waits(s) > 0)
    => Cardinality({s \in Holders : req[s].op = "share"}) = PoolSize

\* Even so every request is answered: Prisma's timer breaks the stall.
EveryRequestAnswered ==
  \A s \in Slots : req[s].pc \notin Resting ~> req[s].pc \in Resting

================================================================================
