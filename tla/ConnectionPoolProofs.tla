-------------------------- MODULE ConnectionPoolProofs --------------------------
(***************************************************************************)
(* What ConnectionPool guarantees for any number of requests in flight,    *)
(* any size of the pool and any number of queries sent together.           *)
(***************************************************************************)
EXTENDS ConnectionPool, FiniteSetTheorems, SequenceTheorems, TLAPS

Waiters == [slot : Slots, for : {"query", "transaction"}]

\* The places in q at which s waits.
Places(q, s) == {i \in DOMAIN q : q[i].slot = s}

\* Of n waiters of r, those that are of s.
Own(r, s, n) == IF r = s THEN n ELSE 0

\* The places of a slot in a queue can be counted; none counts none.
LEMMA PlacesCountable ==
  ASSUME NEW q \in Seq(Waiters), NEW s
  PROVE  /\ IsFiniteSet(Places(q, s))
         /\ Cardinality(Places(q, s)) \in Nat
         /\ Cardinality(Places(q, s)) = 0 <=> \A i \in DOMAIN q : q[i].slot # s
<1>1. IsFiniteSet(DOMAIN q)
  BY FS_Interval, DOMAIN q = 1 .. Len(q), Len(q) \in Int, 1 \in Int
<1>2. IsFiniteSet(Places(q, s))
  BY <1>1, FS_Subset DEF Places
<1>3. Cardinality(Places(q, s)) = 0 <=> Places(q, s) = {}
  BY <1>2, FS_EmptySet
<1> QED
  BY <1>2, <1>3, FS_CardinalityType DEF Places

\* Queueing waiters of one slot adds as many places to that slot.
LEMMA PlacesQueued ==
  ASSUME NEW q \in Seq(Waiters), NEW more \in Seq(Waiters), NEW r,
         \A i \in DOMAIN more : more[i].slot = r, NEW s
  PROVE  /\ q \o more \in Seq(Waiters)
         /\ Cardinality(Places(q \o more, s)) =
              Cardinality(Places(q, s)) + Own(r, s, Len(more))
         /\ \A i \in DOMAIN (q \o more) :
              \/ i \in DOMAIN q /\ (q \o more)[i] = q[i]
              \/ \E j \in DOMAIN more : (q \o more)[i] = more[j]
<1>1. /\ q \o more \in Seq(Waiters)
      /\ DOMAIN q = 1 .. Len(q) /\ DOMAIN more = 1 .. Len(more)
      /\ Len(q) \in Nat /\ Len(more) \in Nat
      /\ DOMAIN (q \o more) = 1 .. Len(q) + Len(more)
      /\ \A i \in 1 .. Len(q) : (q \o more)[i] = q[i]
  OBVIOUS
<1>2. \A i \in Len(q) + 1 .. Len(q) + Len(more) :
        i - Len(q) \in DOMAIN more /\ (q \o more)[i] = more[i - Len(q)]
  BY <1>1
<1> DEFINE Count == Cardinality(Places(q \o more, s)) =
                     Cardinality(Places(q, s)) + Own(r, s, Len(more))
<1>3. ASSUME r # s PROVE Count
  <2>1. Places(q \o more, s) = Places(q, s)
    BY <1>1, <1>2, <1>3 DEF Places
  <2> QED
    BY <1>1, <1>3, <2>1, PlacesCountable DEF Own
<1>4. ASSUME r = s PROVE Count
  <2> DEFINE new == Len(q) + 1 .. Len(q) + Len(more)
  <2>1. Places(q \o more, s) = Places(q, s) \cup new
    BY <1>1, <1>2, <1>4 DEF Places
  <2>2. Places(q, s) \cap new = {}
    BY <1>1 DEF Places
  <2>3. IsFiniteSet(new) /\ Cardinality(new) = Len(more)
    <3>1. PICK a \in Int, b \in Int : a = Len(q) + 1 /\ b = Len(q) + Len(more)
      BY <1>1
    <3>2. IsFiniteSet(a .. b) /\ Cardinality(a .. b) = IF a > b THEN 0 ELSE b - a + 1
      BY FS_Interval
    <3>3. IsFiniteSet(a .. b) /\ Cardinality(a .. b) = Len(more)
      BY <1>1, <3>1, <3>2
    <3> QED
      BY <3>1, <3>3
  <2> HIDE DEF new
  <2>4. IsFiniteSet(Places(q, s)) /\ Cardinality(Places(q, s)) \in Nat
    BY PlacesCountable
  <2>5. Cardinality(Places(q \o more, s)) =
          Cardinality(Places(q, s)) + Cardinality(new) - Cardinality({})
    BY <2>1, <2>2, <2>3, <2>4, FS_Union
  <2> QED
    BY <1>1, <1>4, <2>3, <2>4, <2>5, FS_EmptySet DEF Own
<1>5. ASSUME NEW i \in DOMAIN (q \o more), i \notin DOMAIN q
      PROVE  i - Len(q) \in DOMAIN more /\ (q \o more)[i] = more[i - Len(q)]
  BY <1>1, <1>2, <1>5
<1> QED
  BY <1>1, <1>3, <1>4, <1>5

\* So does queueing one.
LEMMA PlacesAppended ==
  ASSUME NEW q \in Seq(Waiters), NEW w \in Waiters, NEW s
  PROVE  /\ Append(q, w) \in Seq(Waiters)
         /\ Cardinality(Places(Append(q, w), s)) =
              Cardinality(Places(q, s)) + Own(w.slot, s, 1)
         /\ \A i \in DOMAIN Append(q, w) :
              \/ i \in DOMAIN q /\ Append(q, w)[i] = q[i]
              \/ Append(q, w)[i] = w
<1> DEFINE more == <<w>>
<1>1. Append(q, w) = q \o more
  BY AppendIsConcat
<1>2. more \in Seq(Waiters)
  OBVIOUS
<1>3. Len(more) = 1 /\ \A i \in DOMAIN more : more[i] = w
  OBVIOUS
<1> HIDE DEF more
<1>4. PICK r \in Slots : r = w.slot
  BY DEF Waiters
<1>5. \A i \in DOMAIN more : more[i].slot = r
  BY <1>3, <1>4
<1>6. q \o more \in Seq(Waiters)
  BY <1>2, <1>5, PlacesQueued
<1>7. Cardinality(Places(q \o more, s)) = Cardinality(Places(q, s)) + Own(r, s, Len(more))
  BY <1>2, <1>5, PlacesQueued
<1>8. \A i \in DOMAIN (q \o more) :
        \/ i \in DOMAIN q /\ (q \o more)[i] = q[i]
        \/ \E j \in DOMAIN more : (q \o more)[i] = more[j]
  BY <1>2, <1>5, PlacesQueued
<1> QED
  BY <1>1, <1>3, <1>4, <1>6, <1>7, <1>8

\* Serving the oldest waiter takes one place from its slot.
LEMMA PlacesServed ==
  ASSUME NEW q \in Seq(Waiters), q # <<>>, NEW s
  PROVE  /\ Tail(q) \in Seq(Waiters) /\ Head(q) \in Waiters
         /\ Cardinality(Places(q, s)) =
              Cardinality(Places(Tail(q), s)) + Own(Head(q).slot, s, 1)
         /\ \A i \in DOMAIN Tail(q) : i + 1 \in DOMAIN q /\ Tail(q)[i] = q[i + 1]
<1>1. /\ Tail(q) \in Seq(Waiters) /\ Head(q) \in Waiters /\ Head(q) = q[1]
      /\ Len(q) \in Nat \ {0} /\ Len(Tail(q)) = Len(q) - 1
      /\ \A i \in 1 .. Len(q) - 1 : Tail(q)[i] = q[i + 1]
      /\ DOMAIN q = 1 .. Len(q) /\ DOMAIN Tail(q) = 1 .. Len(q) - 1
  OBVIOUS
<1> DEFINE rest == Places(q, s) \ {1}
           up == [i \in Places(Tail(q), s) |-> i + 1]
<1>2. up \in Bijection(Places(Tail(q), s), rest)
  <2>1. up \in [Places(Tail(q), s) -> rest]
    BY <1>1 DEF Places
  <2>2. \A i, j \in Places(Tail(q), s) : up[i] = up[j] => i = j
    BY <1>1 DEF Places
  <2>3. \A j \in rest : \E i \in Places(Tail(q), s) : up[i] = j
    <3> SUFFICES ASSUME NEW j \in rest PROVE j - 1 \in Places(Tail(q), s) /\ up[j - 1] = j
      OBVIOUS
    <3>1. j \in 2 .. Len(q) /\ q[j].slot = s
      BY <1>1 DEF Places
    <3>2. j - 1 \in 1 .. Len(q) - 1 /\ Tail(q)[j - 1] = q[j]
      BY <1>1, <3>1
    <3>3. j - 1 \in Places(Tail(q), s)
      BY <1>1, <3>1, <3>2 DEF Places
    <3> QED
      BY <3>1, <3>3
  <2> QED
    BY <2>1, <2>2, <2>3 DEF Bijection, Injection, Surjection, IsInjective
<1>3. IsFiniteSet(Places(q, s)) /\ IsFiniteSet(Places(Tail(q), s))
  BY <1>1, PlacesCountable
<1>4. Cardinality(rest) = Cardinality(Places(Tail(q), s))
  BY <1>2, <1>3, FS_Bijection DEF ExistsBijection
<1>5. Cardinality(rest) = IF 1 \in Places(q, s) THEN Cardinality(Places(q, s)) - 1
                                              ELSE Cardinality(Places(q, s))
  BY <1>3, FS_RemoveElement
<1>6. 1 \in Places(q, s) <=> Head(q).slot = s
  BY <1>1 DEF Places
<1>7. Cardinality(Places(q, s)) \in Nat
  BY PlacesCountable
<1> QED
  BY <1>1, <1>4, <1>5, <1>6, <1>7 DEF Own

--------------------------------------------------------------------------------
(* Connections *)

\* The connections lent under transactions x and running queries n, and how many
\* a slot with transaction t and n running queries holds.
LentBy(x, n) == {c \in Slots \X (0 .. Fan) :
                   IF c[2] = 0 THEN x[c[1]] = "open" ELSE c[2] <= n[c[1]]}
Holds(t, n) == n + IF t = "open" THEN 1 ELSE 0

\* Connections can be counted, and slot by slot.
LEMMA LentSplit ==
  ASSUME NEW x, NEW n \in [Slots -> 0 .. Fan], NEW s \in Slots
  PROVE  LET others == {c \in LentBy(x, n) : c[1] # s} IN
         /\ Cardinality(others) \in Nat
         /\ Cardinality(LentBy(x, n)) = Cardinality(others) + Holds(x[s], n[s])
<1> DEFINE all == Slots \X (0 .. Fan)
           others == {c \in LentBy(x, n) : c[1] # s}
           mine == {c \in LentBy(x, n) : c[1] = s}
           low == IF x[s] = "open" THEN 0 ELSE 1
           pair == [i \in low .. n[s] |-> <<s, i>>]
<1>0. Fan \in Nat /\ n[s] \in 0 .. Fan /\ low \in 0 .. 1
  BY PoolPositive
<1>1. IsFiniteSet(all)
  <2>1. IsFiniteSet(0 .. Fan)
    BY <1>0, FS_Interval, 0 \in Int, Fan \in Int
  <2> QED
    BY <2>1, SlotsFinite, FS_Product
<1>2. IsFiniteSet(others) /\ IsFiniteSet(mine)
  <2>1. others \subseteq all /\ mine \subseteq all
    BY DEF LentBy
  <2> QED
    BY <1>1, <2>1, FS_Subset
<1>3. LentBy(x, n) = others \cup mine /\ others \cap mine = {}
  OBVIOUS
<1>4. Cardinality(others) \in Nat
  BY <1>2, FS_CardinalityType
<1>5. Cardinality(mine) = Holds(x[s], n[s])
  <2>1. pair \in Bijection(low .. n[s], mine)
    <3>1. \A i \in low .. n[s] : <<s, i>> \in mine
      BY <1>0 DEF LentBy
    <3>2. \A c \in mine : c[2] \in low .. n[s] /\ c = <<s, c[2]>>
      BY <1>0 DEF LentBy
    <3>3. pair \in [low .. n[s] -> mine]
      BY <3>1
    <3>4. \A i, j \in low .. n[s] : pair[i] = pair[j] => i = j
      OBVIOUS
    <3>5. \A c \in mine : \E i \in low .. n[s] : pair[i] = c
      BY <3>2
    <3> QED
      BY <3>3, <3>4, <3>5 DEF Bijection, Injection, Surjection, IsInjective
  <2>2. PICK a \in Int, b \in Int : a = low /\ b = n[s]
    BY <1>0
  <2>3. IsFiniteSet(a .. b) /\ Cardinality(a .. b) = IF a > b THEN 0 ELSE b - a + 1
    BY FS_Interval
  <2>4. IsFiniteSet(low .. n[s]) /\ Cardinality(low .. n[s]) = Holds(x[s], n[s])
    BY <1>0, <2>2, <2>3 DEF Holds
  <2>5. ExistsBijection(low .. n[s], mine)
    BY <2>1 DEF ExistsBijection
  <2> HIDE DEF low, mine
  <2> QED
    BY <2>4, <2>5, FS_Bijection
<1>6. Cardinality(LentBy(x, n)) = Cardinality(others) + Cardinality(mine) - Cardinality({})
  <2> HIDE DEF others, mine
  <2> QED
    BY <1>2, <1>3, FS_Union
<1>7. Cardinality(LentBy(x, n)) = Cardinality(others) + Holds(x[s], n[s])
  <2> HIDE DEF others, mine
  <2>1. Holds(x[s], n[s]) \in Nat
    BY <1>0 DEF Holds
  <2> QED
    BY <1>4, <1>5, <1>6, <2>1, FS_EmptySet
<1> QED
  BY <1>4, <1>7

\* A step of one slot changes the number of connections lent by that slot's.
LEMMA LentStep ==
  ASSUME NEW x, NEW n \in [Slots -> 0 .. Fan], NEW y, NEW m \in [Slots -> 0 .. Fan],
         NEW s \in Slots, \A o \in Slots \ {s} : y[o] = x[o] /\ m[o] = n[o]
  PROVE  \E rest \in Nat :
           /\ Cardinality(LentBy(x, n)) = rest + Holds(x[s], n[s])
           /\ Cardinality(LentBy(y, m)) = rest + Holds(y[s], m[s])
<1>1. {c \in LentBy(y, m) : c[1] # s} = {c \in LentBy(x, n) : c[1] # s}
  BY DEF LentBy
<1>2. PICK rest \in Nat : rest = Cardinality({c \in LentBy(x, n) : c[1] # s})
  BY LentSplit
<1>3. Cardinality(LentBy(x, n)) = rest + Holds(x[s], n[s])
  BY <1>2, LentSplit
<1>4. Cardinality(LentBy(y, m)) = rest + Holds(y[s], m[s])
  BY <1>1, <1>2, LentSplit
<1> QED
  BY <1>3, <1>4


--------------------------------------------------------------------------------
(* The invariant *)

\* What a slot serving op has at step pc: its transaction t, the number n of its
\* queries with a connection and the number w of its waiters in the queue.  A
\* request waits for one thing at a time, its transaction lives from "begin" to
\* the answer, and only the answer of a committed one is "ok".
Fits(op, pc, t, n, w) ==
  /\ pc \in {"guard", "groups", "outside"} => n + w = 1
  /\ pc = "fan" => n + w \in 1 .. Fan
  /\ pc = "begin" => n = 0 /\ w = 1
  /\ pc \in Resting \cup (InTransaction \ {"outside"}) => n = 0 /\ w = 0
  /\ pc \in {"new", "guard", "groups", "fan"} => t = "none"
  /\ pc = "begin" => t \in {"none", "late"}
  /\ pc \in InTransaction => t \in {"open", "closed"}
  /\ pc \in Resting => t \in {"none", "closed", "committed"}
  /\ pc \in {"groups", "fan"} => op = "dashboard"
  /\ pc = "outside" => op = "share"
  /\ op \in Transactional /\ pc \in Resting \ {"new"} => (pc = "ok" <=> t = "committed")

SlotFits(s) == Fits(req[s].op, req[s].pc, tx[s], running[s], Waits(s))

\* A transaction is waited for exactly at "begin".
AskersWait ==
  \A i \in DOMAIN queue : queue[i].for = "transaction" <=> req[queue[i].slot].pc = "begin"

PoolInv ==
  /\ TypeOK
  /\ free + Cardinality(Lent) = PoolSize
  /\ AskersWait
  /\ \A s \in Slots : SlotFits(s)

\* How one slot moves: its request becomes r, its transaction t, its running
\* queries n, and the connections it holds less or more go to or come from the
\* free ones.
Moves(s, r, t, n) ==
  /\ req' = [req EXCEPT ![s] = r]
  /\ tx' = [tx EXCEPT ![s] = t]
  /\ running' = [running EXCEPT ![s] = n]
  /\ free' \in Nat
  /\ free' + Holds(t, n) = free + Holds(tx[s], running[s])

\* Whatever one slot does, the connections lent to the others stay lent.
LEMMA OthersStayLent ==
  ASSUME running \in [Slots -> 0 .. Fan], running' \in [Slots -> 0 .. Fan], NEW s \in Slots,
         \A o \in Slots \ {s} : tx'[o] = tx[o] /\ running'[o] = running[o]
  PROVE  \E rest \in Nat :
           /\ Cardinality(Lent) = rest + Holds(tx[s], running[s])
           /\ Cardinality(Lent') = rest + Holds(tx'[s], running'[s])
<1>1. Lent = LentBy(tx, running) /\ Lent' = LentBy(tx', running')
  BY DEF Lent, LentBy
<1>2. \E rest \in Nat :
        /\ Cardinality(LentBy(tx, running)) = rest + Holds(tx[s], running[s])
        /\ Cardinality(LentBy(tx', running')) = rest + Holds(tx'[s], running'[s])
  BY LentStep
<1> QED
  BY <1>1, <1>2

\* A step of one slot keeps the invariant when the slot fits its new step and the
\* queue its waiters.
LEMMA SlotMoves ==
  ASSUME PoolInv, NEW s \in Slots,
         NEW r \in [op : Ops, pc : Steps],
         NEW t \in {"none", "late", "open", "closed", "committed"}, NEW n \in 0 .. Fan,
         Moves(s, r, t, n),
         queue' \in Seq(Waiters), AskersWait',
         \A o \in Slots \ {s} : Waits(o)' = Waits(o),
         Fits(r.op, r.pc, t, n, Waits(s)')
  PROVE  PoolInv'
<1>0. TypeOK
  BY DEF PoolInv
<1>1. /\ req'[s] = r /\ tx'[s] = t /\ running'[s] = n
      /\ \A o \in Slots \ {s} : req'[o] = req[o] /\ tx'[o] = tx[o] /\ running'[o] = running[o]
  BY <1>0 DEF Moves, TypeOK
<1>2. \A o \in Slots : SlotFits(o)'
  BY <1>1 DEF SlotFits, PoolInv
<1>3. free' + Cardinality(Lent') = PoolSize /\ free' \in 0 .. PoolSize
  <2>1. running \in [Slots -> 0 .. Fan] /\ running' \in [Slots -> 0 .. Fan]
    BY <1>0 DEF TypeOK, Moves
  <2>2. PICK rest \in Nat :
          /\ Cardinality(Lent) = rest + Holds(tx[s], running[s])
          /\ Cardinality(Lent') = rest + Holds(tx'[s], running'[s])
    BY <1>1, <2>1, OthersStayLent
  <2>3. PICK had \in Nat, has \in Nat : had = Holds(tx[s], running[s]) /\ has = Holds(t, n)
    <3>1. Fan \in Nat /\ running[s] \in Nat /\ n \in Nat
      BY <1>0, PoolPositive DEF TypeOK
    <3> QED
      BY <3>1 DEF Holds
  <2>4. PICK f \in Nat, g \in Nat, size \in Nat : f = free /\ g = free' /\ size = PoolSize
    BY <1>0, PoolPositive DEF TypeOK, Moves
  <2>5. g + has = f + had /\ f + (rest + had) = size
    BY <2>2, <2>3, <2>4 DEF Moves, PoolInv
  <2>6. g + (rest + has) = size
    BY <2>5
  <2> QED
    BY <1>1, <2>2, <2>3, <2>4, <2>6
<1>4. TypeOK'
  BY <1>0, <1>3 DEF TypeOK, Moves, Waiters
<1> QED
  BY <1>2, <1>3, <1>4 DEF PoolInv

\* What the queue says of its waiters.
LEMMA QueueTyped ==
  ASSUME PoolInv
  PROVE  /\ queue \in Seq(Waiters)
         /\ \A s \in Slots : /\ Waits(s) = Cardinality(Places(queue, s))
                             /\ Waits(s) \in Nat
                             /\ Waits(s) = 0 => \A i \in DOMAIN queue : queue[i].slot # s
         /\ \A i \in DOMAIN queue : queue[i] \in Waiters /\ queue[i].slot \in Slots
<1>1. queue \in Seq(Waiters)
  BY DEF PoolInv, TypeOK, Waiters
<1>2. \A s : Waits(s) = Cardinality(Places(queue, s))
  BY DEF Waits, Places
<1>3. \A w \in Waiters : w.slot \in Slots
  BY DEF Waiters
<1>4. \A i \in DOMAIN queue : queue[i] \in Waiters
  BY <1>1
<1> QED
  BY <1>1, <1>2, <1>3, <1>4, PlacesCountable

\* A queue left alone still fits, unless the step leaves or enters "begin".
LEMMA QueueStays ==
  ASSUME PoolInv, NEW s \in Slots, UNCHANGED queue,
         \A o \in Slots \ {s} : req'[o] = req[o],
         req[s].pc = "begin" <=> req'[s].pc = "begin"
  PROVE  /\ queue' \in Seq(Waiters)
         /\ \A o \in Slots : Waits(o)' = Waits(o)
         /\ AskersWait'
<1>1. queue' \in Seq(Waiters) /\ \A i \in DOMAIN queue : queue[i].slot \in Slots
  BY QueueTyped
<1>2. \A o \in Slots : Waits(o)' = Waits(o)
  BY DEF Waits
<1>3. AskersWait'
  BY <1>1 DEF AskersWait, PoolInv
<1> QED
  BY <1>1, <1>2, <1>3

\* Slot s queues for n connections of one kind, which its next step awaits.
LEMMA QueueGrows ==
  ASSUME PoolInv, NEW s \in Slots, NEW w \in Waiters, w.slot = s, NEW n \in Nat,
         queue' \in Seq(Waiters),
         \A o : Cardinality(Places(queue', o)) =
                  Cardinality(Places(queue, o)) + Own(s, o, n),
         \A i \in DOMAIN queue' :
           \/ i \in DOMAIN queue /\ queue'[i] = queue[i]
           \/ queue'[i] = w,
         \A o \in Slots \ {s} : req'[o] = req[o],
         Waits(s) = 0,
         w.for = "transaction" <=> req'[s].pc = "begin"
  PROVE  /\ Waits(s)' = n
         /\ \A o \in Slots \ {s} : Waits(o)' = Waits(o)
         /\ AskersWait'
<1>1. \A o : Waits(o)' = Cardinality(Places(queue', o))
  BY DEF Waits, Places
<1>2. Waits(s)' = n /\ \A o \in Slots \ {s} : Waits(o)' = Waits(o)
  BY <1>1, QueueTyped DEF Own
<1>3. ASSUME NEW i \in DOMAIN queue'
      PROVE  queue'[i].for = "transaction" <=> req'[queue'[i].slot].pc = "begin"
  <2>1. CASE i \in DOMAIN queue /\ queue'[i] = queue[i]
    <3>1. queue[i].slot \in Slots \ {s}
      BY <2>1, QueueTyped
    <3> QED
      BY <2>1, <3>1 DEF PoolInv, AskersWait
  <2>2. CASE queue'[i] = w
    BY <2>2
  <2> QED
    BY <2>1, <2>2
<1> QED
  BY <1>2, <1>3 DEF AskersWait

\* The oldest waiter, of slot s, leaves the queue; if s leaves "begin", it was the
\* last of its slot.
LEMMA QueueServed ==
  ASSUME PoolInv, NEW s \in Slots,
         queue' \in Seq(Waiters),
         \A o : Cardinality(Places(queue, o)) =
                  Cardinality(Places(queue', o)) + Own(s, o, 1),
         \A i \in DOMAIN queue' : i + 1 \in DOMAIN queue /\ queue'[i] = queue[i + 1],
         \A o \in Slots \ {s} : req'[o] = req[o],
         req'[s] = req[s] \/ (Waits(s) = 1 /\ req'[s].pc # "begin")
  PROVE  /\ Waits(s)' \in Nat /\ Waits(s) = Waits(s)' + 1
         /\ \A o \in Slots \ {s} : Waits(o)' = Waits(o)
         /\ AskersWait'
<1>1. \A o : /\ Waits(o)' = Cardinality(Places(queue', o))
             /\ Cardinality(Places(queue', o)) \in Nat
             /\ Cardinality(Places(queue', o)) = 0 => \A i \in DOMAIN queue' : queue'[i].slot # o
  BY PlacesCountable DEF Waits, Places
<1>2. /\ Waits(s)' \in Nat /\ Waits(s) = Waits(s)' + 1
      /\ \A o \in Slots \ {s} : Waits(o)' = Waits(o)
  BY <1>1, QueueTyped DEF Own
<1>3. \A i \in DOMAIN queue' : queue'[i].slot \in Slots
  BY QueueTyped
<1>4. CASE req'[s] = req[s]
  <2>1. \A o \in Slots : req'[o] = req[o]
    BY <1>4
  <2> QED
    BY <1>2, <1>3, <2>1 DEF AskersWait, PoolInv
<1>5. CASE Waits(s) = 1 /\ req'[s].pc # "begin"
  <2>1. \A i \in DOMAIN queue' : queue'[i].slot \in Slots \ {s}
    BY <1>1, <1>2, <1>3, <1>5
  <2> QED
    BY <1>2, <2>1 DEF AskersWait, PoolInv
<1> QED
  BY <1>4, <1>5

\* What the invariant says of one slot.
LEMMA SlotTyped ==
  ASSUME PoolInv, NEW s \in Slots
  PROVE  /\ req[s].op \in Ops /\ req[s].pc \in Steps
         /\ tx[s] \in {"none", "late", "open", "closed", "committed"}
         /\ running[s] \in Nat /\ running[s] \in 0 .. Fan /\ Waits(s) \in Nat
         /\ Fan \in Nat \ {0} /\ free \in Nat
         /\ Fits(req[s].op, req[s].pc, tx[s], running[s], Waits(s))
<1>1. Fan \in Nat \ {0} /\ PoolSize \in Nat
  BY PoolPositive
<1>2. Waits(s) \in Nat
  BY QueueTyped
<1> QED
  BY <1>1, <1>2 DEF PoolInv, TypeOK, SlotFits

\* What a step leaves alone it leaves alone for s, and Goto changes s only.
LEMMA Steady ==
  ASSUME PoolInv, NEW s \in Slots
  PROVE  /\ UNCHANGED req => req' = [req EXCEPT ![s] = [op |-> req[s].op, pc |-> req[s].pc]]
         /\ UNCHANGED tx => tx' = [tx EXCEPT ![s] = tx[s]]
         /\ UNCHANGED running => running' = [running EXCEPT ![s] = running[s]]
         /\ \A step \in Steps : Goto(s, step) =>
              req' = [req EXCEPT ![s] = [op |-> req[s].op, pc |-> step]]
<1>1. TypeOK
  BY DEF PoolInv
<1>2. req[s] = [op |-> req[s].op, pc |-> req[s].pc]
  BY <1>1 DEF TypeOK
<1>3. UNCHANGED req => req' = [req EXCEPT ![s] = [op |-> req[s].op, pc |-> req[s].pc]]
  BY <1>1, <1>2 DEF TypeOK
<1>4. ASSUME NEW step \in Steps, Goto(s, step)
      PROVE  req' = [req EXCEPT ![s] = [op |-> req[s].op, pc |-> step]]
  <2>1. req' = [req EXCEPT ![s] = [req[s] EXCEPT !.pc = step]]
    BY <1>4 DEF Goto
  <2>2. \A e \in [op : Ops, pc : Steps] : [e EXCEPT !.pc = step] = [op |-> e.op, pc |-> step]
    OBVIOUS
  <2>3. req[s] \in [op : Ops, pc : Steps]
    BY <1>1 DEF TypeOK
  <2> QED
    BY <2>1, <2>2, <2>3
<1> QED
  BY <1>1, <1>3, <1>4 DEF TypeOK

\* A step of one slot that queues nothing and serves nobody.
LEMMA MovesAlone ==
  ASSUME PoolInv, NEW s \in Slots, NEW step \in Steps,
         NEW t \in {"none", "late", "open", "closed", "committed"}, NEW n \in 0 .. Fan,
         Moves(s, [op |-> req[s].op, pc |-> step], t, n),
         UNCHANGED queue,
         req[s].pc = "begin" <=> step = "begin",
         Fits(req[s].op, step, t, n, Waits(s))
  PROVE  PoolInv'
<1> DEFINE r == [op |-> req[s].op, pc |-> step]
<1>1. r \in [op : Ops, pc : Steps]
  BY SlotTyped
<1>2. req'[s] = r /\ \A o \in Slots \ {s} : req'[o] = req[o]
  BY DEF Moves, PoolInv, TypeOK
<1>3. queue' \in Seq(Waiters) /\ AskersWait' /\ \A o \in Slots : Waits(o)' = Waits(o)
  BY <1>2, QueueStays
<1>4. r.op = req[s].op /\ r.pc = step
  OBVIOUS
<1> HIDE DEF r
<1>5. Moves(s, r, t, n)
  BY DEF r
<1>6. Fits(r.op, r.pc, t, n, Waits(s)')
  BY <1>3, <1>4
<1> QED
  BY <1>1, <1>3, <1>5, <1>6, SlotMoves

\* A step of one slot that queues it for n connections of one kind.
LEMMA MovesAsking ==
  ASSUME PoolInv, NEW s \in Slots, NEW r \in [op : Ops, pc : Steps],
         NEW t \in {"none", "late", "open", "closed", "committed"}, NEW m \in 0 .. Fan,
         Moves(s, r, t, m),
         NEW w \in Waiters, w.slot = s, NEW n \in Nat,
         queue' \in Seq(Waiters),
         \A o : Cardinality(Places(queue', o)) =
                  Cardinality(Places(queue, o)) + Own(s, o, n),
         \A i \in DOMAIN queue' :
           \/ i \in DOMAIN queue /\ queue'[i] = queue[i]
           \/ queue'[i] = w,
         Waits(s) = 0,
         w.for = "transaction" <=> r.pc = "begin",
         Fits(r.op, r.pc, t, m, n)
  PROVE  PoolInv'
<1>1. req'[s] = r /\ \A o \in Slots \ {s} : req'[o] = req[o]
  BY DEF Moves, PoolInv, TypeOK
<1>2. Waits(s)' = n /\ AskersWait' /\ \A o \in Slots \ {s} : Waits(o)' = Waits(o)
  BY <1>1, QueueGrows
<1>3. Fits(r.op, r.pc, t, m, Waits(s)')
  BY <1>2
<1> QED
  BY <1>2, <1>3, SlotMoves

--------------------------------------------------------------------------------
(* The steps *)

LEMMA MaxWaitKeeps ==
  ASSUME PoolInv, NEW s \in Slots, MaxWait(s) PROVE PoolInv'
<1>1. Moves(s, [op |-> req[s].op, pc |-> req[s].pc], "late", running[s])
  BY SlotTyped, Steady DEF MaxWait, Moves, Holds
<1>2. Fits(req[s].op, req[s].pc, "late", running[s], Waits(s))
  BY SlotTyped DEF MaxWait, Fits, Resting, InTransaction
<1>3. UNCHANGED queue
  BY DEF MaxWait
<1> QED
  BY <1>1, <1>2, <1>3, SlotTyped, MovesAlone

LEMMA TimeOutKeeps ==
  ASSUME PoolInv, NEW s \in Slots, TimeOut(s) PROVE PoolInv'
<1>1. Moves(s, [op |-> req[s].op, pc |-> req[s].pc], "closed", running[s])
  <2>1. PICK f \in Nat, n \in Nat : f = free /\ n = running[s]
    BY SlotTyped
  <2>2. free' = f + 1 /\ Holds(tx[s], n) = n + 1 /\ Holds("closed", n) = n
    BY <2>1 DEF TimeOut, Holds
  <2>3. free' \in Nat /\ free' + Holds("closed", running[s]) = free + Holds(tx[s], running[s])
    BY <2>1, <2>2
  <2> QED
    BY <2>3, Steady DEF TimeOut, Moves
<1>2. Fits(req[s].op, req[s].pc, "closed", running[s], Waits(s))
  BY SlotTyped DEF TimeOut, Fits, Resting, InTransaction, Steps
<1>3. UNCHANGED queue
  BY DEF TimeOut
<1> QED
  BY <1>1, <1>2, <1>3, SlotTyped, MovesAlone

LEMMA CountsReturnKeeps ==
  ASSUME PoolInv, NEW s \in Slots, CountsReturn(s) PROVE PoolInv'
<1>1. PICK step \in Steps : /\ req' = [req EXCEPT ![s] = [op |-> req[s].op, pc |-> step]]
                            /\ IF Last(s) THEN step = "ok" ELSE step = "fan"
  BY SlotTyped, Steady DEF CountsReturn, Steps, Resting
<1>2. running[s] - 1 \in 0 .. Fan
  BY SlotTyped DEF CountsReturn, Returned
<1>3. Moves(s, [op |-> req[s].op, pc |-> step], tx[s], running[s] - 1)
  <2>1. PICK f \in Nat, n \in Nat : f = free /\ n = running[s] - 1
    BY <1>2, SlotTyped
  <2>2. /\ free' = f + 1 /\ running[s] = n + 1
        /\ tx[s] = "none" /\ Holds(tx[s], n + 1) = n + 1 /\ Holds(tx[s], n) = n
    BY <2>1, SlotTyped DEF CountsReturn, Returned, Holds, Fits
  <2>3. free' \in Nat /\ free' + Holds(tx[s], running[s] - 1) = free + Holds(tx[s], running[s])
    BY <2>1, <2>2
  <2> QED
    BY <1>1, <2>3, Steady DEF CountsReturn, Returned, Moves
<1>4. Fits(req[s].op, step, tx[s], running[s] - 1, Waits(s))
  BY <1>1, SlotTyped DEF CountsReturn, Returned, Last, Fits, Resting, InTransaction, Transactional
<1>5. UNCHANGED queue /\ (req[s].pc = "begin" <=> step = "begin")
  BY <1>1 DEF CountsReturn
<1> QED
  BY <1>2, <1>3, <1>4, <1>5, SlotTyped, MovesAlone

LEMMA GetUserRoleKeeps ==
  ASSUME PoolInv, NEW s \in Slots, GetUserRole(s) PROVE PoolInv'
<1>1. running[s] = 1 /\ Waits(s) = 0 /\ tx[s] \in {"open", "closed"} /\ req[s].op = "share"
  BY SlotTyped DEF GetUserRole, Fits, InTransaction
<1>2. UNCHANGED queue /\ req[s].pc = "outside" /\ 0 \in 0 .. Fan
  BY SlotTyped DEF GetUserRole
<1>3. CASE Goto(s, "member") /\ free' = free + 1 /\ UNCHANGED tx
  <2>1. Moves(s, [op |-> req[s].op, pc |-> "member"], tx[s], 0)
    <3>1. PICK f \in Nat : f = free
      BY SlotTyped
    <3>2. PICK h \in Nat : h = Holds(tx[s], 0) /\ Holds(tx[s], 1) = h + 1
      BY DEF Holds
    <3>3. free' \in Nat /\ free' + Holds(tx[s], 0) = free + Holds(tx[s], running[s])
      BY <1>1, <1>3, <3>1, <3>2
    <3>4. req' = [req EXCEPT ![s] = [op |-> req[s].op, pc |-> "member"]]
      BY <1>3, Steady DEF Steps, InTransaction
    <3> QED
      BY <1>3, <3>3, <3>4, Steady DEF GetUserRole, Moves
  <2>2. Fits(req[s].op, "member", tx[s], 0, Waits(s))
    BY <1>1, <1>3 DEF Fits, Resting, InTransaction
  <2>3. "member" \in Steps
    BY DEF Steps, InTransaction
  <2> QED
    BY <1>2, <2>1, <2>2, <2>3, SlotTyped, MovesAlone
<1>4. CASE /\ Goto(s, "error")
           /\ tx' = [tx EXCEPT ![s] = "closed"]
           /\ free' = free + IF tx[s] = "open" THEN 2 ELSE 1
  <2>1. Moves(s, [op |-> req[s].op, pc |-> "error"], "closed", 0)
    <3>1. PICK f \in Nat : f = free
      BY SlotTyped
    <3>2. free' \in Nat /\ free' = f + Holds(tx[s], 1) /\ Holds("closed", 0) = 0
      BY <1>1, <1>4, <3>1 DEF Holds
    <3>3. req' = [req EXCEPT ![s] = [op |-> req[s].op, pc |-> "error"]]
      BY <1>4, Steady DEF Steps, Resting
    <3> QED
      BY <1>1, <1>4, <3>1, <3>2, <3>3, Steady DEF GetUserRole, Moves
  <2>2. Fits(req[s].op, "error", "closed", 0, Waits(s))
    BY <1>1, <1>4 DEF Fits, Resting, InTransaction
  <2>3. "error" \in Steps
    BY DEF Steps, Resting
  <2> QED
    BY <1>2, <2>1, <2>2, <2>3, MovesAlone
<1> QED
  BY <1>3, <1>4 DEF GetUserRole

\* A transaction that goes on, or that finds itself closed and answers an error.
LEMMA GoesOnKeeps ==
  ASSUME PoolInv, NEW s \in Slots, NEW to \in Steps,
         req[s].pc \in InTransaction \ {"outside"},
         to \in InTransaction \ {"outside"} \/ (tx[s] = "closed" /\ to = "error"),
         Goto(s, to), UNCHANGED <<tx, running, queue, free>>
  PROVE  PoolInv'
<1>1. Moves(s, [op |-> req[s].op, pc |-> to], tx[s], running[s])
  BY SlotTyped, Steady DEF Moves
<1>2. Fits(req[s].op, to, tx[s], running[s], Waits(s))
  BY SlotTyped DEF Fits, Resting, InTransaction
<1>3. req[s].pc = "begin" <=> to = "begin"
  BY DEF InTransaction
<1> QED
  BY <1>1, <1>2, <1>3, SlotTyped, MovesAlone

\* A transaction that ends, with the answer of its end.
LEMMA FinishKeeps ==
  ASSUME PoolInv, NEW s \in Slots, NEW end \in {"closed", "committed"},
         NEW answer \in {"ok", "error"}, answer = "ok" <=> end = "committed",
         req[s].pc \in InTransaction \ {"outside"}, tx[s] = "open",
         Finish(s, end, answer)
  PROVE  PoolInv'
<1>1. Moves(s, [op |-> req[s].op, pc |-> answer], end, running[s])
  <2>1. PICK f \in Nat, n \in Nat : f = free /\ n = running[s]
    BY SlotTyped
  <2>2. free' = f + 1 /\ Holds(tx[s], n) = n + 1 /\ Holds(end, n) = n
    BY <2>1 DEF Finish, Holds
  <2>3. free' \in Nat /\ free' + Holds(end, running[s]) = free + Holds(tx[s], running[s])
    BY <2>1, <2>2
  <2>4. req' = [req EXCEPT ![s] = [op |-> req[s].op, pc |-> answer]]
    BY Steady DEF Finish, Steps, Resting
  <2> QED
    BY <2>3, <2>4, Steady DEF Finish, Moves
<1>2. Fits(req[s].op, answer, end, running[s], Waits(s))
  BY SlotTyped DEF Fits, Resting, InTransaction
<1>3. UNCHANGED queue /\ answer \in Steps /\ (req[s].pc = "begin" <=> answer = "begin")
  BY DEF Finish, InTransaction, Steps, Resting
<1> QED
  BY <1>1, <1>2, <1>3, SlotTyped, MovesAlone

LEMMA TransactionStepKeeps ==
  ASSUME PoolInv, NEW s \in Slots,
         NEW from \in InTransaction \ {"outside"}, NEW to \in InTransaction \ {"outside"},
         TransactionStep(s, from, to)
  PROVE  PoolInv'
<1>1. req[s].pc \in InTransaction \ {"outside"} /\ to \in Steps /\ "error" \in Steps
  BY DEF TransactionStep, Steps, Resting
<1>2. CASE tx[s] = "open" /\ Goto(s, to) /\ UNCHANGED <<tx, running, queue, free>>
  BY <1>1, <1>2, GoesOnKeeps
<1>3. CASE tx[s] = "open" /\ Finish(s, "closed", "error")
  BY <1>1, <1>3, FinishKeeps
<1>4. CASE tx[s] = "closed" /\ Goto(s, "error") /\ UNCHANGED <<tx, running, queue, free>>
  BY <1>1, <1>4, GoesOnKeeps
<1> QED
  BY <1>2, <1>3, <1>4 DEF TransactionStep

LEMMA CommitKeeps ==
  ASSUME PoolInv, NEW s \in Slots, Commit(s) PROVE PoolInv'
<1>1. req[s].pc \in InTransaction \ {"outside"} /\ "error" \in Steps
  BY DEF Commit, InTransaction, Steps, Resting
<1>2. CASE tx[s] = "open" /\ Finish(s, "committed", "ok")
  BY <1>1, <1>2, FinishKeeps
<1>3. CASE tx[s] = "closed" /\ Goto(s, "error") /\ UNCHANGED <<tx, running, queue, free>>
  BY <1>1, <1>3, GoesOnKeeps
<1> QED
  BY <1>2, <1>3 DEF Commit

\* Queries sent together reach the end of the queue.
LEMMA AskQueues ==
  ASSUME PoolInv, NEW s \in Slots, NEW n \in Nat,
         queue' = queue \o [i \in 1 .. n |-> Query(s)]
  PROVE  /\ Query(s) \in Waiters /\ Query(s).slot = s /\ Query(s).for = "query"
         /\ queue' \in Seq(Waiters)
         /\ \A o : Cardinality(Places(queue', o)) =
                     Cardinality(Places(queue, o)) + Own(s, o, n)
         /\ \A i \in DOMAIN queue' :
              \/ i \in DOMAIN queue /\ queue'[i] = queue[i]
              \/ queue'[i] = Query(s)
<1> DEFINE more == [i \in 1 .. n |-> Query(s)]
<1>1. Query(s) \in Waiters /\ Query(s).slot = s /\ Query(s).for = "query"
  BY DEF Waiters, Query
<1>2. more \in Seq(Waiters) /\ Len(more) = n /\ DOMAIN more = 1 .. n
  BY <1>1
<1>3. \A j \in DOMAIN more : more[j] = Query(s)
  OBVIOUS
<1> HIDE DEF more
<1>4. queue' = queue \o more
  BY DEF more
<1>5. queue \in Seq(Waiters)
  BY QueueTyped
<1>6. \A j \in DOMAIN more : more[j].slot = s
  BY <1>1, <1>3
<1>7. more \in Seq(Waiters)
  BY <1>2
<1>8. queue \o more \in Seq(Waiters)
  BY <1>5, <1>6, <1>7, PlacesQueued
<1>9. ASSUME NEW o
      PROVE  Cardinality(Places(queue \o more, o)) =
               Cardinality(Places(queue, o)) + Own(s, o, Len(more))
  BY <1>5, <1>6, <1>7, PlacesQueued
<1>10. \A i \in DOMAIN (queue \o more) :
         \/ i \in DOMAIN queue /\ (queue \o more)[i] = queue[i]
         \/ \E j \in DOMAIN more : (queue \o more)[i] = more[j]
  BY <1>5, <1>6, <1>7, PlacesQueued
<1>11. Len(more) = n
  BY <1>2
<1> QED
  BY <1>1, <1>3, <1>4, <1>8, <1>9, <1>10, <1>11

\* So does a single waiter.
LEMMA AppendQueues ==
  ASSUME PoolInv, NEW w \in Waiters, queue' = Append(queue, w)
  PROVE  /\ queue' \in Seq(Waiters)
         /\ \A o : Cardinality(Places(queue', o)) =
                     Cardinality(Places(queue, o)) + Own(w.slot, o, 1)
         /\ \A i \in DOMAIN queue' :
              \/ i \in DOMAIN queue /\ queue'[i] = queue[i]
              \/ queue'[i] = w
<1>1. queue \in Seq(Waiters)
  BY QueueTyped
<1>2. Append(queue, w) \in Seq(Waiters)
  BY <1>1, PlacesAppended
<1>3. ASSUME NEW o
      PROVE  Cardinality(Places(Append(queue, w), o)) =
               Cardinality(Places(queue, o)) + Own(w.slot, o, 1)
  BY <1>1, PlacesAppended
<1>4. \A i \in DOMAIN Append(queue, w) :
        \/ i \in DOMAIN queue /\ Append(queue, w)[i] = queue[i]
        \/ Append(queue, w)[i] = w
  BY <1>1, PlacesAppended
<1> QED
  BY <1>2, <1>3, <1>4

LEMMA StartKeeps ==
  ASSUME PoolInv, NEW s \in Slots, NEW op \in Ops, Start(s, op) PROVE PoolInv'
<1> DEFINE first == IF op \in Guarded THEN "guard" ELSE IF op = "leave" THEN "begin" ELSE "groups"
           wanted == IF op = "leave" THEN "transaction" ELSE "query"
           r == [op |-> op, pc |-> first]
           w == [slot |-> s, for |-> wanted]
<1>1. /\ req[s].pc \in Resting /\ UNCHANGED <<running, free>>
      /\ tx' = [tx EXCEPT ![s] = "none"] /\ req' = [req EXCEPT ![s] = r]
      /\ queue' = Append(queue, w)
  BY DEF Start
<1>2. r \in [op : Ops, pc : Steps] /\ r.op = op /\ r.pc = first
  BY DEF Steps
<1>3. w \in Waiters /\ w.slot = s /\ (w.for = "transaction" <=> r.pc = "begin")
  BY DEF Waiters, Guarded
<1>4. running[s] = 0 /\ Waits(s) = 0 /\ tx[s] \in {"none", "closed", "committed"}
  BY <1>1, SlotTyped DEF Fits, Resting
<1>5. Fits(op, first, "none", 0, 1)
  <2>1. Fan \in Nat \ {0}
    BY PoolPositive
  <2>2. first \in {"guard", "begin", "groups"} /\ (first = "groups" => op = "dashboard")
    BY DEF Ops, Guarded
  <2> HIDE DEF first
  <2> QED
    BY <2>1, <2>2 DEF Fits, Resting, InTransaction
<1> HIDE DEF r, w, first, wanted
<1>6. Moves(s, r, "none", 0)
  <2>1. running' = [running EXCEPT ![s] = 0]
    BY <1>1, <1>4, Steady
  <2>2. free' \in Nat /\ free' + Holds("none", 0) = free + Holds(tx[s], running[s])
    BY <1>1, <1>4, SlotTyped DEF Holds
  <2> QED
    BY <1>1, <2>1, <2>2 DEF Moves
<1>7. /\ queue' \in Seq(Waiters)
      /\ \A o : Cardinality(Places(queue', o)) =
                  Cardinality(Places(queue, o)) + Own(s, o, 1)
      /\ \A i \in DOMAIN queue' :
           \/ i \in DOMAIN queue /\ queue'[i] = queue[i]
           \/ queue'[i] = w
  BY <1>1, <1>3, AppendQueues
<1>8. 0 \in 0 .. Fan /\ 1 \in Nat
  BY PoolPositive
<1>9. Fits(r.op, r.pc, "none", 0, 1)
  BY <1>2, <1>5
<1> QED
  BY <1>2, <1>3, <1>4, <1>6, <1>7, <1>8, <1>9, MovesAsking

\* A query that returns, the only one of its slot.
LEMMA ReturnedOnly ==
  ASSUME PoolInv, NEW s \in Slots, Returned(s), UNCHANGED tx,
         req[s].pc \in {"guard", "groups"}
  PROVE  /\ running[s] = 1 /\ Waits(s) = 0 /\ tx[s] = "none"
         /\ tx' = [tx EXCEPT ![s] = "none"] /\ running' = [running EXCEPT ![s] = 0]
         /\ free' \in Nat /\ free' + Holds("none", 0) = free + Holds(tx[s], running[s])
<1>1. running[s] = 1 /\ Waits(s) = 0 /\ tx[s] = "none"
  BY SlotTyped DEF Returned, Fits
<1>2. PICK f \in Nat : f = free /\ free' = f + 1
  BY SlotTyped DEF Returned
<1>3. Holds("none", 0) = 0 /\ Holds(tx[s], running[s]) = 1
  BY <1>1 DEF Holds
<1>4. running' = [running EXCEPT ![s] = 0]
  <2>1. running' = [running EXCEPT ![s] = running[s] - 1]
    BY DEF Returned
  <2> QED
    BY <1>1, <2>1
<1>5. tx' = [tx EXCEPT ![s] = "none"]
  BY <1>1, Steady
<1>6. free' \in Nat /\ free' + Holds("none", 0) = free + Holds(tx[s], running[s])
  BY <1>2, <1>3
<1> QED
  BY <1>1, <1>4, <1>5, <1>6

LEMMA RoleGuardKeeps ==
  ASSUME PoolInv, NEW s \in Slots, RoleGuard(s) PROVE PoolInv'
<1>1. req[s].pc = "guard" /\ Returned(s) /\ UNCHANGED tx
  BY DEF RoleGuard
<1>2. /\ running[s] = 1 /\ Waits(s) = 0 /\ tx[s] = "none"
      /\ tx' = [tx EXCEPT ![s] = "none"] /\ running' = [running EXCEPT ![s] = 0]
      /\ free' \in Nat /\ free' + Holds("none", 0) = free + Holds(tx[s], running[s])
  BY <1>1, ReturnedOnly
<1>3. "error" \in Steps /\ "begin" \in Steps /\ 0 \in 0 .. Fan /\ 1 \in Nat
  BY PoolPositive DEF Steps, Resting
<1>4. CASE Goto(s, "error") /\ UNCHANGED queue
  <2>1. Moves(s, [op |-> req[s].op, pc |-> "error"], "none", 0)
    BY <1>2, <1>3, <1>4, Steady DEF Moves
  <2>2. Fits(req[s].op, "error", "none", 0, Waits(s))
    BY <1>2 DEF Fits, Resting, InTransaction
  <2> QED
    BY <1>1, <1>3, <1>4, <2>1, <2>2, MovesAlone
<1>5. CASE AskTransaction(s)
  <2> DEFINE r == [op |-> req[s].op, pc |-> "begin"]
             w == [slot |-> s, for |-> "transaction"]
  <2>1. r \in [op : Ops, pc : Steps] /\ r.op = req[s].op /\ r.pc = "begin"
    BY <1>3, SlotTyped
  <2>2. w \in Waiters /\ w.slot = s /\ w.for = "transaction"
    BY DEF Waiters
  <2>3. queue' = Append(queue, w) /\ Goto(s, "begin")
    BY <1>5 DEF AskTransaction
  <2>4. req' = [req EXCEPT ![s] = r]
    BY <1>3, <2>3, Steady
  <2> HIDE DEF r, w
  <2>5. Moves(s, r, "none", 0)
    BY <1>2, <2>4 DEF Moves
  <2>6. Fits(r.op, r.pc, "none", 0, 1)
    BY <2>1 DEF Fits, Resting, InTransaction
  <2>7. /\ queue' \in Seq(Waiters)
        /\ \A o : Cardinality(Places(queue', o)) =
                    Cardinality(Places(queue, o)) + Own(s, o, 1)
        /\ \A i \in DOMAIN queue' :
             \/ i \in DOMAIN queue /\ queue'[i] = queue[i]
             \/ queue'[i] = w
    BY <2>2, <2>3, AppendQueues
  <2> QED
    BY <1>2, <1>3, <2>1, <2>2, <2>5, <2>6, <2>7, MovesAsking
<1> QED
  BY <1>4, <1>5 DEF RoleGuard

LEMMA GetDashboardKeeps ==
  ASSUME PoolInv, NEW s \in Slots, GetDashboard(s) PROVE PoolInv'
<1>1. req[s].pc = "groups" /\ Returned(s) /\ UNCHANGED tx /\ Ask(s, Fan, "fan")
  BY DEF GetDashboard
<1>2. /\ running[s] = 1 /\ Waits(s) = 0 /\ tx[s] = "none"
      /\ tx' = [tx EXCEPT ![s] = "none"] /\ running' = [running EXCEPT ![s] = 0]
      /\ free' \in Nat /\ free' + Holds("none", 0) = free + Holds(tx[s], running[s])
  BY <1>1, ReturnedOnly
<1>3. "fan" \in Steps /\ 0 \in 0 .. Fan /\ Fan \in Nat /\ req[s].op = "dashboard"
  BY <1>1, SlotTyped DEF Steps, Fits
<1> DEFINE r == [op |-> req[s].op, pc |-> "fan"]
<1>4. r \in [op : Ops, pc : Steps] /\ r.op = req[s].op /\ r.pc = "fan"
  BY <1>3, SlotTyped
<1>5. req' = [req EXCEPT ![s] = r] /\ queue' = queue \o [i \in 1 .. Fan |-> Query(s)]
  BY <1>1, <1>3, Steady DEF Ask
<1> HIDE DEF r
<1>6. Moves(s, r, "none", 0)
  BY <1>2, <1>5 DEF Moves
<1>7. Fits(r.op, r.pc, "none", 0, Fan)
  BY <1>3, <1>4, PoolPositive DEF Fits, Resting, InTransaction, Transactional
<1>8. /\ Query(s) \in Waiters /\ Query(s).slot = s /\ Query(s).for = "query"
      /\ queue' \in Seq(Waiters)
      /\ \A o : Cardinality(Places(queue', o)) =
                  Cardinality(Places(queue, o)) + Own(s, o, Fan)
      /\ \A i \in DOMAIN queue' :
           \/ i \in DOMAIN queue /\ queue'[i] = queue[i]
           \/ queue'[i] = Query(s)
  BY <1>3, <1>5, AskQueues
<1> QED
  BY <1>2, <1>3, <1>4, <1>6, <1>7, <1>8, MovesAsking

LEMMA AskOutsideKeeps ==
  ASSUME PoolInv, NEW s \in Slots, AskOutside(s) PROVE PoolInv'
<1>1. /\ req[s].pc = "role" /\ req[s].op = "share"
      /\ Ask(s, 1, "outside") /\ UNCHANGED <<tx, running, free>>
  BY DEF AskOutside
<1>2. running[s] = 0 /\ Waits(s) = 0 /\ tx[s] \in {"open", "closed"}
  BY <1>1, SlotTyped DEF Fits, Resting, InTransaction
<1>3. "outside" \in Steps /\ 1 \in Nat
  BY DEF Steps, InTransaction
<1> DEFINE r == [op |-> req[s].op, pc |-> "outside"]
<1>4. r \in [op : Ops, pc : Steps] /\ r.op = req[s].op /\ r.pc = "outside"
  BY <1>3, SlotTyped
<1>5. req' = [req EXCEPT ![s] = r] /\ queue' = queue \o [i \in 1 .. 1 |-> Query(s)]
  BY <1>1, <1>3, Steady DEF Ask
<1> HIDE DEF r
<1>6. Moves(s, r, tx[s], running[s])
  BY <1>1, <1>5, SlotTyped, Steady DEF Moves
<1>7. Fits(r.op, r.pc, tx[s], running[s], 1)
  BY <1>1, <1>2, <1>4 DEF Fits, Resting, InTransaction
<1>8. /\ Query(s) \in Waiters /\ Query(s).slot = s /\ Query(s).for = "query"
      /\ queue' \in Seq(Waiters)
      /\ \A o : Cardinality(Places(queue', o)) =
                  Cardinality(Places(queue, o)) + Own(s, o, 1)
      /\ \A i \in DOMAIN queue' :
           \/ i \in DOMAIN queue /\ queue'[i] = queue[i]
           \/ queue'[i] = Query(s)
  BY <1>3, <1>5, AskQueues
<1> QED
  BY <1>2, <1>3, <1>4, <1>6, <1>7, <1>8, SlotTyped, MovesAsking

LEMMA ServeQueryKeeps ==
  ASSUME PoolInv, ServeQuery PROVE PoolInv'
<1>1. /\ queue # <<>> /\ queue \in Seq(Waiters) /\ queue' = Tail(queue)
      /\ UNCHANGED <<req, tx>> /\ free > 0 /\ free' = free - 1
      /\ Head(queue).for = "query"
      /\ running' = [running EXCEPT ![Head(queue).slot] = running[Head(queue).slot] + 1]
  BY QueueTyped DEF ServeQuery
<1>2. 1 \in DOMAIN queue /\ Head(queue) = queue[1]
  BY <1>1
<1>3. PICK s \in Slots : s = Head(queue).slot
  BY <1>2, QueueTyped
<1>4. /\ queue' \in Seq(Waiters)
      /\ \A o : Cardinality(Places(queue, o)) =
                  Cardinality(Places(queue', o)) + Own(s, o, 1)
      /\ \A i \in DOMAIN queue' : i + 1 \in DOMAIN queue /\ queue'[i] = queue[i + 1]
  <2>1. Tail(queue) \in Seq(Waiters)
    BY <1>1, PlacesServed
  <2>2. ASSUME NEW o
        PROVE  Cardinality(Places(queue, o)) =
                 Cardinality(Places(Tail(queue), o)) + Own(Head(queue).slot, o, 1)
    BY <1>1, PlacesServed
  <2>3. \A i \in DOMAIN Tail(queue) : i + 1 \in DOMAIN queue /\ Tail(queue)[i] = queue[i + 1]
    BY <1>1, PlacesServed
  <2> QED
    BY <1>1, <1>3, <2>1, <2>2, <2>3
<1>5. UNCHANGED req
  BY <1>1
<1>6. /\ Waits(s)' \in Nat /\ Waits(s) = Waits(s)' + 1
      /\ \A o \in Slots \ {s} : Waits(o)' = Waits(o)
      /\ AskersWait'
  BY <1>4, <1>5, QueueServed
<1>7. req[s].pc # "begin"
  BY <1>1, <1>2, <1>3 DEF PoolInv, AskersWait
<1>8. PICK n \in Nat, w \in Nat : n = running[s] /\ w = Waits(s)'
  BY <1>6, SlotTyped
<1>9. /\ n + 1 \in 0 .. Fan
      /\ Fits(req[s].op, req[s].pc, tx[s], n + 1, w)
  <2>1. Fits(req[s].op, req[s].pc, tx[s], n, w + 1) /\ Fan \in Nat \ {0} /\ req[s].pc \in Steps
    BY <1>6, <1>8, SlotTyped
  <2> QED
    BY <1>7, <2>1 DEF Fits, Steps, Resting, InTransaction
<1> DEFINE r == [op |-> req[s].op, pc |-> req[s].pc]
<1>10. r \in [op : Ops, pc : Steps] /\ r.op = req[s].op /\ r.pc = req[s].pc
  BY SlotTyped
<1>11. req' = [req EXCEPT ![s] = r]
  BY <1>5, Steady
<1> HIDE DEF r
<1>12. Moves(s, r, tx[s], n + 1)
  <2>1. PICK g \in Nat : g = free - 1
    BY <1>1, SlotTyped
  <2>2. PICK h \in Nat : h = Holds(tx[s], n) /\ Holds(tx[s], n + 1) = h + 1
    BY DEF Holds
  <2>3. free' \in Nat /\ free' + Holds(tx[s], n + 1) = free + Holds(tx[s], running[s])
    <3>1. free' = g /\ free = g + 1
      BY <1>1, <2>1, SlotTyped
    <3> QED
      BY <1>8, <2>2, <3>1
  <2>4. running' = [running EXCEPT ![s] = n + 1]
    BY <1>1, <1>3, <1>8
  <2> QED
    BY <1>1, <1>11, <2>3, <2>4, Steady DEF Moves
<1>13. Fits(r.op, r.pc, tx[s], n + 1, Waits(s)')
  BY <1>8, <1>9, <1>10
<1> QED
  BY <1>4, <1>6, <1>9, <1>10, <1>12, <1>13, SlotTyped, SlotMoves

LEMMA ServeTransactionKeeps ==
  ASSUME PoolInv, ServeTransaction PROVE PoolInv'
<1>1. /\ queue # <<>> /\ queue \in Seq(Waiters) /\ queue' = Tail(queue)
      /\ UNCHANGED running /\ free > 0
      /\ Head(queue).for = "transaction"
  BY QueueTyped DEF ServeTransaction
<1>2. 1 \in DOMAIN queue /\ Head(queue) = queue[1]
  BY <1>1
<1>3. PICK s \in Slots : s = Head(queue).slot
  BY <1>2, QueueTyped
<1>4. /\ queue' \in Seq(Waiters)
      /\ \A o : Cardinality(Places(queue, o)) =
                  Cardinality(Places(queue', o)) + Own(s, o, 1)
      /\ \A i \in DOMAIN queue' : i + 1 \in DOMAIN queue /\ queue'[i] = queue[i + 1]
  <2>1. Tail(queue) \in Seq(Waiters)
    BY <1>1, PlacesServed
  <2>2. ASSUME NEW o
        PROVE  Cardinality(Places(queue, o)) =
                 Cardinality(Places(Tail(queue), o)) + Own(Head(queue).slot, o, 1)
    BY <1>1, PlacesServed
  <2>3. \A i \in DOMAIN Tail(queue) : i + 1 \in DOMAIN queue /\ Tail(queue)[i] = queue[i + 1]
    BY <1>1, PlacesServed
  <2> QED
    BY <1>1, <1>3, <2>1, <2>2, <2>3
<1>5. req[s].pc = "begin"
  BY <1>1, <1>2, <1>3 DEF PoolInv, AskersWait
<1>6. running[s] = 0 /\ Waits(s) = 1 /\ tx[s] \in {"none", "late"}
  BY <1>5, SlotTyped DEF Fits
<1>7. PICK step \in {"error", "role"}, t \in {"closed", "open"} :
        /\ Goto(s, step) /\ tx' = [tx EXCEPT ![s] = t]
        /\ step = "error" => t = "closed" /\ free' = free
        /\ step = "role" => t = "open" /\ free' = free - 1
  <2>1. CASE tx[s] = "late"
    BY <1>3, <2>1 DEF ServeTransaction
  <2>2. CASE tx[s] # "late"
    BY <1>3, <2>2 DEF ServeTransaction
  <2> QED
    BY <2>1, <2>2
<1> DEFINE r == [op |-> req[s].op, pc |-> step]
<1>8. r \in [op : Ops, pc : Steps] /\ r.op = req[s].op /\ r.pc = step /\ step \in Steps
  BY SlotTyped DEF Steps, Resting, InTransaction
<1>9. req' = [req EXCEPT ![s] = r]
  BY <1>7, <1>8, Steady
<1> HIDE DEF r
<1>10. req'[s].pc # "begin" /\ \A o \in Slots \ {s} : req'[o] = req[o]
  BY <1>7, <1>8, <1>9 DEF PoolInv, TypeOK
<1>11. /\ Waits(s)' \in Nat /\ Waits(s) = Waits(s)' + 1
       /\ \A o \in Slots \ {s} : Waits(o)' = Waits(o)
       /\ AskersWait'
  BY <1>4, <1>6, <1>10, QueueServed
<1>12. Waits(s)' = 0
  BY <1>6, <1>11
<1>13. Moves(s, r, t, 0)
  <2>1. PICK g \in Nat : free = g + 1
    <3>1. free - 1 \in Nat /\ free = (free - 1) + 1
      BY <1>1, SlotTyped
    <3> QED
      BY <3>1
  <2>2. Holds("open", 0) = 1 /\ Holds("closed", 0) = 0 /\ Holds(tx[s], running[s]) = 0
    BY <1>6 DEF Holds
  <2>3. free' \in Nat /\ free' + Holds(t, 0) = free + Holds(tx[s], running[s])
    <3>1. CASE step = "error"
      BY <1>7, <2>1, <2>2, <3>1
    <3>2. CASE step = "role"
      BY <1>7, <2>1, <2>2, <3>2
    <3> QED
      BY <3>1, <3>2
  <2>4. running' = [running EXCEPT ![s] = 0]
    BY <1>1, <1>6, Steady
  <2> QED
    BY <1>7, <1>9, <2>3, <2>4 DEF Moves
<1>14. Fits(r.op, r.pc, t, 0, Waits(s)')
  BY <1>7, <1>8, <1>12 DEF Fits, Resting, InTransaction
<1>15. 0 \in 0 .. Fan
  BY SlotTyped
<1>16. t \in {"none", "late", "open", "closed", "committed"}
  OBVIOUS
<1> QED
  BY <1>4, <1>8, <1>11, <1>13, <1>14, <1>15, <1>16, SlotMoves

\* At the start every connection is free and nobody waits.
LEMMA InitPool == Init => PoolInv
<1> SUFFICES ASSUME Init PROVE PoolInv
  OBVIOUS
<1>1. PoolSize \in Nat \ {0} /\ Fan \in Nat \ {0}
  BY PoolPositive
<1>2. TypeOK
  BY <1>1 DEF Init, TypeOK, Ops, Steps, Resting
<1>3. free + Cardinality(Lent) = PoolSize
  <2>1. Lent = {}
    BY <1>1 DEF Lent, Init
  <2> QED
    BY <1>1, <2>1, FS_EmptySet DEF Init
<1>4. AskersWait
  BY DEF AskersWait, Init
<1>5. ASSUME NEW s \in Slots PROVE SlotFits(s)
  <2>1. Waits(s) = 0
    <3>1. {i \in DOMAIN queue : queue[i].slot = s} = {}
      BY DEF Init
    <3> QED
      BY <3>1, FS_EmptySet DEF Waits
  <2> QED
    BY <2>1 DEF SlotFits, Fits, Init, Resting, InTransaction
<1> QED
  BY <1>2, <1>3, <1>4, <1>5 DEF PoolInv

LEMMA NextPool == PoolInv /\ [Next]_vars => PoolInv'
<1> SUFFICES ASSUME PoolInv, [Next]_vars PROVE PoolInv'
  OBVIOUS
<1>1. ASSUME NEW s \in Slots, NEW op \in Ops, Start(s, op) PROVE PoolInv'
  BY <1>1, StartKeeps
<1>2. ASSUME NEW s \in Slots, Handler(s) PROVE PoolInv'
  <2>1. CASE RoleGuard(s)
    BY <2>1, RoleGuardKeeps
  <2>2. CASE GetDashboard(s)
    BY <2>2, GetDashboardKeeps
  <2>3. CASE CountsReturn(s)
    BY <2>3, CountsReturnKeeps
  <2>4. CASE AskOutside(s)
    BY <2>4, AskOutsideKeeps
  <2>5. CASE GetUserRole(s)
    BY <2>5, GetUserRoleKeeps
  <2>6. CASE CheckRole(s)
    BY <2>6, TransactionStepKeeps DEF CheckRole, InTransaction
  <2>7. CASE FindMember(s)
    BY <2>7, TransactionStepKeeps DEF FindMember, InTransaction
  <2>8. CASE WriteMember(s)
    BY <2>8, TransactionStepKeeps DEF WriteMember, InTransaction
  <2>9. CASE Commit(s)
    BY <2>9, CommitKeeps
  <2> QED
    BY <1>2, <2>1, <2>2, <2>3, <2>4, <2>5, <2>6, <2>7, <2>8, <2>9 DEF Handler
<1>3. ASSUME NEW s \in Slots, MaxWait(s) PROVE PoolInv'
  BY <1>3, MaxWaitKeeps
<1>4. ASSUME NEW s \in Slots, TimeOut(s) PROVE PoolInv'
  BY <1>4, TimeOutKeeps
<1>5. CASE Serve
  BY <1>5, ServeQueryKeeps, ServeTransactionKeeps DEF Serve
<1>6. CASE UNCHANGED vars
  BY <1>6 DEF vars, PoolInv, TypeOK, Lent, AskersWait, SlotFits, Waits
<1> QED
  BY <1>1, <1>2, <1>3, <1>4, <1>5, <1>6 DEF Next

--------------------------------------------------------------------------------
(* The theorems *)

\* Of any number of requests, in any order, the pool and its queue keep the
\* account: each slot has what its step awaits, and a connection is free or lent.
THEOREM PoolAccounts == Spec => []PoolInv
<1>1. Init => PoolInv
  BY InitPool
<1>2. PoolInv /\ [Next]_vars => PoolInv'
  BY NextPool
<1> QED
  BY <1>1, <1>2, PTL DEF Spec

\* However requests end, no connection of the pool is lost and none is left with
\* a request that rests, for any size of the pool.
THEOREM ConnectionsAreKept == Spec => []NoConnectionLost
<1>1. PoolInv => NoConnectionLost
  <2> SUFFICES ASSUME PoolInv PROVE NoConnectionLost
    OBVIOUS
  <2>1. ASSUME NEW s \in Slots, req[s].pc \in Resting
        PROVE  s \notin Holders /\ running[s] = 0 /\ Waits(s) = 0
    BY <2>1, SlotTyped DEF Fits, Resting, InTransaction, Holders
  <2> QED
    BY <2>1 DEF NoConnectionLost, PoolInv
<1> QED
  BY <1>1, PoolAccounts, PTL

\* The answer of a request tells how its transaction ended, whatever the timer
\* and the queue did meanwhile.
THEOREM AnswersTellCommits == Spec => []AnswerTellsCommit
<1>1. PoolInv => AnswerTellsCommit
  <2> SUFFICES ASSUME PoolInv, NEW s \in Slots,
                      req[s].op \in Transactional, req[s].pc \in Resting \ {"new"}
               PROVE  req[s].pc = "ok" <=> tx[s] = "committed"
    BY DEF AnswerTellsCommit
  <2> QED
    BY SlotTyped DEF Fits
<1> QED
  BY <1>1, PoolAccounts, PTL

\* When no plain query runs, the connections lent are those of transactions.
LEMMA LentToTransactions ==
  ASSUME PoolInv, \A s \in Slots : running[s] = 0
  PROVE  Cardinality(Lent) = Cardinality(Holders)
<1> DEFINE own == [s \in Holders |-> <<s, 0>>]
<1>1. Fan \in Nat /\ Holders \subseteq Slots
  BY PoolPositive DEF Holders
<1>2. IsFiniteSet(Holders)
  BY <1>1, SlotsFinite, FS_Subset
<1>3. own \in Bijection(Holders, Lent)
  <2>1. \A s \in Holders : <<s, 0>> \in Lent
    BY <1>1 DEF Holders, Lent
  <2>2. \A c \in Lent : c[1] \in Holders /\ c = <<c[1], 0>>
    BY <1>1 DEF Holders, Lent
  <2>3. own \in [Holders -> Lent]
    BY <2>1
  <2>4. \A s, o \in Holders : own[s] = own[o] => s = o
    OBVIOUS
  <2>5. \A c \in Lent : \E s \in Holders : own[s] = c
    BY <2>2
  <2> QED
    BY <2>3, <2>4, <2>5 DEF Bijection, Injection, Surjection, IsInjective
<1>4. ExistsBijection(Holders, Lent)
  BY <1>3 DEF ExistsBijection
<1> QED
  BY <1>2, <1>4, FS_Bijection

\* Only as many shareOwnership calls inside their transaction as the pool has
\* connections can stall it.
THEOREM StallTakesShares == Spec => []StallTakesAPoolOfShares
<1>1. PoolInv => StallTakesAPoolOfShares
  <2> SUFFICES ASSUME PoolInv, free = 0, \A s \in Slots : running[s] = 0,
                      \A s \in Holders : Waits(s) > 0
               PROVE  Cardinality({s \in Holders : req[s].op = "share"}) = PoolSize
    BY DEF StallTakesAPoolOfShares
  <2>1. Cardinality(Lent) = Cardinality(Holders)
    BY LentToTransactions
  <2>2. Cardinality(Holders) = PoolSize
    <3>1. IsFiniteSet(Holders)
      BY SlotsFinite, FS_Subset, Holders \subseteq Slots DEF Holders
    <3>2. Cardinality(Holders) \in Nat
      BY <3>1, FS_CardinalityType
    <3> QED
      BY <2>1, <3>2 DEF PoolInv
  <2>3. ASSUME NEW s \in Holders PROVE req[s].op = "share"
    <3>1. s \in Slots /\ tx[s] = "open" /\ Waits(s) > 0
      BY DEF Holders
    <3>2. req[s].pc = "outside"
      BY <3>1, SlotTyped DEF Fits, Steps, Resting, InTransaction
    <3> QED
      BY <3>1, <3>2, SlotTyped DEF Fits
  <2>4. {s \in Holders : req[s].op = "share"} = Holders
    BY <2>3
  <2> QED
    BY <2>2, <2>4
<1> QED
  BY <1>1, PoolAccounts, PTL

================================================================================
