--------------------------- MODULE LoginAttemptsProofs ---------------------------
(***************************************************************************)
(* The counters of failed logins for any limits, keys and number of        *)
(* overlapping logins: no counter is left without an end, and none passes  *)
(* the limit unnoticed, unless a request dies.                             *)
(***************************************************************************)
EXTENDS LoginAttempts, TLAPS

\* A request at a step carries an address, an e-mail and two counts.
LEMMA BusySlot ==
  ASSUME TypeOK, NEW s \in Slots, req[s].pc # "idle"
  PROVE  /\ req[s] \in Request
         /\ req[s].ip \in Keys /\ req[s].email \in Keys /\ req[s].ip # req[s].email
         /\ KeysOf(s) \subseteq Keys
<1>1. req[s] \in Request
  BY DEF TypeOK, Idle
<1>2. req[s].ip \in Ips /\ req[s].email \in Emails
  BY <1>1 DEF Request
<1> QED
  BY <1>1, <1>2, KeysApart DEF Keys, KeysOf

\* Ending or moving a request on disturbs no other.
LEMMA ReplyOnly ==
  ASSUME TypeOK, NEW s \in Slots, Reply(s)
  PROVE  /\ req'[s] = Idle
         /\ \A s2 \in Slots \ {s} : req'[s2] = req[s2]
         /\ req' \in [Slots -> {Idle} \cup Request]
BY DEF TypeOK, Reply

LEMMA GotoOnly ==
  ASSUME TypeOK, NEW s \in Slots, req[s].pc # "idle", NEW step \in {"compare", "count", "clear"},
         Goto(s, step)
  PROVE  /\ req'[s].pc = step
         /\ \A s2 \in Slots \ {s} : req'[s2] = req[s2]
         /\ req' \in [Slots -> {Idle} \cup Request]
BY BusySlot DEF TypeOK, Goto, Request

\* What INCR does to a counter and tells the request.
LEMMA Counted ==
  ASSUME TypeOK, NEW s \in Slots, CountFailure(s)
  PROVE  /\ \A k \in KeysOf(s) : /\ fail'[k].n = fail[k].n + 1 /\ fail'[k].ttl = fail[k].ttl
                                 /\ fail'[k] \in [n : Nat, ttl : 0 .. Window]
                                 /\ Seen(s, k)' = fail[k].n + 1
         /\ \A k \in Keys \ KeysOf(s) : fail'[k] = fail[k]
         /\ req'[s] \in Request /\ req'[s].pc = "arm" /\ KeysOf(s)' = KeysOf(s)
         /\ \A s2 \in Slots \ {s} : req'[s2] = req[s2]
         /\ fail' \in [Keys -> [n : Nat, ttl : 0 .. Window]]
         /\ req' \in [Slots -> {Idle} \cup Request]
<1>1. /\ req[s].pc = "count" /\ req[s] \in Request /\ KeysOf(s) \subseteq Keys
      /\ req[s].ip \in Keys /\ req[s].email \in Keys /\ req[s].ip # req[s].email
  BY BusySlot DEF CountFailure
<1>2. fail' = [k \in Keys |-> IF k \in KeysOf(s) THEN [fail[k] EXCEPT !.n = @ + 1] ELSE fail[k]]
  BY DEF CountFailure
<1>3. \A k \in KeysOf(s) : /\ fail'[k].n = fail[k].n + 1 /\ fail'[k].ttl = fail[k].ttl
                           /\ fail'[k] \in [n : Nat, ttl : 0 .. Window]
  BY <1>1, <1>2 DEF TypeOK
<1>4. \A k \in Keys \ KeysOf(s) : fail'[k] = fail[k]
  BY <1>2
<1>5. fail' \in [Keys -> [n : Nat, ttl : 0 .. Window]]
  BY <1>2, <1>3, <1>4 DEF TypeOK
<1>6. fail'[req[s].ip].n \in Nat /\ fail'[req[s].email].n \in Nat
  BY <1>1, <1>5
<1>7. req' = [req EXCEPT ![s].pc = "arm", ![s].ipSeen = fail'[req[s].ip].n,
                        ![s].emailSeen = fail'[req[s].email].n]
  BY DEF CountFailure
<1>8. /\ req'[s].pc = "arm" /\ req'[s].ip = req[s].ip /\ req'[s].email = req[s].email
      /\ req'[s].ipSeen = fail'[req[s].ip].n /\ req'[s].emailSeen = fail'[req[s].email].n
      /\ req'[s] \in Request
  BY <1>1, <1>6, <1>7 DEF Request, TypeOK
<1>9. \A s2 \in Slots \ {s} : req'[s2] = req[s2]
  BY <1>7 DEF TypeOK
<1>10. req' \in [Slots -> {Idle} \cup Request]
  BY <1>7, <1>8 DEF TypeOK
<1>11. KeysOf(s)' = KeysOf(s)
  BY <1>8 DEF KeysOf
<1>12. \A k \in KeysOf(s) : Seen(s, k)' = fail[k].n + 1
  BY <1>1, <1>3, <1>8 DEF Seen, KeysOf
<1> QED
  BY <1>3, <1>4, <1>5, <1>8, <1>9, <1>10, <1>11, <1>12

\* What EXEC does to the counters.
LEMMA Armed ==
  ASSUME TypeOK, NEW s \in Slots, ArmLimits(s), NEW k \in Keys
  PROVE  /\ Blocks(s, k) => fail'[k] = NoCounter
         /\ ~Blocks(s, k) /\ Expires(s, k) => fail'[k].n = fail[k].n /\ fail'[k].ttl = Window
                                              /\ fail'[k] \in [n : Nat, ttl : 0 .. Window]
         /\ ~Blocks(s, k) /\ ~Expires(s, k) => fail'[k] = fail[k]
<1>1. fail' = [k2 \in Keys |-> CASE Blocks(s, k2) -> NoCounter
                                 [] ~Blocks(s, k2) /\ Expires(s, k2) -> [fail[k2] EXCEPT !.ttl = Window]
                                 [] OTHER -> fail[k2]]
  BY DEF ArmLimits
<1>2. fail[k] \in [n : Nat, ttl : 0 .. Window]
  BY DEF TypeOK
<1>3. Window \in 0 .. Window
  BY LimitsPositive
<1> QED
  BY <1>1, <1>2, <1>3

--------------------------------------------------------------------------------
\* Counters, blocks and requests keep their types, and only a counter has a time
\* to live (brute-force.service.ts 28-65).
THEOREM AttemptTypes == Spec => []TypeOK
<1> USE LimitsPositive
<1>1. Init => TypeOK
  BY DEF Init, TypeOK, NoCounter, Idle
<1>2. TypeOK /\ [Next]_vars => TypeOK'
  <2> SUFFICES ASSUME TypeOK, [Next]_vars PROVE TypeOK'
    OBVIOUS
  <2>1. ASSUME NEW s \in Slots, NEW ip \in Ips, NEW e \in Emails, StartLogin(s, ip, e) PROVE TypeOK'
    BY <2>1 DEF StartLogin, TypeOK, Request
  <2>2. ASSUME NEW s \in Slots, CheckBlocked(s) \/ ComparePassword(s) PROVE TypeOK'
    <3>1. UNCHANGED <<fail, block, lost, losses>> /\ req[s].pc # "idle"
      BY <2>2 DEF CheckBlocked, ComparePassword
    <3>2. req' \in [Slots -> {Idle} \cup Request]
      BY <2>2, <3>1, ReplyOnly, GotoOnly DEF CheckBlocked, ComparePassword
    <3> QED
      BY <3>1, <3>2 DEF TypeOK
  <2>3. ASSUME NEW s \in Slots, CountFailure(s) PROVE TypeOK'
    <3>1. UNCHANGED <<block, lost, losses>>
      BY <2>3 DEF CountFailure
    <3>2. \A k \in Keys : fail'[k].n = 0 => fail'[k].ttl = 0
      <4> SUFFICES ASSUME NEW k \in Keys, fail'[k].n = 0 PROVE fail'[k].ttl = 0
        OBVIOUS
      <4>1. fail[k].n \in Nat
        BY DEF TypeOK
      <4>2. k \notin KeysOf(s)
        BY <2>3, <4>1, Counted
      <4> QED
        BY <2>3, <4>2, Counted DEF TypeOK
    <3> QED
      BY <2>3, <3>1, <3>2, Counted DEF TypeOK
  <2>4. ASSUME NEW s \in Slots, ArmLimits(s) PROVE TypeOK'
    <3>1. \A k \in Keys : /\ fail'[k] \in [n : Nat, ttl : 0 .. Window]
                          /\ fail'[k].n = 0 => fail'[k].ttl = 0
      <4> SUFFICES ASSUME NEW k \in Keys
                   PROVE  /\ fail'[k] \in [n : Nat, ttl : 0 .. Window]
                          /\ fail'[k].n = 0 => fail'[k].ttl = 0
        OBVIOUS
      <4>1. NoCounter \in [n : Nat, ttl : 0 .. Window] /\ NoCounter.ttl = 0
        BY DEF NoCounter
      <4>2. Expires(s, k) => fail[k].n > 0
        BY DEF Expires
      <4>3. fail[k] \in [n : Nat, ttl : 0 .. Window] /\ (fail[k].n = 0 => fail[k].ttl = 0)
        BY DEF TypeOK
      <4> QED
        BY <2>4, <4>1, <4>2, <4>3, Armed
    <3>2. fail' \in [Keys -> [n : Nat, ttl : 0 .. Window]]
      BY <2>4, <3>1 DEF ArmLimits
    <3>3. block' \in [Keys -> 0 .. BlockTime]
      BY <2>4 DEF ArmLimits, TypeOK, BlockTtl
    <3>4. req' \in [Slots -> {Idle} \cup Request] /\ lost' \subseteq Keys /\ losses' \in Nat
      BY <2>4, ReplyOnly DEF ArmLimits, TypeOK
    <3> QED
      BY <3>1, <3>2, <3>3, <3>4 DEF TypeOK
  <2>5. ASSUME NEW s \in Slots, ClearAttempts(s) PROVE TypeOK'
    BY <2>5, ReplyOnly DEF ClearAttempts, TypeOK, NoCounter
  <2>6. ASSUME NEW s \in Slots, Lose(s) PROVE TypeOK'
    <3>1. req[s].pc = "arm" => KeysOf(s) \subseteq Keys
      BY BusySlot
    <3> QED
      BY <2>6, <3>1, ReplyOnly DEF Lose, TypeOK
  <2>7. CASE Tick
    <3>1. fail' \in [Keys -> [n : Nat, ttl : 0 .. Window]]
      BY <2>7 DEF Tick, TypeOK, NoCounter, Elapse
    <3>2. \A k \in Keys : fail'[k].n = 0 => fail'[k].ttl = 0
      BY <2>7 DEF Tick, TypeOK, NoCounter, Elapse
    <3>3. block' \in [Keys -> 0 .. BlockTime]
      BY <2>7 DEF Tick, TypeOK, Elapse
    <3> QED
      BY <2>7, <3>1, <3>2, <3>3 DEF Tick, TypeOK
  <2>8. CASE UNCHANGED vars
    BY <2>8 DEF vars, TypeOK
  <2> QED
    BY <2>1, <2>2, <2>3, <2>4, <2>5, <2>6, <2>7, <2>8 DEF Next, Step
<1> QED
  BY <1>1, <1>2, PTL DEF Spec

--------------------------------------------------------------------------------
\* A step of one request that sends nothing to Redis, and one that ends it before
\* it was to arm, leave who arms what.
LEMMA OthersArm ==
  ASSUME TypeOK, NEW s \in Slots, req[s].pc # "arm",
         \A s2 \in Slots \ {s} : req'[s2] = req[s2]
  PROVE  \A s2 \in Slots, k \in Keys :
           Arming(s2, k) => Arming(s2, k)' /\ Seen(s2, k)' = Seen(s2, k)
BY DEF Arming, KeysOf, Seen

\* The steps that touch no counter.
QuietStep(s) ==
  \/ \E ip \in Ips, e \in Emails : StartLogin(s, ip, e)
  \/ CheckBlocked(s) \/ ComparePassword(s)

LEMMA QuietOnly ==
  ASSUME TypeOK, NEW s \in Slots, QuietStep(s)
  PROVE  /\ UNCHANGED <<fail, lost>> /\ req[s].pc # "arm"
         /\ \A s2 \in Slots \ {s} : req'[s2] = req[s2]
<1>1. ASSUME NEW ip \in Ips, NEW e \in Emails, StartLogin(s, ip, e)
      PROVE  /\ UNCHANGED <<fail, lost>> /\ req[s].pc # "arm"
             /\ \A s2 \in Slots \ {s} : req'[s2] = req[s2]
  BY <1>1 DEF StartLogin, TypeOK, Idle
<1>2. ASSUME CheckBlocked(s) \/ ComparePassword(s)
      PROVE  /\ UNCHANGED <<fail, lost>> /\ req[s].pc # "arm"
             /\ \A s2 \in Slots \ {s} : req'[s2] = req[s2]
  <2>1. req[s].pc \in {"guard", "compare"} /\ UNCHANGED <<fail, lost>>
    BY <1>2 DEF CheckBlocked, ComparePassword
  <2> QED
    BY <1>2, <2>1, ReplyOnly, GotoOnly DEF CheckBlocked, ComparePassword
<1> QED
  BY <1>1, <1>2 DEF QuietStep

\* What the clock does to a counter.
LEMMA Elapsed ==
  ASSUME TypeOK, Tick, NEW k \in Keys, fail'[k].n > 0
  PROVE  /\ fail'[k].n = fail[k].n
         /\ fail'[k].ttl = 0 => fail[k].ttl = 0
         /\ k \in lost => k \in lost'
<1>1. fail[k].ttl # 1
  BY DEF Tick, NoCounter
<1>2. fail'[k] = [fail[k] EXCEPT !.ttl = Elapse(@)]
  BY <1>1 DEF Tick
<1> QED
  BY <1>1, <1>2 DEF Tick, TypeOK, Elapse

\* A counter of failed logins ends: whatever its count and however requests
\* overlap, it has a time to live, or the request that created it is about to set
\* one, or that request died (brute-force.service.ts 34-42).
THEOREM NoImmortalCounter == Spec => []CountersExpire
<1> USE LimitsPositive
<1>1. Init => CountersExpire
  BY DEF Init, CountersExpire, NoCounter
<1>2. TypeOK /\ CountersExpire /\ [Next]_vars => CountersExpire'
  <2> SUFFICES ASSUME TypeOK, CountersExpire, [Next]_vars,
                      NEW k \in Keys, fail'[k].n > 0, fail'[k].ttl = 0
               PROVE  k \in lost' \/ \E s \in Slots : Arming(s, k)' /\ Seen(s, k)' = 1
    BY DEF CountersExpire
  <2> DEFINE Goal == k \in lost' \/ \E s \in Slots : Arming(s, k)' /\ Seen(s, k)' = 1
  <2>0. /\ fail[k].n \in Nat /\ fail[k].ttl \in 0 .. Window
        /\ fail[k].n > 0 /\ fail[k].ttl = 0 =>
             k \in lost \/ \E s \in Slots : Arming(s, k) /\ Seen(s, k) = 1
    BY DEF TypeOK, CountersExpire
  <2>1. ASSUME NEW s \in Slots, QuietStep(s) PROVE Goal
    BY <2>0, <2>1, QuietOnly, OthersArm
  <2>2. ASSUME NEW s \in Slots, CountFailure(s) PROVE Goal
    <3>1. UNCHANGED lost /\ req[s].pc # "arm"
      BY <2>2 DEF CountFailure
    <3>2. CASE k \in KeysOf(s) /\ fail[k].n = 0
      BY <2>2, <3>2, Counted DEF Arming
    <3>3. CASE k \in KeysOf(s) /\ fail[k].n # 0
      BY <2>0, <2>2, <3>1, <3>3, Counted, OthersArm
    <3>4. CASE k \notin KeysOf(s)
      BY <2>0, <2>2, <3>1, <3>4, Counted, OthersArm
    <3> QED
      BY <3>2, <3>3, <3>4
  <2>3. ASSUME NEW s \in Slots, ArmLimits(s) PROVE Goal
    <3>1. ~Blocks(s, k)
      BY <2>3, Armed DEF NoCounter
    <3>2. ~Expires(s, k)
      BY <2>3, <3>1, Armed
    <3>3. fail'[k] = fail[k]
      BY <2>3, <3>1, <3>2, Armed
    <3>4. CASE k \in lost
      BY <2>3, <3>1, <3>4 DEF ArmLimits
    <3>5. ASSUME NEW s2 \in Slots, Arming(s2, k), Seen(s2, k) = 1 PROVE Goal
      <4>1. s2 # s
        BY <3>2, <3>3, <3>5 DEF Expires, Arming
      <4>2. req'[s2] = req[s2]
        BY <2>3, <4>1, ReplyOnly DEF ArmLimits
      <4> QED
        BY <3>5, <4>2 DEF Arming, KeysOf, Seen
    <3> QED
      BY <2>0, <3>3, <3>4, <3>5
  <2>4. ASSUME NEW s \in Slots, ClearAttempts(s) PROVE Goal
    <3>1. k \notin KeysOf(s) /\ fail'[k] = fail[k] /\ req[s].pc # "arm"
      BY <2>4 DEF ClearAttempts, NoCounter
    <3>2. k \in lost => k \in lost'
      BY <2>4, <3>1 DEF ClearAttempts
    <3>3. \A s2 \in Slots \ {s} : req'[s2] = req[s2]
      BY <2>4, ReplyOnly DEF ClearAttempts
    <3> QED
      BY <2>0, <3>1, <3>2, <3>3, OthersArm
  <2>5. ASSUME NEW s \in Slots, Lose(s) PROVE Goal
    <3>1. /\ UNCHANGED fail /\ lost \subseteq lost'
          /\ \A s2 \in Slots \ {s} : req'[s2] = req[s2]
      BY <2>5, ReplyOnly DEF Lose
    <3>2. CASE req[s].pc # "arm"
      BY <2>0, <3>1, <3>2, OthersArm
    <3>3. CASE req[s].pc = "arm"
      <4>1. KeysOf(s) \subseteq lost'
        BY <2>5, <3>3 DEF Lose
      <4>2. ASSUME NEW s2 \in Slots, Arming(s2, k), Seen(s2, k) = 1 PROVE Goal
        BY <3>1, <4>1, <4>2 DEF Arming, KeysOf, Seen
      <4> QED
        BY <2>0, <3>1, <4>2
    <3> QED
      BY <3>2, <3>3
  <2>6. CASE Tick
    <3>1. UNCHANGED req
      BY <2>6 DEF Tick
    <3> QED
      BY <2>0, <2>6, <3>1, Elapsed DEF Arming, KeysOf, Seen
  <2>7. CASE UNCHANGED vars
    BY <2>0, <2>7 DEF vars, Arming, KeysOf, Seen
  <2> QED
    BY <2>1, <2>2, <2>3, <2>4, <2>5, <2>6, <2>7 DEF Next, Step, QuietStep
<1> QED
  BY <1>1, <1>2, AttemptTypes, PTL DEF Spec

\* No number of overlapping failures carries a counter past the limit unnoticed: a
\* request that read the limit or more is about to block the key, or died
\* (brute-force.service.ts 44-57).
THEOREM LimitIsNoticed == Spec => []LimitNotForgotten
<1> USE LimitsPositive
<1>1. Init => LimitNotForgotten
  BY DEF Init, LimitNotForgotten, NoCounter
<1>2. TypeOK /\ LimitNotForgotten /\ [Next]_vars => LimitNotForgotten'
  <2> SUFFICES ASSUME TypeOK, LimitNotForgotten, [Next]_vars,
                      NEW k \in Keys, fail'[k].n >= MaxAttempts
               PROVE  k \in lost' \/ \E s \in Slots : Arming(s, k)' /\ Seen(s, k)' >= MaxAttempts
    BY DEF LimitNotForgotten
  <2> DEFINE Goal == k \in lost' \/ \E s \in Slots : Arming(s, k)' /\ Seen(s, k)' >= MaxAttempts
  <2>0. /\ fail[k].n \in Nat
        /\ fail[k].n >= MaxAttempts =>
             k \in lost \/ \E s \in Slots : Arming(s, k) /\ Seen(s, k) >= MaxAttempts
    BY DEF TypeOK, LimitNotForgotten
  <2>1. ASSUME NEW s \in Slots, QuietStep(s) PROVE Goal
    BY <2>0, <2>1, QuietOnly, OthersArm
  <2>2. ASSUME NEW s \in Slots, CountFailure(s) PROVE Goal
    <3>1. UNCHANGED lost /\ req[s].pc # "arm"
      BY <2>2 DEF CountFailure
    <3>2. CASE k \in KeysOf(s)
      <4>1. Seen(s, k)' = fail'[k].n /\ Arming(s, k)'
        BY <2>2, <3>2, Counted DEF Arming
      <4> QED
        BY <4>1
    <3>3. CASE k \notin KeysOf(s)
      BY <2>0, <2>2, <3>1, <3>3, Counted, OthersArm
    <3> QED
      BY <3>2, <3>3
  <2>3. ASSUME NEW s \in Slots, ArmLimits(s) PROVE Goal
    <3>1. ~Blocks(s, k)
      <4>1. Blocks(s, k) => fail'[k].n = 0
        BY <2>3, Armed DEF NoCounter
      <4> QED
        BY <4>1
    <3>2. fail'[k].n = fail[k].n
      BY <2>3, <3>1, Armed
    <3>3. CASE k \in lost
      BY <2>3, <3>1, <3>3 DEF ArmLimits
    <3>4. ASSUME NEW s2 \in Slots, Arming(s2, k), Seen(s2, k) >= MaxAttempts PROVE Goal
      <4>1. s2 # s
        BY <3>1, <3>4 DEF Blocks, Arming
      <4>2. req'[s2] = req[s2]
        BY <2>3, <4>1, ReplyOnly DEF ArmLimits
      <4> QED
        BY <3>4, <4>2 DEF Arming, KeysOf, Seen
    <3> QED
      BY <2>0, <3>2, <3>3, <3>4
  <2>4. ASSUME NEW s \in Slots, ClearAttempts(s) PROVE Goal
    <3>1. k \notin KeysOf(s) /\ fail'[k] = fail[k] /\ req[s].pc # "arm"
      BY <2>4 DEF ClearAttempts, NoCounter
    <3>2. k \in lost => k \in lost'
      BY <2>4, <3>1 DEF ClearAttempts
    <3>3. \A s2 \in Slots \ {s} : req'[s2] = req[s2]
      BY <2>4, ReplyOnly DEF ClearAttempts
    <3> QED
      BY <2>0, <3>1, <3>2, <3>3, OthersArm
  <2>5. ASSUME NEW s \in Slots, Lose(s) PROVE Goal
    <3>1. /\ UNCHANGED fail /\ lost \subseteq lost'
          /\ \A s2 \in Slots \ {s} : req'[s2] = req[s2]
      BY <2>5, ReplyOnly DEF Lose
    <3>2. CASE req[s].pc # "arm"
      BY <2>0, <3>1, <3>2, OthersArm
    <3>3. CASE req[s].pc = "arm"
      <4>1. KeysOf(s) \subseteq lost'
        BY <2>5, <3>3 DEF Lose
      <4>2. ASSUME NEW s2 \in Slots, Arming(s2, k), Seen(s2, k) >= MaxAttempts PROVE Goal
        BY <3>1, <4>1, <4>2 DEF Arming, KeysOf, Seen
      <4> QED
        BY <2>0, <3>1, <4>2
    <3> QED
      BY <3>2, <3>3
  <2>6. CASE Tick
    <3>1. UNCHANGED req /\ fail'[k].n > 0
      <4>1. fail'[k].n \in Nat
        BY <2>6 DEF Tick, TypeOK, NoCounter, Elapse
      <4> QED
        BY <2>6, <4>1 DEF Tick
    <3> QED
      BY <2>0, <2>6, <3>1, Elapsed DEF Arming, KeysOf, Seen
  <2>7. CASE UNCHANGED vars
    BY <2>0, <2>7 DEF vars, Arming, KeysOf, Seen
  <2> QED
    BY <2>1, <2>2, <2>3, <2>4, <2>5, <2>6, <2>7 DEF Next, Step, QuietStep
<1> QED
  BY <1>1, <1>2, AttemptTypes, PTL DEF Spec
================================================================================
