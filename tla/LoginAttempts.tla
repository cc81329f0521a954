------------------------------ MODULE LoginAttempts ------------------------------
(***************************************************************************)
(* The counters of failed logins: brute-force.service.ts, the guard in     *)
(* front of the login route and the calls AuthService.login makes.  They   *)
(* live in Redis: two counters and two blocks per request, one pair keyed  *)
(* by the caller's address and one by the e-mail it named.                 *)
(*                                                                         *)
(* One process talks to Redis over one connection, so commands sent        *)
(* together run together; between an answer and the next command any other *)
(* request may run and any key may expire.                                 *)
(***************************************************************************)
EXTENDS Naturals

CONSTANTS Ips, Emails,   \* what counters are kept for
          Slots,         \* logins that may be in flight together
          MaxAttempts,   \* MAX_ATTEMPTS (5)
          Window,        \* WINDOW_SECONDS (60)
          BlockTime,     \* BLOCK_TIME_SECONDS (900)
          MaxLosses      \* bound: requests that die before the second round trip

ASSUME KeysApart == Ips \cap Emails = {}
ASSUME LimitsPositive ==
  /\ MaxAttempts \in Nat \ {0} /\ Window \in Nat \ {0} /\ BlockTime \in Nat \ {0}
  /\ MaxLosses \in Nat

Keys == Ips \cup Emails

VARIABLES fail,    \* fail[k]: count and time to live of auth:failed:k
          block,   \* block[k]: time to live of auth:blocked:k, 0 if absent
          req,     \* req[s]: the login running in slot s
          lost,    \* keys whose counter was left by a request that died
          losses   \* how many died so

vars == <<fail, block, req, lost, losses>>

\* A counter with a positive count and ttl 0 never expires.
NoCounter == [n |-> 0, ttl |-> 0]

Idle == [pc |-> "idle"]
Request == [pc : {"guard", "compare", "count", "arm", "clear"},
            ip : Ips, email : Emails, ipSeen : Nat, emailSeen : Nat]

Reply(s) == req' = [req EXCEPT ![s] = Idle]
Goto(s, step) == req' = [req EXCEPT ![s].pc = step]

KeysOf(s) == {req[s].ip, req[s].email}
Seen(s, k) == IF k = req[s].ip THEN req[s].ipSeen ELSE req[s].emailSeen

Init ==
  /\ fail = [k \in Keys |-> NoCounter]
  /\ block = [k \in Keys |-> 0]
  /\ req = [s \in Slots |-> Idle]
  /\ lost = {}
  /\ losses = 0

--------------------------------------------------------------------------------
\* A body without an e-mail passes the guard and is refused by validation.
StartLogin(s, ip, e) ==
  /\ req[s] = Idle
  /\ req' = [req EXCEPT ![s] =
               [pc |-> "guard", ip |-> ip, email |-> e, ipSeen |-> 0, emailSeen |-> 0]]
  /\ UNCHANGED <<fail, block, lost, losses>>

CheckBlocked_EmailOnly(s) ==
  /\ req[s].pc = "guard"
  /\ \/ block[req[s].email] > 0 /\ Reply(s)
     \/ block[req[s].email] = 0 /\ Goto(s, "compare")
  /\ UNCHANGED <<fail, block, lost, losses>>

CheckBlocked(s) ==
  /\ req[s].pc = "guard"
  /\ \/ (\E k \in KeysOf(s) : block[k] > 0) /\ Reply(s)
     \/ (\A k \in KeysOf(s) : block[k] = 0) /\ Goto(s, "compare")
  /\ UNCHANGED <<fail, block, lost, losses>>

\* The user is looked up and the password compared; either may be wrong.
ComparePassword(s) ==
  /\ req[s].pc = "compare"
  /\ \E step \in {"count", "clear"} : Goto(s, step)
  /\ UNCHANGED <<fail, block, lost, losses>>

CountFailure(s) ==
  /\ req[s].pc = "count"
  /\ fail' = [k \in Keys |-> IF k \in KeysOf(s) THEN [fail[k] EXCEPT !.n = @ + 1] ELSE fail[k]]
  /\ req' = [req EXCEPT ![s].pc = "arm", ![s].ipSeen = fail'[req[s].ip].n,
                        ![s].emailSeen = fail'[req[s].email].n]
  /\ UNCHANGED <<block, lost, losses>>

Blocks_Above(s, k) == k \in KeysOf(s) /\ Seen(s, k) > MaxAttempts
Expires_Second(s, k) == k \in KeysOf(s) /\ Seen(s, k) = 2 /\ fail[k].n > 0

\* EXPIRE of a key that is gone does nothing.
Blocks(s, k) == k \in KeysOf(s) /\ Seen(s, k) >= MaxAttempts
Expires(s, k) == k \in KeysOf(s) /\ Seen(s, k) = 1 /\ fail[k].n > 0

BlockTtl_Minutes == 60 * BlockTime

BlockTtl == BlockTime

\* MULTI .. EXEC, by the counts this request was given.
ArmLimits(s) ==
  /\ req[s].pc = "arm"
  /\ fail' = [k \in Keys |-> CASE Blocks(s, k) -> NoCounter
                               [] ~Blocks(s, k) /\ Expires(s, k) -> [fail[k] EXCEPT !.ttl = Window]
                               [] OTHER -> fail[k]]
  /\ block' = [k \in Keys |-> IF Blocks(s, k) THEN BlockTtl ELSE block[k]]
  /\ lost' = {k \in lost : ~Blocks(s, k)}
  /\ Reply(s)
  /\ UNCHANGED losses

\* The blocks stay: a request past the guard may log in while its key is blocked.
ClearAttempts(s) ==
  /\ req[s].pc = "clear"
  /\ fail' = [k \in Keys |-> IF k \in KeysOf(s) THEN NoCounter ELSE fail[k]]
  /\ lost' = lost \ KeysOf(s)
  /\ Reply(s)
  /\ UNCHANGED <<block, losses>>

--------------------------------------------------------------------------------
\* The process or the connection ends; between INCR and EXEC this leaves the counters.
Lose(s) ==
  /\ req[s] # Idle
  /\ IF req[s].pc = "arm"
       THEN losses < MaxLosses /\ losses' = losses + 1 /\ lost' = lost \cup KeysOf(s)
       ELSE UNCHANGED <<lost, losses>>
  /\ Reply(s)
  /\ UNCHANGED <<fail, block>>

Elapse(ttl) == IF ttl > 0 THEN ttl - 1 ELSE 0

Tick ==
  /\ \E k \in Keys : fail[k].ttl > 0 \/ block[k] > 0
  /\ fail' = [k \in Keys |-> IF fail[k].ttl = 1 THEN NoCounter
                             ELSE [fail[k] EXCEPT !.ttl = Elapse(@)]]
  /\ block' = [k \in Keys |-> Elapse(block[k])]
  /\ lost' = {k \in lost : fail[k].ttl # 1}
  /\ UNCHANGED <<req, losses>>

Step(s) ==
  \/ CheckBlocked(s) \/ ComparePassword(s) \/ CountFailure(s) \/ ArmLimits(s) \/ ClearAttempts(s)

Next ==
  \/ \E s \in Slots :
       \/ \E ip \in Ips, e \in Emails : StartLogin(s, ip, e)
       \/ Step(s)
       \/ Lose(s)
  \/ Tick

Spec == Init /\ [][Next]_vars

\* Time passes, and a request that is not lost goes on.
FairSpec == Spec /\ WF_vars(Tick) /\ \A s \in Slots : WF_vars(Step(s))

--------------------------------------------------------------------------------
(* Properties *)

\* Counters, blocks and requests have their types, and only a counter has a
\* time to live.
TypeOK ==
  /\ fail \in [Keys -> [n : Nat, ttl : 0 .. Window]]
  /\ \A k \in Keys : fail[k].n = 0 => fail[k].ttl = 0
  /\ block \in [Keys -> 0 .. BlockTime]
  /\ req \in [Slots -> {Idle} \cup Request]
  /\ lost \subseteq Keys
  /\ losses \in Nat

Arming(s, k) == req[s].pc = "arm" /\ k \in KeysOf(s)

\* A counter without a time to live is about to get one from the request that
\* created it, or that request died (brute-force.service.ts 34-42).
CountersExpire ==
  \A k \in Keys : fail[k].n > 0 /\ fail[k].ttl = 0 =>
    k \in lost \/ \E s \in Slots : Arming(s, k) /\ Seen(s, k) = 1

\* A counter that reached the limit is about to be turned into a block, however
\* many failures overlap, or the request that reached it died
\* (brute-force.service.ts 44-57).
LimitNotForgotten ==
  \A k \in Keys : fail[k].n >= MaxAttempts =>
    k \in lost \/ \E s \in Slots : Arming(s, k) /\ Seen(s, k) >= MaxAttempts

\* A block ends although requests that passed the guard earlier may renew it, and
\* however many logins follow (brute-force.service.ts 12-26 and 44-57).
BlocksEnd == \A k \in Keys : block[k] > 0 ~> block[k] = 0
================================================================================
