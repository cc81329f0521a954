----------------------------- MODULE SessionsProofs -----------------------------
(***************************************************************************)
(* Sign-in for any users, token lifetime and number of overlapping         *)
(* requests: types, the winner of overlapping refreshes, the clean-up, and *)
(* the refinement of SessionLedger.                                        *)
(***************************************************************************)
EXTENDS Sessions, TLAPS

\* Which operation a request at a step belongs to.
PcOfOp ==
  \A s \in Slots :
    /\ req[s].pc \in {"find", "create"} => req[s].op = "register"
    /\ req[s].pc = "compare" => req[s].op = "login"
    /\ req[s].pc \in {"verify", "look", "delete"} => req[s].op \in WithCookie
    /\ req[s].pc = "wipe" => req[s].op = "refresh"
    /\ req[s].pc \in {"sign", "store"} => req[s].op \in {"register", "login", "refresh"}

\* A request about to store a token signed it for its own user, and alone.
Storing == {s \in Slots : req[s].pc = "store"}
SignedAlone ==
  /\ \A s \in Storing : /\ req[s].tok \in Tokens
                        /\ req[s].tok.user = req[s].user
                        /\ status[req[s].tok] = "signed"
  /\ \A s1, s2 \in Storing : req[s1].tok = req[s2].tok => s1 = s2

\* A row expires no earlier than its token.
ClocksAgree ==
  \A t \in Tokens : /\ status[t] = "signed" => exp[t] <= now + Ttl
                    /\ status[t] = "stored" => exp[t] <= expiresAt[t]

\* The program counter tells a request from an idle slot.
LEMMA BusySlot ==
  ASSUME TypeOK, NEW s \in Slots, req[s].pc # "idle"
  PROVE  req[s] \in Request
BY DEF TypeOK, Idle

\* A request ends with no other request disturbed.
LEMMA ReplyOnly ==
  ASSUME TypeOK, NEW s \in Slots, Reply(s)
  PROVE  /\ req'[s] = Idle
         /\ \A s2 \in Slots \ {s} : req'[s2] = req[s2]
         /\ req' \in [Slots -> {Idle} \cup Request]
BY DEF TypeOK, Reply

\* A request takes a step with no other request disturbed.
LEMMA GotoOnly ==
  ASSUME TypeOK, NEW s \in Slots, req[s].pc # "idle",
         NEW step \in {"create", "look", "wipe", "sign"}, Goto(s, step)
  PROVE  /\ req'[s].pc = step /\ req'[s].op = req[s].op /\ req'[s].user = req[s].user
         /\ req'[s].row = req[s].row /\ req'[s].tok = req[s].tok
         /\ \A s2 \in Slots \ {s} : req'[s2] = req[s2]
         /\ req' \in [Slots -> {Idle} \cup Request]
BY BusySlot DEF TypeOK, Goto, Request

--------------------------------------------------------------------------------
\* Rows, claims and requests keep their types, and a request deletes or replaces
\* rows of its own user only (auth.service.ts 52-177).
THEOREM SessionTypes == Spec => [](TypeOK /\ PcOfOp)
<1>1. Init => TypeOK
  BY TtlIsNat DEF Init, TypeOK, Idle
<1>2. Init => PcOfOp
  BY DEF Init, PcOfOp, Idle
<1>3. TypeOK /\ PcOfOp /\ [Next]_vars => TypeOK'
  <2> SUFFICES ASSUME TypeOK, PcOfOp, [Next]_vars PROVE TypeOK'
    OBVIOUS
  <2> USE DEF tokenVars
  <2>1. ASSUME NEW s \in Slots, Arrive(s) PROVE TypeOK'
    <3>1. ASSUME NEW op \in SignIn, NEW u \in Users, StartSignIn(s, op, u) PROVE TypeOK'
      BY <3>1 DEF StartSignIn, TypeOK, Request, SignIn
    <3>2. ASSUME NEW op \in WithCookie, NEW t \in Tokens, StartWithCookie(s, op, t) PROVE TypeOK'
      BY <3>2 DEF StartWithCookie, TypeOK, Request, Tokens
    <3> QED
      BY <2>1, <3>1, <3>2 DEF Arrive
  <2>2. ASSUME NEW s \in Slots, FindUser(s) PROVE TypeOK'
    BY <2>2, ReplyOnly, GotoOnly DEF FindUser, TypeOK, Idle
  <2>3. ASSUME NEW s \in Slots, CreateUser(s) PROVE TypeOK'
    <3>1. req[s] \in Request
      BY <2>3, BusySlot DEF CreateUser
    <3>2. CASE Reply(s) /\ UNCHANGED known
      BY <2>3, <3>2, ReplyOnly DEF CreateUser, TypeOK, Idle
    <3>3. CASE known' = known \cup {req[s].user} /\ Goto(s, "sign")
      BY <2>3, <3>1, <3>3, GotoOnly DEF CreateUser, TypeOK, Request, PcOfOp
    <3> QED
      BY <2>3, <3>2, <3>3 DEF CreateUser
  <2>4. ASSUME NEW s \in Slots, ComparePassword(s) PROVE TypeOK'
    BY <2>4, ReplyOnly, GotoOnly DEF ComparePassword, TypeOK, Idle, PcOfOp
  <2>5. ASSUME NEW s \in Slots, VerifyToken(s) PROVE TypeOK'
    BY <2>5, ReplyOnly, GotoOnly DEF VerifyToken, TypeOK, Idle
  <2>6. ASSUME NEW s \in Slots, FindSession(s) PROVE TypeOK'
    <3>1. req[s] \in Request
      BY <2>6, BusySlot DEF FindSession
    <3>2. ASSUME NEW r \in SessionsOf(req[s].user),
                 req' = [req EXCEPT ![s].pc = "delete", ![s].row = r]
          PROVE  TypeOK'
      BY <2>6, <3>1, <3>2 DEF FindSession, TypeOK, Request, SessionsOf
    <3> QED
      BY <2>6, <3>2, ReplyOnly, GotoOnly DEF FindSession, TypeOK, Idle
  <2>7. ASSUME NEW s \in Slots, DeleteSession(s) PROVE TypeOK'
    <3>1. req[s] \in Request /\ req[s].row \in Tokens
      BY <2>7, BusySlot DEF DeleteSession, TypeOK
    <3>2. status' \in [Tokens -> {"unsigned", "signed", "stored", "gone"}]
      BY <2>7, <3>1 DEF DeleteSession, TypeOK
    <3>3. CASE Reply(s)
      BY <2>7, <3>2, <3>3, ReplyOnly DEF DeleteSession, TypeOK, Idle
    <3>4. CASE Goto(s, "sign")
      BY <2>7, <3>2, <3>4, GotoOnly DEF DeleteSession, TypeOK
    <3> QED
      BY <2>7, <3>3, <3>4 DEF DeleteSession
  <2>8. ASSUME NEW s \in Slots, WipeSessions(s) PROVE TypeOK'
    BY <2>8, ReplyOnly DEF WipeSessions, TypeOK, Idle
  <2>9. ASSUME NEW s \in Slots, SignToken(s) PROVE TypeOK'
    <3>1. req[s] \in Request
      BY <2>9, BusySlot DEF SignToken
    <3>2. PICK t \in Unsigned(req[s].user) :
            /\ status' = [status EXCEPT ![t] = "signed"]
            /\ exp' = [exp EXCEPT ![t] = now + Ttl]
            /\ req' = [req EXCEPT ![s].pc = "store", ![s].tok = t]
      BY <2>9 DEF SignToken
    <3>3. t \in Tokens
      BY DEF Unsigned
    <3>4. /\ req'[s].row = req[s].row /\ req'[s].op = req[s].op /\ req'[s].user = req[s].user
          /\ \A s2 \in Slots \ {s} : req'[s2] = req[s2]
          /\ req' \in [Slots -> {Idle} \cup Request]
      BY <3>1, <3>2, <3>3 DEF TypeOK, Request
    <3>5. /\ status' \in [Tokens -> {"unsigned", "signed", "stored", "gone"}]
          /\ exp' \in [Tokens -> Nat]
      BY <3>2, <3>3, TtlIsNat DEF TypeOK
    <3> QED
      BY <2>9, <3>4, <3>5 DEF SignToken, TypeOK
  <2>10. ASSUME NEW s \in Slots, StoreToken(s) PROVE TypeOK'
    <3>1. /\ status' \in [Tokens -> {"unsigned", "signed", "stored", "gone"}]
          /\ expiresAt' \in [Tokens -> Nat]
      <4>1. now + Ttl \in Nat
        BY TtlIsNat DEF TypeOK
      <4>2. /\ status' = [status EXCEPT ![req[s].tok] = "stored"]
            /\ expiresAt' = [expiresAt EXCEPT ![req[s].tok] = now + Ttl]
        BY <2>10 DEF StoreToken
      <4>3. /\ status \in [Tokens -> {"unsigned", "signed", "stored", "gone"}]
            /\ expiresAt \in [Tokens -> Nat]
        BY DEF TypeOK
      <4> QED
        BY <4>1, <4>2, <4>3
    <3>2. Reply(s) /\ UNCHANGED <<known, exp, now>>
      BY <2>10 DEF StoreToken
    <3>3. /\ req'[s] = Idle
          /\ \A s2 \in Slots \ {s} : req'[s2] = req[s2]
          /\ req' \in [Slots -> {Idle} \cup Request]
      BY <3>2, ReplyOnly
    <3> QED
      BY <3>1, <3>2, <3>3 DEF TypeOK, Idle
  <2>11. ASSUME NEW s \in Slots, Lose(s) PROVE TypeOK'
    BY <2>11, ReplyOnly DEF Lose, TypeOK, Idle
  <2>12. CASE CleanExpiredTokens
    BY <2>12 DEF CleanExpiredTokens, TypeOK
  <2>13. CASE Tick
    BY <2>13 DEF Tick, TypeOK
  <2>14. CASE UNCHANGED vars
    BY <2>14 DEF vars, TypeOK
  <2> QED
    BY <2>1, <2>2, <2>3, <2>4, <2>5, <2>6, <2>7, <2>8, <2>9, <2>10, <2>11, <2>12, <2>13, <2>14
       DEF Next, Step
<1>4. TypeOK /\ PcOfOp /\ [Next]_vars => PcOfOp'
  <2> SUFFICES ASSUME TypeOK, PcOfOp, [Next]_vars PROVE PcOfOp'
    OBVIOUS
  <2> USE DEF PcOfOp, SignIn, WithCookie
  <2>1. ASSUME NEW s \in Slots, Arrive(s) PROVE PcOfOp'
    <3>1. ASSUME NEW op \in SignIn, NEW u \in Users, StartSignIn(s, op, u) PROVE PcOfOp'
      BY <3>1 DEF StartSignIn, TypeOK
    <3>2. ASSUME NEW op \in WithCookie, NEW t \in Tokens, StartWithCookie(s, op, t) PROVE PcOfOp'
      BY <3>2 DEF StartWithCookie, TypeOK
    <3> QED
      BY <2>1, <3>1, <3>2 DEF Arrive
  <2>2. ASSUME NEW s \in Slots, Reply(s) PROVE PcOfOp'
    BY <2>2, ReplyOnly DEF Idle
  <2>3. ASSUME NEW s \in Slots, FindUser(s) \/ CreateUser(s) \/ ComparePassword(s) \/ VerifyToken(s)
        PROVE  PcOfOp'
    BY <2>2, <2>3, GotoOnly DEF FindUser, CreateUser, ComparePassword, VerifyToken
  <2>4. ASSUME NEW s \in Slots, FindSession(s) PROVE PcOfOp'
    <3>1. ASSUME NEW r \in SessionsOf(req[s].user),
                 req' = [req EXCEPT ![s].pc = "delete", ![s].row = r]
          PROVE  PcOfOp'
      <4>1. /\ req'[s].pc = "delete" /\ req'[s].op = req[s].op
            /\ \A s2 \in Slots \ {s} : req'[s2] = req[s2]
        BY <2>4, <3>1, BusySlot DEF FindSession, TypeOK, Request
      <4> QED
        BY <2>4, <4>1 DEF FindSession
    <3> QED
      BY <2>2, <2>4, <3>1, GotoOnly DEF FindSession
  <2>5. ASSUME NEW s \in Slots, DeleteSession(s) PROVE PcOfOp'
    BY <2>2, <2>5, GotoOnly DEF DeleteSession
  <2>6. ASSUME NEW s \in Slots, SignToken(s) PROVE PcOfOp'
    <3>1. PICK t \in Unsigned(req[s].user) : req' = [req EXCEPT ![s].pc = "store", ![s].tok = t]
      BY <2>6 DEF SignToken
    <3> QED
      BY <2>6, <3>1, BusySlot DEF SignToken, TypeOK, Request
  <2>7. ASSUME NEW s \in Slots, WipeSessions(s) \/ StoreToken(s) \/ Lose(s) PROVE PcOfOp'
    BY <2>2, <2>7 DEF WipeSessions, StoreToken, Lose
  <2>8. CASE CleanExpiredTokens \/ Tick \/ UNCHANGED vars
    BY <2>8 DEF CleanExpiredTokens, Tick, vars
  <2> QED
    BY <2>1, <2>3, <2>4, <2>5, <2>6, <2>7, <2>8 DEF Next, Step
<1> QED
  BY <1>1, <1>2, <1>3, <1>4, PTL DEF Spec

--------------------------------------------------------------------------------
\* A token is stored by the one request that signed it.
LEMMA StoredBySigner ==
  ASSUME TypeOK, PcOfOp, SignedAlone, [Next]_vars
  PROVE  SignedAlone'
<1> USE DEF SignedAlone, Storing, tokenVars
<1>1. ASSUME NEW s \in Slots, Arrive(s) PROVE SignedAlone'
  <2>1. ASSUME NEW op \in SignIn, NEW u \in Users, StartSignIn(s, op, u) PROVE SignedAlone'
    BY <2>1 DEF StartSignIn, TypeOK
  <2>2. ASSUME NEW op \in WithCookie, NEW t \in Tokens, StartWithCookie(s, op, t) PROVE SignedAlone'
    BY <2>2 DEF StartWithCookie, TypeOK
  <2> QED
    BY <1>1, <2>1, <2>2 DEF Arrive
<1>2. ASSUME NEW s \in Slots, Reply(s),
             \A t \in Tokens : status[t] = "signed" => status'[t] = "signed"
      PROVE  SignedAlone'
  BY <1>2, ReplyOnly DEF Idle
<1>3. ASSUME NEW s \in Slots, NEW step \in {"create", "look", "wipe", "sign"},
             req[s].pc # "idle", Goto(s, step),
             \A t \in Tokens : status[t] = "signed" => status'[t] = "signed"
      PROVE  SignedAlone'
  BY <1>3, GotoOnly
<1>4. ASSUME NEW s \in Slots, FindUser(s) \/ CreateUser(s) \/ ComparePassword(s) \/ VerifyToken(s)
      PROVE  SignedAlone'
  BY <1>2, <1>3, <1>4 DEF FindUser, CreateUser, ComparePassword, VerifyToken
<1>5. ASSUME NEW s \in Slots, FindSession(s) PROVE SignedAlone'
  <2>1. ASSUME NEW r \in SessionsOf(req[s].user),
               req' = [req EXCEPT ![s].pc = "delete", ![s].row = r]
        PROVE  SignedAlone'
    <3>1. /\ req'[s].pc = "delete"
          /\ \A s2 \in Slots \ {s} : req'[s2] = req[s2]
      BY <1>5, <2>1, BusySlot DEF FindSession, TypeOK, Request
    <3> QED
      BY <1>5, <3>1 DEF FindSession
  <2> QED
    BY <1>2, <1>3, <1>5, <2>1 DEF FindSession
<1>6. ASSUME NEW s \in Slots, DeleteSession(s) PROVE SignedAlone'
  <2>1. \A t \in Tokens : status[t] = "signed" => status'[t] = "signed"
    BY <1>6 DEF DeleteSession, TypeOK
  <2> QED
    BY <1>2, <1>3, <1>6, <2>1 DEF DeleteSession
<1>7. ASSUME NEW s \in Slots, WipeSessions(s) PROVE SignedAlone'
  <2>1. \A t \in Tokens : status[t] = "signed" => status'[t] = "signed"
    BY <1>7 DEF WipeSessions, SessionsOf
  <2> QED
    BY <1>2, <1>7, <2>1 DEF WipeSessions
<1>8. ASSUME NEW s \in Slots, SignToken(s) PROVE SignedAlone'
  <2>1. PICK t \in Unsigned(req[s].user) :
          /\ status' = [status EXCEPT ![t] = "signed"]
          /\ req' = [req EXCEPT ![s].pc = "store", ![s].tok = t]
    BY <1>8 DEF SignToken
  <2>2. t \in Tokens /\ t.user = req[s].user /\ status[t] = "unsigned"
    BY DEF Unsigned
  <2>3. /\ req'[s].pc = "store" /\ req'[s].tok = t /\ req'[s].user = req[s].user
        /\ \A s2 \in Slots \ {s} : req'[s2] = req[s2]
    BY <1>8, <2>1, BusySlot DEF SignToken, TypeOK, Request
  <2>4. status'[t] = "signed" /\ \A t2 \in Tokens \ {t} : status'[t2] = status[t2]
    BY <2>1, <2>2 DEF TypeOK
  <2> QED
    BY <2>2, <2>3, <2>4
<1>9. ASSUME NEW s \in Slots, StoreToken(s) PROVE SignedAlone'
  <2>1. /\ req'[s] = Idle
        /\ \A s2 \in Slots \ {s} : req'[s2] = req[s2]
    BY <1>9, ReplyOnly DEF StoreToken
  <2>2. \A t \in Tokens \ {req[s].tok} : status'[t] = status[t]
    BY <1>9 DEF StoreToken, TypeOK
  <2>3. req[s].pc = "store"
    BY <1>9 DEF StoreToken
  <2> QED
    BY <2>1, <2>2, <2>3 DEF Idle
<1>10. ASSUME NEW s \in Slots, Lose(s) PROVE SignedAlone'
  BY <1>2, <1>10 DEF Lose
<1>11. CASE CleanExpiredTokens
  BY <1>11 DEF CleanExpiredTokens
<1>12. CASE Tick \/ UNCHANGED vars
  BY <1>12 DEF Tick, vars
<1> QED
  BY <1>1, <1>4, <1>5, <1>6, <1>7, <1>8, <1>9, <1>10, <1>11, <1>12 DEF Next, Step

\* Of overlapping refreshes and logouts that found one row at most one goes on
\* (auth.service.ts 145-151): the row a refresh replaces is deleted, and no other
\* refresh replaces it.
LEMMA WinnerStaysAlone ==
  ASSUME TypeOK, PcOfOp, SignedAlone, OneRefreshWins, [Next]_vars
  PROVE  OneRefreshWins'
<1> USE DEF OneRefreshWins, Renewing, tokenVars
<1>1. ASSUME NEW s \in Slots, Arrive(s) PROVE OneRefreshWins'
  <2>1. ASSUME NEW op \in SignIn, NEW u \in Users, StartSignIn(s, op, u) PROVE OneRefreshWins'
    BY <2>1 DEF StartSignIn, TypeOK
  <2>2. ASSUME NEW op \in WithCookie, NEW t \in Tokens, StartWithCookie(s, op, t) PROVE OneRefreshWins'
    BY <2>2 DEF StartWithCookie, TypeOK
  <2> QED
    BY <1>1, <2>1, <2>2 DEF Arrive
<1>2. ASSUME NEW s \in Slots, Reply(s),
             \A t \in Tokens : status[t] = "gone" => status'[t] = "gone"
      PROVE  OneRefreshWins'
  <2>1. \A s2 \in Renewing' : s2 \in Renewing /\ req'[s2] = req[s2]
    BY <1>2, ReplyOnly DEF Idle
  <2>2. \A s2 \in Renewing : req[s2].row \in Tokens
    BY DEF TypeOK
  <2> QED
    BY <1>2, <2>1, <2>2
<1>3. ASSUME NEW s \in Slots, NEW step \in {"create", "look", "wipe", "sign"},
             req[s].pc # "idle", Goto(s, step), UNCHANGED status,
             step = "sign" => req[s].op # "refresh"
      PROVE  OneRefreshWins'
  BY <1>3, GotoOnly
<1>4. ASSUME NEW s \in Slots, FindUser(s) \/ CreateUser(s) \/ ComparePassword(s) \/ VerifyToken(s)
      PROVE  OneRefreshWins'
  <2>1. UNCHANGED status
    BY <1>4 DEF FindUser, CreateUser, ComparePassword, VerifyToken
  <2>2. req[s].pc \in {"create", "compare"} => req[s].op # "refresh"
    BY DEF PcOfOp
  <2> QED
    BY <1>2, <1>3, <1>4, <2>1, <2>2 DEF FindUser, CreateUser, ComparePassword, VerifyToken
<1>5. ASSUME NEW s \in Slots, FindSession(s) PROVE OneRefreshWins'
  <2>1. ASSUME NEW r \in SessionsOf(req[s].user),
               req' = [req EXCEPT ![s].pc = "delete", ![s].row = r]
        PROVE  OneRefreshWins'
    <3>1. /\ req'[s].pc = "delete"
          /\ \A s2 \in Slots \ {s} : req'[s2] = req[s2]
      BY <1>5, <2>1, BusySlot DEF FindSession, TypeOK, Request
    <3> QED
      BY <1>5, <3>1 DEF FindSession
  <2> QED
    BY <1>2, <1>3, <1>5, <2>1 DEF FindSession
<1>6. ASSUME NEW s \in Slots, DeleteSession(s) PROVE OneRefreshWins'
  <2>1. req[s].row \in Tokens
    BY <1>6 DEF DeleteSession, TypeOK
  <2>2. CASE Reply(s)
    <3>1. \A t \in Tokens : status[t] = "gone" => status'[t] = "gone"
      BY <1>6 DEF DeleteSession, TypeOK
    <3> QED
      BY <1>2, <2>2, <3>1
  <2>3. CASE /\ status[req[s].row] = "stored"
             /\ status' = [status EXCEPT ![req[s].row] = "gone"]
             /\ Goto(s, "sign")
    <3>1. /\ req'[s].row = req[s].row
          /\ \A s2 \in Slots \ {s} : req'[s2] = req[s2]
      BY <1>6, <2>3, GotoOnly DEF DeleteSession
    <3>2. \A s2 \in Renewing : req[s2].row \in Tokens /\ req[s2].row # req[s].row
      BY <2>3 DEF TypeOK
    <3>3. /\ status'[req[s].row] = "gone"
          /\ \A t \in Tokens \ {req[s].row} : status'[t] = status[t]
      BY <2>1, <2>3 DEF TypeOK
    <3>4. \A s2 \in Renewing' : s2 = s \/ s2 \in Renewing
      BY <3>1
    <3> QED
      BY <3>1, <3>2, <3>3, <3>4
  <2> QED
    BY <1>6, <2>2, <2>3 DEF DeleteSession
<1>7. ASSUME NEW s \in Slots, WipeSessions(s) PROVE OneRefreshWins'
  <2>1. \A t \in Tokens : status[t] = "gone" => status'[t] = "gone"
    BY <1>7 DEF WipeSessions
  <2> QED
    BY <1>2, <1>7, <2>1 DEF WipeSessions
<1>8. ASSUME NEW s \in Slots, SignToken(s) PROVE OneRefreshWins'
  <2>1. PICK t \in Unsigned(req[s].user) :
          /\ status' = [status EXCEPT ![t] = "signed"]
          /\ req' = [req EXCEPT ![s].pc = "store", ![s].tok = t]
    BY <1>8 DEF SignToken
  <2>2. t \in Tokens /\ status[t] = "unsigned"
    BY DEF Unsigned
  <2>3. /\ req'[s].pc = "store" /\ req'[s].row = req[s].row /\ req'[s].op = req[s].op
        /\ \A s2 \in Slots \ {s} : req'[s2] = req[s2]
    BY <1>8, <2>1, BusySlot DEF SignToken, TypeOK, Request
  <2>4. \A t2 \in Tokens \ {t} : status'[t2] = status[t2]
    BY <2>1, <2>2 DEF TypeOK
  <2>5. \A s2 \in Renewing' : s2 \in Renewing /\ req'[s2].row = req[s2].row
    BY <1>8, <2>3 DEF SignToken
  <2>6. \A s2 \in Renewing : req[s2].row \in Tokens \ {t}
    BY <2>2 DEF TypeOK
  <2> QED
    BY <2>4, <2>5, <2>6
<1>9. ASSUME NEW s \in Slots, StoreToken(s) PROVE OneRefreshWins'
  <2>1. status[req[s].tok] = "signed"
    BY <1>9 DEF StoreToken, SignedAlone, Storing
  <2>2. \A t \in Tokens : status[t] = "gone" => status'[t] = "gone"
    BY <1>9, <2>1 DEF StoreToken, TypeOK
  <2> QED
    BY <1>2, <1>9, <2>2 DEF StoreToken
<1>10. ASSUME NEW s \in Slots, Lose(s) PROVE OneRefreshWins'
  BY <1>2, <1>10 DEF Lose
<1>11. CASE CleanExpiredTokens
  <2>1. \A t \in Tokens : status[t] = "gone" => status'[t] = "gone"
    BY <1>11 DEF CleanExpiredTokens
  <2>2. \A s \in Renewing : req[s].row \in Tokens
    BY DEF TypeOK
  <2> QED
    BY <1>11, <2>1, <2>2 DEF CleanExpiredTokens
<1>12. CASE Tick \/ UNCHANGED vars
  BY <1>12 DEF Tick, vars
<1> QED
  BY <1>1, <1>4, <1>5, <1>6, <1>7, <1>8, <1>9, <1>10, <1>11, <1>12 DEF Next, Step

--------------------------------------------------------------------------------
\* A row never expires before its token, whatever time passes between signing
\* and storing it (auth.service.ts 259-270).
LEMMA ClocksStayInOrder ==
  ASSUME TypeOK, SignedAlone, ClocksAgree, [Next]_vars
  PROVE  ClocksAgree'
<1> USE DEF ClocksAgree, tokenVars
<1>1. ASSUME UNCHANGED <<exp, expiresAt, now>>,
             \A t \in Tokens : status'[t] \in {status[t], "gone"}
      PROVE  ClocksAgree'
  BY <1>1
<1>2. ASSUME NEW s \in Slots, Arrive(s) PROVE ClocksAgree'
  BY <1>1, <1>2 DEF Arrive, StartSignIn, StartWithCookie
<1>3. ASSUME NEW s \in Slots, FindUser(s) \/ CreateUser(s) \/ ComparePassword(s) \/ VerifyToken(s)
      PROVE  ClocksAgree'
  BY <1>1, <1>3 DEF FindUser, CreateUser, ComparePassword, VerifyToken
<1>4. ASSUME NEW s \in Slots, FindSession(s) \/ Lose(s) PROVE ClocksAgree'
  BY <1>1, <1>4 DEF FindSession, Lose
<1>5. ASSUME NEW s \in Slots, DeleteSession(s) PROVE ClocksAgree'
  <2>1. \A t \in Tokens : status'[t] \in {status[t], "gone"}
    BY <1>5 DEF DeleteSession, TypeOK
  <2> QED
    BY <1>1, <1>5, <2>1 DEF DeleteSession
<1>6. ASSUME NEW s \in Slots, WipeSessions(s) PROVE ClocksAgree'
  BY <1>1, <1>6 DEF WipeSessions
<1>7. ASSUME NEW s \in Slots, SignToken(s) PROVE ClocksAgree'
  <2>1. PICK t \in Unsigned(req[s].user) :
          /\ status' = [status EXCEPT ![t] = "signed"]
          /\ exp' = [exp EXCEPT ![t] = now + Ttl]
          /\ UNCHANGED <<expiresAt, now>>
    BY <1>7 DEF SignToken
  <2>2. status'[t] = "signed" /\ exp'[t] = now + Ttl
    BY <2>1 DEF TypeOK, Unsigned
  <2>3. \A t2 \in Tokens \ {t} : status'[t2] = status[t2] /\ exp'[t2] = exp[t2]
    BY <2>1 DEF TypeOK
  <2>4. exp'[t] <= now' + Ttl
    BY <2>1, <2>2, TtlIsNat DEF TypeOK
  <2> QED
    BY <2>1, <2>2, <2>3, <2>4
<1>8. ASSUME NEW s \in Slots, StoreToken(s) PROVE ClocksAgree'
  <2> DEFINE t == req[s].tok
  <2>1. t \in Tokens /\ status[t] = "signed" /\ UNCHANGED <<exp, now>>
    BY <1>8 DEF StoreToken, SignedAlone, Storing
  <2>2. status'[t] = "stored" /\ expiresAt'[t] = now + Ttl
    BY <1>8, <2>1 DEF StoreToken, TypeOK
  <2>3. \A t2 \in Tokens \ {t} : status'[t2] = status[t2] /\ expiresAt'[t2] = expiresAt[t2]
    BY <1>8 DEF StoreToken, TypeOK
  <2> QED
    BY <2>1, <2>2, <2>3
<1>9. CASE CleanExpiredTokens
  BY <1>1, <1>9 DEF CleanExpiredTokens
<1>10. CASE Tick
  <2>1. \A t \in Tokens : exp[t] <= now + Ttl => exp[t] <= now + 1 + Ttl
    BY TtlIsNat DEF TypeOK
  <2> QED
    BY <1>10, <2>1 DEF Tick
<1>11. CASE UNCHANGED vars
  BY <1>11 DEF vars
<1> QED
  BY <1>2, <1>3, <1>4, <1>5, <1>6, <1>7, <1>8, <1>9, <1>10, <1>11 DEF Next, Step

\* All of it together, the inductive invariant of sign-in.
SessionInv == TypeOK /\ PcOfOp /\ SignedAlone /\ OneRefreshWins /\ ClocksAgree

LEMMA SessionsInvariant == Spec => []SessionInv
<1>1. Init => SignedAlone /\ OneRefreshWins /\ ClocksAgree
  BY DEF Init, SignedAlone, Storing, OneRefreshWins, Renewing, ClocksAgree, Idle
<1>2. TypeOK /\ PcOfOp /\ SignedAlone /\ OneRefreshWins /\ ClocksAgree /\ [Next]_vars
        => SignedAlone' /\ OneRefreshWins' /\ ClocksAgree'
  BY StoredBySigner, WinnerStaysAlone, ClocksStayInOrder
<1> QED
  BY <1>1, <1>2, SessionTypes, PTL DEF Spec, SessionInv

\* OneRefreshWins for any number of overlapping requests (auth.service.ts 145-151).
THEOREM RefreshesDoNotFork == Spec => []OneRefreshWins
BY SessionsInvariant, PTL DEF SessionInv

\* The nightly clean-up ends no session whose own token still verifies, for any
\* token lifetime (automation.service.ts 96-98).
THEOREM CleanUpIsSafe == Spec => CleanUpSparesLive
<1> DEFINE A == \A t \in Tokens :
                  status[t] = "stored" /\ status'[t] = "gone" /\ req' = req => exp[t] <= now
<1>1. SessionInv /\ [Next]_vars => [A]_vars
  <2> SUFFICES ASSUME SessionInv, [Next]_vars, NEW t \in Tokens,
                      status[t] = "stored", status'[t] = "gone", req' = req
               PROVE  exp[t] <= now
    BY DEF SessionInv
  <2>1. ASSUME NEW s \in Slots, Arrive(s) \/ Step(s) \/ Lose(s) PROVE FALSE
    <3>1. status' # status
      OBVIOUS
    <3>2. ASSUME Reply(s), req[s].pc # "idle" PROVE FALSE
      BY <3>2, ReplyOnly DEF Idle, SessionInv
    <3>3. ASSUME Goto(s, "sign"), req[s].pc = "delete" PROVE FALSE
      BY <3>3, GotoOnly DEF SessionInv
    <3>4. DeleteSession(s) \/ WipeSessions(s) \/ StoreToken(s) \/ SignToken(s)
      BY <2>1, <3>1, <3>2 DEF Arrive, StartSignIn, StartWithCookie, Step, FindUser, CreateUser,
           ComparePassword, VerifyToken, FindSession, Lose, tokenVars
    <3>5. ~SignToken(s)
      <4> SUFFICES ASSUME SignToken(s) PROVE FALSE
        OBVIOUS
      <4>1. PICK t2 \in Unsigned(req[s].user) : req' = [req EXCEPT ![s].pc = "store", ![s].tok = t2]
        BY DEF SignToken
      <4>2. req'[s].pc = "store" /\ req[s].pc = "sign"
        BY <4>1, BusySlot DEF SignToken, SessionInv, TypeOK, Request
      <4> QED
        BY <4>2
    <3> QED
      BY <3>2, <3>3, <3>4, <3>5 DEF DeleteSession, WipeSessions, StoreToken
  <2>2. CASE CleanExpiredTokens
    <3>1. expiresAt[t] < now
      BY <2>2 DEF CleanExpiredTokens
    <3>2. exp[t] <= expiresAt[t]
      BY DEF SessionInv, ClocksAgree
    <3>3. exp[t] \in Nat /\ expiresAt[t] \in Nat /\ now \in Nat
      BY DEF SessionInv, TypeOK
    <3> QED
      BY <3>1, <3>2, <3>3
  <2>3. CASE Tick \/ UNCHANGED vars
    BY <2>3 DEF Tick, vars, tokenVars
  <2> QED
    BY <2>1, <2>2, <2>3 DEF Next
<1> QED
  BY <1>1, SessionsInvariant, PTL DEF Spec, CleanUpSparesLive

--------------------------------------------------------------------------------
(* Sessions implements SessionLedger *)

Issued == {t \in Tokens : status[t] \in {"stored", "gone"}}
Signing == {s \in Slots : req[s].pc \in {"sign", "store"}}
Granted(s) == [user |-> req[s].user, by |-> req[s].op]

\* The ledger does not see a step in which no request gains or loses the right to
\* sign a token and no row appears or goes.
LEMMA Unseen ==
  ASSUME UNCHANGED <<known, status>>, Signing' = Signing,
         \A s \in Signing : req'[s].op = req[s].op /\ req'[s].user = req[s].user
                             /\ req'[s].row = req[s].row
  PROVE  UNCHANGED Ledger!lvars
<1>1. Renewing' = Renewing /\ \A s \in Renewing : req'[s].row = req[s].row
  BY DEF Renewing, Signing
<1>2. Entering' = Entering
  BY DEF Entering, Signing
<1>3. OpenSessions' = OpenSessions
  BY <1>1 DEF OpenSessions
<1> QED
  BY <1>2, <1>3 DEF Ledger!lvars

\* A request that ends while signing gives up its grant or its session.
LEMMA SigningEnds ==
  ASSUME SessionInv, NEW s \in Signing, Lose(s)
  PROVE  Ledger!LedgerNext \/ UNCHANGED Ledger!lvars
<1> USE DEF Signing, tokenVars
<1>1. /\ req'[s] = Idle
      /\ \A s2 \in Slots \ {s} : req'[s2] = req[s2]
      /\ UNCHANGED <<known, status>>
  BY ReplyOnly DEF Lose, SessionInv
<1>2. CASE req[s].op \in SignIn
  <2>1. Renewing' = Renewing /\ \A s2 \in Renewing : req'[s2].row = req[s2].row
    BY <1>1, <1>2 DEF Renewing, Idle, SignIn
  <2>2. OpenSessions' = OpenSessions
    BY <1>1, <2>1 DEF OpenSessions
  <2>3. Entering' = [Entering EXCEPT ![s] = Ledger!Nobody]
    <3>1. Entering'[s] = Ledger!Nobody
      BY <1>1 DEF Entering, Ledger!Nobody, Idle
    <3>2. \A s2 \in Slots \ {s} : Entering'[s2] = Entering[s2]
      BY <1>1 DEF Entering
    <3> QED
      BY <3>1, <3>2 DEF Entering
  <2>4. Ledger!Leave(s)
    BY <1>1, <2>2, <2>3 DEF Ledger!Leave
  <2> QED
    BY <2>4 DEF Ledger!LedgerNext
<1>3. CASE req[s].op = "refresh"
  <2>1. Entering' = Entering
    BY <1>1, <1>3 DEF Entering, Idle, SignIn
  <2>2. Renewing' = Renewing \ {s} /\ \A s2 \in Renewing' : req'[s2].row = req[s2].row
    BY <1>1, <1>3 DEF Renewing, Idle
  <2>3. s \in Renewing /\ status[req[s].row] = "gone"
        /\ \A s2 \in Renewing \ {s} : req[s2].row # req[s].row
    BY <1>3 DEF Renewing, SessionInv, OneRefreshWins
  <2>4. OpenSessions' = OpenSessions \ {req[s].row}
    BY <1>1, <2>2, <2>3 DEF OpenSessions
  <2>5. Ledger!Close({req[s].row}) /\ {req[s].row} \in SUBSET OpenSessions
    BY <1>1, <2>1, <2>3, <2>4 DEF Ledger!Close, OpenSessions
  <2> QED
    BY <2>5 DEF Ledger!LedgerNext
<1> QED
  BY <1>2, <1>3 DEF SessionInv, PcOfOp, SignIn

\* A row deleted by anything but a refresh closes its session.
LEMMA RowsClose ==
  ASSUME SessionInv, UNCHANGED known, Signing' = Signing,
         \A s \in Signing : req'[s] = req[s],
         NEW S \in SUBSET {t \in Tokens : status[t] = "stored"},
         status' = [t \in Tokens |-> IF t \in S THEN "gone" ELSE status[t]]
  PROVE  Ledger!LedgerNext
<1>1. Renewing' = Renewing /\ \A s \in Renewing : req'[s].row = req[s].row
  BY DEF Renewing, Signing
<1>2. Entering' = Entering
  BY DEF Entering, Signing
<1>3. \A s \in Renewing : req[s].row \notin S
  BY DEF SessionInv, OneRefreshWins
<1>4. OpenSessions' = OpenSessions \ S
  <2>1. {t \in Tokens : status'[t] = "stored"} = {t \in Tokens : status[t] = "stored"} \ S
    OBVIOUS
  <2>2. {req'[s].row : s \in Renewing'} = {req[s].row : s \in Renewing}
    BY <1>1
  <2> QED
    BY <1>3, <2>1, <2>2 DEF OpenSessions
<1>5. UNCHANGED Issued
  BY DEF Issued
<1>6. Ledger!Close(S) /\ S \in SUBSET OpenSessions
  BY <1>2, <1>4, <1>5 DEF Ledger!Close, OpenSessions, Issued
<1> QED
  BY <1>6 DEF Ledger!LedgerNext

\* One account per address, a session only for a granted sign-in, no refresh that
\* adds one, none that comes back: for any users, token lifetime and number of
\* overlapping requests (auth.service.ts 52-177, automation.service.ts 96-98).
THEOREM SessionsImplementLedger == Spec => ImplementsLedger
<1> USE DEF tokenVars
<1>1. Init => Ledger!LedgerInit
  BY DEF Init, Ledger!LedgerInit, Ledger!Nobody, Entering, OpenSessions, Renewing, Idle
<1>2. SessionInv /\ [Next]_vars => [Ledger!LedgerNext]_(Ledger!lvars)
  <2> SUFFICES ASSUME SessionInv, [Next]_vars
               PROVE  Ledger!LedgerNext \/ UNCHANGED Ledger!lvars
    OBVIOUS
  <2> USE DEF SessionInv
  <2>1. ASSUME NEW s \in Slots, Arrive(s) PROVE UNCHANGED Ledger!lvars
    <3>1. ASSUME NEW op \in SignIn, NEW u \in Users, StartSignIn(s, op, u) PROVE UNCHANGED Ledger!lvars
      <4>1. Signing' = Signing /\ \A s2 \in Signing : req'[s2] = req[s2]
        BY <3>1 DEF StartSignIn, TypeOK, Signing, Idle
      <4> QED
        BY <3>1, <4>1, Unseen DEF StartSignIn
    <3>2. ASSUME NEW op \in WithCookie, NEW t \in Tokens, StartWithCookie(s, op, t)
          PROVE  UNCHANGED Ledger!lvars
      <4>1. Signing' = Signing /\ \A s2 \in Signing : req'[s2] = req[s2]
        BY <3>2 DEF StartWithCookie, TypeOK, Signing, Idle
      <4> QED
        BY <3>2, <4>1, Unseen DEF StartWithCookie
    <3> QED
      BY <2>1, <3>1, <3>2 DEF Arrive
  <2>2. ASSUME NEW s \in Slots, Reply(s), s \notin Signing
        PROVE  Signing' = Signing /\ \A s2 \in Signing : req'[s2] = req[s2]
    BY <2>2, ReplyOnly DEF Signing, Idle
  <2>3. ASSUME NEW s \in Slots, NEW step \in {"create", "look", "wipe"},
               req[s].pc # "idle", s \notin Signing, Goto(s, step)
        PROVE  Signing' = Signing /\ \A s2 \in Signing : req'[s2] = req[s2]
    BY <2>3, GotoOnly DEF Signing
  <2>4. ASSUME NEW s \in Slots, s \notin Signing, req[s].pc # "idle", Goto(s, "sign"),
               UNCHANGED status, req[s].op \in SignIn
        PROVE  /\ Entering[s] = Ledger!Nobody
               /\ Entering' = [Entering EXCEPT ![s] = Granted(s)]
               /\ OpenSessions' = OpenSessions /\ UNCHANGED Issued
    <3>1. /\ req'[s].pc = "sign" /\ req'[s].op = req[s].op /\ req'[s].user = req[s].user
          /\ \A s2 \in Slots \ {s} : req'[s2] = req[s2]
      BY <2>4, GotoOnly
    <3>2. Renewing' = Renewing /\ \A s2 \in Renewing : req'[s2].row = req[s2].row
      BY <2>4, <3>1 DEF Renewing, Signing, SignIn
    <3>3. OpenSessions' = OpenSessions
      BY <2>4, <3>2 DEF OpenSessions
    <3> QED
      BY <2>4, <3>1, <3>3 DEF Entering, Ledger!Nobody, Granted, Issued, Signing
  <2>5. ASSUME NEW s \in Slots, FindUser(s) \/ VerifyToken(s) PROVE UNCHANGED Ledger!lvars
    <3>1. s \notin Signing /\ UNCHANGED <<known, status>>
      BY <2>5 DEF FindUser, VerifyToken, Signing
    <3>2. Signing' = Signing /\ \A s2 \in Signing : req'[s2] = req[s2]
      BY <2>2, <2>3, <2>5, <3>1 DEF FindUser, VerifyToken
    <3> QED
      BY <3>1, <3>2, Unseen
  <2>6. ASSUME NEW s \in Slots, CreateUser(s) PROVE Ledger!LedgerNext \/ UNCHANGED Ledger!lvars
    <3>1. s \notin Signing /\ UNCHANGED status /\ req[s].op = "register" /\ req[s] \in Request
      BY <2>6, BusySlot DEF CreateUser, Signing, PcOfOp
    <3>2. CASE Reply(s) /\ UNCHANGED known
      BY <2>2, <3>1, <3>2, Unseen
    <3>3. CASE /\ req[s].user \notin known
               /\ known' = known \cup {req[s].user}
               /\ Goto(s, "sign")
      <4>1. Ledger!Register(s, req[s].user)
        BY <2>4, <2>6, <3>1, <3>3 DEF CreateUser, SignIn, Ledger!Register, Granted, Issued
      <4> QED
        BY <3>1, <4>1 DEF Ledger!LedgerNext, Request
    <3> QED
      BY <2>6, <3>2, <3>3 DEF CreateUser
  <2>7. ASSUME NEW s \in Slots, ComparePassword(s) PROVE Ledger!LedgerNext \/ UNCHANGED Ledger!lvars
    <3>1. s \notin Signing /\ UNCHANGED <<known, status>> /\ req[s].op = "login" /\ req[s] \in Request
      BY <2>7, BusySlot DEF ComparePassword, Signing, PcOfOp
    <3>2. CASE Reply(s)
      BY <2>2, <3>1, <3>2, Unseen
    <3>3. CASE req[s].user \in known /\ Goto(s, "sign")
      <4>1. Ledger!Login(s, req[s].user)
        BY <2>4, <2>7, <3>1, <3>3 DEF ComparePassword, SignIn, Ledger!Login, Granted, Issued
      <4> QED
        BY <3>1, <4>1 DEF Ledger!LedgerNext, Request
    <3> QED
      BY <2>7, <3>2, <3>3 DEF ComparePassword
  <2>8. ASSUME NEW s \in Slots, FindSession(s) PROVE UNCHANGED Ledger!lvars
    <3>1. s \notin Signing /\ UNCHANGED <<known, status>>
      BY <2>8 DEF FindSession, Signing
    <3>2. ASSUME NEW r \in SessionsOf(req[s].user),
                 req' = [req EXCEPT ![s].pc = "delete", ![s].row = r]
          PROVE  Signing' = Signing /\ \A s2 \in Signing : req'[s2] = req[s2]
      <4>1. /\ req'[s].pc = "delete"
            /\ \A s2 \in Slots \ {s} : req'[s2] = req[s2]
        BY <2>8, <3>2, BusySlot DEF FindSession, TypeOK, Request
      <4> QED
        BY <3>1, <4>1 DEF Signing
    <3>3. Signing' = Signing /\ \A s2 \in Signing : req'[s2] = req[s2]
      BY <2>2, <2>3, <2>8, <3>1, <3>2 DEF FindSession
    <3> QED
      BY <3>1, <3>3, Unseen
  <2>9. ASSUME NEW s \in Slots, DeleteSession(s) PROVE Ledger!LedgerNext \/ UNCHANGED Ledger!lvars
    <3> DEFINE r == req[s].row
    <3>1. s \notin Signing /\ UNCHANGED known /\ r \in Tokens /\ req[s].pc # "idle"
      BY <2>9 DEF DeleteSession, Signing, TypeOK
    <3>2. CASE Reply(s) /\ UNCHANGED status
      BY <2>2, <3>1, <3>2, Unseen
    <3>3. CASE /\ status[r] = "stored"
               /\ status' = [status EXCEPT ![r] = "gone"]
               /\ Reply(s)
      <4>1. status' = [t \in Tokens |-> IF t \in {r} THEN "gone" ELSE status[t]]
        BY <3>3 DEF TypeOK
      <4>2. {r} \in SUBSET {t \in Tokens : status[t] = "stored"}
        BY <3>1, <3>3
      <4> QED
        BY <2>2, <3>1, <3>3, <4>1, <4>2, RowsClose
    <3>4. CASE /\ status[r] = "stored"
               /\ status' = [status EXCEPT ![r] = "gone"]
               /\ req[s].op = "refresh"
               /\ Goto(s, "sign")
      <4>1. /\ req'[s].pc = "sign" /\ req'[s].op = "refresh" /\ req'[s].row = r
            /\ \A s2 \in Slots \ {s} : req'[s2] = req[s2]
        BY <3>1, <3>4, GotoOnly
      <4>2. Entering' = Entering
        BY <3>1, <3>4, <4>1 DEF Entering, Signing, SignIn
      <4>3. Renewing' = Renewing \cup {s} /\ s \notin Renewing
        BY <3>1, <4>1 DEF Renewing, Signing
      <4>4. {req'[s2].row : s2 \in Renewing'} = {req[s2].row : s2 \in Renewing} \cup {r}
        BY <4>1, <4>3 DEF Renewing
      <4>5. {t \in Tokens : status'[t] = "stored"} = {t \in Tokens : status[t] = "stored"} \ {r}
        BY <3>4 DEF TypeOK
      <4>6. OpenSessions' = OpenSessions
        BY <3>1, <3>4, <4>4, <4>5 DEF OpenSessions
      <4>7. UNCHANGED Issued
        BY <3>4 DEF Issued, TypeOK
      <4> QED
        BY <3>1, <4>2, <4>6, <4>7 DEF Ledger!lvars, Issued
    <3> QED
      BY <2>9, <3>2, <3>3, <3>4 DEF DeleteSession
  <2>10. ASSUME NEW s \in Slots, WipeSessions(s) PROVE Ledger!LedgerNext
    <3>1. s \notin Signing /\ UNCHANGED known /\ Reply(s)
      BY <2>10 DEF WipeSessions, Signing
    <3>2. SessionsOf(req[s].user) \in SUBSET {t \in Tokens : status[t] = "stored"}
      BY DEF SessionsOf
    <3> QED
      BY <2>2, <2>10, <3>1, <3>2, RowsClose DEF WipeSessions
  <2>11. ASSUME NEW s \in Slots, SignToken(s) PROVE UNCHANGED Ledger!lvars
    <3>1. PICK t \in Unsigned(req[s].user) :
            /\ status' = [status EXCEPT ![t] = "signed"]
            /\ req' = [req EXCEPT ![s].pc = "store", ![s].tok = t]
      BY <2>11 DEF SignToken
    <3>2. /\ req'[s].pc = "store" /\ req'[s].row = req[s].row /\ req'[s].op = req[s].op
          /\ req'[s].user = req[s].user
          /\ \A s2 \in Slots \ {s} : req'[s2] = req[s2]
      BY <2>11, <3>1, BusySlot DEF SignToken, TypeOK, Request
    <3>3. \A t2 \in Tokens : /\ status'[t2] = "stored" <=> status[t2] = "stored"
                             /\ status'[t2] = "gone" <=> status[t2] = "gone"
      BY <3>1 DEF Unsigned, TypeOK
    <3>4. Renewing' = Renewing /\ \A s2 \in Renewing : req'[s2].row = req[s2].row
      <4>1. req[s].pc = "sign"
        BY <2>11 DEF SignToken
      <4> QED
        BY <3>2, <4>1 DEF Renewing
    <3>5. OpenSessions' = OpenSessions /\ UNCHANGED Issued
      BY <3>3, <3>4 DEF OpenSessions, Issued
    <3>6. Entering' = Entering
      BY <2>11, <3>2 DEF Entering, SignToken
    <3> QED
      BY <2>11, <3>5, <3>6 DEF Ledger!lvars, Issued, SignToken
  <2>12. ASSUME NEW s \in Slots, StoreToken(s) PROVE Ledger!LedgerNext
    <3>1. PICK t \in Tokens :
            /\ t = req[s].tok /\ t.user = req[s].user /\ status[t] = "signed"
            /\ req[s].pc = "store" /\ UNCHANGED known
      BY <2>12 DEF StoreToken, SignedAlone, Storing
    <3>2. /\ req'[s] = Idle
          /\ \A s2 \in Slots \ {s} : req'[s2] = req[s2]
      BY <2>12, ReplyOnly DEF StoreToken
    <3>3. status'[t] = "stored" /\ \A t2 \in Tokens \ {t} : status'[t2] = status[t2]
      BY <2>12, <3>1 DEF StoreToken, TypeOK
    <3>4. {t2 \in Tokens : status'[t2] = "stored"} = {t2 \in Tokens : status[t2] = "stored"} \cup {t}
      BY <3>1, <3>3
    <3>5. Issued' = Issued \cup {t} /\ t \notin Issued
      BY <3>1, <3>3 DEF Issued
    <3>6. CASE req[s].op \in SignIn
      <4>1. Renewing' = Renewing /\ \A s2 \in Renewing : req'[s2].row = req[s2].row
        BY <3>2, <3>6 DEF Renewing, Idle, SignIn
      <4>2. OpenSessions' = OpenSessions \cup {t}
        BY <3>4, <4>1 DEF OpenSessions
      <4>3. Entering' = [Entering EXCEPT ![s] = Ledger!Nobody] /\ Entering[s].user = t.user
        <5>1. Entering'[s] = Ledger!Nobody
          BY <3>2 DEF Entering, Ledger!Nobody, Idle
        <5>2. \A s2 \in Slots \ {s} : Entering'[s2] = Entering[s2]
          BY <3>2 DEF Entering
        <5>3. Entering[s].user = t.user
          BY <3>1, <3>6 DEF Entering
        <5> QED
          BY <5>1, <5>2, <5>3 DEF Entering
      <4>4. Ledger!Open(s, t)
        BY <3>1, <3>5, <4>2, <4>3 DEF Ledger!Open, Issued
      <4> QED
        BY <3>1, <4>4 DEF Ledger!LedgerNext
    <3>7. CASE req[s].op = "refresh"
      <4>1. PICK r \in Tokens :
              r = req[s].row /\ s \in Renewing /\ r.user = t.user /\ status[r] = "gone"
        BY <3>1, <3>7 DEF Renewing, TypeOK, OneRefreshWins
      <4>2. Renewing' = Renewing \ {s} /\ \A s2 \in Renewing' : req'[s2].row = req[s2].row
        BY <3>2, <3>7 DEF Renewing, Idle
      <4>3. \A s2 \in Renewing \ {s} : req[s2].row # r
        BY <4>1 DEF OneRefreshWins
      <4>4. {req'[s2].row : s2 \in Renewing'} = {req[s2].row : s2 \in Renewing} \ {r}
        BY <4>1, <4>2, <4>3
      <4>5. OpenSessions' = (OpenSessions \ {r}) \cup {t} /\ r \in OpenSessions
        BY <3>1, <3>4, <4>1, <4>4 DEF OpenSessions
      <4>6. Entering' = Entering
        BY <3>2, <3>7 DEF Entering, Idle, SignIn
      <4>7. Ledger!Renew(r, t)
        BY <3>1, <3>5, <4>1, <4>5, <4>6 DEF Ledger!Renew, Issued
      <4> QED
        BY <3>1, <4>1, <4>7 DEF Ledger!LedgerNext
    <3> QED
      BY <3>1, <3>6, <3>7 DEF PcOfOp, SignIn
  <2>13. ASSUME NEW s \in Slots, Lose(s) PROVE Ledger!LedgerNext \/ UNCHANGED Ledger!lvars
    <3>1. CASE s \in Signing
      BY <2>13, <3>1, SigningEnds
    <3>2. CASE s \notin Signing
      BY <2>2, <2>13, <3>2, Unseen DEF Lose
    <3> QED
      BY <3>1, <3>2
  <2>14. CASE CleanExpiredTokens
    <3> DEFINE S == {t \in Tokens : status[t] = "stored" /\ expiresAt[t] < now}
    <3>1. status' = [t \in Tokens |-> IF t \in S THEN "gone" ELSE status[t]]
      BY <2>14 DEF CleanExpiredTokens
    <3>2. Signing' = Signing /\ UNCHANGED <<known, req>>
      BY <2>14 DEF CleanExpiredTokens, Signing
    <3>3. S \in SUBSET {t \in Tokens : status[t] = "stored"}
      OBVIOUS
    <3> QED
      BY <3>1, <3>2, <3>3, RowsClose
  <2>15. CASE Tick \/ UNCHANGED vars
    <3>1. UNCHANGED <<known, status, req>>
      BY <2>15 DEF Tick, vars
    <3>2. Signing' = Signing
      BY <3>1 DEF Signing
    <3> QED
      BY <3>1, <3>2, Unseen
  <2> QED
    BY <2>1, <2>5, <2>6, <2>7, <2>8, <2>9, <2>10, <2>11, <2>12, <2>13, <2>14, <2>15 DEF Next, Step
<1> QED
  BY <1>1, <1>2, SessionsInvariant, PTL DEF Spec, ImplementsLedger, Ledger!LedgerSpec
================================================================================
