-------------------------------- MODULE Sessions --------------------------------
(***************************************************************************)
(* Accounts and their refresh tokens: register, login, refresh and logout  *)
(* of auth.service.ts and the nightly clean-up of automation.service.ts.   *)
(*                                                                         *)
(* A request runs in a slot, one database statement per step.  A refresh   *)
(* token is named by its user and a number.  findMatchingRefreshToken      *)
(* compares the token presented with the stored hashes, and bcrypt reads   *)
(* the first 72 bytes only: 37 of the JWT's header and 35 that hold the    *)
(* first characters of the user's id.  The rows of one user all match a    *)
(* token of that user, and those of another user do not; the row taken is  *)
(* the first the database returns, in no order.                            *)
(***************************************************************************)
EXTENDS Naturals

CONSTANTS Users,       \* a user is an e-mail address and the account created for it
          Slots,       \* requests that may be in flight together
          NoUser,      \* marks a slot that signs nobody in
          MaxTokens,   \* bound: refresh tokens signed for one user
          Ttl,         \* JWT_REFRESH_TOKEN_TTL
          MaxTime      \* bound: the clock stops here

ASSUME TtlIsNat == Ttl \in Nat /\ MaxTime \in Nat /\ MaxTokens \in Nat
ASSUME NobodyIsNoUser == NoUser \notin Users

Tokens == [user : Users, no : 1 .. MaxTokens]
NoToken == [user |-> NoUser, no |-> 0]

VARIABLES known,      \* rows of "users"
          status,     \* status[t]: "unsigned", "signed", or its row "stored" or "gone"
          exp,        \* exp[t]: the exp claim signed into t
          expiresAt,  \* expiresAt[t]: the column of its row
          now,        \* wall clock
          req         \* req[s]: the request running in slot s

tokenVars == <<status, exp, expiresAt>>
vars == <<known, tokenVars, now, req>>

Idle == [pc |-> "idle"]
SignIn == {"register", "login"}
WithCookie == {"refresh", "logout"}

\* row: the row of refresh-tokens a refresh or logout found.
Request ==
  [op : SignIn \cup WithCookie,
   pc : {"find", "create", "compare", "verify", "look", "delete", "wipe", "sign", "store"},
   user : Users, tok : Tokens \cup {NoToken}, row : Tokens \cup {NoToken}]

Reply(s) == req' = [req EXCEPT ![s] = Idle]
Goto(s, step) == req' = [req EXCEPT ![s].pc = step]

SessionsOf(u) == {t \in Tokens : t.user = u /\ status[t] = "stored"}
Unsigned(u) == {t \in Tokens : t.user = u /\ status[t] = "unsigned"}

Init ==
  /\ known = {}
  /\ status = [t \in Tokens |-> "unsigned"]
  /\ exp = [t \in Tokens |-> 0]
  /\ expiresAt = [t \in Tokens |-> 0]
  /\ now = 0
  /\ req = [s \in Slots |-> Idle]

--------------------------------------------------------------------------------
(* Arrivals *)

StartSignIn(s, op, u) ==
  /\ req[s] = Idle
  /\ req' = [req EXCEPT ![s] = [op |-> op, pc |-> IF op = "register" THEN "find" ELSE "compare",
                                user |-> u, tok |-> NoToken, row |-> NoToken]]
  /\ UNCHANGED <<known, tokenVars, now>>

\* The cookie is set when the row is stored; a client may keep an old cookie.
StartWithCookie(s, op, t) ==
  /\ req[s] = Idle
  /\ status[t] \in {"stored", "gone"}
  /\ req' = [req EXCEPT ![s] = [op |-> op, pc |-> "verify",
                                user |-> t.user, tok |-> t, row |-> NoToken]]
  /\ UNCHANGED <<known, tokenVars, now>>

Arrive(s) ==
  \/ \E op \in SignIn, u \in Users : StartSignIn(s, op, u)
  \/ \E op \in WithCookie, t \in Tokens : StartWithCookie(s, op, t)

--------------------------------------------------------------------------------
(* register and login *)

FindUser(s) ==
  /\ req[s].pc = "find"
  /\ \/ req[s].user \in known /\ Reply(s)
     \/ req[s].user \notin known /\ Goto(s, "create")
  /\ UNCHANGED <<known, tokenVars, now>>

CreateUser_NoUnique(s) ==
  /\ req[s].pc = "create"
  /\ known' = known \cup {req[s].user}
  /\ Goto(s, "sign")
  /\ UNCHANGED <<tokenVars, now>>

\* users.email is unique: the later of two overlapping registrations fails.
CreateUser(s) ==
  /\ req[s].pc = "create"
  /\ \/ req[s].user \in known /\ Reply(s) /\ UNCHANGED known
     \/ /\ req[s].user \notin known
        /\ known' = known \cup {req[s].user}
        /\ Goto(s, "sign")
  /\ UNCHANGED <<tokenVars, now>>

\* A wrong password is counted (LoginAttempts) and refused.
ComparePassword(s) ==
  /\ req[s].pc = "compare"
  /\ \/ req[s].user \in known /\ Goto(s, "sign")
     \/ Reply(s)
  /\ UNCHANGED <<known, tokenVars, now>>

--------------------------------------------------------------------------------
(* refresh and logout *)

VerifyToken(s) ==
  /\ req[s].pc = "verify"
  /\ \/ now < exp[req[s].tok] /\ Goto(s, "look")
     \/ now >= exp[req[s].tok] /\ Reply(s)
  /\ UNCHANGED <<known, tokenVars, now>>

FindSession_NoCheck(s) ==
  /\ req[s].pc = "look"
  /\ \E r \in SessionsOf(req[s].user) \cup {NoToken} :
       req' = [req EXCEPT ![s].pc = "delete", ![s].row = r]
  /\ UNCHANGED <<known, tokenVars, now>>

\* The expiry of a row is not looked at.
FindSession(s) ==
  /\ req[s].pc = "look"
  /\ LET rows == SessionsOf(req[s].user) IN
     \/ \E r \in rows : req' = [req EXCEPT ![s].pc = "delete", ![s].row = r]
     \/ rows = {} /\ req[s].op = "refresh" /\ Goto(s, "wipe")
     \/ rows = {} /\ req[s].op = "logout" /\ Reply(s)
  /\ UNCHANGED <<known, tokenVars, now>>

DeleteSession_Many(s) ==
  /\ req[s].pc = "delete"
  /\ status' = [status EXCEPT ![req[s].row] = "gone"]
  /\ IF req[s].op = "refresh" THEN Goto(s, "sign") ELSE Reply(s)
  /\ UNCHANGED <<known, exp, expiresAt, now>>

\* delete by id of a row that is no longer there is an error (P2025).
DeleteSession(s) ==
  /\ req[s].pc = "delete"
  /\ LET r == req[s].row IN
     \/ status[r] # "stored" /\ Reply(s) /\ UNCHANGED status
     \/ /\ status[r] = "stored"
        /\ status' = [status EXCEPT ![r] = "gone"]
        /\ IF req[s].op = "refresh" THEN Goto(s, "sign") ELSE Reply(s)
  /\ UNCHANGED <<known, exp, expiresAt, now>>

\* "Reused detected": every session opened since the look is ended.
WipeSessions(s) ==
  /\ req[s].pc = "wipe"
  /\ status' = [t \in Tokens |-> IF t \in SessionsOf(req[s].user) THEN "gone" ELSE status[t]]
  /\ Reply(s)
  /\ UNCHANGED <<known, exp, expiresAt, now>>

--------------------------------------------------------------------------------
(* auth: the two halves around bcrypt.hash *)

\* Bound: a request that finds all numbers of its user used can only be lost.
SignToken(s) ==
  /\ req[s].pc = "sign"
  /\ \E t \in Unsigned(req[s].user) :
       /\ \A t2 \in Unsigned(req[s].user) : t.no <= t2.no
       /\ status' = [status EXCEPT ![t] = "signed"]
       /\ exp' = [exp EXCEPT ![t] = now + Ttl]
       /\ req' = [req EXCEPT ![s].pc = "store", ![s].tok = t]
  /\ UNCHANGED <<known, expiresAt, now>>

StoreToken_AccessTtl(s) ==
  /\ req[s].pc = "store"
  /\ status' = [status EXCEPT ![req[s].tok] = "stored"]
  /\ expiresAt' = [expiresAt EXCEPT ![req[s].tok] = now]
  /\ Reply(s)
  /\ UNCHANGED <<known, exp, now>>

\* The expiry of the row counts from here, the token's own from SignToken.
StoreToken(s) ==
  /\ req[s].pc = "store"
  /\ status' = [status EXCEPT ![req[s].tok] = "stored"]
  /\ expiresAt' = [expiresAt EXCEPT ![req[s].tok] = now + Ttl]
  /\ Reply(s)
  /\ UNCHANGED <<known, exp, now>>

--------------------------------------------------------------------------------
(* The environment and the nightly job *)

\* The process restarts, or the database refuses: the request ends where it is.
Lose(s) ==
  /\ req[s] # Idle
  /\ Reply(s)
  /\ UNCHANGED <<known, tokenVars, now>>

CleanExpiredTokens ==
  /\ status' = [t \in Tokens |->
                  IF status[t] = "stored" /\ expiresAt[t] < now THEN "gone" ELSE status[t]]
  /\ UNCHANGED <<known, exp, expiresAt, now, req>>

Tick ==
  /\ now < MaxTime
  /\ now' = now + 1
  /\ UNCHANGED <<known, tokenVars, req>>

Step(s) ==
  \/ FindUser(s) \/ CreateUser(s) \/ ComparePassword(s)
  \/ VerifyToken(s) \/ FindSession(s) \/ DeleteSession(s) \/ WipeSessions(s)
  \/ SignToken(s) \/ StoreToken(s)

Next ==
  \/ \E s \in Slots : Arrive(s) \/ Step(s) \/ Lose(s)
  \/ CleanExpiredTokens
  \/ Tick

Spec == Init /\ [][Next]_vars

--------------------------------------------------------------------------------
(* Properties *)

\* Rows, claims and requests have their types, and a request deletes or replaces
\* a row of its own user only.
TypeOK ==
  /\ known \subseteq Users
  /\ status \in [Tokens -> {"unsigned", "signed", "stored", "gone"}]
  /\ exp \in [Tokens -> Nat] /\ expiresAt \in [Tokens -> Nat]
  /\ now \in Nat
  /\ req \in [Slots -> {Idle} \cup Request]
  /\ \A s \in Slots :
       req[s].pc = "delete" \/ (req[s].pc \in {"sign", "store"} /\ req[s].op = "refresh")
         => req[s].row \in Tokens /\ req[s].row.user = req[s].user

Renewing == {s \in Slots : req[s].pc \in {"sign", "store"} /\ req[s].op = "refresh"}

\* Of the refreshes and logouts that found one row at most one goes on: the row
\* a refresh replaces is deleted, and no other refresh replaces it too
\* (auth.service.ts 145-151).
OneRefreshWins ==
  /\ \A s \in Renewing : status[req[s].row] = "gone"
  /\ \A s1, s2 \in Renewing : req[s1].row = req[s2].row => s1 = s2

\* The nightly job ends no session whose own token still verifies, although the
\* row and the token expire on clocks of their own (automation.service.ts 96).
CleanUpSparesLive ==
  [][\A t \in Tokens :
       status[t] = "stored" /\ status'[t] = "gone" /\ req' = req => exp[t] <= now]_vars

OpenSessions == {t \in Tokens : status[t] = "stored"} \cup {req[s].row : s \in Renewing}
Entering ==
  [s \in Slots |-> IF req[s].pc \in {"sign", "store"} /\ req[s].op \in SignIn
                     THEN [user |-> req[s].user, by |-> req[s].op]
                     ELSE [user |-> NoUser, by |-> "none"]]

Ledger == INSTANCE SessionLedger
            WITH entering <- Entering, open <- OpenSessions,
                 issued <- {t \in Tokens : status[t] \in {"stored", "gone"}}

\* Registrations, logins, refreshes, logouts and the nightly job keep the ledger:
\* one account per address, a session only for a granted sign-in, a refresh never
\* adds one, and a session that ended does not come back (auth.service.ts 52-177).
ImplementsLedger == Ledger!LedgerSpec
================================================================================
