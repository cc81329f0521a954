----------------------------- MODULE SessionLedger -----------------------------
(***************************************************************************)
(* What signing in promises, without the database: a session is opened by  *)
(* a registration or a login that was granted, a refresh replaces one      *)
(* session by another of the same user, and what was closed stays closed.  *)
(***************************************************************************)
CONSTANTS Users, Tokens, Slots,
          NoUser      \* marks a slot in which nobody is being signed in

VARIABLES known,      \* users that have an account
          entering,   \* entering[s]: the sign-in granted to the request in slot s
          open,       \* open sessions, each named by its token
          issued      \* tokens that ever named a session

Nobody == [user |-> NoUser, by |-> "none"]
lvars == <<known, entering, open, issued>>

LedgerInit ==
  /\ known = {}
  /\ entering = [s \in Slots |-> Nobody]
  /\ open = {}
  /\ issued = {}

\* Only one of the registrations of an address is granted.
Register(s, u) ==
  /\ u \notin known
  /\ entering[s] = Nobody
  /\ known' = known \cup {u}
  /\ entering' = [entering EXCEPT ![s] = [user |-> u, by |-> "register"]]
  /\ UNCHANGED <<open, issued>>

Login(s, u) ==
  /\ u \in known
  /\ entering[s] = Nobody
  /\ entering' = [entering EXCEPT ![s] = [user |-> u, by |-> "login"]]
  /\ UNCHANGED <<known, open, issued>>

Open(s, t) ==
  /\ entering[s].user = t.user
  /\ t \notin issued
  /\ entering' = [entering EXCEPT ![s] = Nobody]
  /\ open' = open \cup {t}
  /\ issued' = issued \cup {t}
  /\ UNCHANGED known

Leave(s) ==
  /\ entering' = [entering EXCEPT ![s] = Nobody]
  /\ UNCHANGED <<known, open, issued>>

\* A refresh: there are never more sessions after it than before.
Renew(r, t) ==
  /\ r \in open
  /\ t \notin issued
  /\ r.user = t.user
  /\ open' = (open \ {r}) \cup {t}
  /\ issued' = issued \cup {t}
  /\ UNCHANGED <<known, entering>>

Close(S) ==
  /\ open' = open \ S
  /\ UNCHANGED <<known, entering, issued>>

LedgerNext ==
  \/ \E s \in Slots, u \in Users : Register(s, u) \/ Login(s, u)
  \/ \E s \in Slots, t \in Tokens : Open(s, t)
  \/ \E s \in Slots : Leave(s)
  \/ \E r, t \in Tokens : Renew(r, t)
  \/ \E S \in SUBSET open : Close(S)

LedgerSpec == LedgerInit /\ [][LedgerNext]_lvars
================================================================================
