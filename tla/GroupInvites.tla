------------------------------ MODULE GroupInvites ------------------------------
(***************************************************************************)
(* Invitations into a group: invite.service.ts composed with the handlers  *)
(* of GroupMembership, the queued e-mail that carries the token and the    *)
(* nightly clean-up of automation.service.ts.                              *)
(*                                                                         *)
(* Both kinds of handler take steps on the same tables, as described in    *)
(* GroupMembership, and a slot holds one request of either kind.           *)
(***************************************************************************)
EXTENDS GroupMembership

CONSTANTS Emails,        \* bound: the addresses invited, letter case included
          EmailOf,       \* EmailOf[u]: the address user u registered
          Canon,         \* Canon[e]: e trimmed and lower-cased
          InviteTtl,     \* a row expires this long after it is created (24 h)
          JwtTtl,        \* a token verifies this long after it is signed
          MaxTime,       \* bound: the clock stops here
          MaxInvites     \* bound: invitations stored or being created

ASSUME Addresses ==
  /\ DOMAIN EmailOf = Users
  /\ Emails \cup {EmailOf[u] : u \in Users} \subseteq DOMAIN Canon
ASSUME Lifetimes == InviteTtl \in Nat /\ JwtTtl \in Nat /\ MaxTime \in Nat

\* A signed token is determined by its claims, HS256 having no salt: the same
\* inviter inviting the same address in the same second signs the same token.
Tokens == [email : Emails, group : Groups, by : Users, iat : 0 .. MaxTime]

Terminal == {"ACCEPTED", "DECLINED", "EXPIRED"}
InviteStatus == {"PENDING"} \cup Terminal

VARIABLES status,   \* status[t]: the group_invites row of token t, "NONE" if absent
          expires,  \* expires[t]: its expiresAt
          mail,     \* mail[t]: the job that e-mails t
          now,      \* wall clock
          inv       \* inv[s]: the invitation request running in slot s

rows == <<status, expires>>
ivars == <<vars, status, expires, mail, now, inv>>

InviteRequest ==
  [op : {"invite"}, pc : {"guard", "sign"}, user : Users, email : Emails, group : Groups]
SignedRequest ==
  [op : {"invite"}, pc : {"inviter", "member", "pending", "create", "enqueue"}, tok : Tokens]
TokenRequest ==
  [op : {"accept", "decline", "preview"}, pc : {"verify", "find", "expiry", "membership", "write"},
   user : Users, tok : Tokens, seenStatus : InviteStatus \cup {"NONE"}]

InvReply(s) == inv' = [inv EXCEPT ![s] = Idle]
InvGoto(s, step) == inv' = [inv EXCEPT ![s].pc = step]

Expired(t) == expires[t] < now
SameInvite(t, e, g) == t.email = e /\ t.group = g

IInit ==
  /\ Init
  /\ status = [t \in Tokens |-> "NONE"]
  /\ expires = [t \in Tokens |-> 0]
  /\ mail = [t \in Tokens |-> "none"]
  /\ now = 0
  /\ inv = [s \in Slots |-> Idle]

--------------------------------------------------------------------------------
(* inviteUser *)

RoomForInvite ==
  Cardinality({t \in Tokens : status[t] # "NONE"})
    + Cardinality({s \in Slots : inv[s] # Idle /\ inv[s].op = "invite"}) < MaxInvites

StartInvite(s, u, e, g) ==
  /\ req[s] = Idle /\ inv[s] = Idle
  /\ group[g] # "unborn"
  /\ RoomForInvite
  /\ inv' = [inv EXCEPT ![s] =
               [op |-> "invite", pc |-> "guard", user |-> u, email |-> e, group |-> g]]
  /\ UNCHANGED <<vars, rows, mail, now>>

InviteGuard(s) ==
  /\ inv[s].pc = "guard"
  /\ \/ role[inv[s].group][inv[s].user] = "OWNER" /\ InvGoto(s, "sign")
     \/ role[inv[s].group][inv[s].user] # "OWNER" /\ InvReply(s)
  /\ UNCHANGED <<vars, rows, mail, now>>

GenerateToken(s) ==
  /\ inv[s].pc = "sign"
  /\ inv' = [inv EXCEPT ![s] =
               [op |-> "invite", pc |-> "inviter",
                tok |-> [email |-> inv[s].email, group |-> inv[s].group,
                         by |-> inv[s].user, iat |-> now]]]
  /\ UNCHANGED <<vars, rows, mail, now>>

\* The group is read first; an owner's row cannot outlive its group, so the two
\* reads answer as one.
FindInviter(s) ==
  /\ inv[s].pc = "inviter"
  /\ LET t == inv[s].tok IN
     \/ role[t.group][t.by] = "OWNER" /\ InvGoto(s, "member")
     \/ role[t.group][t.by] # "OWNER" /\ InvReply(s)
  /\ UNCHANGED <<vars, rows, mail, now>>

\* users is searched for the address as given: another letter case is not found.
FindMember(s) ==
  /\ inv[s].pc = "member"
  /\ LET t == inv[s].tok
         isMember == \E u \in Users : EmailOf[u] = t.email /\ role[t.group][u] # "NONE"
     IN \/ isMember /\ InvReply(s)
        \/ ~isMember /\ InvGoto(s, "pending")
  /\ UNCHANGED <<vars, rows, mail, now>>

PendingInvite(e, g) ==
  \E t \in Tokens : SameInvite(t, e, g) /\ status[t] = "PENDING" /\ expires[t] > now

FindPending_MailFirst(s) ==
  /\ inv[s].pc = "pending"
  /\ LET t == inv[s].tok IN
     \/ PendingInvite(t.email, t.group) /\ InvReply(s) /\ UNCHANGED mail
     \/ /\ ~PendingInvite(t.email, t.group)
        /\ InvGoto(s, "create")
        /\ mail' = [mail EXCEPT ![t] = "queued"]
  /\ UNCHANGED <<vars, rows, now>>

FindPending_Unbounded(s) ==
  /\ inv[s].pc = "pending"
  /\ InvGoto(s, "create")
  /\ UNCHANGED <<vars, rows, mail, now>>

FindPending(s) ==
  /\ inv[s].pc = "pending"
  /\ LET t == inv[s].tok IN
     \/ PendingInvite(t.email, t.group) /\ InvReply(s)
     \/ ~PendingInvite(t.email, t.group) /\ InvGoto(s, "create")
  /\ UNCHANGED <<vars, rows, mail, now>>

CreateInvite_ScaledTwice(s) ==
  /\ inv[s].pc = "create"
  /\ LET t == inv[s].tok IN
     /\ status' = [status EXCEPT ![t] = "PENDING"]
     /\ expires' = [expires EXCEPT ![t] = now + 1000 * InviteTtl]
  /\ InvGoto(s, "enqueue")
  /\ UNCHANGED <<vars, mail, now>>

\* The foreign key refuses a group deleted meanwhile, the unique index a token
\* stored already.
CreateInvite(s) ==
  /\ inv[s].pc = "create"
  /\ LET t == inv[s].tok IN
     \/ /\ Live(t.group) /\ status[t] = "NONE"
        /\ status' = [status EXCEPT ![t] = "PENDING"]
        /\ expires' = [expires EXCEPT ![t] = now + InviteTtl]
        /\ InvGoto(s, "enqueue")
     \/ /\ ~(Live(t.group) /\ status[t] = "NONE")
        /\ UNCHANGED rows
        /\ InvReply(s)
  /\ UNCHANGED <<vars, mail, now>>

\* After the commit: Redis refusing the job, or the process dying first, leaves
\* the row without a mail.
Enqueue(s) ==
  /\ inv[s].pc = "enqueue"
  /\ \/ mail' = [mail EXCEPT ![inv[s].tok] = "queued"]
     \/ UNCHANGED mail
  /\ InvReply(s)
  /\ UNCHANGED <<vars, rows, now>>

--------------------------------------------------------------------------------
(* acceptInvite, declineInvite, previewInvite *)

\* Only a token that reached a mailbox can come back; the link may be passed on,
\* and preview asks for no session (its user is not looked at).
StartWithToken(s, op, u, t) ==
  /\ req[s] = Idle /\ inv[s] = Idle
  /\ mail[t] = "sent"
  /\ inv' = [inv EXCEPT ![s] =
               [op |-> op, pc |-> "verify", user |-> u, tok |-> t, seenStatus |-> "NONE"]]
  /\ UNCHANGED <<vars, rows, mail, now>>

VerifyToken(s) ==
  /\ inv[s].pc = "verify"
  /\ \/ now < inv[s].tok.iat + JwtTtl /\ InvGoto(s, "find")
     \/ now >= inv[s].tok.iat + JwtTtl /\ InvReply(s)
  /\ UNCHANGED <<vars, rows, mail, now>>

FindInvite_AnyStatus(s) ==
  /\ inv[s].pc = "find"
  /\ LET seen == status[inv[s].tok] IN
     \/ seen # "NONE" /\ inv' = [inv EXCEPT ![s].pc = "expiry", ![s].seenStatus = seen]
     \/ seen = "NONE" /\ InvReply(s)
  /\ UNCHANGED <<vars, rows, mail, now>>

FindInvite(s) ==
  /\ inv[s].pc = "find"
  /\ LET seen == status[inv[s].tok] IN
     \/ seen = "PENDING" /\ inv' = [inv EXCEPT ![s].pc = "expiry", ![s].seenStatus = seen]
     \/ seen # "PENDING" /\ InvReply(s)
  /\ UNCHANGED <<vars, rows, mail, now>>

CheckExpiry_AnyRecipient(s) ==
  /\ inv[s].pc = "expiry"
  /\ \/ Expired(inv[s].tok) /\ InvReply(s)
     \/ ~Expired(inv[s].tok) /\ InvGoto(s, IF inv[s].op = "accept" THEN "membership" ELSE "write")
  /\ UNCHANGED <<vars, rows, mail, now>>

\* An expired invitation is marked EXPIRED and refused.  Inside the transaction
\* of accept and decline the refusal rolls the mark back; preview keeps it.
CheckExpiry(s) ==
  /\ inv[s].pc = "expiry"
  /\ LET t == inv[s].tok
         forUser == Canon[EmailOf[inv[s].user]] = Canon[t.email]
     IN \/ inv[s].op = "preview" /\ Expired(t) /\ InvGoto(s, "write")
        \/ inv[s].op = "accept" /\ ~Expired(t) /\ forUser /\ InvGoto(s, "membership")
        \/ inv[s].op = "decline" /\ ~Expired(t) /\ forUser /\ InvGoto(s, "write")
        \/ /\ IF inv[s].op = "preview" THEN ~Expired(t) ELSE Expired(t) \/ ~forUser
           /\ InvReply(s)
  /\ UNCHANGED <<vars, rows, mail, now>>

FindMembership(s) ==
  /\ inv[s].pc = "membership"
  /\ LET mine == role[inv[s].tok.group][inv[s].user] IN
     \/ mine = "NONE" /\ InvGoto(s, "write")
     \/ mine # "NONE" /\ InvReply(s)
  /\ UNCHANGED <<vars, rows, mail, now>>

AcceptInvite_Upsert(s) ==
  /\ inv[s].pc = "write" /\ inv[s].op = "accept"
  /\ LET t == inv[s].tok
         u == inv[s].user
     IN \/ /\ Live(t.group)
           /\ role' = [role EXCEPT ![t.group][u] = "MEMBER"]
           /\ status' = [status EXCEPT ![t] = "ACCEPTED"]
        \/ ~Live(t.group) /\ UNCHANGED <<role, status>>
  /\ InvReply(s)
  /\ UNCHANGED <<group, req, expires, mail, now>>

\* The membership and the ACCEPTED mark commit together.  The primary key
\* refuses a second membership, the foreign key a deleted group; the status read
\* by FindInvite is not checked again.
AcceptInvite(s) ==
  /\ inv[s].pc = "write" /\ inv[s].op = "accept"
  /\ LET t == inv[s].tok
         u == inv[s].user
     IN \/ Join(u, t.group) /\ status' = [status EXCEPT ![t] = "ACCEPTED"]
        \/ ~(Live(t.group) /\ role[t.group][u] = "NONE") /\ UNCHANGED <<vars, status>>
  /\ InvReply(s)
  /\ UNCHANGED <<expires, mail, now>>

MarkById(s, mark) ==
  LET t == inv[s].tok IN
  \/ status[t] # "NONE" /\ status' = [status EXCEPT ![t] = mark]
  \/ status[t] = "NONE" /\ UNCHANGED status

DeclineInvite(s) ==
  /\ inv[s].pc = "write" /\ inv[s].op = "decline"
  /\ MarkById(s, "DECLINED")
  /\ InvReply(s)
  /\ UNCHANGED <<vars, expires, mail, now>>

ExpirePreviewed(s) ==
  /\ inv[s].pc = "write" /\ inv[s].op = "preview"
  /\ MarkById(s, "EXPIRED")
  /\ InvReply(s)
  /\ UNCHANGED <<vars, expires, mail, now>>

--------------------------------------------------------------------------------
(* The mail worker, the nightly clean-up and the clock *)

\* The worker delivers a job at its first or a later attempt, or drops it after
\* the last one; a job whose group is gone is mailed all the same.
WorkMail(t) ==
  /\ mail[t] = "queued"
  /\ \E outcome \in {"sent", "failed"} : mail' = [mail EXCEPT ![t] = outcome]
  /\ UNCHANGED <<vars, rows, now, inv>>

CleanExpiredInvites_Inverted ==
  /\ \E t \in Tokens : status[t] = "PENDING" /\ expires[t] > now
  /\ status' = [t \in Tokens |->
                  IF status[t] = "PENDING" /\ expires[t] > now THEN "EXPIRED" ELSE status[t]]
  /\ UNCHANGED <<vars, expires, mail, now, inv>>

\* One UPDATE ... WHERE status = 'PENDING' AND expiresAt < now.
CleanExpiredInvites ==
  /\ \E t \in Tokens : status[t] = "PENDING" /\ Expired(t)
  /\ status' = [t \in Tokens |->
                  IF status[t] = "PENDING" /\ Expired(t) THEN "EXPIRED" ELSE status[t]]
  /\ UNCHANGED <<vars, expires, mail, now, inv>>

Tick ==
  /\ now < MaxTime
  /\ now' = now + 1
  /\ UNCHANGED <<vars, rows, mail, inv>>

\* Deleting a group cascades to its invitations.
GroupRequest(s) ==
  /\ \/ Arrive(s) /\ inv[s] = Idle
     \/ GroupStep(s)
  /\ status' = [t \in Tokens |-> IF Live(t.group)' THEN status[t] ELSE "NONE"]
  /\ UNCHANGED <<expires, mail, now, inv>>

InviteStep(s) ==
  \/ InviteGuard(s) \/ GenerateToken(s) \/ FindInviter(s) \/ FindMember(s)
  \/ FindPending(s) \/ CreateInvite(s) \/ Enqueue(s)
  \/ VerifyToken(s) \/ FindInvite(s) \/ CheckExpiry(s) \/ FindMembership(s)
  \/ AcceptInvite(s) \/ DeclineInvite(s) \/ ExpirePreviewed(s)

InviteArrive(s) ==
  \/ \E u \in Users, e \in Emails, g \in Groups : StartInvite(s, u, e, g)
  \/ \E op \in {"accept", "decline", "preview"}, u \in Users, t \in Tokens :
       StartWithToken(s, op, u, t)

INext ==
  \/ \E s \in Slots : GroupRequest(s) \/ InviteArrive(s) \/ InviteStep(s)
  \/ \E t \in Tokens : WorkMail(t)
  \/ CleanExpiredInvites \/ Tick

ISpec == IInit /\ [][INext]_ivars

\* The clock advances and the nightly job runs, however busy the requests are.
FairISpec == ISpec /\ WF_ivars(Tick) /\ WF_ivars(CleanExpiredInvites)

--------------------------------------------------------------------------------
(* Properties *)

\* Type invariant of the tables, the mail jobs and the handlers' locals.
InviteTypes ==
  /\ status \in [Tokens -> InviteStatus \cup {"NONE"}]
  /\ expires \in [Tokens -> 0 .. MaxTime + InviteTtl]
  /\ mail \in [Tokens -> {"none", "queued", "sent", "failed"}]
  /\ now \in 0 .. MaxTime
  /\ inv \in [Slots -> {Idle} \cup InviteRequest \cup SignedRequest \cup TokenRequest]
ITypeOK == TypeOK /\ InviteTypes

\* No invitation outlives its group, whichever of deletion and creation
\* commits first (foreign key and cascade of the schema).
InviteIntegrity == \A t \in Tokens : status[t] # "NONE" => Live(t.group)

\* A token is mailed only once its row is committed: the transaction of
\* inviteUser ends before the job is queued, so a link that reaches a mailbox
\* finds its row for as long as the group lives.
MailOnlyAfterCommit ==
  \A t \in Tokens : mail[t] # "none" /\ Live(t.group) => status[t] # "NONE"

\* A user enters an existing group only in the step that marks ACCEPTED an
\* invitation to that group, mailed before, for the user's own address, letter
\* case aside; and no invitation turns ACCEPTED without its recipient joining.
JoinOnlyByInvite ==
  [][/\ \A u \in Users, g \in Groups :
          role[g][u] = "NONE" /\ role'[g][u] # "NONE" /\ group[g] # "unborn" =>
            \E t \in Tokens : /\ t.group = g /\ Canon[t.email] = Canon[EmailOf[u]]
                              /\ mail[t] = "sent" /\ status'[t] = "ACCEPTED"
     /\ \A t \in Tokens :
          status[t] # "ACCEPTED" /\ status'[t] = "ACCEPTED" =>
            \E u \in Users : /\ Canon[EmailOf[u]] = Canon[t.email]
                             /\ role[t.group][u] = "NONE"
                             /\ role'[t.group][u] = "MEMBER"]_ivars

\* A settled invitation changes again only by a handler that had found it
\* PENDING: ensureInvitePending refuses every other.
SettledRewrittenOnlyByStaleRead ==
  [][\A t \in Tokens :
       status[t] \in Terminal /\ status'[t] \notin {status[t], "NONE"} =>
         \E s \in Slots : /\ inv[s].pc = "write" /\ inv'[s] = Idle
                          /\ inv[s].tok = t
                          /\ inv[s].seenStatus = "PENDING"]_ivars

\* Seen from the group tables alone, invitations are only Join steps.
ImplementsMembership == Spec

\* An address has at most one pending, unexpired invitation to a group:
\* inviteUser refuses a second one.
OnePendingPerEmail ==
  \A t, o \in Tokens :
    /\ SameInvite(t, o.email, o.group)
    /\ {status[t], status[o]} = {"PENDING"}
    /\ expires[t] > now /\ expires[o] > now
    => t = o

\* The recipient's answer is final: ensureInvitePending refuses an invitation
\* already processed.
AnswerIsFinal ==
  [][\A t \in Tokens :
       status[t] \in {"ACCEPTED", "DECLINED"} => status'[t] \in {status[t], "NONE"}]_ivars

\* No invitation stays PENDING past its expiry: the nightly job settles it if
\* nobody answers.  MaxTime - 1 is the last expiry the bounded clock passes.
InvitesSettle ==
  \A t \in Tokens :
    status[t] = "PENDING" /\ expires[t] < MaxTime ~> status[t] # "PENDING"
================================================================================
