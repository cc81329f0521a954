SPECIFICATION FairISpec
CONSTANTS
  owner = owner
  guest = guest
  Users <- TwoUsers
  Groups = {g1}
  Names = {n1}
  Slots = {s1}
  Emails <- OneMailbox
  EmailOf <- MailboxOf
  Canon <- LowerCase
  InviteTtl = 1
  JwtTtl = 1
  MaxTime = 2
  MaxInvites = 2
INVARIANTS OwnerExists OnePendingPerEmail
PROPERTIES ImplementsAtomicGroups AnswerIsFinal InvitesSettle
