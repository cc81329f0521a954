SPECIFICATION ISpec
CONSTANTS
  owner = owner
  guest = guest
  Users <- TwoUsers
  Groups = {g1}
  Names = {n1}
  Slots = {s1, s2}
  Emails <- OneMailbox
  EmailOf <- MailboxOf
  Canon <- LowerCase
  InviteTtl = 1
  JwtTtl = 3
  MaxTime = 2
  MaxInvites = 1
SYMMETRY SlotSymmetry
INVARIANTS ITypeOK MailOnlyAfterCommit
PROPERTIES JoinOnlyByInvite SettledRewrittenOnlyByStaleRead ImplementsMembership
