SPECIFICATION Spec
CONSTANTS
  Users = {u1}
  Slots = {s1, s2}
  NoUser = NoUser
  MaxTokens = 2
  Ttl = 2
  MaxTime = 3
INVARIANTS TypeOK OneRefreshWins
PROPERTIES CleanUpSparesLive ImplementsLedger
