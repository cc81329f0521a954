SPECIFICATION FairSpec
CONSTANTS
  Ips = {i1}
  Emails = {e1, e2}
  Slots = {s1, s2}
  MaxAttempts = 2
  Window = 1
  BlockTime = 2
  MaxLosses = 1
INVARIANTS TypeOK CountersExpire LimitNotForgotten
PROPERTIES BlocksEnd
