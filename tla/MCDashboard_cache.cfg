SPECIFICATION Spec
CONSTANTS
  Users = {u1}
  Slots = {s1, s2}
  DashTtl = 2
  VersionTtl = 2
  MaxLatency = 1
  MaxWrites = 3
SYMMETRY Interchangeable
PROPERTIES StalenessBounded OwnChangeMissedOnlyAfterRestart
