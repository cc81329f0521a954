SPECIFICATION Spec
CONSTANTS
  Users = {u1, u2}
  Groups = {g1}
  Slots = {s1, s2}
  Ids = {t1}
  Priorities = {"HIGH"}
  Statuses = {"PENDING", "COMPLETED"}
  Instants <- Yesterday
  Days = {0}
SYMMETRY Symmetry
INVARIANTS NoOrphanTasks
PROPERTIES RescheduleKeepsRules ChangedByMembersOnly CompletionSticks
