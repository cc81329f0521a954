SPECIFICATION FairSpec
CONSTANTS
  Users = {u1}
  Groups = {}
  Slots = {s1}
  Ids = {t1, t2}
  Priorities = {"MEDIUM", "HIGH", "URGENT"}
  Statuses = {"COMPLETED"}
  Instants = {2}
  Days <- YesterdayOrTomorrow
PROPERTIES RescheduleKeepsRules OverdueIsMarked
