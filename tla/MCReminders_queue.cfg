SPECIFICATION Spec
CONSTANTS
  Tasks = {t1}
  People = {p1, p2}
  Statuses = {"PENDING", "OVERDUE"}
  Attempts = 2
  LastDay = 1
  MaxCrashes = 1
INVARIANTS DueTasksAreHeard
PROPERTIES MailTellsTheDeadline JobsSettle
