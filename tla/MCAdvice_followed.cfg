SPECIFICATION Spec
CONSTANTS
  SearchDays = 2
  Kinds <- InPlay
  LastDay = 3
  MaxTasks = 4
INVARIANTS AdviceHoldsWhenFollowed OverloadIsRelieved
PROPERTIES AdviceIsAccepted
