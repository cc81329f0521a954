SPECIFICATION Spec
CONSTANTS
  Slots = {s1, s2, s3}
  PoolSize = 2
  Fan = 2
INVARIANTS NoConnectionLost AnswerTellsCommit StallTakesAPoolOfShares
PROPERTIES EveryRequestAnswered
