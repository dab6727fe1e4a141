CONSTANTS
  Rows = {1, 2}
  Workers = {w1, w2}
  BatchSize = 2
  MaxAttempts = 2
  RedisTries = 2
  MaxRollbacks = 2
SPECIFICATION FairSpec
INVARIANTS
  TypeOK
  SentWasPublished
  DeadExactlyAtLimit
  CopiesBounded
  PushAtMostOnce
PROPERTIES
  ImplementsContract
  EveryRowSettles
CHECK_DEADLOCK FALSE
