CONSTANTS
  Requests = {q1, q2}
  Events <- ThreeEvents
  PoolSize = 2
  MaxFaults = 0
SPECIFICATION Spec
INVARIANT DuplicateMeansSameEvent
CHECK_DEADLOCK FALSE
