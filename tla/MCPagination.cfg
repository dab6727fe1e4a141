CONSTANTS
  Notes = {1, 2, 3, 4, 5}
  CreatedAt <- TiedInstants
  Limits <- SomeLimits
  Offsets <- SomeOffsets
  DefaultLimit = 1
  MaxLimit = 2
SPECIFICATION Spec
INVARIANTS
  UnseenIsAhead
  WalkMissesNothing
CHECK_DEADLOCK FALSE
