CONSTANTS
  Threshold = 3
  Interval = 0
  Timeout = 0
  Callers = {k1, k2}
  Notes <- OneEach
SPECIFICATION FairSpec
INVARIANTS
  NoPeeking
  UpstreamShielded
PROPERTIES
  TurnedAwayWithCause
  OnlyProbeCloses
  Recovers
