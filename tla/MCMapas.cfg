CONSTANTS
  Threshold = 2
  Interval = 12
  Timeout = 6
  Period = 4
  HTTPTimeout = 1
SPECIFICATION MapasSpec
INVARIANTS
  NoticesOutage
  NoticesRecovery
  StatusTellsWhy
