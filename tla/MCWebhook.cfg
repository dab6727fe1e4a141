CONSTANTS
  Requests = {q1, q2, q3}
  Events <- TwoEvents
  PoolSize = 2
  MaxFaults = 1
SPECIFICATION FairSpec
INVARIANTS
  OneNotificationPerKey
  OneCitizenPerFingerprint
  OutboxMatchesNotifications
  AcknowledgedIsStored
  FailedIsKept
PROPERTY EveryDeliveryAnswered
CHECK_DEADLOCK FALSE
