CONSTANTS
  ana = ana
  bia = bia
  shared = shared
  t2 = t2
  t3 = t3
  Devices <- SharedDevice
  MaxJobs = 3
  Threshold = 2
  Interval = 3
  Timeout = 2
  HTTPTimeout = 1
  JobDeadline = 2
SPECIFICATION Spec
SYMMETRY TokenSymmetry
INVARIANTS
  OnlyRegisteredPushed
  NoDeviceLeftOut
  StallBounded
