CONSTANTS
  c1 = c1
  c2 = c2
  ana = ana
  Clients = {c1, c2}
  Citizens = {ana}
  CitizenOf <- TwoOfOne
  SendBuffer = 1
  MaxDispatch = 2
SPECIFICATION Spec
INVARIANT NoSendOnClosedChannel
CHECK_DEADLOCK FALSE
