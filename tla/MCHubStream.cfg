CONSTANTS
  c1 = c1
  c2 = c2
  ana = ana
  Clients = {c1}
  Citizens = {ana}
  CitizenOf <- OnlyAna
  SendBuffer = 2
  MaxDispatch = 4
SPECIFICATION FairSpec
INVARIANTS
  WrittenInOrder
  RegisteredMissesNothing
PROPERTIES
  ShutdownCompletes
  PumpsEnd
CHECK_DEADLOCK FALSE
