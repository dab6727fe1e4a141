CONSTANTS
  p1 = p1
  p2 = p2
  Rows = {1, 2}
  Owner <- RowOwner
  Processes = {p1, p2}
  Conns = {1}
  Home <- HomeOf
  Citizen <- CitizenOf
  MaxPublished = 2
SPECIFICATION Spec
INVARIANTS
  SameOrderEverywhere
  PublishedReachesConnected
  ListAndStreamMissNothing
