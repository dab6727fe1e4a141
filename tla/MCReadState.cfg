CONSTANTS
  ana = ana
  bia = bia
  n1 = n1
  n2 = n2
  n3 = n3
  n4 = n4
  Requests = {q1, q2}
  Citizens = {ana, bia}
  Notes = {n1, n2, n3, n4}
  Owner <- Owners
  Chamado <- ChamadoOf
  Malformed = Malformed
  MaxFaults = 1
SPECIFICATION Spec
SYMMETRY RequestSymmetry
INVARIANTS
  ReadOnceByOwner
  CallbacksBacked
  
  NotFoundMeansRead
CHECK_DEADLOCK FALSE
