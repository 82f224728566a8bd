CONSTANTS
  c1 = c1
  c2 = c2
  m1 = m1
  m2 = m2
  q1 = q1
  Client = {c1, c2}
  Request = {m1, m2}
  ReadOnly <- MCReadOnly
  Owner <- MCOwner
  None = None
  MaxCrashes = 0
  MaxSignals = 0
  MaxBridgeCrashes = 0
  MaxAgings = 0
SPECIFICATION Spec
INVARIANTS
  AuthorizedMeansNoOrphan
CHECK_DEADLOCK FALSE
