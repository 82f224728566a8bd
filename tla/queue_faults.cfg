CONSTANTS
  c1 = c1
  c2 = c2
  m1 = m1
  m2 = m2
  q1 = q1
  Client = {c1, c2}
  Request = {m1, m2}
  ReadOnly <- MCReadOnly
  Owner <- MCOwner
  None = None
  MaxCrashes = 1
  MaxSignals = 1
  MaxBridgeCrashes = 1
  MaxAgings = 1
SPECIFICATION Spec
CONSTRAINT FewFaults
INVARIANTS
  AtMostOnce
  EvidenceKept
  NoResidueOfLearned
  ExclusiveScope
  AuthorizedMeansQuiescent
PROPERTIES
  RecoveryTakesOnlyOrphans
  ImplementsLedger
CHECK_DEADLOCK FALSE
