CONSTANTS
  Client = {c1}
  Doc = {d1, d2}
  File = {f1}
  Revision = {r1, r2}
  None = None
  Asked <- AllCalls
  MaxSessions = 1
  MaxUserSteps = 2
  MaxCrashes = 1
  MaxAgings = 1
SYMMETRY Interchangeable
CONSTRAINT FewFaults
SPECIFICATION Spec
PROPERTIES
  MutatesWhatItSaw
  PendingOpenHolds
  ClosesOnlySaved
CHECK_DEADLOCK FALSE
