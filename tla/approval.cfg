SPECIFICATION Spec
CONSTANTS
  Tab = {t1, t2}
  Request = {own, parent}
  Server = {s1, s2}
  MaxReplaced = 1
  MaxFaults = 1
  MaxDecisions = 2
  MaxCalls = 3
  MaxEvents = 5
  Torn = Torn
  None = None
SYMMETRY Symmetry
INVARIANTS DecisionStands RunsOnlyApproved ExecutesAlone
PROPERTY SpendsConsentOnce
CHECK_DEADLOCK FALSE
