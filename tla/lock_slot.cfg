CONSTANTS
  r1 = r1
  r2 = r2
  r3 = r3
  p1 = p1
  p2 = p2
  p3 = p3
  Request = {r1, r2, r3}
  Process = {p1, p2, p3}
  Mortal = {p1, p2}
  PidOf <- ThreeRequests
  None = None
SPECIFICATION FairSpec
PROPERTIES
  ImplementsSlot
  OnlyDeadLocksAreTaken
  ClaimsReturn
  DeadLockGoes
