CONSTANTS
  None = None
  MaxCrashes = 0
SPECIFICATION Spec
INVARIANTS
  ReceiptRecovers
CONSTRAINT OneTaskAtATime
CHECK_DEADLOCK FALSE
