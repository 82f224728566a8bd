CONSTANTS
  None = None
  MaxCrashes = 1
SPECIFICATION Spec
INVARIANTS
  VerifiedWasReopened
PROPERTIES
  SavesOnce
  ClosesOnce
  LosesNothing
CONSTRAINT OneTaskAtATime
CHECK_DEADLOCK FALSE
