CONSTANTS
  Call = {c1, c2, c3, c4}
  Mortal = {c1, c2, c3}
  None = None
SYMMETRY Interchangeable
SPECIFICATION Spec
INVARIANTS
  GivenTasksAreStored
  OneTaskUnlessStolen
  BegunOnceWithoutDeaths
  NothingIsHeld
CHECK_DEADLOCK FALSE
