CONSTANTS
  Process = {p1, p2, p3}
  Mortal = {p1, p2}
  Key = {k1, k2}
  Input = {i1, i2}
  None = None
  MaxCalls = 5
SYMMETRY Interchangeable
SPECIFICATION Spec
INVARIANTS
  AttemptedOnce
  ReceiptDecides
  NothingIsStuck
PROPERTIES
  EditsOnce
  AnswersAreFinal
CHECK_DEADLOCK FALSE
