SPECIFICATION Spec
CONSTANTS
  None = None
  Document = {d1, d2}
  Value = {empty, v1, v2}
  Empty = empty
  CacheLimit = 1
SYMMETRY Documents
INVARIANTS ReportIsTrue CacheAgrees
PROPERTIES ChangesInCommit AbortsOnlyItsOwn
