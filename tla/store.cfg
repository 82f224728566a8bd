SPECIFICATION StoreSpec
CONSTANTS
  Writer = {w1, w2}
  Graph = {g1, g2}
  MaxCrashes = 2
  Absent = Absent
SYMMETRY WritersAndGraphs
INVARIANTS KeptVersionsStay ListedCanBeRead
PROPERTIES HistoryGrows
