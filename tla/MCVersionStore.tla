--------------------------- MODULE MCVersionStore ---------------------------
EXTENDS VersionStore, TLC

WritersAndGraphs == Permutations(Writer) \cup Permutations(Graph)
=============================================================================
