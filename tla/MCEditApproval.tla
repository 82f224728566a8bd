--------------------------- MODULE MCEditApproval ---------------------------
EXTENDS EditApproval, TLC

Symmetry == Permutations(Tab) \cup Permutations(Request) \cup Permutations(Server)
=============================================================================
