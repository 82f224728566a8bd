------------------------- MODULE MCModelTransaction -------------------------
EXTENDS ModelTransaction, TLC

Documents == Permutations(Document)
=============================================================================
