---------------------------- MODULE MCReviewedEdit ----------------------------
(* Small instances of ReviewedEdit.                                           *)
EXTENDS ReviewedEdit, TLC

Interchangeable == Permutations(Mortal) \cup Permutations(Key) \cup Permutations(Input)

=============================================================================
