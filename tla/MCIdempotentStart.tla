-------------------------- MODULE MCIdempotentStart --------------------------
(* Small instances of IdempotentStart.                                       *)
EXTENDS IdempotentStart, TLC

Interchangeable == Permutations(Mortal) \cup Permutations(Call \ Mortal)

=============================================================================
