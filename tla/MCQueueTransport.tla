-------------------------- MODULE MCQueueTransport --------------------------
(* Small instances of QueueTransport: two clients, each with the    *)
(* ids that its pid can make.                                                *)
EXTENDS QueueTransport, TLC

CONSTANTS c1, c2, m1, m2, q1

\* m1 and m2 mutate the model, q1 only reads it.
MCReadOnly == {q1} \cap Request
MCOwner == [r \in Request |-> IF r = m2 THEN c2 ELSE c1]

\* Bound: two faults of any kinds.
FewFaults == faults["crash"] + faults["signal"] + faults["bridge"] + faults["aging"] <= 2

=============================================================================
