----------------------------- MODULE RequestSlot -----------------------------
(***************************************************************************)
(* What withTaskRequestSlot in src/src/agent-gateway.mjs promises: of all    *)
(* requests for one task, in whatever processes, at most one living one is   *)
(* inside its callback.                                                      *)
(***************************************************************************)
CONSTANT Request

VARIABLE inside

Init == inside = {}

Enter(r) == inside = {} /\ inside' = {r}

\* The request leaves, or its process dies.
Exit(r) == inside = {r} /\ inside' = {}

Next == \E r \in Request : Enter(r) \/ Exit(r)

Spec == Init /\ [][Next]_inside

=============================================================================
