---------------------------- MODULE RequestLedger ----------------------------
(***************************************************************************)
(* What the queue promises to a caller of QueueRuntime.call, with no file,  *)
(* lock or process in it: each request is performed at most once, one that  *)
(* was withdrawn is never performed, and an outcome is known only of a      *)
(* request that was performed.                                              *)
(***************************************************************************)
CONSTANT Request

VARIABLE ledger

Stages == {"unsent", "sent", "withdrawn", "done", "known"}

Init == ledger = [r \in Request |-> "unsent"]

Move(r, from, to) == ledger[r] = from /\ ledger' = [ledger EXCEPT ![r] = to]

Send(r) == Move(r, "unsent", "sent")

Perform(r) == Move(r, "sent", "done")

Learn(r) == Move(r, "done", "known")

\* One cleanup may take several requests back at once.
Withdraw(R) ==
  /\ \A r \in R : ledger[r] = "sent"
  /\ ledger' = [r \in Request |-> IF r \in R THEN "withdrawn" ELSE ledger[r]]

Next ==
  \/ \E r \in Request : Send(r) \/ Perform(r) \/ Learn(r)
  \/ \E R \in SUBSET Request : Withdraw(R)

Spec == Init /\ [][Next]_ledger

=============================================================================
