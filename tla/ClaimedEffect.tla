--------------------------- MODULE ClaimedEffect ---------------------------
(***************************************************************************)
(* What the journals of src/src/model-accessibility-delivery.mjs and         *)
(* src/src/model-accessibility-reopen.mjs promise: a native effect that      *)
(* cannot be rolled back happens once at most and under a claim, evidence is *)
(* recorded of an effect that has happened, and success is told of recorded  *)
(* evidence only.  Nothing undoes a claim, so an effect whose evidence is    *)
(* missing is never tried again.  A reviewed edit of src/src/agent-gateway.mjs *)
(* promises the same, its task's leaving the review being the claim.        *)
(***************************************************************************)
EXTENDS Naturals

VARIABLES
  claimed,  \* the directory of the task exists
  effects,  \* how often the native effect has happened
  evidence, \* its signed record exists
  told      \* the task is completed

vars == <<claimed, effects, evidence, told>>

Init == claimed = FALSE /\ effects = 0 /\ evidence = FALSE /\ told = FALSE

Claim == ~claimed /\ claimed' = TRUE /\ UNCHANGED <<effects, evidence, told>>

Perform ==
  /\ claimed /\ effects = 0 /\ ~evidence
  /\ effects' = 1
  /\ UNCHANGED <<claimed, evidence, told>>

Record == effects = 1 /\ evidence' = TRUE /\ UNCHANGED <<claimed, effects, told>>

Tell == evidence /\ told' = TRUE /\ UNCHANGED <<claimed, effects, evidence>>

Next == Claim \/ Perform \/ Record \/ Tell

Spec == Init /\ [][Next]_vars

=============================================================================
