----------------------------- MODULE LockedEdit -----------------------------
(***************************************************************************)
(* A reviewed edit behind the lock file of its task: withTaskRequestSlot in  *)
(* src/src/agent-gateway.mjs.  A request that has the lock of                *)
(* TaskRequestLock runs its callback, a submit or a resume of ReviewedEdit,  *)
(* which does not ask whether another one is running: only the lock file     *)
(* keeps them apart.  If it did not, two would work with one `call' here.    *)
(***************************************************************************)
EXTENDS TaskRequestLock

CONSTANTS Key, Input, MaxCalls

VARIABLES
  callback, \* of each request that has the lock: "before", "running", "after"
  task, claims, relocks, receipt, inside, call, attempts, commits, calls

edit == <<task, claims, relocks, receipt, inside, call, attempts, commits, calls>>
lockedVars == <<vars, callback, edit>>

\* The edit, with what is proved of it.
Edit == INSTANCE ReviewedEdit_proofs

LockedInit == Init /\ Edit!Init /\ callback = [r \in Request |-> "before"]

Turn(r, from, to) == callback[r] = from /\ callback' = [callback EXCEPT ![r] = to]

-----------------------------------------------------------------------------
(* withTaskRequestSlot                                                      *)

\* The claim, and the release when the callback has returned.
Slotted(r) ==
  /\ Claim(r) \/ Step(r)
  /\ IF pc[r] = "held" THEN Turn(r, "after", "before") ELSE UNCHANGED callback
  /\ UNCHANGED edit

\* resume_agent_task or submit_agent_task_input.
BeginCall(r) ==
  LET p == PidOf[r] IN
  /\ At(r, "held") /\ Turn(r, "before", "running")
  /\ inside' = {p}
  /\ \/ Edit!Begin(p, None, None, "inspect")
     \/ /\ task.state # "awaiting_input"
        /\ \E k \in Key, i \in Input : Edit!Begin(p, k, i, "claim")
  /\ UNCHANGED <<lock, recovery, pc, found, tries>>

Continue(r) ==
  /\ At(r, "held") /\ Edit!Step
  /\ Turn(r, "running", IF inside' = {} THEN "after" ELSE "running")
  /\ UNCHANGED <<lock, recovery, pc, found, tries>>

\* read_agent_artifact.
OtherCall(r) == At(r, "held") /\ Turn(r, "before", "after") /\ UNCHANGED <<vars, edit>>

Dies(p) == Die(p) /\ Edit!Crash(p) /\ UNCHANGED callback

Run(r) == Slotted(r) \/ BeginCall(r) \/ Continue(r) \/ OtherCall(r)

LockedNext == (\E r \in Request : Run(r)) \/ \E p \in Process : Dies(p)

LockedSpec == LockedInit /\ [][LockedNext]_lockedVars

-----------------------------------------------------------------------------
(* Properties                                                               *)

\* However the lock is claimed, recovered and left by requests that die anywhere,
\* submits and resumes follow each other: what ReviewedEdit says of calls that
\* do, holds of calls that only share the lock file.
ImplementsEdit == Edit!Spec

=============================================================================
