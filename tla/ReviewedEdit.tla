---------------------------- MODULE ReviewedEdit ----------------------------
(***************************************************************************)
(* A reviewed edit of an existing model, from the task that awaits review to *)
(* the end of its plan: submit and resume in src/src/agent-gateway.mjs,      *)
(* executeReviewedExistingEdit and finalizeReviewedMutationReceipt, over the *)
(* idempotency claims and recovery locks of src/src/agent-task-store.mjs and *)
(* the receipt of src/src/task-mutation-receipt-ledger.mjs.                  *)
(*                                                                         *)
(* Every call for the task runs in its request slot (RequestSlot, which      *)
(* TaskRequestLock implements), so calls follow each other; but a call may   *)
(* end at any step, with its process, and leave behind what it has written:  *)
(* a pending claim, a recovery lock, a task in "executing", a model that has *)
(* been changed without a receipt.                                           *)
(***************************************************************************)
EXTENDS Naturals, FiniteSets

CONSTANTS
  Process,  \* node processes (pids)
  Mortal,   \* bound: the processes that may die
  Key,      \* idempotency keys that clients submit with
  Input,    \* inputs they submit; with the task, a fingerprint
  None,
  MaxCalls  \* bound: calls for the task

ASSUME EditAssumption ==
  /\ None \notin Process \cup Key \cup Input
  /\ MaxCalls \in Nat

VARIABLES
  task,     \* state and task_version of the stored task
  claims,   \* the idempotency record of each key
  relocks,  \* the owner of each key's .recovery.lock
  receipt,  \* the mutation receipt of the task: its claim and fingerprint
  inside,   \* the process whose call has the request slot
  call,     \* that call
  dead,     \* processes that have died
  attempts, \* history: how often the edit was handed to the bridge
  commits,  \* how often it has changed the model
  calls     \* how much of MaxCalls is used

files == <<claims, relocks, receipt>>
model == <<attempts, commits>>
vars == <<task, files, inside, call, dead, model, calls>>

State == {"awaiting_input", "awaiting_review", "approved", "executing", "verifying",
          "completed", "failed"}
Place == {"claim", "inspect", "recover", "reclaim", "rerun", "run", "execute", "apply",
          "receipt", "finalize", "mark", "error", "abandoned", "envelope", "answer", "leave"}
Task == [state : State, version : Nat]
\* response stands for the task state in the recorded envelope.
Claim == [input : Input, done : BOOLEAN, owner : Process \cup {None},
          state : State, version : Nat, response : State \cup {None}]
Call == [process : Process, key : Key \cup {None}, input : Input \cup {None},
         at : Place, locked : BOOLEAN]
Receipt == [key : Key, input : Input]

ASSUME RecordAssumption == None \notin State \cup Claim \cup Call \cup Receipt

Slot == INSTANCE RequestSlot WITH Request <- Process

Init ==
  /\ task \in [state : {"awaiting_review", "approved"}, version : {0}]
  /\ claims = [k \in Key |-> None] /\ relocks = [k \in Key |-> None]
  /\ receipt = None
  /\ inside = {} /\ call = None /\ dead = {}
  /\ attempts = 0 /\ commits = 0 /\ calls = 0

-----------------------------------------------------------------------------
(* A call enters, continues and leaves                                      *)

At(place) == call # None /\ call.at = place
Goto(place) == call' = [call EXCEPT !.at = place]

Return == Slot!Exit(call.process) /\ call' = None
Stay == UNCHANGED <<inside, dead, calls>>
Left == Return /\ UNCHANGED <<dead, calls>>

\* The callback of a request of the process begins.
Begin(p, key, input, place) ==
  /\ p \notin dead /\ calls < MaxCalls /\ calls' = calls + 1
  /\ call' = [process |-> p, key |-> key, input |-> input, at |-> place, locked |-> FALSE]
  /\ UNCHANGED <<task, files, dead, model>>

Enter(p, key, input, place) == Slot!Enter(p) /\ Begin(p, key, input, place)

\* A task that awaits input gets another plan, with a review of its own.
Submit(p, k, i) == task.state # "awaiting_input" /\ Enter(p, k, i, "claim")

Resume(p) == Enter(p, None, None, "inspect")

\* A process dies, in a call or out of it, and its files stay.
Crash(p) ==
  /\ p \in Mortal \ dead /\ dead' = dead \cup {p}
  /\ \/ p \in inside /\ Return
     \/ p \notin inside /\ UNCHANGED <<inside, call>>
  /\ UNCHANGED <<task, files, model, calls>>

Moved(state) == [state |-> state, version |-> task.version + 1]
Touched == Moved(task.state)

-----------------------------------------------------------------------------
(* Idempotency claims                                                       *)

Claimed(k) == claims[k] # None
Mine == claims[call.key]

\* The replacement record of claimIdempotency.
FreshClaim ==
  [input |-> call.input, done |-> FALSE, owner |-> call.process,
   state |-> task.state, version |-> task.version, response |-> None]

Gone(owner) == owner = None \/ owner \in dead

\* Mutant of Stale: completed claims count, too.
StaleOrDone(k) == Claimed(k) /\ Gone(claims[k].owner)

\* pendingClaimIsStale of a pending claim, once its lease has expired.
Stale(k) == Claimed(k) /\ ~claims[k].done /\ Gone(claims[k].owner)

NewClaim ==
  /\ At("claim") /\ ~Claimed(call.key)
  /\ claims' = [claims EXCEPT ![call.key] = FreshClaim]
  /\ Goto("run") /\ Stay
  /\ UNCHANGED <<task, relocks, receipt, model>>

\* IDEMPOTENCY_CONFLICT, or a matching request that is pending: its owner is
\* alive or its lease has not expired yet.
Conflict ==
  /\ At("claim") /\ Claimed(call.key)
  /\ Mine.input # call.input \/ ~Mine.done
  /\ Left /\ UNCHANGED <<task, files, model>>

Replay ==
  /\ At("claim") /\ Claimed(call.key)
  /\ Mine.input = call.input /\ Mine.done
  /\ Left /\ UNCHANGED <<task, files, model>>

\* acquireIdempotencyRecoveryLock, which takes the lock of a dead owner over.
Lock(k, place) ==
  /\ Stale(k) /\ Gone(relocks[k])
  /\ relocks' = [relocks EXCEPT ![k] = call.process]
  /\ call' = [call EXCEPT !.at = place, !.key = k, !.locked = TRUE]
  /\ Stay /\ UNCHANGED <<task, claims, receipt, model>>

LockPending == At("claim") /\ Claimed(call.key) /\ Mine.input = call.input /\ Lock(call.key, "recover")

\* assertReceiptMatchesClaim: the fingerprint, and so the task and the input.
ReceiptMatches(k) == receipt # None /\ receipt.input = claims[k].input

\* The post-commit states, which are left by finalization or failure only.
MayHaveStarted == task.state \in {"executing", "verifying"}
NoProgress == task.version = Mine.version /\ task.state = Mine.state

\* recoverPendingIdempotencyClaim, under the recovery lock: finalize what has a
\* receipt, ask for inspection without one, run again what has not begun, and
\* replay what has gone on without an answer.
Recover ==
  /\ At("recover")
  /\ \/ /\ MayHaveStarted /\ ReceiptMatches(call.key)
        /\ claims' = [claims EXCEPT ![call.key].owner = call.process]
        /\ Goto("finalize")
     \/ /\ MayHaveStarted /\ ~ReceiptMatches(call.key)
        /\ UNCHANGED claims /\ Goto("leave")
     \/ /\ ~MayHaveStarted /\ NoProgress
        /\ claims' = [claims EXCEPT ![call.key] = FreshClaim]
        /\ Goto("rerun")
     \/ /\ ~MayHaveStarted /\ ~NoProgress
        /\ claims' = [claims EXCEPT ![call.key].done = TRUE]
        /\ Goto("leave")
  /\ Stay /\ UNCHANGED <<task, relocks, receipt, model>>

Unlocked == IF call.locked THEN [relocks EXCEPT ![call.key] = None] ELSE relocks

\* A call that goes on without its recovery lock.
Unlock(from, to) ==
  /\ At(from)
  /\ relocks' = Unlocked /\ call' = [call EXCEPT !.at = to, !.locked = FALSE]
  /\ Stay /\ UNCHANGED <<task, claims, receipt, model>>

Rerun == Unlock("rerun", "run")

\* releaseIdempotencyRecoveryLock, and the end of the call.
Leave ==
  /\ At("leave") /\ Left
  /\ relocks' = Unlocked
  /\ UNCHANGED <<task, claims, receipt, model>>

-----------------------------------------------------------------------------
(* resume: claimMutationFinalizationRecovery                                *)

\* Nothing to recover (refreshLocalApprovalState may store what it finds), no
\* receipt, a claim that is complete, or one whose owner or lease is still there.
InspectOnly ==
  /\ At("inspect")
  /\ task' \in {task, Touched}
  /\ Left /\ UNCHANGED <<files, model>>

InspectAndLock ==
  /\ At("inspect") /\ MayHaveStarted
  /\ receipt # None /\ ReceiptMatches(receipt.key)
  /\ Lock(receipt.key, "reclaim")

Reclaim ==
  /\ At("reclaim")
  /\ claims' = [claims EXCEPT ![call.key].owner = call.process]
  /\ Goto("finalize") /\ Stay
  /\ UNCHANGED <<task, relocks, receipt, model>>

-----------------------------------------------------------------------------
(* executeReviewedExistingEdit                                              *)

Reviewed == task.state \in {"awaiting_review", "approved"}

\* Input is not accepted in this state; or approval, handshake, policy, queue
\* or the live model stand against the execution.
Refused ==
  /\ At("run") /\ Goto("error") /\ Stay
  /\ UNCHANGED <<task, files, model>>

\* The preflight has seen the plan's revision of the model.
Approve ==
  /\ At("run") /\ Reviewed /\ commits = 0
  /\ task' = Moved("approved")
  /\ Goto("execute") /\ Stay /\ UNCHANGED <<files, model>>

Execute ==
  /\ At("execute")
  /\ task' = Moved("executing")
  /\ Goto("apply") /\ Stay /\ UNCHANGED <<files, model>>

\* apply_reviewed_model_edit: an error does not tell whether the model changed.
Apply ==
  /\ At("apply") /\ attempts' = attempts + 1
  /\ \/ commits' = commits + 1 /\ Goto("receipt")
     \/ commits' \in {commits, commits + 1} /\ Goto("error")
  /\ Stay /\ UNCHANGED <<task, files>>

\* recordTaskMutationReceipt: the readback after the commit may fail before it,
\* or after it when trusted_commit_observer records the receipt.
RecordReceipt ==
  /\ At("receipt")
  /\ \/ /\ receipt' = [key |-> call.key, input |-> call.input]
        /\ Goto("finalize") \/ Goto("error")
     \/ UNCHANGED receipt /\ Goto("error")
  /\ Stay /\ UNCHANGED <<task, claims, relocks, model>>

-----------------------------------------------------------------------------
(* finalizeReviewedMutationReceipt                                          *)

StartVerifying ==
  /\ At("finalize") /\ task.state = "executing"
  /\ task' = Moved("verifying")
  /\ UNCHANGED call /\ Stay /\ UNCHANGED <<files, model>>

Verified ==
  /\ At("finalize") /\ task.state = "verifying"
  /\ task' = Moved("completed")
  /\ Goto("mark") /\ Stay /\ UNCHANGED <<files, model>>

\* markMutationReceiptFinalized.
Mark ==
  /\ At("mark") /\ task' = Touched
  /\ Goto("answer") /\ Stay /\ UNCHANGED <<files, model>>

\* The readback fails, or the model is no longer as the receipt says.
NotVerified ==
  /\ At("finalize") /\ task.state = "verifying"
  /\ Goto("error") /\ Stay /\ UNCHANGED <<task, files, model>>

-----------------------------------------------------------------------------
(* Errors and answers                                                       *)

\* Mutant of StatesAfterError: an execution is recoverable like its preflight.
StatesAfterAnyError ==
  IF task.state = "executing" THEN {"awaiting_review", "failed"}
  ELSE IF Reviewed THEN {"awaiting_review", "awaiting_input", "failed"}
  ELSE IF task.state = "completed" THEN {"completed"} ELSE {"failed"}

\* handleTaskError, by the code of the error: what is refused before the
\* execution may be retried or planned again; everything else fails the task.
StatesAfterError ==
  CASE task.state = "awaiting_review" -> {"awaiting_review", "awaiting_input", "failed"}
    [] task.state = "approved" -> {"awaiting_input", "failed"}
    [] task.state \in {"executing", "verifying"} -> {"failed"}
    [] OTHER -> {task.state}

\* Mutant of Abandon: the claim keeps its owner.
AbandonOwned == Mine

\* abandonTaskOperationRecovery: the claim is stale at once.
Abandon == [Mine EXCEPT !.owner = None]

\* The catch of submit and resume: a matching receipt keeps the task where it
\* is and leaves the claim to a recovery.
RecoverableError ==
  /\ At("error") /\ ReceiptMatches(call.key)
  /\ claims' = [claims EXCEPT ![call.key] = Abandon]
  /\ Goto("abandoned") /\ Stay /\ UNCHANGED <<task, relocks, receipt, model>>

Abandoned == Unlock("abandoned", IF task.state = "completed" THEN "leave" ELSE "envelope")

\* The receipt of another request is a recovery, too, but this claim is answered.
ForeignReceipt ==
  /\ At("error") /\ receipt # None /\ ~ReceiptMatches(call.key)
  /\ task' = Touched
  /\ Goto("answer") /\ Stay /\ UNCHANGED <<files, model>>

\* Mutant of FinalError: the ledger is not asked.
FinalErrorAnyway ==
  /\ At("error")
  /\ task' \in {Moved(s) : s \in StatesAfterError}
  /\ Goto("answer") /\ Stay /\ UNCHANGED <<files, model>>

FinalError ==
  /\ At("error") /\ receipt = None
  /\ task' \in {Moved(s) : s \in StatesAfterError}
  /\ Goto("answer") /\ Stay /\ UNCHANGED <<files, model>>

\* mutationRecoveryEnvelope.
Envelope ==
  /\ At("envelope") /\ task' = Touched
  /\ Goto("leave") /\ Stay /\ UNCHANGED <<files, model>>

\* Mutant of Response: the answer is the one the request was hoping for.
HopefulResponse == IF commits > 0 THEN "completed" ELSE task.state

Response == task.state

\* completeTaskOperation records the envelope.
Answer ==
  /\ At("answer")
  /\ claims' = [claims EXCEPT ![call.key] = [Mine EXCEPT !.done = TRUE, !.response = Response]]
  /\ Goto("leave") /\ Stay /\ UNCHANGED <<task, relocks, receipt, model>>

-----------------------------------------------------------------------------

Step ==
  \/ NewClaim \/ Conflict \/ Replay \/ LockPending \/ Recover \/ Rerun \/ Leave
  \/ InspectOnly \/ InspectAndLock \/ Reclaim
  \/ Refused \/ Approve \/ Execute \/ Apply \/ RecordReceipt
  \/ StartVerifying \/ Verified \/ NotVerified \/ Mark
  \/ RecoverableError \/ Abandoned \/ ForeignReceipt \/ FinalError \/ Envelope \/ Answer

Next ==
  \/ \E p \in Process : Resume(p) \/ Crash(p) \/ \E k \in Key, i \in Input : Submit(p, k, i)
  \/ Step

Spec == Init /\ [][Next]_vars

-----------------------------------------------------------------------------
(* Properties                                                               *)

TypeOK ==
  /\ task \in Task
  /\ claims \in [Key -> Claim \cup {None}]
  /\ relocks \in [Key -> Process \cup {None}]
  /\ receipt \in Receipt \cup {None}
  /\ call \in Call \cup {None}
  /\ inside = IF call = None THEN {} ELSE {call.process}
  /\ dead \subseteq Process
  /\ attempts \in Nat /\ commits \in Nat /\ calls \in Nat

\* The edit is handed to the bridge once at most, whatever keys and inputs the
\* task is retried with and wherever earlier calls have died: an outcome that is
\* unknown is never tried again (recoverPendingIdempotencyClaim, handleTaskError).
AttemptedOnce == attempts <= 1

\* Once the receipt of the commit is durable, no error, retry or crash fails the
\* task or sends it back to review; without it the task never completes.
ReceiptDecides ==
  /\ receipt # None => commits = 1 /\ task.state \in {"executing", "verifying", "completed"}
  /\ task.state = "completed" => receipt # None

\* A recorded answer is final.
AnswersAreFinal ==
  [][\A k \in Key :
       Claimed(k) /\ claims[k].response # None => claims'[k] = claims[k]]_vars

\* It says "completed" of the completed task only.
AnswersAreTrue ==
  \A k \in Key : Claimed(k) /\ claims[k].response = "completed" => task.state = "completed"

PastReview == task.state \in {"executing", "verifying", "completed", "failed"}
Told == \E k \in Key : Claimed(k) /\ claims[k].response = "completed"

\* The task's way past its review stands for the claim of a journal.
Effect == INSTANCE ClaimedEffect WITH
  claimed <- PastReview, effects <- commits, evidence <- receipt # None, told <- Told

\* A reviewed edit keeps what the journals of delivery and reopen promise, though
\* its records are spread over the task, the ledger and the claims of its keys:
\* past the review nothing leads back, the model changes once at most, a receipt
\* is of a change that has happened, and "completed" is answered, to whatever
\* key, after a receipt only, and never taken back.
EditsOnce == Effect!Spec

\* A pending claim and a recovery lock belong to the call in the slot, or to
\* nobody who lives: no key is blocked for good.
NothingIsStuck ==
  \A k \in Key :
    /\ Claimed(k) /\ ~claims[k].done /\ ~Gone(claims[k].owner) =>
         call # None /\ call.key = k /\ call.process = claims[k].owner
    /\ ~Gone(relocks[k]) =>
         call # None /\ call.key = k /\ call.locked /\ call.process = relocks[k]

=============================================================================
