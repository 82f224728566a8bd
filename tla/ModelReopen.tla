----------------------------- MODULE ModelReopen -----------------------------
(***************************************************************************)
(* The reopen_delivered_model task beside the deliver_model task whose file  *)
(* it closes and opens again: src/src/model-accessibility-reopen.mjs, its    *)
(* requests in src/src/agent-gateway.mjs, and close_reopen_saved_model of    *)
(* src/sketchup_plugin/alma_sketchup_mcp/saved_model_lifecycle.rb.           *)
(*                                                                         *)
(* As in ModelDelivery one Node process serves a start outside the request   *)
(* slot and resumes and submits one after another inside it.  Its journal    *)
(* files are opened exclusively and written then: a death leaves them torn.  *)
(***************************************************************************)
EXTENDS ModelDelivery

VARIABLES
  rstate,   \* the state of the reopen task
  result,   \* the stage its result tells of
  rdir,     \* model-reopens-v1/<task>: the claim
  started,  \* started.json
  returned, \* native-return.json
  complete, \* complete.json
  order,    \* close_reopen_saved_model on its way through the queue
  rpc,      \* where each request is
  seen,     \* the state of the task object that each request holds
  closes    \* history: native closes by this task

rjournal == <<rdir, started, returned, complete>>
reopenVars == <<rstate, result, rjournal, order, rpc, seen, closes>>
vars == <<deliveryVars, reopenVars>>

RState == {"understanding", "awaiting_input", "executing", "verifying", "completed"}
Stage == {"none", "awaiting_input", "reopened", "pending", "unknown"}
File == {"absent", "torn", "whole"}
\* close/open: activated, or opened and not active yet, or failed anywhere.
Opening == {"activated", "pending"}
Order == {"none", "sent", "failed"} \cup Opening

RPlace == {"later", "idle", "resume", "submit", "resubmit", "open", "ask", "proof", "claim",
           "begin", "sign", "execute", "close", "wait", "record", "signReturn", "recover",
           "pend", "complete", "signComplete", "finalize", "verify", "end", "stop"}

ReopenInit ==
  /\ rstate = "understanding" /\ result = "none" /\ rdir = FALSE
  /\ started = "absent" /\ returned = "absent" /\ complete = "absent"
  /\ order = "none" /\ closes = 0
  /\ rpc = [r \in Request |-> IF r = "start" THEN "later" ELSE "idle"]
  /\ seen = [r \in Request |-> "understanding"]

RGoto(r, place) == rpc' = [rpc EXCEPT ![r] = place]
RMoves(r, from, to) == rpc[r] = from /\ RGoto(r, to)
RKeeps == UNCHANGED <<rjournal, order, closes>>
RLooks == UNCHANGED <<rstate, result, seen>> /\ RKeeps
\* A journal file changes.
Writes == UNCHANGED <<rdir, rstate, result, order, seen, closes>>

RAllowed == [understanding |-> {"awaiting_input", "executing", "verifying", "completed"},
             awaiting_input |-> {"understanding", "executing"},
             executing |-> {"verifying", "completed"},
             verifying |-> {"awaiting_input", "completed"},
             completed |-> {}]

\* AgentTaskStore.transition by r, which then holds the task as written.
Transition(r, from, to, place) ==
  \/ /\ to \in RAllowed[rstate] /\ rstate' = to /\ seen' = [seen EXCEPT ![r] = to]
     /\ RMoves(r, from, place)
  \/ /\ to \notin RAllowed[rstate] /\ UNCHANGED <<rstate, seen>>
     /\ RMoves(r, from, "stop")

-----------------------------------------------------------------------------
(* Requests                                                                 *)

\* The reopen task is started when there is a receipt to reopen from.
StartReopen ==
  /\ receipt # None /\ RMoves("start", "later", "open") /\ RLooks

ArriveReopen ==
  /\ rpc["start"] # "later"
  /\ \E to \in {"resume", "submit"} : RMoves("slot", "idle", to)
  /\ seen' = [seen EXCEPT !["slot"] = rstate]
  /\ UNCHANGED <<rstate, result>> /\ RKeeps

ResumeReopen(r) ==
  /\ RMoves(r, "resume", IF rdir THEN "recover" ELSE "ask") /\ RLooks

SubmitReopen(r) ==
  \/ seen[r] = "awaiting_input" /\ RMoves(r, "submit", "resubmit") /\ RLooks
  \/ seen[r] # "awaiting_input" /\ RMoves(r, "submit", "open") /\ RLooks

ResubmitReopen(r) ==
  /\ Transition(r, "resubmit", "understanding", "open")
  /\ UNCHANGED result /\ RKeeps

\* Inputs may be missing still.
Open(r) ==
  \/ rdir /\ RMoves(r, "open", "recover") /\ RLooks
  \/ ~rdir /\ \E to \in {"ask", "proof"} : RMoves(r, "open", to) /\ RLooks

Ask(r) ==
  /\ \/ /\ seen[r] = "understanding" /\ Transition(r, "ask", "awaiting_input", "idle")
        /\ result' = IF rstate' = rstate THEN result ELSE "awaiting_input"
     \/ /\ seen[r] # "understanding" /\ RMoves(r, "ask", "idle")
        /\ result' = "awaiting_input" /\ UNCHANGED <<rstate, seen>>
  /\ RKeeps

-----------------------------------------------------------------------------
(* The claim                                                                *)

\* readVerifiedModelAccessibilitySavedReceipt, the contract and capabilities.
Proof(r) ==
  \/ Verified /\ RMoves(r, "proof", "claim") /\ RLooks
  \/ RMoves(r, "proof", "stop") /\ RLooks

\* Mutant of IsSavedDocument: modified? is not asked.
IgnoresChanges == doc.front /\ doc.home /\ ~doc.new /\ doc.rev = "accepted"

\* assertBefore, and assert_model! of the plugin.
IsSavedDocument ==
  /\ doc.front /\ doc.home /\ ~doc.new /\ doc.rev = "accepted" /\ ~doc.modified

FileIntact == receipt # None /\ file = receipt.hash

ClaimReopen(r) ==
  \/ /\ IsSavedDocument /\ FileIntact
     /\ ~rdir /\ rdir' = TRUE /\ RMoves(r, "claim", "begin")
     /\ UNCHANGED <<started, returned, complete, order, closes, rstate, result, seen>>
  \/ IsSavedDocument /\ FileIntact /\ rdir /\ RMoves(r, "claim", "recover") /\ RLooks
  \/ ~(IsSavedDocument /\ FileIntact) /\ RMoves(r, "claim", "stop") /\ RLooks

Begin(r) ==
  /\ RMoves(r, "begin", "sign") /\ started' = "torn"
  /\ UNCHANGED <<returned, complete>> /\ Writes

Sign(r) ==
  \/ /\ RMoves(r, "sign", "execute") /\ started' = "whole"
     /\ UNCHANGED <<returned, complete>> /\ Writes
  \/ RMoves(r, "sign", "stop") /\ RLooks

Execute(r) ==
  /\ Transition(r, "execute", "executing", "close")
  /\ UNCHANGED result /\ RKeeps

-----------------------------------------------------------------------------
(* close_reopen_saved_model                                                 *)

Close(r) ==
  /\ RMoves(r, "close", "wait") /\ order' = "sent"
  /\ UNCHANGED <<rjournal, closes, rstate, result, seen>>

\* The plugin's own checks of document and file.
MayCloseDocument == IsSavedDocument /\ FileIntact

\* The old document goes; the one opened from the file is active, or not yet,
\* or the call fails before or after it was opened.
CloseRuns ==
  /\ order = "sent"
  /\ \/ /\ MayCloseDocument /\ closes' = closes + 1
        /\ \E how \in Opening \cup {"failed"}, opened \in BOOLEAN :
             /\ how \in Opening => opened
             /\ order' = how
             /\ doc' = [doc EXCEPT !.new = opened, !.front = how = "activated",
                                   !.home = opened, !.rev = file]
     \/ order' = "failed" /\ UNCHANGED <<doc, closes>>
  /\ UNCHANGED <<rjournal, rstate, result, rpc, seen>>

AnswerClose(r) ==
  \/ order \in Opening /\ RMoves(r, "wait", "record") /\ RLooks
  \/ RMoves(r, "wait", "stop") /\ RLooks
  \/ /\ order = "sent" /\ order' = "failed" /\ RMoves(r, "wait", "stop")
     /\ UNCHANGED <<rjournal, closes, rstate, result, seen>>

Record(r) ==
  /\ RMoves(r, "record", "signReturn") /\ returned' = "torn"
  /\ UNCHANGED <<started, complete>> /\ Writes

SignReturn(r) ==
  \/ /\ RMoves(r, "signReturn", "recover") /\ returned' = "whole"
     /\ UNCHANGED <<started, complete>> /\ Writes
  \/ RMoves(r, "signReturn", "stop") /\ RLooks

-----------------------------------------------------------------------------
(* recover, finalize                                                        *)

\* reopenedMatches of the present session state.
IsReopened == doc.front /\ doc.home /\ doc.new /\ doc.rev = "accepted" /\ ~doc.modified

\* Mutant of Recover: without the native return the close is made again.
RecoverByClosing(r) ==
  /\ RMoves(r, "recover", IF returned = "whole" THEN "complete" ELSE "close") /\ RLooks

\* Mutant of Recover: the native return is not asked for.
RecoverUnread(r) ==
  /\ RMoves(r, "recover", IF complete = "whole" THEN "finalize" ELSE "complete") /\ RLooks

\* complete.json, then native-return.json; a close is never repeated.
Recover(r) ==
  \/ started # "whole" /\ RMoves(r, "recover", "stop") /\ RLooks
  \/ /\ started = "whole" /\ complete # "absent"
     /\ RMoves(r, "recover", IF complete = "whole" THEN "finalize" ELSE "stop") /\ RLooks
  \/ /\ started = "whole" /\ complete = "absent" /\ returned # "whole"
     /\ RMoves(r, "recover", "stop") /\ RLooks
  \/ /\ started = "whole" /\ complete = "absent" /\ returned = "whole"
     /\ RMoves(r, "recover", IF order = "activated" \/ IsReopened THEN "complete" ELSE "pend")
     /\ RLooks

\* Activation may come later; the task waits in verifying.
Pend(r) ==
  /\ \/ seen[r] = "executing" /\ Transition(r, "pend", "verifying", "idle")
     \/ seen[r] # "executing" /\ RMoves(r, "pend", "idle") /\ UNCHANGED <<rstate, seen>>
  /\ result' = IF rpc'[r] = "stop" THEN result ELSE "pending"
  /\ RKeeps

\* The file is created exclusively.
Complete(r) ==
  \/ /\ FileIntact /\ complete = "absent" /\ complete' = "torn"
     /\ RMoves(r, "complete", "signComplete")
     /\ UNCHANGED <<started, returned>> /\ Writes
  \/ ~(FileIntact /\ complete = "absent") /\ RMoves(r, "complete", "stop") /\ RLooks

SignComplete(r) ==
  \/ /\ RMoves(r, "signComplete", "finalize") /\ complete' = "whole"
     /\ UNCHANGED <<started, returned>> /\ Writes
  \/ RMoves(r, "signComplete", "stop") /\ RLooks

\* By the state that the request holds: understanding, verifying, completed.
Finalize(r) ==
  \/ ~FileIntact /\ RMoves(r, "finalize", "stop") /\ RLooks
  \/ /\ FileIntact /\ seen[r] = "completed" /\ RMoves(r, "finalize", "idle")
     /\ result' = "reopened" /\ UNCHANGED <<rstate, seen>> /\ RKeeps
  \/ /\ FileIntact /\ seen[r] = "awaiting_input"
     /\ Transition(r, "finalize", "understanding", "verify") /\ UNCHANGED result /\ RKeeps
  \/ FileIntact /\ seen[r] \notin {"completed", "awaiting_input"} /\ RMoves(r, "finalize", "verify") /\ RLooks

Verify(r) ==
  \/ /\ seen[r] # "verifying" /\ Transition(r, "verify", "verifying", "end")
     /\ UNCHANGED result /\ RKeeps
  \/ seen[r] = "verifying" /\ RMoves(r, "verify", "end") /\ RLooks

End(r) ==
  /\ Transition(r, "end", "completed", "idle")
  /\ result' = IF rstate' = rstate THEN result ELSE "reopened"
  /\ RKeeps

\* reopenDeliveredModelError, which reads the task again: once the directory is
\* claimed, whatever the task is, its result is told to be unknown.
Stop(r) ==
  /\ RMoves(r, "stop", "idle")
  /\ result' = IF rdir THEN "unknown" ELSE result
  /\ rstate' = IF ~rdir /\ rstate = "understanding" THEN "awaiting_input" ELSE rstate
  /\ UNCHANGED seen /\ RKeeps

-----------------------------------------------------------------------------

ReopenWork(r) ==
  \/ ResumeReopen(r) \/ SubmitReopen(r) \/ ResubmitReopen(r) \/ Open(r) \/ Ask(r)
  \/ Proof(r) \/ ClaimReopen(r) \/ Begin(r) \/ Sign(r) \/ Execute(r)
  \/ Close(r) \/ AnswerClose(r) \/ Record(r) \/ SignReturn(r)
  \/ Recover(r) \/ Pend(r) \/ Complete(r) \/ SignComplete(r)
  \/ Finalize(r) \/ Verify(r) \/ End(r) \/ Stop(r)

ReopenStep == StartReopen \/ ArriveReopen \/ \E r \in Request : ReopenWork(r)

CrashBoth ==
  /\ Crash /\ rpc' = [r \in Request |-> IF rpc[r] = "later" THEN "later" ELSE "idle"]
  /\ UNCHANGED <<rstate, result, rjournal, order, seen, closes>>

Next ==
  \/ (DeliveryStep \/ User) /\ UNCHANGED reopenVars
  \/ ReopenStep /\ UNCHANGED deliveryVars
  \/ CloseRuns /\ UNCHANGED <<state, bound, journal, request, file, saves, pc, crashes>>
  \/ CrashBoth

Init == DeliveryInit /\ ReopenInit

Spec == Init /\ [][Next]_vars

-----------------------------------------------------------------------------
(* Properties                                                               *)

TypeOK ==
  /\ state \in State /\ bound \in BOOLEAN
  /\ dir \in BOOLEAN /\ intent \in Links /\ receipt \in Receipt \cup {None}
  /\ request \in {"none", "sent", "saved", "failed"}
  /\ file \in Revision \cup {None} /\ doc \in Document /\ saves \in Nat
  /\ pc \in [Request -> Place] /\ crashes \in 0 .. MaxCrashes
  /\ rstate \in RState /\ result \in Stage
  /\ rdir \in BOOLEAN /\ {started, returned, complete} \subseteq File
  /\ order \in Order /\ closes \in Nat
  /\ rpc \in [Request -> RPlace] /\ seen \in [Request -> RState]

\* The task saves at most once, through deaths, lost answers, late executions
\* and retries, and completes on its signed receipt only (replaySaved).
SaveEffect == INSTANCE ClaimedEffect WITH
  claimed <- dir, effects <- saves, evidence <- receipt # None, told <- state = "completed"

SavesOnce == SaveEffect!Spec

\* The task closes at most once, and completes on its recorded native return
\* only: "the close will never be replayed" (recover).
CloseEffect == INSTANCE ClaimedEffect WITH
  claimed <- rdir, effects <- closes, evidence <- returned # "absent",
  told <- rstate = "completed"

ClosesOnce == CloseEffect!Spec

\* Whatever the user does between the delivery and the close, the document that
\* is closed without saving is the content of the file it is opened from.
LosesNothing == [][closes' > closes => file = doc.rev]_vars

\* The verification record is written of a document that was opened again after
\* the close, and a completed task has that record whole.
VerifiedWasReopened ==
  /\ complete # "absent" => order \in Opening /\ doc.new
  /\ rstate = "completed" => complete = "whole"

\* "Once this immutable receipt exists, artifact registration/finalization can
\* safely recover without repeating the native save."
ReceiptRecovers == receipt # None => state # "failed"

=============================================================================
