---------------------------- MODULE ModelDelivery ----------------------------
(***************************************************************************)
(* The deliver_model task: src/src/model-accessibility-delivery.mjs, which   *)
(* saves an accepted model to a file of its own, and the start, the resumes  *)
(* and the submits of that task in src/src/agent-gateway.mjs.                *)
(*                                                                         *)
(* One Node process serves the task, dies and is started again.  The start   *)
(* runs outside the request slot of the task (agent-gateway.mjs:276), the    *)
(* resumes and submits one after another inside it, so two requests are      *)
(* under way at once.  AgentTaskStore serializes its operations: each is a   *)
(* step.  A file is created, linked, unlinked or read in a step.  Queue      *)
(* scopes may overlap (QueueTransport), so they are not relied on here.      *)
(***************************************************************************)
EXTENDS Naturals

CONSTANTS
  MaxCrashes, \* bound: how often the Node process dies
  None

ASSUME CrashAssumption == MaxCrashes \in Nat

VARIABLES
  state,   \* the state of the delivery task
  bound,   \* its inputs name a source and a connection
  dir,     \* model-deliveries-v1/<task>: the claim
  intent,  \* links of save-intent.json
  receipt, \* saved-receipt.json
  request, \* save_model on its way through the queue
  file,    \* the revision in model.skp
  doc,     \* the document of the source task, or its successor, in SketchUp
  pc,      \* where each request is
  crashes,
  saves    \* history: native saves by this task

journal == <<dir, intent, receipt>>
native == <<request, file, doc, saves>>
deliveryVars == <<state, bound, journal, native, pc, crashes>>

Request == {"start", "slot"}

State == {"understanding", "awaiting_input", "completed", "failed"}
Revision == {"accepted", "other"}
\* A journal file is linked, then its temporary name is unlinked.
Links == 0 .. 2
Receipt == [links : 1 .. 2, hash : Revision]

\* new: opened again from its file, home: its path is the delivery file,
\* front: it is the active one.
Document == [new : BOOLEAN, home : BOOLEAN, front : BOOLEAN, rev : Revision, modified : BOOLEAN]

ASSUME RecordAssumption == None \notin Revision \cup Receipt

Place == {"idle", "resume", "submit", "reopen", "resubmit", "deliver", "preflight",
          "claim", "journal", "seal", "save", "wait", "confirm", "hash", "certify", "sealReceipt",
          "publish", "interrupted", "replay", "blocked", "broken", "hold", "note", "fail"}

DeliveryInit ==
  /\ state = "understanding" /\ bound \in BOOLEAN
  /\ dir = FALSE /\ intent = 0 /\ receipt = None /\ file = None /\ request = "none"
  /\ doc = [new |-> FALSE, home |-> FALSE, front |-> TRUE, rev |-> "accepted", modified |-> TRUE]
  /\ pc = [r \in Request |-> IF r = "start" THEN "deliver" ELSE "idle"]
  /\ crashes = 0 /\ saves = 0

Goto(r, place) == pc' = [pc EXCEPT ![r] = place]
\* r goes on from a place in from to another one.
Moves(r, from, to) == pc[r] = from /\ Goto(r, to)
\* A step that only looks at things.
Looks == UNCHANGED <<state, bound, journal, native, crashes>>
\* A step of the task store alone.
StoreOnly == UNCHANGED <<journal, native, crashes>>

\* AgentTaskStore.transition, with the rows of TASK_TRANSITIONS for these states.
Allowed == [understanding |-> {"awaiting_input", "completed", "failed"},
            awaiting_input |-> {"understanding", "failed"},
            completed |-> {}, failed |-> {}]
May(to) == to \in Allowed[state]

-----------------------------------------------------------------------------
(* deliverModeling and the checks before the claim                          *)

\* Without a source and a connection the task waits for them.
AskSource(r) == ~bound /\ Moves(r, "deliver", "hold") /\ Looks

\* A task whose directory exists has claimed its save.
Deliver(r) ==
  \/ bound /\ ~dir /\ Moves(r, "deliver", "preflight") /\ Looks
  \/ bound /\ dir /\ Moves(r, "deliver", "replay") /\ Looks

\* The contract, the source binding and the fresh handshake; a refusal is
\* recoverable (HANDSHAKE_, MODEL_, OPERATION_NOT_ALLOWED) or not.
Preflight(r) ==
  /\ \E to \in {"claim", "blocked", "broken"} : Moves(r, "preflight", to)
  /\ Looks

\* assertSourceState
ActiveIsSource == doc.front /\ doc.rev = "accepted" /\ ~doc.home

\* mkdir of the directory, exclusive.
Claim(r) ==
  \/ /\ ActiveIsSource /\ ~dir /\ dir' = TRUE
     /\ Moves(r, "claim", "journal")
     /\ UNCHANGED <<state, bound, intent, receipt, native, crashes>>
  \/ ActiveIsSource /\ dir /\ Moves(r, "claim", "replay") /\ Looks
  \/ ~ActiveIsSource /\ Moves(r, "claim", "blocked") /\ Looks

-----------------------------------------------------------------------------
(* writeSigned(save-intent.json), save_model, writeSigned(saved-receipt.json) *)

\* An error of the file system is one of the claimed task.
Journal(r) ==
  \/ /\ Moves(r, "journal", "seal") /\ intent' = 2
     /\ UNCHANGED <<state, bound, dir, receipt, native, crashes>>
  \/ Moves(r, "journal", "broken") /\ Looks

\* An unlink that fails is not reported.
Seal(r) ==
  /\ Moves(r, "seal", "save") /\ intent' \in {1, 2}
  /\ UNCHANGED <<state, bound, dir, receipt, native, crashes>>

Save(r) ==
  /\ Moves(r, "save", "wait") /\ request' = "sent"
  /\ UNCHANGED <<state, bound, journal, file, doc, saves, crashes>>

\* SketchUp runs save_model behind its mutation guard, if need be long after
\* Node has given up: it fails, or is refused, or saves.
SaveRuns ==
  /\ request = "sent"
  /\ \/ /\ ActiveIsSource /\ request' = "saved"
        /\ saves' = saves + 1 /\ file' = doc.rev
        /\ doc' = [doc EXCEPT !.home = TRUE, !.modified = FALSE]
     \/ request' = "failed" /\ UNCHANGED <<file, doc, saves>>
  /\ UNCHANGED <<state, bound, journal, pc, crashes>>

\* The answer, an error, or a timeout, which may withdraw the request.
Answer(r) ==
  \/ request = "saved" /\ Moves(r, "wait", "confirm") /\ Looks
  \/ Moves(r, "wait", "interrupted") /\ Looks
  \/ /\ request = "sent" /\ request' = "failed" /\ Moves(r, "wait", "interrupted")
     /\ UNCHANGED <<state, bound, journal, file, doc, saves, crashes>>

\* assertSavedState
Confirm(r) ==
  /\ Moves(r, "confirm", IF doc.front /\ doc.home /\ doc.rev = "accepted" THEN "hash" ELSE "interrupted")
  /\ Looks

\* hashFile, and the receipt that carries the hash.
Certify(r) ==
  \/ /\ Moves(r, "hash", "sealReceipt")
     /\ receipt' = [links |-> 2, hash |-> file]
     /\ UNCHANGED <<state, bound, dir, intent, native, crashes>>
  \/ Moves(r, "hash", "interrupted") /\ Looks

SealReceipt(r) ==
  /\ Moves(r, "sealReceipt", "publish") /\ \E n \in {1, 2} : receipt' = [receipt EXCEPT !.links = n]
  /\ UNCHANGED <<state, bound, dir, intent, native, crashes>>

\* The catch around the save: a receipt is replayed, all else is unknown.
Interrupted(r) ==
  /\ Moves(r, "interrupted", IF receipt # None THEN "replay" ELSE "broken")
  /\ Looks

-----------------------------------------------------------------------------
(* replaySaved, publicSavedResult                                           *)

\* readSigned wants a single link.
Readable == intent = 1 /\ receipt # None /\ receipt.links = 1
Verified == Readable /\ file = receipt.hash

\* Mutant of Replay: the directory is taken for the evidence.
ReplayAnything(r) ==
  /\ Moves(r, "replay", "publish") /\ Looks

Replay(r) ==
  /\ Moves(r, "replay", IF Verified THEN "publish" ELSE "broken")
  /\ Looks

\* registerArtifact, which may fail, and the transition to completed.
Publish(r) ==
  \/ /\ May("completed") /\ state' = "completed"
     /\ Moves(r, "publish", "idle") /\ UNCHANGED bound /\ StoreOnly
  \/ Moves(r, "publish", "broken") /\ Looks

-----------------------------------------------------------------------------
(* handleTaskError: the task is read, then written.                         *)

Waiting == {"understanding", "awaiting_input"}

\* The task waits for its client when the error is recoverable or the save was
\* claimed, and fails otherwise.
Handle(r) ==
  /\ pc[r] \in {"blocked", "broken"}
  /\ IF state \in Waiting /\ (dir \/ pc[r] = "blocked")
     THEN Goto(r, IF state = "awaiting_input" THEN "note" ELSE "hold")
     ELSE Goto(r, "fail")
  /\ Looks

\* A transition that is not allowed any more ends the request by an error.
Hold(r) ==
  /\ Moves(r, "hold", "idle")
  /\ state' = IF May("awaiting_input") THEN "awaiting_input" ELSE state
  /\ UNCHANGED bound /\ StoreOnly

\* update of last_error and next_action.
Note(r) == Moves(r, "note", "idle") /\ Looks

Fail(r) ==
  /\ Moves(r, "fail", "idle")
  /\ state' = IF May("failed") THEN "failed" ELSE state
  /\ UNCHANGED bound /\ StoreOnly

-----------------------------------------------------------------------------
(* Requests in the slot                                                     *)

Arrive == \E to \in {"resume", "submit"} : Moves("slot", "idle", to) /\ Looks

\* resumeUnprojected: only a receipt that is there is delivered.
Resume(r) ==
  \/ /\ receipt # None /\ state \in Waiting
     /\ Moves(r, "resume", IF state = "awaiting_input" THEN "reopen" ELSE "deliver") /\ Looks
  \/ ~(receipt # None /\ state \in Waiting) /\ Moves(r, "resume", "idle") /\ Looks

Reopen(r) ==
  /\ Moves(r, "reopen", IF May("understanding") THEN "deliver" ELSE "idle")
  /\ state' = IF May("understanding") THEN "understanding" ELSE state
  /\ UNCHANGED bound /\ StoreOnly

\* submitUnprojected: input for a task that does not wait is an error of the task.
Submit(r) ==
  /\ Moves(r, "submit", IF state = "awaiting_input" THEN "resubmit" ELSE "broken")
  /\ Looks

Resubmit(r) ==
  /\ Moves(r, "resubmit", IF May("understanding") THEN "deliver" ELSE "broken")
  /\ state' = IF May("understanding") THEN "understanding" ELSE state
  /\ bound' = TRUE /\ StoreOnly

-----------------------------------------------------------------------------
(* SketchUp's user, and the process                                         *)

Edit ==
  /\ \E v \in Revision : doc' = [doc EXCEPT !.rev = v, !.modified = TRUE]
  /\ doc.front
  /\ UNCHANGED <<state, bound, journal, request, file, saves, pc, crashes>>

\* Another document comes to the front, or this one again.
Focus ==
  /\ doc' = [doc EXCEPT !.front = ~@]
  /\ UNCHANGED <<state, bound, journal, request, file, saves, pc, crashes>>

\* The document has become the delivered file: a save of the user overwrites it.
UserSaves ==
  /\ doc.front /\ doc.home /\ file' = doc.rev /\ doc' = [doc EXCEPT !.modified = FALSE]
  /\ UNCHANGED <<state, bound, journal, request, saves, pc, crashes>>

\* The process dies with all its requests.
Crash ==
  /\ crashes < MaxCrashes /\ crashes' = crashes + 1
  /\ pc' = [r \in Request |-> "idle"]
  /\ UNCHANGED <<state, bound, journal, native>>

-----------------------------------------------------------------------------

Work(r) ==
  \/ AskSource(r) \/ Deliver(r) \/ Preflight(r) \/ Claim(r) \/ Journal(r) \/ Seal(r) \/ Save(r) \/ Answer(r)
  \/ Confirm(r) \/ Certify(r) \/ SealReceipt(r) \/ Interrupted(r)
  \/ Replay(r) \/ Publish(r) \/ Handle(r) \/ Hold(r) \/ Note(r) \/ Fail(r)
  \/ Resume(r) \/ Reopen(r) \/ Submit(r) \/ Resubmit(r)

User == Edit \/ Focus \/ UserSaves

DeliveryStep == Arrive \/ SaveRuns \/ \E r \in Request : Work(r)

=============================================================================
