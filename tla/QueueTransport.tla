--------------------------- MODULE QueueTransport ---------------------------
(***************************************************************************)
(* The file queue between the Node clients (src/src/queue-runtime.mjs) and  *)
(* the SketchUp bridge (src/sketchup_plugin/alma_sketchup_mcp.rb).          *)
(*                                                                         *)
(* A client opens a scope under the lock file queue-runtime.lock, and in it *)
(* publishes requests one at a time to queue/, polls responses/ for the     *)
(* answer and gives up after its timeout.  The bridge runs on SketchUp's    *)
(* timer: it moves a request from queue/ to processing/ (the claim),        *)
(* executes it, renames the answer into responses/ and deletes the claim.   *)
(* The two sides share nothing but the directories, and either may die      *)
(* between any two file operations.                                         *)
(*                                                                         *)
(* Every file operation that another process can observe is a step of its   *)
(* own.  A directory is the set of the request ids that have a .json file   *)
(* in it; the contents of the files are left out.                           *)
(***************************************************************************)
EXTENDS Naturals, FiniteSets

CONSTANTS
  Client,           \* node processes that use the queue
  Request,          \* request ids
  ReadOnly,         \* ids whose method is in INTERRUPT_SAFE_READ_ONLY_QUEUE_METHODS
  Owner,            \* the client whose pid an id starts with
  None,
  MaxCrashes,       \* bound: clients killed without any cleanup
  MaxSignals,       \* bound: clients ended by SIGINT or SIGTERM
  MaxBridgeCrashes, \* bound: crashes of SketchUp
  MaxAgings         \* bound: locks that outlive staleLockMs

ASSUME ConstantsAssumption ==
  /\ ReadOnly \subseteq Request
  /\ Owner \in [Request -> Client]
  /\ None \notin Client /\ None \notin Request
  /\ {MaxCrashes, MaxSignals, MaxBridgeCrashes, MaxAgings} \subseteq Nat

VARIABLES
  queue,      \* queue/*.json
  processing, \* processing/*.json
  responses,  \* responses/*.json
  markers,    \* read-only-cancellations/*.json
  lock,       \* the client named in queue-runtime.lock, None when there is no file
  lockOld,    \* the lock file is older than staleLockMs
  pc,         \* where each client is
  kind,       \* what the scope of each client is for
  cur,        \* the request a client has in flight
  target,     \* the orphan response a recovery scope has read
  seen,       \* the directories a client's idle check has found empty
  look,       \* the directory a client's idle check is at, and the files listed in it
  bridge,     \* where the SketchUp bridge is
  listing,    \* what is left of the bridge's directory listing
  active,     \* the request the bridge has claimed
  issued,     \* history: ids published so far
  executions, \* history: how often each request was dispatched
  learned,    \* history: requests whose outcome a client has read
  withdrawn,  \* history: requests removed from queue/ before any claim
  faults      \* how much of each fault budget is used

files == <<queue, processing, responses, markers>>
lockVars == <<lock, lockOld>>
clientVars == <<pc, kind, cur, target, seen, look>>
bridgeVars == <<bridge, listing, active>>
history == <<issued, executions, learned, withdrawn>>
vars == <<files, lockVars, clientVars, bridgeVars, history, faults>>

ScopeKinds == {"call", "mutation", "recovery"}
Dirs == {"queue", "processing", "responses"}
\* The places inside withExclusiveAccess: the client believes it has the lock.
InScope == {"entered", "checking", "authorized", "recovering", "polling", "observed",
            "settling", "withdrawing", "leaving"}
ClientPlaces == InScope \cup {"idle", "acquiring", "removing", "exiting", "unlocked", "dead"}
\* The places in which the bridge has a request in its hands.
Busy == {"claimed", "executed", "persisted"}
BridgePlaces == Busy \cup {"off", "idle", "scanning"}
Faults == {"crash", "signal", "bridge", "aging"}

Mutating == Request \ ReadOnly

Budget(f) ==
  CASE f = "crash"  -> MaxCrashes
    [] f = "signal" -> MaxSignals
    [] f = "bridge" -> MaxBridgeCrashes
    [] f = "aging"  -> MaxAgings

Spend(f) == faults[f] < Budget(f) /\ faults' = [faults EXCEPT ![f] = @ + 1]

Init ==
  /\ queue = {} /\ processing = {} /\ responses = {} /\ markers = {}
  /\ lock = None /\ lockOld = FALSE
  /\ pc = [c \in Client |-> "idle"]
  /\ kind = [c \in Client |-> "call"]
  /\ cur = [c \in Client |-> None]
  /\ target = [c \in Client |-> None]
  /\ seen = [c \in Client |-> {}]
  /\ look = [c \in Client |-> None]
  /\ bridge = "off" /\ listing = {} /\ active = None
  /\ issued = {} /\ learned = {} /\ withdrawn = {}
  /\ executions = [r \in Request |-> 0]
  /\ faults = [f \in Faults |-> 0]

-----------------------------------------------------------------------------
(* withExclusiveAccess: the lock file                                       *)

At(c, place) == pc[c] = place
Goto(c, place) == pc' = [pc EXCEPT ![c] = place]

\* A tool call opens a scope: a plain call waits for the lock, an authorized
\* mutation and a recovery fail when the lock is there (failIfLocked).
StartScope(c, k) ==
  /\ At(c, "idle") /\ Goto(c, "acquiring")
  /\ kind' = [kind EXCEPT ![c] = k]
  /\ UNCHANGED <<files, lockVars, cur, target, seen, look, bridgeVars, history, faults>>

\* Mutant of AcquireLock: a recovery does not mind the lock.
AcquireLockUnlessRecovering(c) ==
  /\ At(c, "acquiring") /\ (lock = None \/ kind[c] = "recovery")
  /\ lock' = c /\ lockOld' = FALSE
  /\ Goto(c, "entered")
  /\ UNCHANGED <<files, kind, cur, target, seen, look, bridgeVars, history, faults>>

\* fs.open(lockPath, 'wx') succeeds.
AcquireLock(c) ==
  /\ At(c, "acquiring") /\ lock = None
  /\ lock' = c /\ lockOld' = FALSE
  /\ Goto(c, "entered")
  /\ UNCHANGED <<files, kind, cur, target, seen, look, bridgeVars, history, faults>>

\* EEXIST: failIfLocked throws at once, a waiting call throws after lockTimeoutMs.
LockRefused(c) ==
  /\ At(c, "acquiring") /\ lock # None
  /\ Goto(c, "idle")
  /\ kind' = [kind EXCEPT ![c] = "call"]
  /\ UNCHANGED <<files, lockVars, cur, target, seen, look, bridgeVars, history, faults>>

\* Mutant of FindStaleLock: the age of the lock file is not looked at.
FindAnyLock(c) ==
  /\ At(c, "acquiring") /\ kind[c] = "call"
  /\ lock # None
  /\ Goto(c, "removing")
  /\ UNCHANGED <<files, lockVars, kind, cur, target, seen, look, bridgeVars, history, faults>>

\* removeStaleLock: the stat finds the file too old ...
FindStaleLock(c) ==
  /\ At(c, "acquiring") /\ kind[c] = "call"
  /\ lock # None /\ lockOld
  /\ Goto(c, "removing")
  /\ UNCHANGED <<files, lockVars, kind, cur, target, seen, look, bridgeVars, history, faults>>

\* ... and the rm removes whatever file has that name by then.
RemoveStaleLock(c) ==
  /\ At(c, "removing") /\ Goto(c, "acquiring")
  /\ lock' = None /\ lockOld' = FALSE
  /\ UNCHANGED <<files, kind, cur, target, seen, look, bridgeVars, history, faults>>

\* The finally block: the lock file is removed whoever it names.
ReleaseLock == lock' = None /\ lockOld' = FALSE

\* What a scope remembers goes with it, and with its process.
ForgetScope(c) ==
  /\ kind' = [kind EXCEPT ![c] = "call"]
  /\ target' = [target EXCEPT ![c] = None]
  /\ seen' = [seen EXCEPT ![c] = {}]
  /\ look' = [look EXCEPT ![c] = None]

\* The callback is over, by return or by exception.
LeaveScope(c) ==
  /\ pc[c] \in {"entered", "authorized", "recovering", "leaving"}
  /\ Goto(c, "idle") /\ ReleaseLock /\ ForgetScope(c)
  /\ UNCHANGED <<files, cur, bridgeVars, history, faults>>

-----------------------------------------------------------------------------
(* The idle checks: assertIdleForMutation, assertQueueAndProcessingIdle      *)

\* sweepInterruptedReadOnlyQueueArtifacts: a cancelled read loses its claim and,
\* once it is there, its response; the marker goes with the response.
Sweep ==
  /\ processing' = processing \ markers
  /\ responses' = responses \ markers
  /\ markers' = markers \ responses

Contents(d) ==
  CASE d = "queue" -> queue [] d = "processing" -> processing [] d = "responses" -> responses

CheckedDirs(c) == IF kind[c] = "mutation" THEN Dirs ELSE Dirs \ {"responses"}

\* A mutation scope sweeps first, a recovery scope does not.
BeginCheck(c) ==
  /\ Goto(c, "checking")
  /\ seen' = [seen EXCEPT ![c] = {}]
  /\ \/ At(c, "entered") /\ kind[c] = "mutation" /\ Sweep /\ UNCHANGED queue
     \/ At(c, "entered") /\ kind[c] = "recovery" /\ UNCHANGED files
     \/ At(c, "recovering") /\ UNCHANGED files
  /\ UNCHANGED <<lockVars, kind, cur, target, look, bridgeVars, history, faults>>

\* Promise.all runs directoryDiagnostics on the directories in no particular
\* order: readdir first ...
ListDir(c, d) ==
  /\ At(c, "checking") /\ look[c] = None /\ d \in CheckedDirs(c) \ seen[c]
  /\ IF Contents(d) = {}
       THEN seen' = [seen EXCEPT ![c] = @ \cup {d}] /\ UNCHANGED look
       ELSE look' = [look EXCEPT ![c] = [dir |-> d, names |-> Contents(d)]] /\ UNCHANGED seen
  /\ UNCHANGED <<files, lockVars, pc, kind, cur, target, bridgeVars, history, faults>>

\* ... then a stat of every name.  The check fails when all are still there.  A
\* name that has gone by its stat makes the whole directory count as empty.
StatFiles(c) ==
  /\ At(c, "checking") /\ look[c] # None
  /\ look' = [look EXCEPT ![c] = None]
  /\ \/ Goto(c, "leaving") /\ UNCHANGED seen
     \/ /\ ~(look[c].names \subseteq Contents(look[c].dir))
        /\ seen' = [seen EXCEPT ![c] = @ \cup {look[c].dir}]
        /\ UNCHANGED pc
  /\ UNCHANGED <<files, lockVars, kind, cur, target, bridgeVars, history, faults>>

Checked(c) == At(c, "checking") /\ seen[c] = CheckedDirs(c)

\* The scope may publish guarded requests from here on.
Authorize(c) ==
  /\ Checked(c) /\ kind[c] = "mutation"
  /\ Goto(c, "authorized")
  /\ UNCHANGED <<files, lockVars, kind, cur, target, seen, look, bridgeVars, history, faults>>

-----------------------------------------------------------------------------
(* recoverOrphanResponse, recoverCommittedCreation,                          *)
(* recoverCommittedParameterStaging                                          *)

\* The one response there is, is the one asked for: it is read and validated.
RecoverRead(c, r) ==
  /\ Checked(c) /\ kind[c] = "recovery" /\ target[c] = None
  /\ responses = {r}
  /\ target' = [target EXCEPT ![c] = r]
  /\ Goto(c, "recovering")
  /\ UNCHANGED <<files, lockVars, kind, cur, seen, look, bridgeVars, history, faults>>

\* No response, several, another one, or one that fails validation.
RecoverRefused(c) ==
  /\ Checked(c) /\ kind[c] = "recovery" /\ target[c] = None
  /\ Goto(c, "leaving")
  /\ UNCHANGED <<files, lockVars, kind, cur, target, seen, look, bridgeVars, history, faults>>

\* After the second idle check: persist the result, then remove the response.
RecoverConsume(c) ==
  /\ Checked(c) /\ kind[c] = "recovery" /\ target[c] # None
  /\ Goto(c, "leaving")
  /\ IF target[c] \in responses
       THEN /\ responses' = responses \ {target[c]}
            /\ learned' = learned \cup {target[c]}
       ELSE UNCHANGED <<responses, learned>>
  /\ UNCHANGED <<queue, processing, markers, lockVars, kind, cur, target, seen, look, bridgeVars,
                 issued, executions, withdrawn, faults>>

-----------------------------------------------------------------------------
(* callUnlocked: publish, poll, settle                                      *)

\* Plain calls and the probe inside a recovery are read-only; an authorized
\* scope publishes anything.
MayPublish(c, r) ==
  \/ At(c, "authorized")
  \/ At(c, "entered") /\ kind[c] = "call" /\ r \in ReadOnly
  \/ At(c, "recovering") /\ r \in ReadOnly

\* The request appears in queue/ by one rename of a complete staged file.
Publish(c, r) ==
  /\ MayPublish(c, r)
  /\ Owner[r] = c /\ r \notin issued
  /\ Sweep
  /\ queue' = queue \cup {r}
  /\ issued' = issued \cup {r}
  /\ cur' = [cur EXCEPT ![c] = r]
  /\ Goto(c, "polling")
  /\ UNCHANGED <<lockVars, kind, target, seen, look, bridgeVars, executions, learned, withdrawn, faults>>

\* One turn of the poll loop that finds no response.
PollMiss(c) ==
  /\ At(c, "polling") /\ cur[c] \notin responses \ markers
  /\ Sweep
  /\ UNCHANGED <<queue, lockVars, clientVars, bridgeVars, history, faults>>

\* A turn that parses the response: from here on the outcome is observed.
PollHit(c) ==
  /\ At(c, "polling") /\ cur[c] \in responses \ markers
  /\ Sweep
  /\ learned' = learned \cup {cur[c]}
  /\ Goto(c, "observed")
  /\ UNCHANGED <<queue, lockVars, kind, cur, target, seen, look, bridgeVars, issued, executions,
                 withdrawn, faults>>

\* The response is removed as soon as it is parsed.
RemoveResponse(c) ==
  /\ At(c, "observed") /\ Goto(c, "settling")
  /\ responses' = responses \ {cur[c]}
  /\ UNCHANGED <<queue, processing, markers, lockVars, kind, cur, target, seen, look, bridgeVars,
                 history, faults>>

\* Mutant of Settle: the claim is left for the bridge to delete.
SettleKeepsClaim(c) ==
  /\ At(c, "settling") /\ Goto(c, "leaving")
  /\ queue' = queue \ {cur[c]} /\ responses' = responses \ {cur[c]}
  /\ cur' = [cur EXCEPT ![c] = None]
  /\ UNCHANGED <<processing, markers, lockVars, kind, target, seen, look, bridgeVars, history, faults>>

\* The finally block after an observed outcome: request, claim and response go.
\* An error response throws out of the scope; a recovery goes on to its recheck.
Settle(c) ==
  /\ At(c, "settling")
  /\ queue' = queue \ {cur[c]}
  /\ processing' = processing \ {cur[c]}
  /\ responses' = responses \ {cur[c]}
  /\ \E place \in {"leaving",
                   CASE kind[c] = "call" -> "entered"
                     [] kind[c] = "mutation" -> "authorized"
                     [] kind[c] = "recovery" -> "recovering"} : Goto(c, place)
  /\ cur' = [cur EXCEPT ![c] = None]
  /\ UNCHANGED <<markers, lockVars, kind, target, seen, look, bridgeVars, history, faults>>

\* Mutant of TimeOut: the request file is forgotten.
TimeOutForgetsRequest(c) ==
  /\ At(c, "polling") /\ Goto(c, "leaving")
  /\ cur' = [cur EXCEPT ![c] = None]
  /\ UNCHANGED <<files, lockVars, kind, target, seen, look, bridgeVars, history, faults>>

\* Mutant of TimeOut: a claimed request is waited for without end.
TimeOutUnclaimed(c) ==
  /\ At(c, "polling") /\ cur[c] \in queue /\ Goto(c, "withdrawing")
  /\ UNCHANGED <<files, lockVars, kind, cur, target, seen, look, bridgeVars, history, faults>>

\* Date.now() - startedAt has reached timeoutMs.
TimeOut(c) ==
  /\ At(c, "polling") /\ Goto(c, "withdrawing")
  /\ UNCHANGED <<files, lockVars, kind, cur, target, seen, look, bridgeVars, history, faults>>

\* Mutant of Withdraw: the claim goes too, as it does after an observed outcome.
WithdrawDropsClaim(c) ==
  /\ At(c, "withdrawing") /\ Goto(c, "leaving")
  /\ queue' = queue \ {cur[c]} /\ processing' = processing \ {cur[c]}
  /\ withdrawn' = withdrawn \cup ({cur[c]} \cap queue)
  /\ cur' = [cur EXCEPT ![c] = None]
  /\ UNCHANGED <<responses, markers, lockVars, kind, target, seen, look, bridgeVars,
                 issued, executions, learned, faults>>

\* The finally block after a timeout removes the request file and nothing else.
Withdraw(c) ==
  /\ At(c, "withdrawing") /\ Goto(c, "leaving")
  /\ queue' = queue \ {cur[c]}
  /\ withdrawn' = withdrawn \cup ({cur[c]} \cap queue)
  /\ cur' = [cur EXCEPT ![c] = None]
  /\ UNCHANGED <<processing, responses, markers, lockVars, kind, target, seen, look, bridgeVars,
                 issued, executions, learned, faults>>

-----------------------------------------------------------------------------
(* How clients end, and what is cleaned up after them                        *)

\* Killed between two file operations.
Crash(c) ==
  /\ pc[c] \notin {"idle", "dead"} /\ Spend("crash")
  /\ Goto(c, "dead") /\ ForgetScope(c)
  /\ cur' = [cur EXCEPT ![c] = None]
  /\ UNCHANGED <<files, lockVars, bridgeVars, history>>

\* cleanupOwnedQueueArtifacts: the lock and the request file of a client in
\* flight are removed concurrently, its claim and its response never are.
Signal(c) ==
  /\ pc[c] \in InScope /\ Spend("signal")
  /\ Goto(c, "exiting") /\ ForgetScope(c)
  /\ UNCHANGED <<files, lockVars, cur, bridgeVars, history>>

ExitRemoveLock(c) ==
  /\ At(c, "exiting") /\ Goto(c, "unlocked") /\ ReleaseLock
  /\ UNCHANGED <<files, kind, cur, target, seen, look, bridgeVars, history, faults>>

ExitRemoveRequest(c) ==
  /\ pc[c] \in {"exiting", "unlocked"} /\ cur[c] # None
  /\ queue' = queue \ {cur[c]}
  /\ withdrawn' = withdrawn \cup ({cur[c]} \cap queue)
  /\ cur' = [cur EXCEPT ![c] = None]
  /\ UNCHANGED <<processing, responses, markers, lockVars, pc, kind, target, seen, look, bridgeVars,
                 issued, executions, learned, faults>>

Exit(c) ==
  /\ At(c, "unlocked") /\ cur[c] = None /\ Goto(c, "dead")
  /\ UNCHANGED <<files, lockVars, kind, cur, target, seen, look, bridgeVars, history, faults>>

OwnedBy(c, ids) == {r \in ids : Owner[r] = c}

\* cleanupQueueArtifactsForPid with removeReadOnlyProcessing, run for a client
\* that is gone or has no scope open: unclaimed requests go; a read-only claim is
\* cancelled by a marker, and its response goes if it is there already.
CleanupPid(c) ==
  LET removed == OwnedBy(c, processing) \cap ReadOnly IN
  /\ pc[c] \in {"dead", "idle"}
  /\ OwnedBy(c, queue) \cup removed # {} \/ lock = c
  /\ queue' = queue \ OwnedBy(c, queue)
  /\ withdrawn' = withdrawn \cup OwnedBy(c, queue)
  /\ processing' = processing \ removed
  /\ responses' = responses \ removed
  /\ markers' = markers \cup (removed \ responses)
  /\ IF lock = c THEN ReleaseLock ELSE UNCHANGED lockVars
  /\ UNCHANGED <<clientVars, bridgeVars, issued, executions, learned, faults>>

\* staleLockMs pass and the lock file is still there: its holder died, or its
\* scope is longer than that (timeout_ms may be 900000, staleLockMs is 600000).
AgeLock ==
  /\ lock # None /\ ~lockOld /\ Spend("aging")
  /\ lockOld' = TRUE
  /\ UNCHANGED <<files, lock, clientVars, bridgeVars, history>>

-----------------------------------------------------------------------------
(* The bridge: start, process_pending_requests, claim_request, write_response *)

BridgeStart ==
  /\ bridge = "off" /\ bridge' = "idle"
  /\ UNCHANGED <<files, lockVars, clientVars, listing, active, history, faults>>

\* A timer tick.  A retained claim stops everything.
Tick ==
  /\ bridge = "idle" /\ processing = {} /\ queue # {}
  /\ bridge' = "scanning" /\ listing' = queue
  /\ UNCHANGED <<files, lockVars, clientVars, active, history, faults>>

\* Mutant of Claim: the claim is a copy, the request file stays.
ClaimByCopy(r) ==
  /\ bridge = "scanning" /\ r \in listing \cap queue /\ r \notin processing
  /\ processing' = processing \cup {r}
  /\ listing' = listing \ {r}
  /\ active' = r /\ bridge' = "claimed"
  /\ UNCHANGED <<queue, responses, markers, lockVars, clientVars, history, faults>>

\* The listing is walked in the order of the file names, which begin with the
\* client's pid: between two clients that order says nothing.
Claim(r) ==
  /\ bridge = "scanning" /\ r \in listing \cap queue /\ r \notin processing
  /\ queue' = queue \ {r}
  /\ processing' = processing \cup {r}
  /\ listing' = listing \ {r}
  /\ active' = r /\ bridge' = "claimed"
  /\ UNCHANGED <<responses, markers, lockVars, clientVars, history, faults>>

\* The rename raises ENOENT: the request was withdrawn after the listing.
SkipVanished(r) ==
  /\ bridge = "scanning" /\ r \in listing \ queue
  /\ listing' = listing \ {r}
  /\ UNCHANGED <<files, lockVars, clientVars, bridge, active, history, faults>>

\* Mutant of EndScan: the loop goes on until queue/ is empty.
EndScanWhenDrained ==
  /\ bridge = "scanning" /\ listing = {} /\ queue = {} /\ bridge' = "idle"
  /\ UNCHANGED <<files, lockVars, clientVars, listing, active, history, faults>>

EndScan ==
  /\ bridge = "scanning" /\ listing = {} /\ bridge' = "idle"
  /\ UNCHANGED <<files, lockVars, clientVars, listing, active, history, faults>>

\* dispatch runs the method, whatever it answers.
Execute ==
  /\ bridge = "claimed" /\ bridge' = "executed"
  /\ executions' = [executions EXCEPT ![active] = @ + 1]
  /\ UNCHANGED <<files, lockVars, clientVars, listing, active, issued, learned, withdrawn, faults>>

\* write_response: a complete, synced file is renamed into responses/.
PersistResponse ==
  /\ bridge = "executed" /\ bridge' = "persisted"
  /\ responses' = responses \cup {active}
  /\ UNCHANGED <<queue, processing, markers, lockVars, clientVars, listing, active, history, faults>>

\* The end of a tick that leaves a claim behind or is cut short.
AbandonScan == bridge' = "idle" /\ listing' = {} /\ active' = None

\* Mutant of PersistFails: the request is put back for another try.
PersistFailsRequeues ==
  /\ bridge = "executed" /\ AbandonScan
  /\ queue' = queue \cup {active} /\ processing' = processing \ {active}
  /\ UNCHANGED <<responses, markers, lockVars, clientVars, history, faults>>

\* QueueResponsePersistenceError: the claim is retained, the loop breaks.
PersistFails ==
  /\ bridge = "executed" /\ AbandonScan
  /\ UNCHANGED <<files, lockVars, clientVars, history, faults>>

\* The claim is deleted, or is gone already, and the loop goes on.
ReleaseClaim ==
  /\ bridge = "persisted" /\ bridge' = "scanning" /\ active' = None
  /\ processing' = processing \ {active}
  /\ UNCHANGED <<queue, responses, markers, lockVars, clientVars, listing, history, faults>>

\* File.delete raises (the client may have deleted the claim in between).
ReleaseFails ==
  /\ bridge = "persisted" /\ AbandonScan
  /\ UNCHANGED <<files, lockVars, clientVars, history, faults>>

BridgeCrash ==
  /\ bridge # "off" /\ Spend("bridge")
  /\ bridge' = "off" /\ listing' = {} /\ active' = None
  /\ UNCHANGED <<files, lockVars, clientVars, history>>

-----------------------------------------------------------------------------
CallStep(c) ==
  \/ \E r \in Request : Publish(c, r)
  \/ PollMiss(c) \/ PollHit(c) \/ RemoveResponse(c) \/ Settle(c)
  \/ TimeOut(c) \/ Withdraw(c)

ScopeStep(c) ==
  \/ AcquireLock(c) \/ LockRefused(c) \/ FindStaleLock(c) \/ RemoveStaleLock(c)
  \/ LeaveScope(c)
  \/ BeginCheck(c) \/ Authorize(c)
  \/ \E d \in Dirs : ListDir(c, d)
  \/ StatFiles(c)
  \/ \E r \in Request : RecoverRead(c, r)
  \/ RecoverRefused(c) \/ RecoverConsume(c)

\* What a running client does on its own once a tool call has begun.
ClientStep(c) ==
  \/ ScopeStep(c) \/ CallStep(c)
  \/ ExitRemoveLock(c) \/ ExitRemoveRequest(c) \/ Exit(c)

BridgeStep ==
  \/ Tick \/ EndScan \/ Execute
  \/ \E r \in Request : Claim(r) \/ SkipVanished(r)
  \/ PersistResponse \/ PersistFails \/ ReleaseClaim \/ ReleaseFails

Environment ==
  \/ \E c \in Client : Crash(c) \/ Signal(c) \/ CleanupPid(c)
  \/ \E c \in Client, k \in ScopeKinds : StartScope(c, k)
  \/ AgeLock \/ BridgeStart \/ BridgeCrash

Next ==
  \/ \E c \in Client : ClientStep(c)
  \/ BridgeStep
  \/ Environment

Spec == Init /\ [][Next]_vars

\* Node runs a client's continuations and timers, SketchUp its timer.  Nothing
\* obliges a user to call a tool, and no fault has to happen.
FairSpec ==
  /\ Spec
  /\ \A c \in Client : WF_vars(ClientStep(c))
  /\ WF_vars(BridgeStep)

-----------------------------------------------------------------------------
(* Properties                                                               *)

\* Every variable holds a value of its kind, and nothing is in a directory
\* that was never published.
TypeOK ==
  /\ issued \subseteq Request
  /\ queue \subseteq issued /\ processing \subseteq issued /\ responses \subseteq issued
  /\ markers \subseteq issued /\ listing \subseteq issued
  /\ learned \subseteq issued /\ withdrawn \subseteq issued
  /\ lock \in Client \cup {None} /\ lockOld \in BOOLEAN
  /\ pc \in [Client -> ClientPlaces] /\ kind \in [Client -> ScopeKinds]
  /\ cur \in [Client -> issued \cup {None}]
  /\ target \in [Client -> issued \cup {None}]
  /\ seen \in [Client -> SUBSET Dirs]
  /\ look \in [Client -> {None} \cup [dir : Dirs, names : SUBSET issued]]
  /\ bridge \in BridgePlaces
  /\ active \in IF bridge \in Busy THEN issued ELSE {None}
  /\ executions \in [Request -> Nat]
  /\ faults \in [Faults -> Nat]

\* No request is dispatched twice, whatever is killed, restarted or timed out
\* in between: "Claimed requests ... will not be replayed automatically"
\* (assertFreshHandshakeDiagnostics), the rename of claim_request.
AtMostOnce == \A r \in Request : executions[r] <= 1

\* Once a mutation was dispatched, some trace of it is left until a client has
\* read its outcome: the claim or the response (the comment in callUnlocked:
\* "Either may be the only evidence that SketchUp executed the request").
EvidenceKept ==
  \A r \in Mutating :
    executions[r] > 0 => r \in processing \cup responses \cup learned

\* A request that a timeout or a cleanup took out of queue/ in time is never
\* dispatched, even when the bridge had it in its listing already.
WithdrawnNeverRuns == \A r \in withdrawn : executions[r] = 0

\* A request is dispatched only while its own claim is the only one:
\* process_pending_requests never goes past a claim that was retained.
NeverPastRetainedClaim ==
  [][\A r \in Request : executions'[r] # executions[r] => processing \subseteq {r}]_vars

\* A request whose outcome was read leaves no file behind once its client is
\* out of the scope: a leftover claim would pause the bridge for good, a
\* leftover response would block every later handshake and recovery.
NoResidueOfLearned ==
  \A r \in learned :
    pc[Owner[r]] = "idle" => r \notin queue \cup processing \cup responses

\* withExclusiveAccess: two clients are never both inside their scopes, unless
\* the lock of one that was still running was removed as stale.
ExclusiveScope ==
  faults["aging"] = 0 =>
    \A c, d \in Client : pc[c] \in InScope /\ pc[d] \in InScope => c = d

\* When a scope has been authorized, nothing published earlier is still to be
\* dispatched, except a read that was cancelled: what the scope goes on to do
\* follows the model state that it has read. A lock removed as stale, or a
\* signal that frees the lock of a request still claimed, excuses it.
AuthorizedMeansQuiescent ==
  faults["aging"] = 0 /\ faults["signal"] = 0 =>
    \A c \in Client :
      At(c, "authorized") => queue = {} /\ (bridge \in {"claimed", "executed"} => active \in markers)

\* The recovery of an orphan response never takes a response that its own
\* client is about to read, unless a lock was removed as stale.
RecoveryTakesOnlyOrphans ==
  [][\A c, d \in Client :
       RecoverConsume(c) /\ At(d, "polling") /\ faults["aging"] = 0 => cur[d] # target[c]]_vars

\* assertIdleForMutation answers queue_state: 'idle', and "Orphan queue
\* response files prevent a fresh handshake": an authorized scope has no
\* response of an earlier request beside it.
AuthorizedMeansNoOrphan ==
  \A c \in Client : At(c, "authorized") => responses = {}

\* Every scope comes to an end, by answer, error, timeout or signal, whatever
\* the bridge does.
ScopeEnds == \A c \in Client : pc[c] \in InScope ~> pc[c] \in {"idle", "dead"}

\* A published request does not stay in queue/ for ever, unless the bridge is
\* off or paused on a claim that was retained.
RequestLeavesQueue ==
  \A r \in Request : r \in queue ~> r \notin queue \/ bridge = "off" \/ processing # {}

-----------------------------------------------------------------------------
(* The queue implements the abstract ledger                                 *)

Stage(r) ==
  IF r \in learned THEN "known"
  ELSE IF executions[r] > 0 THEN "done"
  ELSE IF r \in withdrawn THEN "withdrawn"
  ELSE IF r \in issued THEN "sent"
  ELSE "unsent"

Ledger == INSTANCE RequestLedger WITH ledger <- [r \in Request |-> Stage(r)]

\* Seen as a ledger of requests, the queue only ever sends, withdraws, performs
\* and reports: no answer without an execution, no execution after a withdrawal.
ImplementsLedger == Ledger!Spec

=============================================================================
