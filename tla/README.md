# Verification of local-mcp-for-sketchup

This directory holds TLA+ models of the control logic of *local-mcp-for-sketchup*: a
local MCP server (Node) that lets agents build and edit SketchUp models through a
plugin (Ruby) inside SketchUp. TLC checks the models on small instances; TLAPS proves
the main safety properties for every value of the constants.

Every definition is translated from the source lines that `PROJECT.json` gives under
`map`; paths below are relative to the repository (`src/` = its root).

* [The system](#the-system): components, state, interactions, what is hard
* [The models](#the-models): one section per component, model against code
* [Runs](#runs): what is checked, with which bounds, under which fairness
* [Proofs](#proofs): what is proved, from what, how
* [Findings](#findings): where the code does less than it says
* [Not modelled](#not-modelled), [Plan](#plan), [Running it](#running-it)

## The system

    agent client ──MCP (stdio / HTTP)──> mcp-server.mjs ──> agent-gateway.mjs
                                                               │  tasks, claims, receipts, approvals (files)
                                                               v
                                                           bridge.mjs ──> queue-runtime.mjs
                                                                             │ lock, queue/, processing/, responses/
                                                                             v (files only)
                                          SketchUp: alma_sketchup_mcp.rb, UI timer, one request per turn
                                                                             │
                                              document_state.rb, saved_model_lifecycle.rb, operations ──> the model

Several node processes (one per client) use the same queue and the same task store.
Nothing but the file system connects them, and nothing but the file system connects
them with SketchUp. The user works in the same SketchUp at the same time.

| Component | State | Operations | Hard behaviour | What makes it correct |
|---|---|---|---|---|
| **Queue transport**, `src/src/queue-runtime.mjs` and the request loop of `alma_sketchup_mcp.rb` | `queue-runtime.lock`; the directories `queue/`, `processing/`, `responses/`, `read-only-cancellations/` | scope under the lock, idle checks, publish, poll, time out, settle, withdraw, orphan recovery, signal cleanup, sweep; claim, execute, respond, release the claim | two sides race over every file; either dies between any two file operations; locks go stale by age; late responses | a mutation runs once at most and never without evidence; a withdrawn request never runs; an authorized scope has the queue to itself |
| **Mutation guard**, `session-contract.mjs`, `guardedParams` of the queue, `assert_transport_guard!` of the bridge | contracts per client, a guard context per scope, SketchUp's session, documents, focus, pending open | handshake, authorize, guarded calls, document switches, close and reopen | the user and other clients change, save, switch and close documents between handshake and execution | a guarded call runs on the model its handshake described, or on what its own scope has made of it |
| **Task request slot**, `agent-task-store.mjs` claimTaskRequest, `agent-gateway.mjs` withTaskRequestSlot | `<task>.lock`, `<task>.lock.recovery` | claim, release, recovery of a dead owner's lock | three claims over one dead lock; a recovery that dies | one living request per task |
| **Reviewed edit**, `agent-gateway.mjs` submit, resume, executeReviewedExistingEdit, finalizeReviewedMutationReceipt; idempotency claims of `agent-task-store.mjs`; `task-mutation-receipt-ledger.mjs` | the task record, one claim and one recovery lock per key, the mutation receipt, the model | submit, resume, execution, receipt, finalization, error, recovery, replay | crash after any write; retries with the same or a new key; unknown outcomes | attempted once; the receipt decides; answers are true and final; nothing is blocked for good |
| **Idempotent creation of tasks**, `agent-task-store.mjs` createTask | a claim per key, its recovery lock, the task | create, replay, recover, begin the intent | recovery by several processes with no slot around it | one task per key, begun once |
| **Task store**, `agent-task-store.mjs` | one JSON file per task | transition, update, registerArtifact | read-modify-write without a lock between processes; `start` runs outside the slot | moves follow TASK_TRANSITIONS; what a process reads it writes before its next call reads |
| **Approval authority and local approval host**, `approval-tokens.mjs`, `local-approval-host.mjs` | challenges, decisions, spent tokens, the signing secret; the approval the task shows | issue, renew, decide, spend, redact, expire | token spent before its action runs; two pages decide at once; a renewal races a decision; two requests at one task, whose errors open it again | a decision that a user was told of stands; an edit runs on its own approval, which is spent once |
| **Delivery, close and reopen**, `model-accessibility-delivery.mjs`, `model-accessibility-reopen.mjs`, `saved_model_lifecycle.rb` | a claimed directory per task with signed records; the file and the document | claim, record, save or close, recover, replay | death between claim and native effect; answers after the timeout; a start outside the slot; the user at the document | saved and closed once per claim; success on recorded evidence only; nothing unsaved is closed |
| **Model transactions**, `alma_sketchup_mcp.rb` with_atomic_model_transaction | SketchUp's open operation; what the request reports | start, work, serialize, commit, finalize, abort | every call of SketchUp may fail or raise with or without effect; commit without confirmation | what is reported of the outcome is true; only the request's own operation is aborted |
| **Document state cache**, `document_state.rb` | cached states of documents, the sidecar attributes | load, store, evict, discard | a cache that is ahead of a rolled-back document; undo | the cached state is the document's |
| **Versioned stores**, `model-graph-store.mjs`, `design-intent-store.mjs` | graph files and a manifest behind a lock file | lock, judge and move a dead lock, publish, commit | the judged lock and the moved one differ; crash between publication and manifest | a returned version stays; what is listed can be read |
| **Mock runtime**, `mock-runtime.mjs` | a session file behind a lock file | lock, remove by age, unlock | a live lock removed | (none: see VersionStore) |
| **Copy fast session**, `copy-fast-session.mjs` | in-memory sessions with expiry and use limit | open, use, close | expiry while in use | bound to one model copy |
| **Image artifact store**, `image-artifact-store.mjs` | content-addressed files | publish by link, read | concurrent publication | content matches its name |
| **HTTP server**, `http-server.mjs` | open requests, timeouts | limit, time out | an effectful call outlives its request | no second effect |
| **MCP tools, facade, compilers, geometry, QA, image analysis, installers, reports** | none, or files written once | pure functions, sequential I/O | (numeric) | outside of the reach of a model checker |

How they interact. The gateway runs every `submit` and `resume` in the task's *request
slot*, claims the client's *idempotency key* in it, and executes the plan of the task
through the bridge facade. The facade opens one *scope* of the queue's lock per tool
call, makes a *handshake* or checks the one that was issued before, and *authorizes* the
scope (idle check, live session state). Each call of the scope carries the *guard* and
is one request of the *queue transport*. What came of it is written to the *receipt
ledger* before the task goes on.

Before a plan changes the model its user has to *approve* it on a page that another
process serves. In SketchUp a mutation is one *transaction*, whose document state is
*cached*. An accepted model is *delivered* to a file and may be closed and *reopened*.
Graphs and design intents go to *versioned stores*.

The hazards this leads to are listed, each at its line, under `hazards` in
`PROJECT.json`, with the properties that would catch them going wrong.

## The models

Modules are split as the code is. What one component may rely on in another is stated
as an abstract specification, which the detailed module is shown to implement:

    RequestLedger  <─ implements ─  QueueTransport
    RequestSlot    <─ implements ─  TaskRequestLock
    RequestSlot    <─ used by ────  ReviewedEdit
    ReviewedEdit   <─ implements ─  LockedEdit  ── extends ──>  TaskRequestLock
    ClaimedEffect  <─ implements ─  ReviewedEdit                  (EditsOnce)
    ClaimedEffect  <─ implements ─  ModelDelivery                 (SavesOnce)
    ClaimedEffect  <─ implements ─  ModelReopen  ── extends ──>  ModelDelivery  (ClosesOnce)
    SessionGuard     a scope of the queue is its step; a build is a step, which
                     ModelTransaction takes apart
    ConsentLedger  <─ implements ─  EditApproval, the approval of ReviewedEdit taken apart,
                     with two requests and the task store's reads and writes
    IdempotentStart  nothing protects a start but its claim
    VersionStore     its lock protects only its own directory

### QueueTransport (with RequestLedger)

*Models* `queue-runtime.mjs` and, in `alma_sketchup_mcp.rb`, `start`,
`process_pending_requests`, `claim_request`, `write_response`.

State: the four directories as sets of request ids; the lock file with its owner and
whether it is older than `staleLockMs`; for each client its place, the request it has in
flight, what its idle check has seen; for the bridge its place, what is left of its
directory listing and the request in its hands. `issued`, `executions`, `learned`,
`withdrawn` are history. Every file operation that another process can observe is a
step: reading a directory and the stats of its files are two, removing a stale lock is
a stat and an rm, the bridge's claim, execution, response and release are four.

| Code | Actions |
|---|---|
| `withExclusiveAccess`, `removeStaleLock` | StartScope, AcquireLock, LockRefused, FindStaleLock, RemoveStaleLock, LeaveScope |
| `assertIdleForMutation`, `assertQueueAndProcessingIdle`, `directoryDiagnostics` | BeginCheck, ListDir, StatFiles, Authorize |
| `callUnlocked` | Publish, PollMiss, PollHit, RemoveResponse, Settle, TimeOut, Withdraw |
| `recoverOrphanResponse`, `recoverCommittedCreation`, `recoverCommittedParameterStaging` | RecoverRead, RecoverRefused, RecoverConsume |
| `cleanupOwnedQueueArtifacts`, `cleanupQueueArtifactsForPid`, `sweepInterruptedReadOnlyQueueArtifacts` | Signal and the Exit steps, CleanupPid, Sweep (inside the operations that call it) |
| the bridge's timer | BridgeStart, Tick, Claim, SkipVanished, Execute, PersistResponse, PersistFails, ReleaseClaim, ReleaseFails, EndScan, AbandonScan |
| processes that die | Crash, BridgeCrash |

Abstractions. A client has one scope at a time; a request's file contents, the order in
which the bridge goes through a listing and the diagnostics taken before the lock are
left out; the dispatch of a request is one step; the replay guard on ids is a conjunct
of Claim; one CleanupPid or Sweep is atomic. An operator who removes a retained claim by
hand is not part of the system.

`RequestLedger` is what a caller of the queue may think: a request is unsent, sent,
withdrawn, done or known, and moves only forward. `ImplementsLedger` maps the directories
to it.

### SessionGuard

*Models* `session-contract.mjs`, the guard context of `queue-runtime.mjs`
(`withMutationGuard`, `guardedParams`, `recordSuccessfulGuardedCall`), the authorizing
scopes of `bridge.mjs`, and, in Ruby, `assert_transport_guard!`, `get_session_state`,
the guarded methods and `close_reopen_saved_model`.

State: SketchUp's session, its document handles (path, revision, unsaved-change flag),
the focus, the files on disk, the pending open request; the contract each client
holds; per scope the guard, whether its revision is consumed and whether it has asked
for another document; requests and answers under way; late requests of dead clients.
`own`, `switched` and the request's copies of them are history, and `performed` marks
the step that executes a request.

| Code | Actions |
|---|---|
| `create_queue_handshake`, `withFreshQueueMutationAuthorization`, `withLiveMutationAuthorization` | Handshake, AuthorizeFresh, Authorize |
| `guardedParams`, `recordSuccessfulGuardedCall`, `callUnlocked` | Send, Learn, TimeOut |
| `withExclusiveAccess`, `removeStaleLock`, orphan recovery | LeaveScope, RemoveStaleLock, Reconcile |
| `dispatch`: guard, then method | Serve, ServeStray with Build, Save, SaveAndReset, Observe, Open, Reopen |
| `get_active_model_identity`, `start` | ProbeIdentity, RestartBridge, RestartSketchUp |
| the user | Edit, UserSaves, Focus, NewWindow, CloseWindow, Overwrite |

Calls by their effect on the guard: `build` (a transaction), `save`, `saveAndReset`,
`observe` (guarded, without change), `open`, `reopen`. An unconfirmed outcome may have
had its effect or not. Abstractions: the idle check is one step here (QueueTransport has
its races); contract expiry, signatures and plugin version fields are left out;
`run_ruby_expert`, which may do anything to SketchUp, is left out; a scope that reopens
a document does nothing else, as in the code; SketchUp is assumed to focus one of its
open documents, and handles may be reused after it restarts.

### TaskRequestLock (with RequestSlot)

*Models* `claimTaskRequest`, `releaseTaskRequest` and `recoverDeadTaskRequestLock`
of `agent-task-store.mjs` as `withTaskRequestSlot` uses them. Both files are made with
`link(2)`, so they appear complete; every other file access is a step (Create, Read,
Judge, Recheck, Unlink, Settle, CheckOwner, Leave). A process dies with all of its
requests, and its files stay. `RequestSlot` says: at most one living request inside.

### ReviewedEdit

*Models* the life of a reviewed edit of an existing model from the task that awaits
review: `submit` and `resume`, `executeReviewedExistingEdit`,
`finalizeReviewedMutationReceipt`, `handleTaskError` of `agent-gateway.mjs`;
`claimIdempotency`, `recoverPendingIdempotencyClaim`,
`claimMutationFinalizationRecovery`, `abandonTaskOperationRecovery`,
`completeTaskOperation` of `agent-task-store.mjs`; the receipt ledger. Calls enter and
leave through `RequestSlot`, so they follow each other; but a call may end, with its
process, after any write.

State: the stored task (state, version), each key's claim and recovery lock, the
receipt, the call in the slot and its place. `attempts` and
`commits` count what the bridge was asked and what became of the model.

| Code | Actions |
|---|---|
| claimIdempotency | NewClaim, Conflict, Replay, LockPending |
| recoverPendingIdempotencyClaim | Recover, Rerun, Leave |
| claimMutationFinalizationRecovery | InspectOnly, InspectAndLock, Reclaim |
| executeReviewedExistingEdit | Refused, Approve, Execute, Apply, RecordReceipt |
| finalizeReviewedMutationReceipt | StartVerifying, Verified, NotVerified, Mark |
| catch blocks, handleTaskError, answers | RecoverableError, Abandoned, ForeignReceipt, FinalError, Envelope, Answer |
| resume_agent_task, submit_agent_task_input; the operating system | Begin; Crash |

`EditsOnce` maps the edit to `ClaimedEffect`: the claim is the task's leaving its review,
the effect a commit of the model, the evidence the receipt, and a recorded answer
"completed" what is told.

Abstractions. An input stands for its fingerprint; leases may expire at any time (a
conflict for a lease that has not is always possible); what the error of a refused
execution makes of the task is a choice among the states handleTaskError knows. Left
out: `start` and its create_task claims (IdempotentStart), source design changes, visual
corrections and reviews after the commit, which take other ways through the same code,
and I/O failures of the task's own writes.

### LockedEdit

*Models* `withTaskRequestSlot`: the edit above put behind the lock file of
TaskRequestLock instead of behind `RequestSlot`. A request that has the lock begins its
callback without asking whether another one runs, and a process may die at any place of
either. `ImplementsEdit` says that this is a ReviewedEdit.

| Code | Actions |
|---|---|
| claim and release around the callback | Slotted |
| the callback: resume or submit, its steps; a call that only reads | BeginCall, Continue; OtherCall |
| the operating system | Dies |

The composition has no run of its own: its two halves have theirs (`lock_slot`,
`edit_crashes`), and what it adds, that nothing of the edit depends on more than the lock
gives, is proved.

### IdempotentStart

*Models* `start_agent_task` with one idempotency key: `createTask`, `claimIdempotency` and
the create_task side of `recoverPendingIdempotencyClaim`, the recovery lock
(`acquireIdempotencyRecoveryLock`, `idempotencyRecoveryLockIsStale`,
`releaseIdempotencyRecoveryLock`) of `agent-task-store.mjs`, and in `agent-gateway.mjs`
what `start` does with the answer, up to the transition that begins the intent. A task
that does not exist yet has no request slot; the claim is all that protects it. Every
file access is a step, and a process may die between any two.

State: the claim, its recovery lock, the stored tasks, and for each call its place, the
task in its hands and the attempts it has left. `stolen` and `starts` are history.

| Code | Actions |
|---|---|
| createTask, claimIdempotency, finishIdempotencyClaim | MakeClaim, ReadClaim, Write, Finish |
| acquire, judge and release the recovery lock | Open, Sign, Judge, Unlink, Release, Unlock |
| recoverPendingIdempotencyClaim | Reread, Lookup, Complete, Adopt |
| start, transition | Recovered, ReadTask, Begin |
| the operating system, time | Die, LapseClaim, LapseLock |

Abstractions. `createTask` and `transition` are serialized in a process, so each call
stands for a process of its own; a call is named as the task it would create. All states of a task
after "created" are one. A lease is over or not, and that matters of the dead only; a
lock that a living process has opened and not yet written is taken to be younger than
the lease (30 s between two lines of code). Left out: starts without a key, requests
whose fingerprint differs (an error without a write), attachHostCreationPacket and the
intents themselves.

### ModelDelivery and ModelReopen (with ClaimedEffect)

*Models* `model-accessibility-delivery.mjs`, `model-accessibility-reopen.mjs`, the
requests of those two tasks in `agent-gateway.mjs`, `save_model` and
`close_reopen_saved_model` (`saved_model_lifecycle.rb`). ModelReopen extends
ModelDelivery: the reopen closes and opens the file that the delivery has saved.

State: each task's state; its claimed directory and journal files; the file and the
document in SketchUp (path, revision, unsaved changes, focus, whether it is the new
one); the request under way in the queue; for each task the place of a start, which runs
outside the request slot (`agent-gateway.mjs:276`), and of a request inside it. `saves`
and `closes` count native effects. A signed record is written, linked and its temporary
name unlinked in three steps in the delivery, and created empty and then written in the
reopen, as in the code.

| Code | Actions |
|---|---|
| deliverModelAccessibilityTask | Preflight, Claim, Journal, Seal, Save, Answer, Confirm, Certify, SealReceipt, Interrupted |
| replaySaved, deliverModeling | Replay, AskSource, Publish |
| the reopen's start, claim and execution | Open, Ask, Proof, ClaimReopen, Begin, Sign, Execute, Close, AnswerClose, Record, SignReturn |
| recovery of the reopen | Recover, Pend, Complete, SignComplete, Finalize, Verify, End |
| handleTaskError, resume, submit | Handle, Arrive; ResumeReopen, SubmitReopen, ResubmitReopen, Stop |
| SketchUp | SaveRuns, CloseRuns (also after Node has given up) |
| the user, the operating system | Edit, Focus, UserSaves; Crash, CrashBoth |

`ClaimedEffect` is what both journals promise, and the reviewed edit too: claim, at most
one effect, evidence of an effect that happened, success told of evidence only. One Node process serves both
tasks. The bound `OneTaskAtATime` of the MC module starts the
reopen when no request of the delivery is under way and lets none arrive after that; the
proofs do without it.

### ModelTransaction

*Models* `with_atomic_model_transaction` with its callers `reset_model`, `build_model`,
`import_model` and `adopt_open_model`, and the cache of `document_state.rb`. Each call of
SketchUp (start, commit, abort, the work itself, the serialization, the finalizer) answers
true, false or raises, with or without the effect asked for.

State: per document the sidecar, what it was when the open operation began and what an
undo takes back; the cache, bounded by CacheLimit; the request's place, what has failed,
whether the abort succeeded, and its report. `fate` (what SketchUp has made of the
operation) and `excused` (documents left behind by an undo or by a request that died) are
history. What a document keeps if all that is open is rolled back (`Kept`) may change only in
a commit (`ChangesInCommit`).

| Code | Actions |
|---|---|
| with_atomic_model_transaction | Start, Yield, YieldRaises, YieldDies, Serialize, Commit, Finalize, After |
| its rescue clause | Rescue, Discard |
| load, store and evict of document_state.rb | Loaded, Stored, Cache inside the above; Inspect |
| requests and the user | Request, Edit, Undo |

Abstractions. Of a document only the sidecar is kept; SketchUp runs one request at a time; its
document observers and the choice of the active document are left out.

### EditApproval (with ConsentLedger)

*Models* the challenges, decisions and spent tokens of `approval-tokens.mjs`, the pages of
`local-approval-host.mjs`, the resume and submit of a reviewed edit in `agent-gateway.mjs`
with its error handling, and `transition`, `update` and TASK_TRANSITIONS of the task store.
The pages are one process and the gateway is one or several, all with one directory.
Files are created exclusively and then written in two steps, so a fault leaves them torn.

State: challenges, decisions and spent tokens; the task's state and the challenge it shows;
each page's place; each request's place, the challenge and state it goes by and the task as
it has read it (`got`); the process that serves it. `told` (decisions a user was told of)
and `ran` are history.

| Code | Actions |
|---|---|
| decide, a page | Decide, Create, Write, Existing |
| `transition`, `update`, `serialized` | Reads, then Writes in every action that changes the task; Refused |
| resume, renewal | Resume, Look, Renew, Fill, Assign, Note |
| submit, new input and a new plan | Submit, Input, Understand, Plan, Review |
| submit, execution | ReadDecision, Approve, Execute, Consume, Spend, Mark, Redact, Run, Verify, Finish |
| errors | Fails, Error, Recover |
| time, the operating system | Expire, Crash |

Two requests may be at one task: the parent of a parameter edit submits its child without
the child's slot. A request reads the task and writes all of it later; in between the
others of its process wait, those of another process do not, so that their writes may be
undone. A transition is refused if TASK_TRANSITIONS does not allow it from the state that
was *read*: `executing` may follow `awaiting_input` and `understanding` too. An error moves
an open task as `recoveryStateFor` says or fails it, whatever else is at the task then.

Left out: signatures and the secret (a record that fails its check is a step that Fails);
the bindings of a token to plan and model revision, which are what stops the second of two
edits whose challenges two processes have both accepted; automatic approvals by server
policy; the resume that completes a dead request's receipt (ReviewedEdit has it); the review
of a design change after it was applied (the task shows it as no challenge any more).

`ConsentLedger` is what a user may think of all this: a challenge is decided once, its
approval is spent once at most and having been given, and its edit runs once at most.
`SpendsConsentOnce` maps the decisions on file to it; a file that is torn is a challenge
still open. It holds for any number of processes, since a spent approval is a file that is
created exclusively. `ExecutesAlone`, that one request at a time executes, is promised of
one process only; with two TLC finds the lost update that breaks it.

### VersionStore

*Models* `persist` of `model-graph-store.mjs` and the lock (`withModelLock`, judging and
moving a dead lock) that it shares with `design-intent-store.mjs`. Writers are processes;
the lock file is created and filled in two steps; it is judged in one step and moved in
another; a graph is published by a link, the manifest replaced at once. `displaced` says
that a lock in use was moved, `kept` which persists have returned. `HistoryGrows` says
that, until then, the manifest only ever gains versions at its end.

| Code | Actions |
|---|---|
| withModelLock | Open, Fill, JudgeStale, Move, Wait, Release, Unlock |
| persist | Persist, ReadManifest, Check, Orphan, Link, Commit, Fail |
| the operating system | Crash |

## Runs

Every passing run has all of its properties broken by a mutant of the code, listed in
`PROJECT.json`; mutants are the definitions marked "Mutant of" in the modules.

| Run | Bounds | Properties | Shows |
|---|---|---|---|
| `queue_faults` | 2 clients, a mutation each, any 2 of a client crash, a signal, a SketchUp crash, a stale lock | AtMostOnce, EvidenceKept, NoResidueOfLearned, ExclusiveScope, AuthorizedMeansQuiescent, RecoveryTakesOnlyOrphans, ImplementsLedger | the promises about requests survive overlapping scopes; while no lock goes stale, scopes exclude each other and an authorized one has nothing queued or running behind it |
| `queue_liveness` | 2 clients, a mutation and a read, 1 client crash | ScopeEnds, RequestLeavesQueue | scopes end; published requests leave `queue/` |
| `queue_idle_race` | 2 clients, a mutation each | AuthorizedMeansNoOrphan | violated, see Findings |
| `guard_user` | 1 client, 2 handles, 1 file, 2 revisions, any 3 of 2 user steps, a restart of SketchUp, a crash, a stale lock | MutatesWhatItSaw, PendingOpenHolds, ClosesOnlySaved | the guard against the user |
| `lock_slot` | 3 requests in 3 processes, 2 mortal | ImplementsSlot, OnlyDeadLocksAreTaken, ClaimsReturn, DeadLockGoes | the slot is exclusive, claims return, dead locks go |
| `edit_crashes` | 3 processes, 2 mortal, 2 keys, 2 inputs, 5 calls | AttemptedOnce, ReceiptDecides, NothingIsStuck, EditsOnce, AnswersAreFinal | the reviewed edit over crashes and retries |
| `start_recovery` | 4 calls, 3 mortal | GivenTasksAreStored, OneTaskUnlessStolen, BegunOnceWithoutDeaths, NothingIsHeld | replays and recoveries of one key |
| `saved_model` | a delivery and a reopen, 1 death | SavesOnce, ClosesOnce, VerifiedWasReopened, LosesNothing | native effects happen once, under a claim, and lose nothing |
| `delivery_lost` | the same, no death | ReceiptRecovers | violated, see Findings |
| `transaction` | 2 documents, 3 sidecars, a cache of 1 | ReportIsTrue, CacheAgrees, ChangesInCommit, AbortsOnlyItsOwn | reports, commits, aborts and cache under every failure of SketchUp's calls |
| `approval` | 2 pages, 2 requests in 1 or 2 processes, 1 renewal or new plan, any 5 of 2 decisions, 3 calls, 1 fault | DecisionStands, RunsOnlyApproved, ExecutesAlone, SpendsConsentOnce | decisions, spent approvals and executions of one edit |
| `store` | 2 writers, 2 graphs, 2 crashes | KeptVersionsStay, ListedCanBeRead, HistoryGrows | versions over crashes and displaced locks |

Why the bounds are enough. Two clients and two mutations are what an interleaving over
one lock and one directory needs: the request in trouble and the one that comes after
it; a third adds no new kind of file. Two faults reach every pair of places in which
the sides can be left (`FewFaults` in the MC modules is that bound; three steps in
`guard_user`, where the user's take part). Two handles and two revisions tell "the
document I saw" from another and "as I saw it" from changed. In `lock_slot`
the known race needs three requests: the dead owner, and two that judge its lock, of which
the faster has taken it anew when the slower removes it. Five calls on a reviewed edit are a first attempt, a
death, a recovery that dies too, and two calls after it, with the second key against the
first one's claim. Four starts are one that dies with the claim, one that dies with the
recovery lock, and the two that race for what they leave. One death between any two steps
of a journal leaves each of its torn forms, and the calls after it are unbounded. A cache
of one entry with two documents evicts on every change of document. Two pages are the
two decisions that collide; one renewal, or new plan, gives the decision on an old challenge a
newer one to be confused with; three calls are a first one, its rival, and one more on
what their errors have left, and five events (`MaxEvents`) leave out only that all of the
budgets are spent in one behaviour. Two writers suffice for the displaced lock, because one
that has crashed comes back as the third party. The proofs below remove the
bounds for all but the liveness properties.

`CHECK_DEADLOCK FALSE` appears where the budget of requests, calls, starts or user steps runs
out, or all tasks are finished, and the system rightly stops; `TaskRequestLock`,
`ModelTransaction` and `VersionStore` never stop and are checked.

**Fairness.** `QueueTransport`: weak fairness of each living client's steps (node's
event loop runs, and poll, lock and dispatch have timeouts) and of the bridge's steps
(SketchUp's UI timer fires). Starting the bridge is the user's decision and not fair, so
RequestLeavesQueue promises nothing of a bridge that is off or paused on a retained
claim. `TaskRequestLock`: weak fairness of each living request's steps (the callback
returns: its queue calls time out) and of new claims, since a dead lock is only looked
at by somebody who asks for the task. The other modules state no liveness.

## Proofs

TLAPS checks them; no step is assumed. Assumptions on constants are the named ASSUMEs
of the modules (ids have owners, `None` is none of the values), which TLC evaluates in
every run.

| Module | Theorems | Inductive invariant |
|---|---|---|
| `QueueTransport_proofs` | TypeCorrect, AtMostOnceHolds, EvidenceIsKept, WithdrawnStaysOut, RetainedClaimStops, NoResidue, ScopesExclude, AuthorizedIsQuiescent, OnlyOrphansAreTaken, QueueImplementsLedger | IInv: TypeOK with: what is in `queue/` was never run (QueueIsFresh); the bridge's request is the only claim it may run (ActiveIsClaimed, ClaimIsAlone) and has evidence (ActiveHasEvidence); counts agree with places (CountsAgree); a client settles only what it has learned (SettlesWhatItLearned); markers are of reads (MarkersAreReads). ResidueInv: there is one claim at most (OneClaim), so the second check of a recovery cannot miss the claim of its target (TargetIsSeen); who has read an outcome is removing its files or gone (LearnedGoes). LockInv: the lock names the client in its scope (HoldersOwnTheLock), a queued request is the holder's (QueueIsHeld), an idle check that lists `processing/` sees what the bridge is about to run (AheadIsSeen, OwnIsAhead) |
| `SessionGuard_proofs` | TypeCorrect, MutatesWhatItSawHolds, SwitchEndsScopeHolds, PendingOpenIsKept, ClosesOnlySavedHolds | TypeOK with: requests and answers belong to scopes (CallsAreInScope); a consumed revision was consumed by the scope's own mutation (ConsumedIsOwn); a switch marks the scope (SwitchIsMarked); requests carry their scope's guard and history (RequestsAreHonest) |
| `LockFiles_proofs` | of the request lock: TypeCorrect, OnlyDeadLocksAreTakenHolds, LockImplementsSlot | TypeOK with: who is inside owns the lock (InsideOwnsTheLock); who is past Judge owns the recovery file (RecovererOwnsTheFile); what it has found is dead, and at Unlink still in the lock (RecoversTheDead) |
| | of LockedEdit: LockedImplementsLock, LockedImplementsEdit, LockedEditHappensOnce | the above with: a callback runs only in a request that is inside, and `inside` names its process (CallbacksAreInside) |
| | of VersionStore: StoreTypeCorrect, KeptVersionsStayHolds, ListedCanBeReadHolds, HistoryGrowsHolds, OneWriterAtATime | StoreTypeOK with: manifests list no version twice and their current one (ManifestsAreSound); until a lock in use is moved, who works owns the lock (HoldersOwnTheStore) and has seen the manifest that is there (HoldersSawTheManifest); a file that was readable stays so (FilesStayReadable) |
| `ReviewedEdit_proofs` | TypeCorrect, AttemptedOnceHolds, ReceiptDecidesHolds, AnswersAreTrueHolds, AnswersAreFinalHolds, NothingIsStuckHolds, EditImplementsClaim | TypeOK with: the call's claim is the call's own (CallIsOwn); attempts are bound to task state and place (OneAttempt); only a receipt's owner finalizes (FinalizesReceipt); answered claims stay (AnswersAreKept); owners are the call's process or gone (NothingIsHeld) |
| `IdempotentStart_proofs` | TypeCorrect, GivenTasksAreStoredHolds, OneTaskUnlessStolenHolds, BegunOnceWithoutDeathsHolds, NothingIsHeldHolds | TypeOK with: what a call has in hand is stored (StoredInv); without a theft, who is in a recovery owns the lock (LockInv); all that were given a task were given the claim's, and who recovers sees a claim that is still stale (OneTask); pending claims and locks are in working hands (Held); while nobody has died, only the claim's maker begins (BegunOnceInv) |
| `ModelReopen_proofs` | TypeCorrect, DeliveryImplementsClaim, ReopenImplementsClaim, ReopenVerified, NothingIsLost | TypeOK with: who is past the claim is alone there, and saves and closes are bound to its place (OneSave, OneClose); records are of effects that happened (SaveEvidence, CloseEvidence); a saved document without changes agrees with its file (Synced) |
| `ModelTransaction_proofs` | TypeCorrect, ReportsAreTrue, CacheAgreed, OwnAborts, ChangesComeInCommits | TypeOK with: the operation's fate at each place (Ongoing, Failed); the cache agrees, but for the document of a request about to discard it (Cached) |
| `EditApproval_proofs` | TypeCorrect, DecisionsStand, OnlyApprovedRun, OneExecutes, ApprovalImplementsConsent | TypeOK with: what was written and told stands (Written, Known); a request past its look at the decision carries a challenge that was approved, and past Spend one that is spent (Carried); an approval that is spent is in the hands of one request until its edit has run (Held); in one process one request at a time has read the task, and has it as it is (Serial) |

The properties are not inductive by themselves. That a mutation is dispatched once
(AtMostOnce), for instance, follows only from where its file may be: in `queue/` while
it has not run, in `processing/` from the claim on, never back. That an edit is
attempted once follows from the place of the call and the task's state together: a call
that died in "executing" leaves a task that no later call takes back to review. Each
proof has a lemma per layer of the invariant and a step per action.

All refinements (QueueImplementsLedger, LockImplementsSlot, EditImplementsClaim,
DeliveryImplementsClaim, ReopenImplementsClaim, ApprovalImplementsConsent,
LockedImplementsEdit) are proved as safety
refinements: initial states map to initial states, and each step to a step or a stutter.

Refinements compose. LockedEdit is an instance of the edit *with its theorems*:
LockedEditHappensOnce goes from the lock file to the edit (LockedImplementsEdit) and from
there to the effect (the instance's EditImplementsClaim and AttemptedOnceHolds), so what
the edit promises is proved of requests that share nothing but a lock file. The assumptions
on the edit's constants are hypotheses there, since those of a named instance are.

Some theorems state properties that no run checks any more, since they are proved for
every instance: WithdrawnNeverRuns and NeverPastRetainedClaim of the queue,
SwitchEndsScope and the overlap of two clients' scopes in MutatesWhatItSaw of the
guard, AnswersAreTrue of the reviewed edit,
ImplementsEdit of LockedEdit, one writer at a time of the version store, and the type
invariants of all modules.

Only model-checked: all liveness (leads-to under fairness, ENABLED, are outside of
TLAPS as it is used here). No module uses RECURSIVE
operators; what a recursive definition computes for every input could not be proved.

## Findings

1. **The idle check can miss an orphan response** (`queue_idle_race`). The three
   directories are listed concurrently (`queue-runtime.mjs:115`). If `responses/` is
   listed before the bridge writes a timed-out request's response and `processing/`
   after it has deleted the claim, the scope is authorized beside an orphan response that
   line 1215 says prevents it.
2. **A saved delivery that cannot complete** (`delivery_lost`). A start runs outside of
   the request slot. A submit that reaches the task while the start is still before its
   claim is refused with an error that fails the task (`agent-gateway.mjs:600, 3213`);
   the start goes on, saves, and signs its receipt, but a failed task can neither be
   completed nor resumed (line 386), although `model-accessibility-delivery.mjs:94` says
   that finalization can recover safely once the receipt exists.

Noted, without a run.

*Queue and guard.* The lock is never refreshed, a lock older than `staleLockMs` is
removed without asking for its owner, and releasing removes whatever lock is there
(`queue-runtime.mjs:640, 694`); a tool call may last longer, and then two scopes
overlap although `bridge.mjs:199` wants one exclusive scope (hence `faults["aging"] = 0` in ExclusiveScope). A contract
stays usable in a new scope after `open_model`, though the message at
`queue-runtime.mjs:659` speaks of it as invalidated (the guard itself refuses the old
document). A pending open whose target never gets the focus is only cleared by a restart.

*Tasks.* The `.recovery` file of a process that died in recoverDeadTaskRequestLock is
never removed: every later claim of its task ends in TASK_STATE_CONFLICT
(`agent-task-store.mjs:638`; hence Orphaned in DeadLockGoes), where
`test/agent-gateway-production-capabilities.mjs:394` expects a dead owner's lock to be
recovered. A start's recovery lock judged stale is unlinked by its path
(`agent-task-store.mjs:733`), whoever has it by then: the slower of two retries removes
the lock that the faster one has just made, and both adopt the claim, so one key has two
tasks (hence `stolen` in OneTaskUnlessStolen), where `test/agent-contract.mjs:147` expects
one. A submit with another key on a task that died in "executing" without a receipt
fails the task with TASK_STATE_CONFLICT. A start that dies after completing its claim and
before the transition leaves a task in "created" that replays return and nobody runs
(only a *recovered* claim is resumed). And a recovered start can begin twice: a process
dies between storing its task and completing the claim, one retry completes it, another
that had found it stale replays it as recovered, both read the state "created" and both
begin the intent (`agent-gateway.mjs:314`).

*Delivery and reopen.* A death between the link and the unlink of a record leaves a
second name, and readSigned refuses it for good. A slow resume, question or late error of
a reopen overwrites the result of one that has completed, until the next resume. A torn
`complete.json` blocks every resume.

*Transactions.* An undo takes the sidecar back under the cache, and the next build
persists the cached one (hence `excused`). An exception that is no StandardError leaves
cache and operation as they are. An operation whose abort failed, reported as
not committed, is closed with its changes by the next start or edit. With
`keep_session=false` a failing reset makes save_model_version report not_committed though
the file was saved.

*Approvals.* The secret's file is created and then written: who reads it in between
signs with the empty key, and page and gateway disagree from then on (the session
contract's secret is read again until it has 32 bytes, this one is not). A torn challenge
or decision blocks its challenge for good. A decision written between the look and the
renewal belongs to a challenge that is no longer shown (`agent-gateway.mjs:229`). A
decision made after the expiry is told to the user and then refused. An approved
challenge that has expired is never renewed. A request that finds the token spent fails
the task though another request may be executing it
(`model-accessibility-parameter-execution.mjs:240`). With two gateway processes an update
may write a task back that another one has moved to "executing"
(`agent-task-store.mjs:146`), and two requests may execute it; a challenge is spent once
all the same, so the second edit needs an approval of its own. With four calls and one
process the finish of an edit that has lost the task to a new plan completes the task while
that plan executes (hence "completed" in ExecutesAlone).

*Stores.* Two waiters may judge one dead lock; the second then moves the first one's new
lock away, and after that a version that was returned may be missing from the manifest
(hence `displaced` in KeptVersionsStay). The lock of the mock runtime, which asks for age
alone, is the mutant JudgeByAge.

## Not modelled

PROJECT.json lists every component with its status. Left out for good: geometry, QA, image analysis and
other pure floating-point functions; compilers of the DSL and the SDK (pure); the MCP tool surface (a stateless
mapping); installers, packaging, reports and the compatibility simulator (sequential
I/O or test code). Their correctness is a matter of tests over data. Cryptographic
signatures, file permissions and path checks are data checks of the modelled operations.

## Plan

What is left, in order of what matters most:

1. The rest of the task store: registerArtifact, promotions of a source task outside of its
   slot, cancellation and expiry, as read and write steps like those of EditApproval.
2. The other intents of the gateway (creation and its recovery first), parameter edits
   and appearance tasks, which are executors with a receipt like the reviewed edit.
3. The versions of the design intent store behind the lock of VersionStore.
4. `CopyFastSession` (expiry while in use), `ImageArtifactStore` (publication by link).
5. Liveness of a reviewed edit's finalization.

## Running it

    tlc -workers 2 -config queue_faults.cfg MCQueueTransport
    tlapm QueueTransport_proofs.tla

Each run's module is in `PROJECT.json`; the longest takes three minutes with two workers.
