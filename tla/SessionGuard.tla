---------------------------- MODULE SessionGuard ----------------------------
(***************************************************************************)
(* What a live mutation is bound to.  A fresh handshake signs the bridge    *)
(* session, the document, its path, revision and unsaved-change flag into a *)
(* Session Contract (src/src/session-contract.mjs); a scope opened under    *)
(* that contract puts a transport guard into every guarded request          *)
(* (guardedParams in src/src/queue-runtime.mjs); and the bridge checks the  *)
(* guard against the model that has the focus when it dispatches the        *)
(* request (assert_transport_guard! in alma_sketchup_mcp.rb).  Between any  *)
(* two of these the user edits, saves, closes or switches documents, the    *)
(* bridge restarts, or the client dies and leaves its request behind.       *)
(*                                                                         *)
(* The files of the queue are QueueTransport's; here a client has at most   *)
(* one request under way, which the bridge serves in one step.              *)
(***************************************************************************)
EXTENDS Naturals, FiniteSets

CONSTANTS
  Client,       \* node processes
  Doc,          \* the Ruby handles (object ids) a SketchUp process can have
  File,         \* paths of saved models
  Revision,     \* values of model_revision
  None,
  Asked,        \* bound: the kinds of guarded calls that clients make
  MaxSessions,  \* bound: bridge sessions after the first
  MaxUserSteps, \* bound: what the user does in SketchUp
  MaxCrashes,   \* bound: clients that die in a scope
  MaxAgings     \* bound: live scopes whose lock is removed as stale

\* build stands for build_model, reset_model, import_model, adopt_open_model and
\* run_ruby_expert; observe for the guarded calls that leave the model as it
\* is: set_selection, the captures, export_model, a version saved as a copy.
Method == {"build", "save", "saveAndReset", "observe", "open", "reopen"}

ASSUME ConstantsAssumption ==
  /\ Asked \subseteq Method
  /\ None \notin Doc \cup File \cup Revision \cup Client
  /\ {MaxSessions, MaxUserSteps, MaxCrashes, MaxAgings} \subseteq Nat

VARIABLES
  session,   \* @session_id, by its number
  docs,      \* what SketchUp has for each handle
  active,    \* the document with the focus
  disk,      \* the revision of the model saved under each path
  pending,   \* the path in @pending_open_request
  lock,      \* the client that holds the queue lock
  contract,  \* the Session Contract a client was given last
  scope,     \* the mutationGuardContext of the scope a client is in
  request,   \* the request a client waits for
  answer,    \* the response the bridge has written for it
  strays,    \* requests whose client died before they were served
  orphans,   \* a response that nobody waits for is in responses/
  own,       \* history: a mutation of the client's scope was confirmed
  switched,  \* history: the client's scope has asked for another document
  performed, \* history: the request performed by the last step, if any
  budget     \* how much of each bound is used

sketchup == <<session, docs, active, disk, pending>>
client == <<contract, scope, request, answer, own, switched>>
leftovers == <<strays, orphans>>
vars == <<sketchup, lock, client, leftovers, performed, budget>>

ConsumesRevision == {"build", "saveAndReset"}
SwitchesDocument == {"open", "reopen"}

Handle == [life : {"unborn", "open", "closed"}, path : File \cup {None},
           rev : Revision, modified : BOOLEAN]
Contract == [session : Nat, doc : Doc, path : File \cup {None},
             rev : Revision, modified : BOOLEAN]
Context == [guard : Contract, consumed : BOOLEAN, invalidated : BOOLEAN]
ASSUME ContextAssumption == None \notin Context

\* exact: the guard still has model_revision and model_modified.  after and
\* switched are history: own and switched of the scope when it sent this.
Call == [method : Method, file : File, guard : Contract, exact : BOOLEAN,
         after : BOOLEAN, switched : BOOLEAN]

Bounds == [session |-> MaxSessions, user |-> MaxUserSteps,
           crash |-> MaxCrashes, aging |-> MaxAgings]
Spend(b) == budget[b] < Bounds[b] /\ budget' = [budget EXCEPT ![b] = @ + 1]

IsOpen(d) == docs[d].life = "open"
Path(d) == docs[d].path
HasFile(d, f) == IsOpen(d) /\ Path(d) = f

\* SketchUp starts with an empty untitled model and the bridge starts with it.
Window(f, r, m) == [life |-> "open", path |-> f, rev |-> r, modified |-> m]
Untitled(r) == Window(None, r, FALSE)
Unborn(r) == [Untitled(r) EXCEPT !.life = "unborn"]
Launched(d, r) == [e \in Doc |-> IF e = d THEN Untitled(r) ELSE Unborn(r)]

Init ==
  /\ session = 0
  /\ \E d \in Doc, r \in Revision :
       active = d /\ docs = Launched(d, r) /\ disk = [f \in File |-> r]
  /\ pending = None /\ lock = None
  /\ contract = [c \in Client |-> None]
  /\ scope = [c \in Client |-> None]
  /\ request = [c \in Client |-> None]
  /\ answer = [c \in Client |-> None]
  /\ strays = {} /\ orphans = FALSE
  /\ own = [c \in Client |-> FALSE]
  /\ switched = [c \in Client |-> FALSE]
  /\ performed = None
  /\ budget = [b \in DOMAIN Bounds |-> 0]

-----------------------------------------------------------------------------
(* Handshakes and scopes (bridge.mjs, session-contract.mjs)                 *)

\* get_session_state, as issue() copies it and verify() compares it.
SessionState ==
  [session |-> session, doc |-> active, path |-> Path(active),
   rev |-> docs[active].rev, modified |-> docs[active].modified]

\* queue/, processing/ and responses/ are empty.
QueueIdle ==
  /\ \A c \in Client : request[c] = None /\ answer[c] = None
  /\ strays = {} /\ ~orphans

\* Each handshake and each authorization needs the lock, an idle queue and a
\* model to answer the probe.
MayProbe(c) == scope[c] = None /\ lock = None /\ QueueIdle /\ active # None

\* create_queue_handshake: the lock is held for the probe only.
Handshake(c) ==
  /\ MayProbe(c)
  /\ contract' = [contract EXCEPT ![c] = SessionState]
  /\ UNCHANGED <<sketchup, lock, scope, request, answer, own, switched, leftovers, budget>>

EnterScope(c, guard) ==
  /\ lock' = c
  /\ scope' = [scope EXCEPT ![c] =
       [guard |-> guard, consumed |-> FALSE, invalidated |-> FALSE]]
  /\ UNCHANGED <<sketchup, request, answer, own, switched, leftovers, budget>>

\* validateRuntimeBinding compares every field of the contract.
Binding(c) == contract[c] = SessionState

\* withLiveMutationAuthorization: the contract must describe the live model.
Authorize(c) ==
  /\ MayProbe(c) /\ Binding(c)
  /\ EnterScope(c, contract[c])
  /\ UNCHANGED contract

\* withFreshQueueMutationAuthorization: handshake and scope under one lock.
AuthorizeFresh(c) ==
  /\ MayProbe(c)
  /\ contract' = [contract EXCEPT ![c] = SessionState]
  /\ EnterScope(c, SessionState)

\* guardedParams: the guard that goes with a call, unless an earlier call of
\* the scope asked for another document.  A scope that closes and reopens the
\* saved model does nothing else (close_reopen_saved_model).
Send(c, m, f) ==
  /\ scope[c] # None /\ request[c] = None /\ answer[c] = None
  /\ ~scope[c].invalidated
  /\ m = "reopen" => ~scope[c].consumed
  /\ request' = [request EXCEPT ![c] =
       [method |-> m, file |-> f, guard |-> scope[c].guard,
        exact |-> ~scope[c].consumed, after |-> own[c], switched |-> switched[c]]]
  /\ scope' = [scope EXCEPT ![c].invalidated = m \in SwitchesDocument]
  /\ switched' = [switched EXCEPT ![c] = @ \/ m \in SwitchesDocument]
  /\ UNCHANGED <<sketchup, lock, contract, answer, own, leftovers, budget>>

\* Mutant of Learn: an error consumes the revision too.
LearnAnyAnswer(c) ==
  /\ answer[c] # None
  /\ scope' = [scope EXCEPT ![c].consumed = @ \/ answer[c].method \in ConsumesRevision]
  /\ answer' = [answer EXCEPT ![c] = None]
  /\ UNCHANGED <<sketchup, lock, contract, request, own, switched, leftovers, budget>>

\* recordSuccessfulGuardedCall: only an answer without an error consumes the
\* revision, and only the answer to a call that was checked against it.
Learn(c) ==
  /\ answer[c] # None
  /\ scope' = [scope EXCEPT ![c].consumed =
       @ \/ (answer[c].ok /\ answer[c].exact /\ answer[c].method \in ConsumesRevision)]
  /\ answer' = [answer EXCEPT ![c] = None]
  /\ UNCHANGED <<sketchup, lock, contract, request, own, switched, leftovers, budget>>

\* The poll loop gives up: an unserved request is taken back, a response that
\* comes at the last moment stays.  The scope may go on after the error.
TimeOut(c) ==
  /\ request[c] # None \/ answer[c] # None
  /\ request' = [request EXCEPT ![c] = None]
  /\ answer' = [answer EXCEPT ![c] = None]
  /\ orphans' = (orphans \/ answer[c] # None)
  /\ UNCHANGED <<sketchup, lock, contract, scope, own, switched, strays, budget>>

\* The end of the scope removes the lock file, whoever has made it.
LeaveScope(c) ==
  /\ scope[c] # None /\ request[c] = None /\ answer[c] = None
  /\ scope' = [scope EXCEPT ![c] = None]
  /\ lock' = None
  /\ own' = [own EXCEPT ![c] = FALSE]
  /\ switched' = [switched EXCEPT ![c] = FALSE]
  /\ UNCHANGED <<sketchup, contract, request, answer, leftovers, budget>>

\* The client dies in its scope: the lock, the request and the response stay,
\* and its contracts die with server_session_id.
Crash(c) ==
  /\ scope[c] # None /\ Spend("crash")
  /\ strays' = strays \cup ({request[c]} \ {None})
  /\ orphans' = (orphans \/ answer[c] # None)
  /\ contract' = [contract EXCEPT ![c] = None]
  /\ scope' = [scope EXCEPT ![c] = None]
  /\ request' = [request EXCEPT ![c] = None]
  /\ answer' = [answer EXCEPT ![c] = None]
  /\ own' = [own EXCEPT ![c] = FALSE]
  /\ switched' = [switched EXCEPT ![c] = FALSE]
  /\ UNCHANGED <<sketchup, lock>>

\* removeStaleLock: the lock of a dead client, or of one that is too slow.
RemoveStaleLock ==
  /\ lock # None
  /\ IF scope[lock] = None THEN UNCHANGED budget ELSE Spend("aging")
  /\ lock' = None
  /\ UNCHANGED <<sketchup, client, leftovers>>

\* A recovery consumes the response nobody waited for.
Reconcile ==
  /\ orphans /\ orphans' = FALSE
  /\ UNCHANGED <<sketchup, lock, client, strays, budget>>

-----------------------------------------------------------------------------
(* The bridge: assert_transport_guard! and the guarded methods              *)

PendingElsewhere == pending # None /\ Path(active) # pending

\* session_document_id hashes the session and the handle, so a handle means
\* nothing in another session.
Bound(q) ==
  /\ q.guard.session = session
  /\ q.guard.doc = active
  /\ q.exact => /\ q.guard.modified = docs[active].modified
                /\ q.guard.rev = docs[active].rev

Accepted(q) == active # None /\ ~PendingElsewhere /\ Bound(q)

\* with_atomic_model_transaction: a confirmed commit; or an abort, an abort that
\* fails or a commit without confirmation, after which the model may be anything.
Build(q, ok) ==
  /\ \E r \in Revision, m \in BOOLEAN :
       /\ ok => m
       /\ docs' = [docs EXCEPT ![active] = Window(Path(active), r, m)]
  /\ pending' = None
  /\ UNCHANGED <<session, active, disk>>

SavedAs(d, f) == [docs EXCEPT ![d] = Window(f, docs[d].rev, FALSE)]

\* save_model: without confirmation the file may have been written or not.
Save(q, ok) ==
  /\ \A d \in Doc \ {active} : ~HasFile(d, q.file)
  /\ \/ /\ docs' = SavedAs(active, q.file)
        /\ disk' = [disk EXCEPT ![q.file] = docs[active].rev]
     \/ ~ok /\ UNCHANGED <<docs, disk>>
  /\ pending' = None
  /\ UNCHANGED <<session, active>>

\* save_model with keep_session = false: the saved model is then reset, and
\* the answer is an error when the reset fails.
SaveAndReset(q, ok) ==
  /\ \A d \in Doc \ {active} : ~HasFile(d, q.file)
  /\ \/ \E r \in Revision, m \in BOOLEAN :
          /\ ok => m
          /\ docs' = [docs EXCEPT ![active] = Window(q.file, r, m)]
          /\ disk' = [disk EXCEPT ![q.file] = docs[active].rev]
     \/ ~ok /\ UNCHANGED <<docs, disk>>
  /\ pending' = None
  /\ UNCHANGED <<session, active>>

Observe == pending' = None /\ UNCHANGED <<session, docs, active, disk>>

Opened(f) == Window(f, disk[f], FALSE)

\* open_model: Sketchup.open_file fails, or the document has the focus on
\* return (the answer may still fail), or the focus will come later (macOS).
\* A document that is open already is only focused.
Open(q, ok) ==
  /\ \/ ~ok /\ pending' = None /\ UNCHANGED <<docs, active>>
     \/ /\ pending' = None
        /\ \E d \in Doc :
             /\ \/ HasFile(d, q.file) /\ UNCHANGED docs
                \/ /\ docs[d].life = "unborn" /\ \A e \in Doc : ~HasFile(e, q.file)
                   /\ docs' = [docs EXCEPT ![d] = Opened(q.file)]
             /\ active' = d
     \/ ok /\ pending' = q.file /\ UNCHANGED <<docs, active>>
  /\ UNCHANGED <<session, disk>>

\* saved_lifecycle_assert_model!: the document is the saved one, unchanged.
SavedModelHolds(q) ==
  Path(active) = q.file /\ ~docs[active].modified /\ docs[active].rev = q.guard.rev

\* Mutant of SavedFileHolds: the file is only looked for.
SavedFileExists(q) == q.file \in DOMAIN disk

\* saved_lifecycle_assert_file!: the bytes are those of the receipt.
SavedFileHolds(q) == disk[q.file] = q.guard.rev

MayClose(q) == SavedModelHolds(q) /\ SavedFileHolds(q)

\* SketchUp focuses one of the documents that are left.
FocusLeft(after) ==
  IF \E e \in Doc : after[e].life = "open"
  THEN active' \in {e \in Doc : after[e].life = "open"} ELSE active' = None

\* close_reopen_saved_model: nothing is closed unless the receipt still holds;
\* the close may fail, and after it the reopening may fail, come or be pending.
Reopen(q, ok) ==
  LET closed == [docs EXCEPT ![active].life = "closed"] IN
  /\ UNCHANGED <<session, disk>>
  /\ \/ ~ok /\ pending' = None /\ UNCHANGED <<docs, active>>
     \/ ~ok /\ MayClose(q) /\ pending' = None /\ docs' = closed /\ FocusLeft(closed)
     \/ /\ MayClose(q) /\ pending' = None
        /\ \E d \in Doc : /\ docs[d].life = "unborn"
                          /\ docs' = [closed EXCEPT ![d] = Opened(q.file)]
                          /\ active' = d
     \/ MayClose(q) /\ pending' = q.file /\ docs' = closed /\ FocusLeft(closed)

\* dispatch: the guard and the operation see one and the same model.
Perform(q, ok) ==
  /\ Accepted(q)
  /\ \/ q.method = "build" /\ Build(q, ok)
     \/ q.method = "save" /\ Save(q, ok)
     \/ q.method = "saveAndReset" /\ SaveAndReset(q, ok)
     \/ q.method = "observe" /\ Observe
     \/ q.method = "open" /\ Open(q, ok)
     \/ q.method = "reopen" /\ Reopen(q, ok)
  /\ performed' = q

Refuse(q, ok) == ~Accepted(q) /\ ~ok /\ performed' = None /\ UNCHANGED sketchup

Dispatch(q, ok) == Refuse(q, ok) \/ Perform(q, ok)

\* A request whose client waits, and its response.
Serve(c) ==
  /\ request[c] # None
  /\ \E ok \in BOOLEAN :
       /\ Dispatch(request[c], ok)
       /\ answer' = [answer EXCEPT ![c] =
            [ok |-> ok, method |-> request[c].method, exact |-> request[c].exact]]
       /\ own' = [own EXCEPT ![c] = @ \/ (ok /\ request[c].method \in ConsumesRevision)]
  /\ request' = [request EXCEPT ![c] = None]
  /\ UNCHANGED <<lock, contract, scope, switched, leftovers, budget>>

\* A request whose client is dead is served all the same.
ServeStray(q) ==
  /\ q \in strays
  /\ \E ok \in BOOLEAN : Dispatch(q, ok)
  /\ strays' = strays \ {q} /\ orphans' = TRUE
  /\ UNCHANGED <<lock, client, budget>>

\* Mutant of ProbeIdentity: any probe ends the pending open.
ProbeForgets ==
  /\ active # None /\ pending # None
  /\ pending' = None
  /\ UNCHANGED <<session, docs, active, disk, lock, client, leftovers, budget>>

\* get_active_model_identity needs no guard.
ProbeIdentity ==
  /\ active # None /\ pending # None /\ Path(active) = pending
  /\ pending' = None
  /\ UNCHANGED <<session, docs, active, disk, lock, client, leftovers, budget>>

\* The bridge is stopped and started: a new session for the same documents.
RestartBridge ==
  /\ Spend("session") /\ session' = session + 1
  /\ UNCHANGED <<docs, active, disk, pending, lock, client, leftovers>>

\* SketchUp is started again, with handles that may be those of before.
RestartSketchUp ==
  /\ Spend("session") /\ session' = session + 1
  /\ \E d \in Doc, r \in Revision : active' = d /\ docs' = Launched(d, r)
  /\ pending' = None
  /\ UNCHANGED <<disk, lock, client, leftovers>>

-----------------------------------------------------------------------------
(* The user, in SketchUp                                                    *)

Edit ==
  /\ active # None
  /\ \E r \in Revision \ {docs[active].rev} :
       docs' = [docs EXCEPT ![active] = Window(Path(active), r, TRUE)]
  /\ UNCHANGED <<active, disk, pending>>

UserSaves ==
  /\ active # None
  /\ \E f \in File :
       /\ \A d \in Doc \ {active} : ~HasFile(d, f)
       /\ docs' = SavedAs(active, f)
       /\ disk' = [disk EXCEPT ![f] = docs[active].rev]
  /\ UNCHANGED <<active, pending>>

Focus ==
  /\ \E d \in Doc \ {active} : IsOpen(d) /\ active' = d
  /\ UNCHANGED <<docs, disk, pending>>

\* A new or saved model, opened by the user or by the pending open_file.
NewWindow ==
  /\ \E d \in Doc :
       /\ docs[d].life = "unborn" /\ active' = d
       /\ \/ \E r \in Revision : docs' = [docs EXCEPT ![d] = Untitled(r)]
          \/ \E f \in File : /\ \A e \in Doc : ~HasFile(e, f)
                             /\ docs' = [docs EXCEPT ![d] = Opened(f)]
  /\ UNCHANGED <<disk, pending>>

CloseWindow ==
  /\ active # None
  /\ docs' = [docs EXCEPT ![active].life = "closed"]
  /\ FocusLeft(docs')
  /\ UNCHANGED <<disk, pending>>

\* Another program writes a saved model.
Overwrite ==
  /\ \E f \in File, r \in Revision : disk' = [disk EXCEPT ![f] = r]
  /\ UNCHANGED <<docs, active, pending>>

User ==
  /\ Spend("user")
  /\ Edit \/ UserSaves \/ Focus \/ NewWindow \/ CloseWindow \/ Overwrite
  /\ UNCHANGED <<session, lock, client, leftovers>>

-----------------------------------------------------------------------------

ClientStep(c) ==
  \/ Handshake(c) \/ Authorize(c) \/ AuthorizeFresh(c)
  \/ \E m \in Asked, f \in File : Send(c, m, f)
  \/ Learn(c) \/ TimeOut(c) \/ LeaveScope(c) \/ Crash(c)

\* Steps that perform no request.
OtherStep ==
  \/ \E c \in Client : ClientStep(c)
  \/ RemoveStaleLock \/ Reconcile \/ ProbeIdentity
  \/ RestartBridge \/ RestartSketchUp \/ User

Next ==
  \/ OtherStep /\ performed' = None
  \/ \E c \in Client : Serve(c)
  \/ \E q \in strays : ServeStray(q)

Spec == Init /\ [][Next]_vars

-----------------------------------------------------------------------------
(* Properties                                                               *)

Answer == [ok : BOOLEAN, method : Method, exact : BOOLEAN]

SketchUpOK ==
  /\ session \in Nat
  /\ docs \in [Doc -> Handle]
  /\ active \in Doc \cup {None}
  /\ active # None => IsOpen(active)
  /\ disk \in [File -> Revision]
  /\ pending \in File \cup {None}

\* Types, and the document with the focus is an open one.
TypeOK ==
  /\ SketchUpOK
  /\ lock \in Client \cup {None}
  /\ contract \in [Client -> Contract \cup {None}]
  /\ scope \in [Client -> Context \cup {None}]
  /\ request \in [Client -> Call \cup {None}]
  /\ answer \in [Client -> Answer \cup {None}]
  /\ strays \subseteq Call /\ orphans \in BOOLEAN
  /\ own \in [Client -> BOOLEAN] /\ switched \in [Client -> BOOLEAN]
  /\ performed \in Call \cup {None}
  /\ budget \in [DOMAIN Bounds -> Nat]

\* A guarded request is performed only in the session and on the document of
\* its scope's handshake, and on the very revision and unsaved-change flag of
\* that handshake unless the same scope has had a mutation of its own confirmed
\* there: no user edit, no other client, no unconfirmed outcome and no late
\* request of a dead client gets in between (guardedParams,
\* recordSuccessfulGuardedCall, assert_transport_guard!).
MutatesWhatItSaw ==
  [][performed' # None =>
       LET q == performed' IN
       /\ q.guard.session = session /\ q.guard.doc = active
       /\ \/ q.after
          \/ q.guard.rev = docs[active].rev /\ q.guard.modified = docs[active].modified]_vars

\* Once a scope has asked for another document, whether or not it got it or even
\* an answer, none of its later guarded requests is performed
\* (invalidatedByDocumentSwitch).
SwitchEndsScope == [][performed' # None => ~performed'.switched]_vars

\* Until the document that open_model was asked for has the focus, no guarded
\* request is performed on another one, and only a new SketchUp forgets it.
PendingOpenHolds ==
  [][pending # None =>
       /\ performed' # None => Path(active) = pending
       /\ pending' # pending => session' # session \/ Path(active) = pending]_vars

\* The bridge closes a document only when everything in it is in its file:
\* close_reopen_saved_model loses no work of the user.
ClosesOnlySaved ==
  [][performed' # None =>
       \A d \in Doc : IsOpen(d) /\ docs'[d].life = "closed" =>
         ~docs[d].modified /\ disk[Path(d)] = docs[d].rev]_vars

=============================================================================
