--------------------------- MODULE ModelTransaction ---------------------------
(***************************************************************************)
(* with_atomic_model_transaction of src/sketchup_plugin/alma_sketchup_mcp.rb *)
(* under reset_model, build_model, import_model and adopt_open_model, and    *)
(* the cached document state of alma_sketchup_mcp/document_state.rb, whose   *)
(* stored form is the sidecar among the attributes of the document.          *)
(*                                                                         *)
(* SketchUp runs one request at a time and nothing else meanwhile; each of   *)
(* its calls may answer false or raise, and then it has or has not done what *)
(* it was asked for.  Between two requests its user edits and undoes.  Of    *)
(* the content of a document only the sidecar is kept.                       *)
(***************************************************************************)
EXTENDS FiniteSets, Naturals

CONSTANTS
  Document,
  Value,      \* of a sidecar
  Empty,      \* empty_document_state
  CacheLimit, \* DOCUMENT_STATE_CACHE_LIMIT
  None

ASSUME ValueAssumption == Empty \in Value /\ None \notin Value
ASSUME LimitAssumption == CacheLimit \in Nat \ {0}

VARIABLES
  sidecar, \* of each document, as SketchUp has it
  begun,   \* the sidecar when the operation that is open on it began, or None
  undo,    \* the sidecar before the operation that undo takes back, or None
  fate,    \* history: what SketchUp has made of the operation of the request
  cached,  \* @document_states
  pc,      \* where the request is
  method,
  model,   \* its document
  failed,  \* the call that has failed, or None
  aborted, \* abort_succeeded
  report,  \* what the last request has answered
  excused  \* history: documents whose sidecar has left the cache behind

native == <<sidecar, begun, undo, fate>>
request == <<method, model>>
vars == <<native, cached, excused, pc, request, failed, aborted, report>>

Method == {"reset", "build", "change"} \* change: import_model and adopt_open_model
Place == {"idle", "start", "yield", "serialize", "commit", "finalize", "after", "rescue",
          "discard", "paused"}
Answer == {"nil", "true", "false"}
Report == {"none", "receipt", "not_started", "not_committed", "outcome_unknown",
           "committed", "uncertain"}
Fate == {"none", "open", "committed", "rolled_back"}

\* refused: start_operation has answered, but not true
Failure == {"refused", "start", "yield", "serialize", "commit", "finalize"}
ASSUME FailureAssumption == None \notin Failure

Init ==
  /\ sidecar \in [Document -> Value]
  /\ begun = [d \in Document |-> None] /\ undo = [d \in Document |-> None]
  /\ cached = [d \in Document |-> None] /\ excused = {}
  /\ pc = "idle" /\ method = "reset" /\ model \in Document
  /\ failed = None /\ aborted = "nil" /\ report = "none" /\ fate = "none"

Goto(from, to) == pc = from /\ pc' = to
\* The request fails, and its rescue clause takes over.
Fail(from, why) == Goto(from, "rescue") /\ failed' = why

-----------------------------------------------------------------------------
(* The cache                                                                *)

\* The cache goes over to c; documents that agree with it again lose their excuse.
Cache(c) ==
  /\ cached' = c
  /\ excused' = {d \in excused : c[d] # None /\ c[d] # sidecar'[d]}

\* touch_document_state_cache: beyond the limit another entry, the oldest, goes.
Stored(d, v) ==
  LET c == [cached EXCEPT ![d] = v]
      others == {x \in Document \ {d} : c[x] # None}
  IN IF Cardinality(others) < CacheLimit THEN {c}
     ELSE {[c EXCEPT ![x] = None] : x \in others}

\* document_state: what is cached, else what is stored.
Loaded(d) == IF cached[d] # None THEN {cached} ELSE Stored(d, sidecar[d])

\* A request that only reads takes a snapshot.
Read(d) ==
  /\ pc = "idle" /\ sidecar' = sidecar
  /\ \E c \in Loaded(d) : Cache(c)
  /\ UNCHANGED <<begun, undo, fate, pc, request, failed, aborted, report>>

-----------------------------------------------------------------------------
(* SketchUp's operations                                                    *)

\* Undo takes back whole operations; a new one closes one that is left open.
Closed(d) == IF begun[d] = None THEN undo ELSE [undo EXCEPT ![d] = begun[d]]

Begin ==
  /\ undo' = Closed(model) /\ begun' = [begun EXCEPT ![model] = sidecar[model]]
  /\ fate' = "open" /\ sidecar' = sidecar
Close ==
  /\ undo' = Closed(model) /\ begun' = [begun EXCEPT ![model] = None]
  /\ fate' = "committed" /\ sidecar' = sidecar
RollBack ==
  /\ sidecar' = [sidecar EXCEPT ![model] = begun[model]]
  /\ begun' = [begun EXCEPT ![model] = None]
  /\ fate' = "rolled_back" /\ undo' = undo

-----------------------------------------------------------------------------
(* A request                                                                *)

\* It may fail before its transaction, as import_model's first snapshot does.
Request(m, d) ==
  /\ pc = "idle" /\ pc' \in {"start", "idle"}
  /\ method' = m /\ model' = d /\ failed' = None /\ aborted' = "nil" /\ fate' = "none"
  /\ report' = IF pc' = "idle" THEN "uncertain" ELSE "none"
  /\ UNCHANGED <<sidecar, begun, undo, cached, excused>>

\* Mutant of Start: the block runs though start_operation has not answered true.
StartUnchecked ==
  /\ \/ Goto("start", "yield") /\ (Begin \/ UNCHANGED native) /\ failed' = failed
     \/ Fail("start", "start") /\ (Begin \/ UNCHANGED native)
  /\ UNCHANGED <<cached, excused, request, aborted, report>>

\* start_operation answers true, or something else, or raises.
Start ==
  /\ \/ Goto("start", "yield") /\ Begin /\ failed' = failed
     \/ Fail("start", "refused") /\ UNCHANGED native
     \/ Fail("start", "start") /\ (Begin \/ UNCHANGED native)
  /\ UNCHANGED <<cached, excused, request, aborted, report>>

\* The cache after the block: reset_document_state, operations on
\* document_state, or a snapshot.
Worked ==
  IF method = "reset" THEN Stored(model, Empty)
  ELSE IF method = "build" THEN {[c EXCEPT ![model] = v] : c \in Loaded(model), v \in Value}
  ELSE Loaded(model)
\* persist_document_state
Persisted(c) == IF method = "change" THEN sidecar[model] ELSE c[model]

Work ==
  \E c \in Worked : sidecar' = [sidecar EXCEPT ![model] = Persisted(c)] /\ Cache(c)

\* The block raises before anything, or with its cache, or with all of it done.
PartOfWork == (UNCHANGED sidecar /\ \E c \in Worked \cup {cached} : Cache(c)) \/ Work

Yield ==
  /\ Goto("yield", "serialize") /\ Work
  /\ UNCHANGED <<begun, undo, fate, request, failed, aborted, report>>

YieldRaises ==
  /\ Fail("yield", "yield") /\ PartOfWork
  /\ UNCHANGED <<begun, undo, fate, request, aborted, report>>

\* What is no StandardError passes all clauses: the claim stays and the queue waits.
YieldDies ==
  /\ Goto("yield", "paused") /\ excused' = excused \cup {model}
  /\ \E c \in Worked \cup {cached} :
       /\ cached' = c
       /\ sidecar' \in {sidecar} \cup (IF c \in Worked THEN {[sidecar EXCEPT ![model] = Persisted(c)]} ELSE {})
  /\ UNCHANGED <<begun, undo, fate, request, failed, aborted, report>>

\* assert_queue_result_serializable!
Serialize ==
  /\ \/ Goto("serialize", "commit") /\ failed' = failed
     \/ Fail("serialize", "serialize")
  /\ UNCHANGED <<native, cached, excused, request, aborted, report>>

\* Unless it answers true, the operation may be closed, rolled back or open.
Commit ==
  /\ \/ Goto("commit", "finalize") /\ Close /\ failed' = failed
     \/ Fail("commit", "commit") /\ (Close \/ RollBack \/ UNCHANGED native)
  /\ UNCHANGED <<cached, excused, request, aborted, report>>

\* The receipt joins the result.
Finalize ==
  /\ \/ Goto("finalize", "after") /\ failed' = failed
     \/ Fail("finalize", "finalize")
  /\ UNCHANGED <<native, cached, excused, request, aborted, report>>

\* build_model goes on to the revision of its model, which may raise.
After ==
  /\ Goto("after", "idle")
  /\ report' \in {"receipt"} \cup (IF method = "build" THEN {"uncertain"} ELSE {})
  /\ UNCHANGED <<native, cached, excused, request, failed, aborted>>

-----------------------------------------------------------------------------
(* Its rescue clause                                                        *)

\* Mutant of Abortable: without operation_started.
NotAttempted == failed \in {"refused", "start", "yield", "serialize"}
\* operation_started && !commit_attempted
Abortable == failed \in {"yield", "serialize"}

Rescue ==
  /\ Goto("rescue", "discard")
  /\ \/ Abortable /\ aborted' \in {"true", "false"} /\ begun[model] # None /\ RollBack
     \/ Abortable /\ aborted' = "false" /\ UNCHANGED native
     \/ ~Abortable /\ UNCHANGED <<native, aborted>>
  /\ UNCHANGED <<cached, excused, request, failed, report>>

\* Mutant of Verdict: what has not been confirmed is told as not committed.
Optimistic ==
  IF failed = "refused" THEN "not_started"
  ELSE IF failed = "finalize" THEN "committed" ELSE "not_committed"

Verdict ==
  IF failed = "refused" THEN "not_started"
  ELSE IF failed = "finalize" THEN "committed"
  ELSE IF failed = "commit" THEN "outcome_unknown" ELSE "not_committed"

\* Mutant of Discard: the cache is kept after an abort that has succeeded.
DiscardUnlessAborted ==
  /\ Goto("discard", "idle") /\ report' = Verdict /\ sidecar' = sidecar
  /\ Cache(IF aborted = "true" THEN cached ELSE [cached EXCEPT ![model] = None])
  /\ UNCHANGED <<begun, undo, fate, request, failed, aborted>>

\* discard_document_state_cache
Discard ==
  /\ Goto("discard", "idle") /\ report' = Verdict /\ sidecar' = sidecar
  /\ Cache([cached EXCEPT ![model] = None])
  /\ UNCHANGED <<begun, undo, fate, request, failed, aborted>>

-----------------------------------------------------------------------------
(* The user, between two requests                                           *)

Idle == pc \in {"idle", "paused"} /\ UNCHANGED <<fate, cached, pc, request, failed, aborted, report>>

\* An operation of the user's, on the geometry.
Edit(d) ==
  /\ Idle /\ begun' = [begun EXCEPT ![d] = None] /\ undo' = [undo EXCEPT ![d] = sidecar[d]]
  /\ UNCHANGED <<sidecar, excused>>

Undo(d) ==
  /\ Idle /\ begun[d] = None /\ undo[d] # None
  /\ sidecar' = [sidecar EXCEPT ![d] = undo[d]] /\ undo' = [undo EXCEPT ![d] = None]
  /\ excused' = IF cached[d] \in {None, undo[d]} THEN excused ELSE excused \cup {d}
  /\ begun' = begun

\* The operator has inspected the claim and removed it.
Inspect ==
  /\ Goto("paused", "idle")
  /\ UNCHANGED <<native, cached, excused, request, failed, aborted, report>>

Next ==
  \/ \E d \in Document : Read(d) \/ Edit(d) \/ Undo(d) \/ \E m \in Method : Request(m, d)
  \/ Start \/ Yield \/ YieldRaises \/ YieldDies \/ Serialize \/ Commit \/ Finalize \/ After
  \/ Rescue \/ Discard \/ Inspect

Spec == Init /\ [][Next]_vars

-----------------------------------------------------------------------------
(* Properties                                                               *)

Sidecars == [Document -> Value \cup {None}]

\* Operations, cache and answers keep their types.
TypeOK ==
  /\ sidecar \in [Document -> Value] /\ begun \in Sidecars /\ undo \in Sidecars
  /\ cached \in Sidecars /\ excused \subseteq Document
  /\ pc \in Place /\ method \in Method /\ model \in Document
  /\ failed \in Failure \cup {None} /\ aborted \in Answer /\ report \in Report /\ fate \in Fate

\* What a request answers of its transaction is so, whichever call has failed
\* at whichever place: a receipt means that SketchUp has closed the operation,
\* a confirmed abort that it has rolled it back, not_started that there was
\* none, and what SketchUp has closed is never told as not committed.
ReportIsTrue ==
  /\ report \in {"receipt", "committed"} => fate = "committed"
  /\ report = "not_started" => fate = "none"
  /\ report = "not_committed" => fate # "committed"
  /\ report = "not_committed" /\ aborted = "true" => fate = "rolled_back"

\* abort_operation is called for the operation of the same request only, while
\* it is open: it never takes back one that an earlier request, or a commit
\* whose outcome is unknown, has left behind.
AbortsOnlyItsOwn == [][aborted = "nil" /\ aborted' # "nil" => fate = "open"]_vars

\* The sidecar that stays if all that is not closed is rolled back.
Kept(d) == IF begun[d] = None THEN sidecar[d] ELSE begun[d]

\* A request changes for good what its own document holds, and no other one, in
\* the commit alone: whatever its block does and wherever it fails, all before
\* can be rolled back.  Only its start may settle an operation left open by an
\* earlier one.
ChangesInCommit ==
  [][pc \notin {"idle", "paused"} =>
       \A d \in Document : Kept(d)' # Kept(d) =>
         /\ d = model
         /\ pc = "commit" \/ (pc = "start" /\ begun[d] # None)]_vars

\* Between two requests the cached state is the one in the document, through
\* rollbacks, failed commits, evictions and operations left open, but for a
\* document whose user has undone the plug-in's operation or whose request died.
CacheAgrees ==
  pc = "idle" => \A d \in Document \ excused : cached[d] \in {None, sidecar[d]}
=============================================================================
