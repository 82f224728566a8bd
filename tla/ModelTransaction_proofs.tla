----------------------- MODULE ModelTransaction_proofs -----------------------
(***************************************************************************)
(* Proofs about ModelTransaction.  The inductive invariant says what SketchUp *)
(* has made of the operation at every place of the request, and that the     *)
(* cache may leave the document only on the way through the rescue clause,   *)
(* and there for the document of the request only.                          *)
(***************************************************************************)
EXTENDS ModelTransaction, TLAPS

Running == {"yield", "serialize", "commit"}
Closing == {"finalize", "after"}
Failing == {"rescue", "discard"}
Tried == {"yield", "serialize"}

Ongoing ==
  /\ pc = "start" => fate = "none"
  /\ pc \in Running => fate = "open" /\ begun[model] # None
  /\ pc \in Closing => fate = "committed"
  /\ pc \in {"start", "rescue"} \cup Running \cup Closing => aborted = "nil"
  /\ pc # "idle" => report = "none"

Failed ==
  /\ pc \in Failing /\ failed = "refused" => fate = "none"
  /\ pc \in Failing /\ failed = "start" => fate \in {"none", "open"}
  /\ pc \in Failing /\ failed = "finalize" => fate = "committed"
  /\ pc = "rescue" /\ failed \in Tried => fate = "open" /\ begun[model] # None
  /\ pc = "discard" /\ failed \in Tried => fate \in {"open", "rolled_back"}
  /\ pc = "discard" /\ aborted = "true" => fate = "rolled_back"
  /\ pc \in Failing => failed # None

Agrees(d) == cached[d] \in {None, sidecar[d]}

Cached == \A d \in Document \ excused : Agrees(d) \/ (d = model /\ pc \in Failing)

IInv == TypeOK /\ Ongoing /\ Failed /\ ReportIsTrue /\ Cached

-----------------------------------------------------------------------------
(* The cache                                                                *)

\* A cache to which v has been added for d has no other new entry.
LEMMA StoredFacts ==
  ASSUME TypeOK, NEW d \in Document, NEW v \in Value, NEW c \in Stored(d, v)
  PROVE  /\ c \in Sidecars /\ c[d] = v
         /\ \A x \in Document \ {d} : c[x] \in {None, cached[x]}
BY DEF TypeOK, Stored, Sidecars

\* A cache read for d holds the entry it had, or what is stored.
LEMMA LoadedFacts ==
  ASSUME TypeOK, NEW d \in Document, NEW c \in Loaded(d)
  PROVE  /\ c \in Sidecars /\ c[d] = IF cached[d] # None THEN cached[d] ELSE sidecar[d]
         /\ c[d] \in Value
         /\ \A x \in Document \ {d} : c[x] \in {None, cached[x]}
<1>1. CASE cached[d] # None
  BY <1>1 DEF TypeOK, Loaded, Sidecars
<1>2. CASE cached[d] = None
  <2>1. sidecar[d] \in Value /\ c \in Stored(d, sidecar[d])
    BY <1>2 DEF TypeOK, Loaded
  <2> QED BY <1>2, <2>1, StoredFacts
<1> QED BY <1>1, <1>2

\* The block leaves an entry for its document, and no other new one.
LEMMA WorkedFacts ==
  ASSUME TypeOK, NEW c \in Worked
  PROVE  /\ c \in Sidecars /\ c[model] \in Value /\ Persisted(c) \in Value
         /\ method = "change" =>
              c[model] = IF cached[model] # None THEN cached[model] ELSE sidecar[model]
         /\ \A x \in Document \ {model} : c[x] \in {None, cached[x]}
<1>1. model \in Document /\ method \in Method /\ sidecar[model] \in Value
  BY DEF TypeOK
<1>2. CASE method = "reset"
  BY <1>1, <1>2, StoredFacts, ValueAssumption DEF Worked, Persisted
<1>3. CASE method = "build"
  <2>1. PICK b \in Loaded(model), v \in Value : c = [b EXCEPT ![model] = v]
    BY <1>3 DEF Worked
  <2>2. b \in Sidecars /\ \A x \in Document \ {model} : b[x] \in {None, cached[x]}
    BY <1>1, LoadedFacts
  <2> QED BY <1>1, <1>3, <2>1, <2>2 DEF Persisted, Sidecars
<1>4. CASE method = "change"
  BY <1>1, <1>4, LoadedFacts DEF Worked, Persisted
<1> QED BY <1>1, <1>2, <1>3, <1>4 DEF Method

\* A document that has no excuse after a change of the cache agrees then, or had none.
LEMMA ExcuseKept ==
  ASSUME NEW c, Cache(c), NEW d \in Document \ excused', c[d] \notin {None, sidecar'[d]}
  PROVE  d \notin excused
BY DEF Cache

-----------------------------------------------------------------------------
(* The invariant                                                            *)

\* The initial states satisfy the invariant.
LEMMA InitInv == Init => IInv
BY ValueAssumption
  DEF Init, IInv, TypeOK, Sidecars, Place, Method, Answer, Report, Fate, Failure, Ongoing,
      Failed, ReportIsTrue, Cached, Agrees, Failing, Running, Closing, Tried

\* What the parts of the invariant that are about the request rest on.
Control == <<pc, failed, aborted, report, fate, model, method, begun>>

\* Requests that only read, and a step that changes nothing.
LEMMA ReadInv == ASSUME IInv, NEW d \in Document, Read(d) PROVE IInv'
<1>1. PICK c \in Loaded(d) : Cache(c)
  BY DEF Read
<1>2. sidecar' = sidecar /\ UNCHANGED Control /\ UNCHANGED undo
  BY DEF Read, Control, request
<1>3. /\ c \in Sidecars /\ c[d] = IF cached[d] # None THEN cached[d] ELSE sidecar[d]
      /\ \A x \in Document \ {d} : c[x] \in {None, cached[x]}
  BY LoadedFacts DEF IInv
<1>4. TypeOK'
  BY <1>1, <1>2, <1>3 DEF IInv, TypeOK, Cache, Control
<1>5. Ongoing' /\ Failed' /\ ReportIsTrue'
  BY <1>2 DEF IInv, Ongoing, Failed, ReportIsTrue, Control
<1>6. Cached'
  <2> SUFFICES ASSUME NEW x \in Document \ excused', ~Agrees(x)'
               PROVE  x = model /\ pc \in Failing
    BY <1>2 DEF Cached, Control
  <2>1. x \notin excused
    BY <1>1, ExcuseKept DEF Agrees, Cache
  <2>2. ~Agrees(x)
    BY <1>1, <1>2, <1>3 DEF Agrees, Cache
  <2> QED BY <2>1, <2>2 DEF IInv, Cached
<1> QED BY <1>4, <1>5, <1>6 DEF IInv

\* The block, done or in part: the cache keeps to the document, but for the
\* document of a request that fails.
LEMMA WorkInv ==
  ASSUME IInv, PartOfWork, pc = "yield", Work \/ pc' = "rescue", UNCHANGED model
  PROVE  sidecar' \in [Document -> Value] /\ cached' \in Sidecars
         /\ excused' \subseteq Document /\ Cached'
<1>1. PICK c \in Worked \cup {cached} : Cache(c)
  BY DEF PartOfWork, Work
<1>2. c \in Sidecars /\ \A x \in Document \ {model} : c[x] \in {None, cached[x]}
  BY WorkedFacts DEF IInv, TypeOK
<1>3. /\ sidecar' \in [Document -> Value]
      /\ \A x \in Document \ {model} : sidecar'[x] = sidecar[x]
  <2>1. CASE Work
    BY <2>1, WorkedFacts DEF Work, IInv, TypeOK
  <2>2. CASE UNCHANGED sidecar
    BY <2>2 DEF IInv, TypeOK
  <2> QED BY <2>1, <2>2 DEF PartOfWork
<1>4. cached' \in Sidecars /\ excused' \subseteq Document
  BY <1>1, <1>2 DEF Cache, IInv, TypeOK
<1>5. Cached'
  <2> SUFFICES ASSUME NEW x \in Document \ excused', ~Agrees(x)'
               PROVE  x = model /\ pc' = "rescue"
    BY DEF Cached, Failing
  <2>1. x \notin excused
    BY <1>1, ExcuseKept DEF Agrees, Cache
  <2>2. Agrees(x)
    BY <2>1 DEF IInv, Cached, Failing
  <2>3. x = model
    BY <1>1, <1>2, <1>3, <2>2 DEF Agrees, Cache
  <2>4. CASE Work
    <3>1. PICK w \in Worked : sidecar' = [sidecar EXCEPT ![model] = Persisted(w)] /\ Cache(w)
      BY <2>4 DEF Work
    <3>2. sidecar'[model] = Persisted(w) /\ cached'[model] = w[model]
      BY <3>1 DEF IInv, TypeOK, Cache
    <3>3. method = "change" => w[model] = sidecar[model]
      BY <2>2, <2>3, WorkedFacts DEF Agrees, IInv
    <3> QED BY <2>3, <3>2, <3>3 DEF Agrees, Persisted
  <2> QED BY <2>3, <2>4
<1> QED BY <1>3, <1>4, <1>5

\* A step that changes neither the cache nor a sidecar leaves them in agreement.
LEMMA CachedKept ==
  ASSUME IInv, UNCHANGED <<sidecar, cached, excused, model>>, pc \in Failing => pc' \in Failing
  PROVE  Cached'
BY DEF IInv, Cached, Agrees

\* One step of a request preserves the invariant.
LEMMA RequestInv ==
  ASSUME IInv, Start \/ Serialize \/ Finalize \/ After PROVE IInv'
<1>1. CASE Start
  <2>1. Cached' /\ UNCHANGED <<sidecar, cached, excused, model, method>>
    BY <1>1, CachedKept DEF Start, Begin, native, request, Goto, Fail, Failing
  <2>2. begun' \in Sidecars /\ undo' \in Sidecars
    BY <1>1 DEF Start, Begin, Closed, native, Sidecars, IInv, TypeOK
  <2>3. Begin => begun'[model] # None
    BY ValueAssumption DEF Begin, IInv, TypeOK, Sidecars
  <2>4. TypeOK'
    BY <1>1, <2>1, <2>2 DEF Start, Begin, Goto, Fail, native, IInv, TypeOK, Place, Failure, Fate
  <2>5. Ongoing' /\ Failed' /\ ReportIsTrue'
    BY <1>1, <2>1, <2>3, FailureAssumption DEF Failure, Start, Begin, Goto, Fail, native, IInv, Ongoing, Failed,
      ReportIsTrue, Running, Closing, Failing, Tried
  <2> QED BY <2>1, <2>4, <2>5 DEF IInv
<1>2. CASE Serialize \/ Finalize \/ After
  <2>1. Cached'
    BY <1>2, CachedKept DEF Serialize, Finalize, After, native, request, Goto, Fail, Failing
  <2>2. TypeOK'
    BY <1>2 DEF Serialize, Finalize, After, Goto, Fail, native, request, IInv, TypeOK, Place,
      Failure, Report
  <2>3. Ongoing' /\ Failed' /\ ReportIsTrue'
    BY <1>2, FailureAssumption DEF Failure, Serialize, Finalize, After, Goto, Fail, native, request,
      IInv, Ongoing, Failed,
      ReportIsTrue, Running, Closing, Failing, Tried
  <2> QED BY <2>1, <2>2, <2>3 DEF IInv
<1> QED BY <1>1, <1>2

\* commit_operation, whatever it answers and does.
LEMMA CommitInv == ASSUME IInv, Commit PROVE IInv'
<1>1. /\ pc = "commit" /\ fate = "open" /\ begun[model] \in Value /\ model \in Document
      /\ UNCHANGED <<cached, excused, request, aborted, report>>
  BY DEF Commit, Goto, Fail, IInv, TypeOK, Sidecars, Ongoing, Running
<1>2. /\ sidecar' \in [Document -> Value] /\ begun' \in Sidecars /\ undo' \in Sidecars
      /\ \A x \in Document \ {model} : sidecar'[x] = sidecar[x]
  BY <1>1 DEF Commit, Close, RollBack, Closed, native, Sidecars, IInv, TypeOK
<1>3. fate' \in Fate /\ pc' \in {"finalize", "rescue"} /\ failed' \in {failed, "commit"}
      /\ (pc' = "finalize" => fate' = "committed" /\ sidecar' = sidecar)
      /\ (pc' = "rescue" => failed' = "commit")
  BY <1>1 DEF Commit, Close, RollBack, native, Fate, Goto, Fail
<1>4. TypeOK'
  BY <1>1, <1>2, <1>3 DEF IInv, TypeOK, Place, Failure, request
<1>5. Ongoing' /\ Failed' /\ ReportIsTrue'
  BY <1>1, <1>3, FailureAssumption DEF Failure, IInv, Ongoing, Failed, ReportIsTrue, Running, Closing, Failing, Tried, request
<1>6. Cached'
  BY <1>1, <1>2, <1>3 DEF IInv, Cached, Agrees, Failing, request
<1> QED BY <1>4, <1>5, <1>6 DEF IInv

\* abort_operation, or none.
LEMMA RescueInv == ASSUME IInv, Rescue PROVE IInv'
<1>1. /\ pc = "rescue" /\ pc' = "discard" /\ model \in Document /\ aborted = "nil"
      /\ UNCHANGED <<cached, excused, request, failed, report>>
  BY DEF Rescue, Goto, IInv, TypeOK, Ongoing
<1>2. /\ sidecar' \in [Document -> Value] /\ begun' \in Sidecars /\ undo' \in Sidecars
      /\ \A x \in Document \ {model} : sidecar'[x] = sidecar[x]
  BY <1>1 DEF Rescue, RollBack, native, Sidecars, IInv, TypeOK
<1>3. fate' \in Fate /\ aborted' \in Answer
  BY DEF Rescue, RollBack, native, Fate, Answer, IInv, TypeOK
<1>4. TypeOK'
  BY <1>1, <1>2, <1>3 DEF IInv, TypeOK, Place, request
<1>5. Ongoing' /\ Failed' /\ ReportIsTrue'
  <2>1. \/ Abortable /\ fate' = "rolled_back" /\ aborted' \in {"true", "false"}
        \/ Abortable /\ fate' = fate /\ aborted' = "false"
        \/ ~Abortable /\ fate' = fate /\ aborted' = "nil"
    BY <1>1 DEF Rescue, RollBack, native
  <2> QED BY <1>1, <2>1 DEF IInv, Ongoing, Failed, ReportIsTrue, Running, Closing, Failing, Tried, Abortable
<1>6. Cached'
  BY <1>1, <1>2 DEF IInv, Cached, Agrees, Failing, request
<1> QED BY <1>4, <1>5, <1>6 DEF IInv

\* The end of a request that has failed.
LEMMA DiscardInv == ASSUME IInv, Discard PROVE IInv'
<1>1. /\ pc = "discard" /\ pc' = "idle" /\ report' = Verdict /\ sidecar' = sidecar /\ model \in Document
      /\ UNCHANGED <<begun, undo, fate, request, failed, aborted>>
      /\ Cache([cached EXCEPT ![model] = None])
  BY DEF Discard, Goto, IInv, TypeOK
<1>2. TypeOK'
  BY <1>1 DEF IInv, TypeOK, Sidecars, Cache, request, Verdict, Report, Place
<1>3. Ongoing' /\ Failed'
  BY <1>1 DEF IInv, Ongoing, Failed, Running, Closing, Failing
<1>4. ReportIsTrue'
  BY <1>1 DEF IInv, TypeOK, Failure, Failed, Failing, Tried, ReportIsTrue, Verdict
<1>5. Cached'
  <2> SUFFICES ASSUME NEW x \in Document \ excused' PROVE Agrees(x)'
    BY DEF Cached
  <2>1. CASE x = model
    BY <1>1, <2>1 DEF Cache, Agrees, IInv, TypeOK, Sidecars
  <2>2. CASE x # model
    BY <1>1, <2>2 DEF Cache, Agrees, IInv, TypeOK, Sidecars, Cached
  <2> QED BY <2>1, <2>2
<1> QED BY <1>2, <1>3, <1>4, <1>5 DEF IInv

\* The block of a request.
LEMMA YieldInv == ASSUME IInv, Yield \/ YieldRaises PROVE IInv'
<1>1. /\ pc = "yield" /\ fate = "open" /\ begun[model] # None
      /\ UNCHANGED <<begun, undo, fate, request, aborted, report>>
  BY DEF Yield, YieldRaises, Goto, Fail, IInv, Ongoing, Running
<1>2. \/ pc' = "serialize" /\ failed' = failed /\ Work
      \/ pc' = "rescue" /\ failed' = "yield" /\ PartOfWork
  BY DEF Yield, YieldRaises, Goto, Fail
<1>3. /\ sidecar' \in [Document -> Value] /\ cached' \in Sidecars
      /\ excused' \subseteq Document /\ Cached'
  BY <1>1, <1>2, WorkInv DEF PartOfWork, request
<1>4. TypeOK'
  BY <1>1, <1>2, <1>3 DEF IInv, TypeOK, Place, Failure, request
<1>5. Ongoing' /\ Failed' /\ ReportIsTrue'
  BY <1>1, <1>2, FailureAssumption
    DEF Failure, IInv, Ongoing, Failed, ReportIsTrue, Running, Closing, Failing, Tried, request
<1> QED BY <1>3, <1>4, <1>5 DEF IInv

\* What kills the block.
LEMMA YieldDiesInv == ASSUME IInv, YieldDies PROVE IInv'
<1>1. /\ pc = "yield" /\ pc' = "paused" /\ excused' = excused \cup {model} /\ model \in Document
      /\ UNCHANGED <<begun, undo, fate, request, failed, aborted, report>>
  BY DEF YieldDies, Goto, IInv, TypeOK
<1>2. /\ sidecar' \in [Document -> Value] /\ cached' \in Sidecars
      /\ \A x \in Document \ {model} : sidecar'[x] = sidecar[x] /\ cached'[x] \in {None, cached[x]}
  <2>1. PICK c \in Worked \cup {cached} :
          /\ cached' = c
          /\ sidecar' \in {sidecar} \cup
               (IF c \in Worked THEN {[sidecar EXCEPT ![model] = Persisted(c)]} ELSE {})
    BY DEF YieldDies
  <2>2. c \in Sidecars /\ \A x \in Document \ {model} : c[x] \in {None, cached[x]}
    BY WorkedFacts DEF IInv, TypeOK
  <2>3. CASE sidecar' = sidecar
    BY <2>1, <2>2, <2>3 DEF IInv, TypeOK
  <2>4. CASE sidecar' # sidecar
    <3>1. c \in Worked /\ sidecar' = [sidecar EXCEPT ![model] = Persisted(c)]
      BY <2>1, <2>4
    <3>2. Persisted(c) \in Value
      BY <3>1, WorkedFacts DEF IInv
    <3> QED BY <2>1, <2>2, <3>1, <3>2 DEF IInv, TypeOK
  <2> QED BY <2>3, <2>4
<1>3. TypeOK'
  BY <1>1, <1>2 DEF IInv, TypeOK, Place, request
<1>4. Ongoing' /\ Failed' /\ ReportIsTrue'
  BY <1>1 DEF IInv, Ongoing, Failed, ReportIsTrue, Running, Closing, Failing, Tried, request
<1>5. Cached'
  BY <1>1, <1>2 DEF IInv, Cached, Agrees, Failing, request
<1> QED BY <1>3, <1>4, <1>5 DEF IInv

\* Between requests.
LEMMA IdleInv ==
  ASSUME IInv, NEW d \in Document,
         Edit(d) \/ Undo(d) \/ Inspect \/ \E m \in Method : Request(m, d)
  PROVE  IInv'
<1>1. CASE \E m \in Method : Request(m, d)
  <2>1. TypeOK'
    BY <1>1 DEF Request, IInv, TypeOK, Place, Failure, Answer, Report, Fate
  <2>2. Ongoing' /\ Failed' /\ ReportIsTrue'
    BY <1>1 DEF Request, IInv, Ongoing, Failed, ReportIsTrue, Running, Closing, Failing
  <2>3. Cached'
    BY <1>1 DEF Request, IInv, Cached, Agrees, Failing
  <2> QED BY <2>1, <2>2, <2>3 DEF IInv
<1>2. CASE Inspect
  <2>1. Cached'
    BY <1>2, CachedKept DEF Inspect, native, request, Goto, Failing
  <2>2. TypeOK'
    BY <1>2 DEF Inspect, native, request, Goto, IInv, TypeOK, Place
  <2>3. Ongoing' /\ Failed' /\ ReportIsTrue'
    BY <1>2 DEF Inspect, native, request, Goto, IInv, Ongoing, Failed, ReportIsTrue, Running, Closing, Failing
  <2> QED BY <2>1, <2>2, <2>3 DEF IInv
<1>3. CASE Edit(d) \/ Undo(d)
  <2>1. pc \in {"idle", "paused"} /\ UNCHANGED <<fate, cached, pc, request, failed, aborted, report>>
    BY <1>3 DEF Edit, Undo, Idle
  <2>2. /\ sidecar' \in [Document -> Value] /\ begun' \in Sidecars /\ undo' \in Sidecars
        /\ excused' \subseteq Document
    BY <1>3 DEF Edit, Undo, IInv, TypeOK, Sidecars
  <2>3. TypeOK'
    BY <2>1, <2>2 DEF IInv, TypeOK, request
  <2>4. Ongoing' /\ Failed' /\ ReportIsTrue'
    BY <2>1 DEF IInv, Ongoing, Failed, ReportIsTrue, Running, Closing, Failing, request
  <2>5. Cached'
    BY <1>3, <2>1 DEF Edit, Undo, IInv, TypeOK, Cached, Agrees, Failing, request
  <2> QED BY <2>3, <2>4, <2>5 DEF IInv
<1> QED BY <1>1, <1>2, <1>3

\* Every step preserves the invariant.
LEMMA NextInv == IInv /\ [Next]_vars => IInv'
<1> SUFFICES ASSUME IInv, [Next]_vars PROVE IInv'
  OBVIOUS
<1>1. CASE UNCHANGED vars
  BY <1>1 DEF vars, native, request, IInv, TypeOK, Ongoing, Failed, ReportIsTrue, Cached, Agrees
<1>2. CASE Next
  <2>1. CASE \E d \in Document : Read(d) \/ Edit(d) \/ Undo(d) \/ \E m \in Method : Request(m, d)
    BY <2>1, ReadInv, IdleInv
  <2>2. CASE Inspect
    BY <2>2, IdleInv DEF IInv, TypeOK
  <2>3. CASE Start \/ Serialize \/ Finalize \/ After
    BY <2>3, RequestInv
  <2>4. CASE Commit \/ Rescue \/ Discard \/ Yield \/ YieldRaises \/ YieldDies
    BY <2>4, CommitInv, RescueInv, DiscardInv, YieldInv, YieldDiesInv
  <2> QED BY <1>2, <2>1, <2>2, <2>3, <2>4 DEF Next
<1> QED BY <1>1, <1>2

-----------------------------------------------------------------------------
(* Theorems                                                                 *)

\* The invariant holds of every state.
THEOREM Invariant == Spec => []IInv
BY InitInv, NextInv, PTL DEF Spec

\* Operations, cache and answers keep their types, for every set of documents
\* and every limit of the cache.
THEOREM TypeCorrect == Spec => []TypeOK
BY Invariant, PTL DEF IInv

\* What a request answers of its transaction is what SketchUp has made of it,
\* whichever call of SketchUp fails, and how.
THEOREM ReportsAreTrue == Spec => []ReportIsTrue
BY Invariant, PTL DEF IInv

\* Between two requests the cached state of a document is the stored one.
THEOREM CacheAgreed == Spec => []CacheAgrees
<1>1. IInv => CacheAgrees
  BY DEF IInv, Cached, Agrees, CacheAgrees, Failing
<1> QED BY <1>1, Invariant, PTL

\* An abort is of the operation of its own request, while that is open.
THEOREM OwnAborts == Spec => AbortsOnlyItsOwn
<1>1. IInv /\ [Next]_vars => [aborted = "nil" /\ aborted' # "nil" => fate = "open"]_vars
  <2> SUFFICES ASSUME IInv, Next, aborted = "nil", aborted' # "nil" PROVE fate = "open"
    BY DEF vars
  <2>1. Rescue
    BY DEF Next, Read, Edit, Undo, Idle, Request, Start, Yield, YieldRaises, YieldDies, Serialize,
      Commit, Finalize, After, Discard, Inspect
  <2> QED BY <2>1 DEF Rescue, Abortable, Goto, IInv, Failed, Tried
<1> QED BY <1>1, Invariant, PTL DEF Spec, AbortsOnlyItsOwn

\* What its block writes, a request can still roll back: the operation it has
\* begun is open at every place before the commit.
LEMMA WorkIsOpen ==
  ASSUME IInv, Yield \/ YieldRaises \/ YieldDies, NEW d \in Document
  PROVE  Kept(d)' = Kept(d)
<1>1. pc = "yield" /\ begun[model] # None /\ UNCHANGED begun
  BY DEF IInv, Ongoing, Running, Yield, YieldRaises, YieldDies, Goto, Fail
<1>2. d # model => sidecar'[d] = sidecar[d]
  BY DEF IInv, TypeOK, Yield, YieldRaises, YieldDies, PartOfWork, Work
<1> QED BY <1>1, <1>2 DEF Kept

\* A rollback keeps what was there before.
LEMMA RollBackKeeps ==
  ASSUME TypeOK, RollBack, begun[model] # None, NEW d \in Document
  PROVE  Kept(d)' = Kept(d)
BY DEF TypeOK, Sidecars, RollBack, Kept

\* Work that fails anywhere before its commit leaves nothing behind that is not
\* in an open operation, and in no other document anything at all.
THEOREM ChangesComeInCommits == Spec => ChangesInCommit
<1>1. IInv /\ [Next]_vars =>
        [pc \notin {"idle", "paused"} =>
           \A d \in Document : Kept(d)' # Kept(d) =>
             /\ d = model
             /\ pc = "commit" \/ (pc = "start" /\ begun[d] # None)]_vars
  <2> SUFFICES ASSUME IInv, Next, pc \notin {"idle", "paused"}, NEW d \in Document,
                      Kept(d)' # Kept(d)
               PROVE  d = model /\ (pc = "commit" \/ (pc = "start" /\ begun[d] # None))
    OBVIOUS
  <2>1. CASE Start
    <3>1. pc = "start" /\ (Begin \/ UNCHANGED native)
      BY <2>1 DEF Start, Goto, Fail
    <3>2. Begin /\ sidecar'[d] = sidecar[d]
      BY <3>1 DEF Begin, native, Kept
    <3>3. d = model
      BY <3>2 DEF Begin, Kept, IInv, TypeOK, Sidecars
    <3>4. begun[d] # None
      BY <3>2, <3>3, ValueAssumption DEF Begin, Kept, IInv, TypeOK, Sidecars
    <3> QED BY <3>1, <3>3, <3>4
  <2>2. CASE Commit
    <3>1. pc = "commit" /\ begun[model] # None /\ (Close \/ RollBack \/ UNCHANGED native)
      BY <2>2 DEF Commit, Goto, Fail, IInv, Ongoing, Running
    <3>2. Close
      BY <3>1, RollBackKeeps DEF IInv, native, Kept
    <3> QED BY <3>1, <3>2 DEF Close, Kept, IInv, TypeOK, Sidecars
  <2>3. CASE Rescue
    <3>1. (begun[model] # None /\ RollBack) \/ UNCHANGED native
      BY <2>3 DEF Rescue
    <3> QED BY <3>1, RollBackKeeps DEF IInv, native, Kept
  <2>4. CASE Yield \/ YieldRaises \/ YieldDies
    BY <2>4, WorkIsOpen
  <2>5. CASE Serialize \/ Finalize \/ After \/ Discard \/ Inspect
    BY <2>5 DEF Serialize, Finalize, After, Discard, Inspect, native, Kept
  <2>6. ~\E x \in Document : Read(x) \/ Edit(x) \/ Undo(x) \/ \E m \in Method : Request(m, x)
    BY DEF Read, Edit, Undo, Idle, Request
  <2> QED BY <2>1, <2>2, <2>3, <2>4, <2>5, <2>6 DEF Next
<1> QED BY <1>1, Invariant, PTL DEF Spec, ChangesInCommit
=============================================================================
