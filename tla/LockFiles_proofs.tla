-------------------------- MODULE LockFiles_proofs --------------------------
(***************************************************************************)
(* What the two kinds of lock files protect: the request slot of a task and  *)
(* the reviewed edit that runs in it, and the versions of a model; for every *)
(* number of requests, processes, keys, inputs, calls, writers and graphs,   *)
(* and for every set of processes that die.                                  *)
(***************************************************************************)
EXTENDS LockedEdit, VersionStore, SequenceTheorems, TLAPS

-----------------------------------------------------------------------------
(* The task request lock                                                    *)

\* The lock of a living request that is inside is its own.
InsideOwnsTheLock ==
  \A r \in Request : Alive(r) /\ pc[r] \in {"held", "leaving"} => lock = r

\* A living request in recoverDeadTaskRequestLock has the recovery file.
RecovererOwnsTheFile ==
  \A r \in Request :
    Alive(r) /\ pc[r] \in {"recheck", "unlink", "removed", "lost"} => recovery = r

\* It works on an owner that has died, whose lock it unlinks.
RecoversTheDead ==
  \A r \in Request :
    /\ pc[r] \in {"judge", "recheck", "unlink"} => found[r] \in Request
    /\ Alive(r) /\ pc[r] \in {"recheck", "unlink"} => ~Alive(found[r])
    /\ Alive(r) /\ pc[r] = "unlink" => lock = found[r]

IInv == TypeOK /\ InsideOwnsTheLock /\ RecovererOwnsTheFile /\ RecoversTheDead

LEMMA InitInv == Init => IInv
  BY RequestAssumption DEF Init, IInv, TypeOK, InsideOwnsTheLock, RecovererOwnsTheFile,
     RecoversTheDead, Place, Attempts

LEMMA StepInv == IInv /\ [Next]_vars => IInv'
<1> SUFFICES ASSUME IInv, [Next]_vars PROVE IInv'
  OBVIOUS
<1> USE RequestAssumption DEF IInv, TypeOK, InsideOwnsTheLock, RecovererOwnsTheFile,
        RecoversTheDead, Place, Attempts, Alive, At, Goto
<1>1. ASSUME NEW r \in Request, Claim(r) PROVE IInv'
  BY <1>1 DEF Claim
<1>2. ASSUME NEW r \in Request, Create(r) PROVE IInv'
  BY <1>2 DEF Create, Return
<1>3. ASSUME NEW r \in Request, Read(r) PROVE IInv'
  BY <1>3 DEF Read, Again, Return
<1>4. ASSUME NEW r \in Request, Judge(r) PROVE IInv'
  BY <1>4 DEF Judge, Return, Forget
<1>5. ASSUME NEW r \in Request, Recheck(r) PROVE IInv'
  BY <1>5 DEF Recheck
<1>6. ASSUME NEW r \in Request, Unlink(r) PROVE IInv'
  BY <1>6 DEF Unlink
<1>7. ASSUME NEW r \in Request, Settle(r) PROVE IInv'
  BY <1>7 DEF Settle, Again, Return, Forget
<1>8. ASSUME NEW r \in Request, CheckOwner(r) PROVE IInv'
  BY <1>8 DEF CheckOwner
<1>9. ASSUME NEW r \in Request, Leave(r) PROVE IInv'
  BY <1>9 DEF Leave
<1>10. ASSUME NEW p \in Process, Die(p) PROVE IInv'
  BY <1>10 DEF Die
<1>11. CASE UNCHANGED vars
  BY <1>11 DEF vars
<1> HIDE DEF IInv
<1>12. QED
  BY <1>1, <1>2, <1>3, <1>4, <1>5, <1>6, <1>7, <1>8, <1>9, <1>10, <1>11 DEF Next, Step

\* The inductive invariant of every behaviour.
THEOREM Invariance == Spec => []IInv
  BY InitInv, StepInv, PTL DEF Spec

\* Every variable keeps its type, and no claim makes more than three attempts.
THEOREM TypeCorrect == Spec => []TypeOK
<1>1. IInv => TypeOK
  BY DEF IInv
<1>2. QED
  BY Invariance, <1>1, PTL

\* A lock is removed by its own request only, or after its process has died.
THEOREM OnlyDeadLocksAreTakenHolds == Spec => OnlyDeadLocksAreTaken
<1>1. ASSUME IInv, Next PROVE lock # None /\ lock' # lock => ~Alive(lock) \/ pc[lock] = "leaving"
  <2> USE DEF IInv, TypeOK, InsideOwnsTheLock, RecoversTheDead, Alive, At
  <2>1. ASSUME NEW r \in Request, Unlink(r) PROVE ~Alive(lock)
    BY <1>1, <2>1 DEF Unlink
  <2>2. ASSUME NEW r \in Request, Leave(r) PROVE pc[lock] = "leaving"
    BY <1>1, <2>2 DEF Leave
  <2>3. ASSUME NEW r \in Request, Claim(r) \/ Create(r) \/ Read(r) \/ Judge(r) \/ Recheck(r)
                                    \/ Settle(r) \/ CheckOwner(r)
        PROVE  lock # None => lock' = lock
    BY <2>3 DEF Claim, Create, Read, Judge, Recheck, Settle, CheckOwner
  <2>4. ASSUME NEW p \in Process, Die(p) PROVE lock' = lock
    BY <2>4 DEF Die
  <2>5. QED
    BY <1>1, <2>1, <2>2, <2>3, <2>4 DEF Next, Step
<1>2. QED
  BY Invariance, <1>1, PTL DEF Spec, OnlyDeadLocksAreTaken

\* Of all requests of a task, at most one living one is inside at a time.
THEOREM LockImplementsSlot == Spec => ImplementsSlot
<1> USE DEF Inside, Alive
<1>1. Init => Slot!Init
  BY DEF Init, Slot!Init
<1>2. ASSUME IInv, [Next]_vars PROVE [Slot!Next]_Inside
  <2> USE <1>2, RequestAssumption DEF IInv, TypeOK, InsideOwnsTheLock, RecoversTheDead,
                        At, Goto, Slot!Next, Slot!Enter, Slot!Exit
  <2>1. ASSUME NEW r \in Request, Create(r) PROVE [Slot!Next]_Inside
    BY <2>1 DEF Create, Return
  <2>2. ASSUME NEW r \in Request, Leave(r) PROVE [Slot!Next]_Inside
    BY <2>2 DEF Leave
  <2>3. ASSUME NEW r \in Request, CheckOwner(r) PROVE [Slot!Next]_Inside
    BY <2>3 DEF CheckOwner
  <2>4. ASSUME NEW r \in Request, Claim(r) \/ Read(r) \/ Judge(r) \/ Recheck(r) \/ Unlink(r)
                                    \/ Settle(r)
        PROVE  Inside' = Inside
    BY <2>4 DEF Claim, Read, Judge, Recheck, Unlink, Settle, Again, Return, Place
  <2>5. ASSUME NEW p \in Process, Die(p) PROVE [Slot!Next]_Inside
    BY <2>5 DEF Die
  <2>6. CASE UNCHANGED vars
    BY <2>6 DEF vars
  <2>7. QED
    BY <2>1, <2>2, <2>3, <2>4, <2>5, <2>6 DEF Next, Step
<1>3. QED
  BY Invariance, <1>1, <1>2, PTL DEF Spec, ImplementsSlot, Slot!Spec


-----------------------------------------------------------------------------
(* The reviewed edit behind the task request lock                           *)

Running(r) == callback[r] = "running" /\ Alive(r)

\* A callback that has begun has the lock; one that runs is the call inside.
CallbacksAreInside ==
  /\ callback \in [Request -> {"before", "running", "after"}]
  /\ \A r \in Request : Alive(r) /\ callback[r] # "before" => pc[r] = "held"
  /\ inside = {PidOf[r] : r \in {q \in Request : Running(q)}}

\* A step of a call leaves the processes alone, and the slot or the call stays.
LEMMA EditStepStays == Edit!Step => dead' = dead /\ (inside' = {} \/ inside' = inside)
  BY DEF Edit!Step, Edit!NewClaim, Edit!Conflict, Edit!Replay, Edit!LockPending, Edit!Lock, Edit!Recover,
     Edit!Rerun, Edit!Leave, Edit!InspectOnly, Edit!InspectAndLock, Edit!Reclaim, Edit!Refused, Edit!Approve,
     Edit!Execute, Edit!Apply, Edit!RecordReceipt, Edit!StartVerifying, Edit!Verified, Edit!NotVerified,
     Edit!Mark, Edit!RecoverableError, Edit!Abandoned, Edit!Unlock, Edit!ForeignReceipt, Edit!FinalError,
     Edit!Envelope, Edit!Answer, Edit!Stay, Edit!Left, Edit!Return, Edit!Slot!Exit

LEMMA LockedLock == [LockedNext]_lockedVars => [Next]_vars
<1> SUFFICES ASSUME LockedNext PROVE [Next]_vars
  BY DEF lockedVars
<1>1. ASSUME NEW r \in Request, Slotted(r) PROVE Next
  BY <1>1 DEF Slotted, Next
<1>2. ASSUME NEW r \in Request, BeginCall(r) PROVE UNCHANGED vars
  BY <1>2 DEF BeginCall, Edit!Begin, vars
<1>3. ASSUME NEW r \in Request, Continue(r) PROVE UNCHANGED vars
  BY <1>3, EditStepStays DEF Continue, vars
<1>4. ASSUME NEW r \in Request, OtherCall(r) PROVE UNCHANGED vars
  BY <1>4 DEF OtherCall
<1>5. ASSUME NEW p \in Process, Dies(p) PROVE Next
  BY <1>5 DEF Dies, Next
<1>6. QED
  BY <1>1, <1>2, <1>3, <1>4, <1>5 DEF LockedNext, Run

\* The lock does not notice what runs under it: all that is proved of it holds.
THEOREM LockedImplementsLock == LockedSpec => Spec
<1>1. LockedInit => Init
  BY DEF LockedInit
<1>2. QED
  BY <1>1, LockedLock, PTL DEF LockedSpec, Spec

\* The lock of a request moves one request, which lives.
LEMMA LockStepMoves ==
  ASSUME IInv, NEW r \in Request, Claim(r) \/ Step(r)
  PROVE  Alive(r) /\ dead' = dead /\ \A q \in Request \ {r} : pc'[q] = pc[q]
<1> USE DEF At, Goto, IInv, TypeOK
<1>1. CASE Claim(r) \/ Create(r) \/ Recheck(r) \/ Unlink(r) \/ CheckOwner(r) \/ Leave(r)
  BY <1>1 DEF Claim, Create, Return, Recheck, Unlink, CheckOwner, Leave
<1>2. CASE Read(r) \/ Judge(r) \/ Settle(r)
  BY <1>2 DEF Read, Judge, Settle, Again, Return
<1>3. QED
  BY <1>1, <1>2 DEF Step

\* Nothing but the lock keeps a callback that begins from another one.
LEMMA OneCallbackRuns ==
  ASSUME IInv, CallbacksAreInside, NEW r \in Request, At(r, "held"), NEW q \in Request, Running(q)
  PROVE  q = r
<1>1. pc[q] = "held" /\ Alive(q)
  BY DEF CallbacksAreInside, Running
<1>2. lock = q /\ lock = r
  BY <1>1 DEF IInv, InsideOwnsTheLock, At
<1>3. QED
  BY <1>2

LEMMA NobodyIsInside ==
  ASSUME IInv, CallbacksAreInside, NEW r \in Request, At(r, "held"), callback[r] # "running"
  PROVE  inside = {}
  BY OneCallbackRuns DEF CallbacksAreInside, Running

LEMMA CallbacksInit == LockedInit => CallbacksAreInside
  BY DEF LockedInit, Edit!Init, CallbacksAreInside, Running

LEMMA CallbacksStep ==
  ASSUME IInv, CallbacksAreInside, [LockedNext]_lockedVars PROVE CallbacksAreInside'
<1> USE DEF CallbacksAreInside, Turn
<1>1. ASSUME NEW r \in Request, Slotted(r) PROVE CallbacksAreInside'
  <2>1. Alive(r) /\ dead' = dead /\ inside' = inside /\ \A q \in Request \ {r} : pc'[q] = pc[q]
    BY <1>1, LockStepMoves DEF Slotted, edit
  <2>2. callback'[r] = "before" /\ callback[r] # "running" /\ \A q \in Request \ {r} : callback'[q] = callback[q]
    BY <1>1, <2>1 DEF Slotted
  <2>3. callback' \in [Request -> {"before", "running", "after"}]
    BY <1>1 DEF Slotted
  <2>4. \A q \in Request : Running(q)' <=> Running(q)
    BY <2>1, <2>2 DEF Running, Alive
  <2>5. QED
    BY <2>1, <2>2, <2>3, <2>4 DEF Alive
<1>2. ASSUME NEW r \in Request, BeginCall(r) PROVE CallbacksAreInside'
  <2>1. inside = {} /\ inside' = {PidOf[r]} /\ dead' = dead /\ pc' = pc
    BY <1>2, NobodyIsInside DEF BeginCall, Edit!Begin
  <2>2. \A q \in Request : Running(q)' <=> q = r
    BY <1>2, <2>1 DEF BeginCall, Running, Alive, At
  <2>3. QED
    BY <1>2, <2>1, <2>2 DEF BeginCall, Alive, At
<1>3. ASSUME NEW r \in Request, Continue(r) PROVE CallbacksAreInside'
  <2>1. /\ dead' = dead /\ pc' = pc /\ (inside' = {} \/ inside' = inside)
        /\ Running(r) /\ \A q \in Request : Running(q) => q = r
    BY <1>3, EditStepStays, OneCallbackRuns DEF Continue, Running, At
  <2>2. inside = {PidOf[r]}
    BY <2>1
  <2>3. \A q \in Request : Running(q)' <=> q = r /\ inside' # {}
    BY <1>3, <2>1 DEF Continue, Running, Alive
  <2>4. QED
    BY <1>3, <2>1, <2>2, <2>3 DEF Continue, Alive, At
<1>4. ASSUME NEW r \in Request, OtherCall(r) PROVE CallbacksAreInside'
  <2>1. dead' = dead /\ pc' = pc /\ inside' = inside
    BY <1>4 DEF OtherCall, vars, edit
  <2>2. \A q \in Request : Running(q)' <=> Running(q)
    BY <1>4, <2>1 DEF OtherCall, Running, Alive
  <2>3. QED
    BY <1>4, <2>1, <2>2 DEF OtherCall, Alive, At
<1>5. ASSUME NEW p \in Process, Dies(p) PROVE CallbacksAreInside'
  <2>1. dead' = dead \cup {p} /\ pc' = pc /\ callback' = callback
    BY <1>5 DEF Dies, Die
  <2>2. \/ inside = {p} /\ inside' = {}
        \/ p \notin inside /\ inside' = inside
    BY <1>5 DEF Dies, Edit!Crash, Edit!Return, Edit!Slot!Exit
  <2>3. \A q \in Request : Running(q)' <=> Running(q) /\ PidOf[q] # p
    BY <2>1 DEF Running, Alive
  <2>4. QED
    BY <2>1, <2>2, <2>3 DEF Alive
<1>6. CASE UNCHANGED lockedVars
  BY <1>6 DEF lockedVars, vars, edit, Running, Alive
<1>7. QED
  BY <1>1, <1>2, <1>3, <1>4, <1>5, <1>6 DEF LockedNext, Run

LEMMA LockedStepIsEdit ==
  ASSUME IInv, CallbacksAreInside, [LockedNext]_lockedVars PROVE [Edit!Next]_(Edit!vars)
<1> USE DEF Edit!Next
<1>1. ASSUME NEW r \in Request, BeginCall(r) PROVE Edit!Next
  <2>1. inside = {} /\ inside' = {PidOf[r]} /\ PidOf[r] \in Process
    BY <1>1, NobodyIsInside, RequestAssumption DEF BeginCall, Turn
  <2>2. QED
    BY <1>1, <2>1 DEF BeginCall, Edit!Resume, Edit!Submit, Edit!Enter, Edit!Slot!Enter
<1>2. ASSUME NEW r \in Request, Slotted(r) \/ OtherCall(r) PROVE UNCHANGED Edit!vars
  BY <1>2, LockStepMoves DEF Slotted, OtherCall, vars, edit, Edit!vars, Edit!files, Edit!model
<1>3. ASSUME NEW r \in Request, Continue(r) PROVE Edit!Next
  BY <1>3 DEF Continue
<1>4. ASSUME NEW p \in Process, Dies(p) PROVE Edit!Next
  BY <1>4 DEF Dies
<1>5. CASE UNCHANGED lockedVars
  BY <1>5 DEF lockedVars, vars, edit, Edit!vars, Edit!files, Edit!model
<1>6. QED
  BY <1>1, <1>2, <1>3, <1>4, <1>5 DEF LockedNext, Run

\* Calls that share nothing but the lock file follow each other as ReviewedEdit
\* lets them.
THEOREM LockedImplementsEdit == LockedSpec => ImplementsEdit
<1>1. LockedInit => Edit!Init
  BY DEF LockedInit
<1>2. LockedSpec => [](IInv /\ CallbacksAreInside)
  BY LockedImplementsLock, Invariance, CallbacksInit, CallbacksStep, PTL DEF LockedSpec
<1>3. QED
  BY <1>1, <1>2, LockedStepIsEdit, PTL DEF LockedSpec, ImplementsEdit, Edit!Spec

\* So the edit is handed over once at most and happens once at most, whatever
\* requests race for the lock, recover it or die with it.
THEOREM LockedEditHappensOnce ==
  ASSUME Edit!EditAssumption, Edit!RecordAssumption
  PROVE  LockedSpec => []Edit!AttemptedOnce /\ Edit!EditsOnce
<1>1. Edit!Spec => []Edit!AttemptedOnce
  BY Edit!AttemptedOnceHolds
<1>2. Edit!Spec => Edit!EditsOnce
  BY Edit!EditImplementsClaim
<1>3. QED
  BY <1>1, <1>2, LockedImplementsEdit, PTL DEF ImplementsEdit

-----------------------------------------------------------------------------
(* The versions of a model and their lock                                   *)

Manifest == [versions : Seq(Graph), current : Graph \cup {Absent}]
WriterState == [pc : StorePlace, g : Graph \cup {Absent}, judged : Lock \cup {Absent},
                saw : Manifest, done : BOOLEAN]

\* Types; a call names a graph, and what is about to be moved away was stale
\* when it was judged.
StoreTypes ==
  /\ storeLock \in Lock \cup {Absent} /\ file \in [Graph -> {Absent, "unreadable", "graph"}]
  /\ manifest \in Manifest /\ writer \in [Writer -> WriterState]
  /\ crashes \in 0 .. MaxCrashes /\ displaced \in BOOLEAN
  /\ damaged \subseteq Graph /\ kept \subseteq Graph
  /\ \A w \in Writer :
       /\ writer[w].pc # "idle" => writer[w].g \in Graph
       /\ writer[w].pc = "move" =>
            writer[w].judged \in Lock /\ (writer[w].judged.left \/ ~writer[w].judged.whole)

ManifestsAreSound == ManifestOK(manifest) /\ \A w \in Writer : ManifestOK(writer[w].saw)

Busy == {"fill", "read", "check", "orphan", "link", "commit", "release", "unlock"}

\* Until a lock that is held is moved away, who works in the directory has it.
HoldersOwnTheStore ==
  ~displaced =>
    \A w \in Writer : writer[w].pc \in Busy =>
      IsMine(w) /\ (storeLock.whole <=> writer[w].pc # "fill")

\* And the manifest it has read is the one on disk.
HoldersSawTheManifest ==
  /\ KeptVersionsStay
  /\ \A w \in Writer :
       /\ writer[w].done => writer[w].pc \in {"release", "unlock"}
       /\ ~displaced /\ writer[w].done => writer[w].g \in Listed(manifest)
       /\ ~displaced /\ writer[w].pc \in {"check", "orphan", "link", "commit"} =>
            writer[w].saw = manifest

Readable(g) == file[g] = "graph" \/ (displaced /\ g \in damaged)

\* Only files that were unreadable at the start are moved aside.
FilesStayReadable ==
  /\ \A g \in Listed(manifest) : Readable(g)
  /\ \A g \in Graph : file[g] = "unreadable" => g \in damaged
  /\ \A w \in Writer :
       /\ \A g \in Listed(writer[w].saw) : Readable(g)
       /\ writer[w].pc = "orphan" =>
            writer[w].g \in damaged /\ (~displaced => file[writer[w].g] = "unreadable")
       /\ writer[w].pc = "commit" => Readable(writer[w].g)

StoreInv ==
  /\ StoreTypes /\ ManifestsAreSound /\ HoldersOwnTheStore /\ HoldersSawTheManifest
  /\ FilesStayReadable

-----------------------------------------------------------------------------
(* Manifests                                                                *)

LEMMA EmptyManifest == Empty \in Manifest /\ ManifestOK(Empty) /\ Listed(Empty) = {}
  BY DEF Empty, Manifest, ManifestOK, Listed, IsInjective, ToSet

\* A version that is appended is listed with all the earlier ones.
LEMMA AppendedManifest ==
  ASSUME NEW m \in Manifest, ManifestOK(m), NEW g \in Graph, g \notin Listed(m)
  PROVE  LET n == [versions |-> Append(m.versions, g), current |-> g] IN
         /\ n \in Manifest /\ ManifestOK(n) /\ Listed(n) = Listed(m) \cup {g}
         /\ IsPrefix(m.versions, n.versions)
<1> DEFINE s == m.versions
           t == Append(s, g)
<1>1. s \in Seq(Graph) /\ IsInjective(s) /\ g \notin ToSet(s)
  BY DEF Manifest, ManifestOK, Listed
<1>2. /\ t \in Seq(Graph) /\ Len(t) = Len(s) + 1 /\ Len(s) \in Nat
      /\ DOMAIN s = 1 .. Len(s) /\ DOMAIN t = 1 .. Len(s) + 1
      /\ \A i \in 1 .. Len(s) : t[i] = s[i]
      /\ t[Len(s) + 1] = g
  BY <1>1
<1> HIDE DEF s, t
<1>3. ToSet(t) = ToSet(s) \cup {g}
  BY <1>2 DEF ToSet
<1>4. IsInjective(t)
  BY <1>1, <1>2 DEF IsInjective, ToSet
<1>5. IsPrefix(s, t)
  BY <1>1, <1>2 DEF IsPrefix
<1>6. QED
  BY <1>2, <1>3, <1>4, <1>5 DEF Manifest, ManifestOK, Listed, s, t

\* One that is shown again is listed as before.
LEMMA ShownManifest ==
  ASSUME NEW m \in Manifest, ManifestOK(m), NEW g \in Listed(m)
  PROVE  LET n == [m EXCEPT !.current = g] IN
         /\ n \in Manifest /\ ManifestOK(n) /\ Listed(n) = Listed(m) /\ g \in Graph
         /\ IsPrefix(m.versions, n.versions)
<1> DEFINE n == [m EXCEPT !.current = g]
<1>1. g \in Graph
  BY DEF Manifest, Listed, ToSet
<1>2. n \in Manifest /\ n.versions = m.versions /\ n.current = g
  BY <1>1 DEF Manifest
<1>3. IsPrefix(m.versions, m.versions)
  BY DEF IsPrefix, Manifest
<1>4. QED
  BY <1>1, <1>2, <1>3 DEF ManifestOK, Listed

\* What a commit puts on disk.
LEMMA CommittedManifest ==
  ASSUME StoreTypes, ManifestsAreSound, NEW w \in Writer, Commit(w)
  PROVE  LET saw == writer[w].saw
             g == writer[w].g IN
         /\ manifest' \in Manifest /\ ManifestOK(manifest)' /\ g \in Graph
         /\ Listed(manifest)' = Listed(saw) \cup {g}
         /\ IsPrefix(saw.versions, manifest'.versions)
<1>1. writer[w].saw \in Manifest /\ ManifestOK(writer[w].saw) /\ writer[w].g \in Graph
  BY DEF StoreTypes, ManifestsAreSound, WriterState, Commit
<1>2. CASE writer[w].g \in Listed(writer[w].saw)
  BY <1>1, <1>2, ShownManifest DEF Commit
<1>3. CASE writer[w].g \notin Listed(writer[w].saw)
  BY <1>1, <1>3, AppendedManifest DEF Commit
<1>4. QED
  BY <1>2, <1>3

-----------------------------------------------------------------------------
(* Types                                                                    *)

\* A step to another place changes nothing else of the call, and ends it at "idle".
LEMMA GoesTo ==
  ASSUME StoreTypes, NEW w \in Writer, NEW from, NEW to \in StorePlace \ {"move"}, Goes(w, from, to),
         from # "idle"
  PROVE  /\ writer[w].pc = from /\ writer' \in [Writer -> WriterState]
         /\ \A v \in Writer \ {w} : writer'[v] = writer[v]
         /\ writer'[w].pc = to
         /\ to = "idle" => writer'[w] = Idle
         /\ to # "idle" => /\ writer'[w].g = writer[w].g /\ writer'[w].saw = writer[w].saw
                           /\ writer'[w].done = writer[w].done
         /\ \A v \in Writer : writer'[v].pc # "idle" => writer'[v].g \in Graph
         /\ \A v \in Writer : writer'[v].pc = "move" => v # w
<1>1. Idle \in WriterState /\ Idle.pc = "idle"
  BY EmptyManifest DEF Idle, WriterState, StorePlace
<1>2. writer[w] \in WriterState
  BY DEF StoreTypes
<1>3. /\ [writer[w] EXCEPT !.pc = to] \in WriterState /\ [writer[w] EXCEPT !.pc = to].pc = to
      /\ [writer[w] EXCEPT !.pc = to].g = writer[w].g /\ [writer[w] EXCEPT !.pc = to].saw = writer[w].saw
      /\ [writer[w] EXCEPT !.pc = to].done = writer[w].done
  BY <1>2 DEF WriterState
<1>4. QED
  BY <1>1, <1>2, <1>3 DEF Goes, StoreTypes


LEMMA StoreInitInv == StoreInit => StoreInv
<1> SUFFICES ASSUME StoreInit PROVE StoreInv
  OBVIOUS
<1> USE EmptyManifest, AbsentAssumption, CrashAssumption DEF StoreInit
<1>1. Idle \in WriterState /\ Idle.pc = "idle" /\ Idle.saw = Empty /\ ~Idle.done
  BY DEF Idle, WriterState, StorePlace
<1>2. StoreTypes
  <2>1. writer \in [Writer -> WriterState] /\ \A w \in Writer : writer[w] = Idle
    BY <1>1
  <2>2. file \in [Graph -> {Absent, "unreadable", "graph"}] /\ crashes \in 0 .. MaxCrashes
    OBVIOUS
  <2>3. QED
    BY <1>1, <2>1, <2>2 DEF StoreTypes
<1>3. ManifestsAreSound
  BY <1>1 DEF ManifestsAreSound
<1>4. HoldersOwnTheStore /\ HoldersSawTheManifest
  BY <1>1 DEF HoldersOwnTheStore, HoldersSawTheManifest, KeptVersionsStay, Busy
<1>5. FilesStayReadable
  BY <1>1 DEF FilesStayReadable
<1>6. QED
  BY <1>2, <1>3, <1>4, <1>5 DEF StoreInv

LEMMA StoreTypesStep ==
  ASSUME StoreTypes, ManifestsAreSound, [StoreNext]_storeVars PROVE StoreTypes'
<1> USE AbsentAssumption, CrashAssumption, GoesTo DEF StoreTypes, disk, past
<1>0. /\ Idle \in WriterState /\ Idle.pc = "idle"
      /\ \A w \in Writer : writer[w] \in WriterState
  BY EmptyManifest DEF Idle, WriterState, StorePlace
<1>1. ASSUME NEW w \in Writer, NEW g \in Graph, Persist(w, g) PROVE StoreTypes'
  <2>1. [Idle EXCEPT !.pc = "open", !.g = g] \in WriterState
    BY EmptyManifest DEF Idle, WriterState, StorePlace
  <2>2. [Idle EXCEPT !.pc = "open", !.g = g].pc = "open" /\ [Idle EXCEPT !.pc = "open", !.g = g].g = g
    BY DEF Idle
  <2>3. QED
    BY <1>1, <2>1, <2>2 DEF Persist
<1>2. ASSUME NEW w \in Writer, Open(w) PROVE StoreTypes'
  <2>1. [by |-> w, whole |-> FALSE, left |-> FALSE] \in Lock
    BY DEF Lock
  <2>2. storeLock' \in Lock \cup {Absent} /\ (Goes(w, "open", "fill") \/ Goes(w, "open", "judge"))
    BY <1>2, <2>1 DEF Open
  <2>3. QED
    BY <1>2, <2>2 DEF Open, StorePlace
<1>3. ASSUME NEW w \in Writer, Fill(w) PROVE StoreTypes'
  <2>1. storeLock # Absent =>
          [storeLock EXCEPT !.whole = TRUE] \in Lock /\ [storeLock EXCEPT !.left = TRUE] \in Lock
    BY DEF Lock
  <2>2. storeLock' \in Lock \cup {Absent} /\ UNCHANGED <<disk, past>>
    BY <1>3, <2>1 DEF Fill, IsMine
  <2>3. Goes(w, "fill", "read") \/ Goes(w, "fill", "idle")
    BY <1>3 DEF Fill
  <2>4. QED
    BY <2>2, <2>3 DEF StorePlace
<1>4. ASSUME NEW w \in Writer, JudgeStale(w) PROVE StoreTypes'
  <2>1. CASE Goes(w, "judge", "open")
    BY <1>4, <2>1 DEF JudgeStale, StorePlace
  <2>2. CASE ~Goes(w, "judge", "open")
    <3>1. /\ storeLock \in Lock /\ (storeLock.left \/ ~storeLock.whole) /\ writer[w].g \in Graph
          /\ writer' = [writer EXCEPT ![w] = [writer[w] EXCEPT !.pc = "move", !.judged = storeLock]]
      BY <1>4, <2>2 DEF JudgeStale, Lock
    <3>0. writer[w] \in WriterState /\ "move" \in StorePlace /\ storeLock \in Lock \cup {Absent}
      BY <1>0, EmptyManifest DEF StorePlace
    <3>2. /\ [writer[w] EXCEPT !.pc = "move", !.judged = storeLock] \in WriterState
          /\ [writer[w] EXCEPT !.pc = "move", !.judged = storeLock].pc = "move"
          /\ [writer[w] EXCEPT !.pc = "move", !.judged = storeLock].g = writer[w].g
          /\ [writer[w] EXCEPT !.pc = "move", !.judged = storeLock].judged = storeLock
      BY ONLY <3>0 DEF WriterState
    <3>3. QED
      BY <1>4, <3>1, <3>2 DEF JudgeStale
  <2>3. QED
    BY <2>1, <2>2
<1>5. ASSUME NEW w \in Writer, Wait(w) PROVE StoreTypes'
  BY <1>5 DEF Wait, StorePlace
<1>6. ASSUME NEW w \in Writer, Move(w) PROVE StoreTypes'
  <2>0. writer[w] \in WriterState /\ "open" \in StorePlace /\ Absent \in Lock \cup {Absent}
    BY <1>0, EmptyManifest DEF StorePlace
  <2>1. /\ [writer[w] EXCEPT !.pc = "open", !.judged = Absent] \in WriterState
        /\ [writer[w] EXCEPT !.pc = "open", !.judged = Absent].pc = "open"
        /\ [writer[w] EXCEPT !.pc = "open", !.judged = Absent].g = writer[w].g
    BY ONLY <2>0 DEF WriterState
  <2>2. writer' = [writer EXCEPT ![w] = [writer[w] EXCEPT !.pc = "open", !.judged = Absent]]
    BY <1>6 DEF Move
  <2>3. displaced' \in BOOLEAN /\ writer[w].g \in Graph
    BY <1>6 DEF Move, Lock
  <2>4. QED
    BY <1>6, <2>1, <2>2, <2>3 DEF Move
<1>7. ASSUME NEW w \in Writer, ReadManifest(w) PROVE StoreTypes'
  <2>0. writer[w] \in WriterState /\ "check" \in StorePlace /\ manifest \in Manifest
    BY <1>0, EmptyManifest DEF StorePlace
  <2>1. /\ [writer[w] EXCEPT !.pc = "check", !.saw = manifest] \in WriterState
        /\ [writer[w] EXCEPT !.pc = "check", !.saw = manifest].pc = "check"
        /\ [writer[w] EXCEPT !.pc = "check", !.saw = manifest].g = writer[w].g
    BY ONLY <2>0 DEF WriterState
  <2>2. writer' = [writer EXCEPT ![w] = [writer[w] EXCEPT !.pc = "check", !.saw = manifest]]
    BY <1>7 DEF ReadManifest
  <2>3. QED
    BY <1>7, <2>1, <2>2 DEF ReadManifest
<1>8. ASSUME NEW w \in Writer, Check(w) PROVE StoreTypes'
  <2>1. \E to \in {"commit", "link", "release", "orphan"} : Goes(w, "check", to)
    BY <1>8 DEF Check
  <2>2. QED
    BY <1>8, <2>1 DEF Check, StorePlace
<1>9. ASSUME NEW w \in Writer, Orphan(w) PROVE StoreTypes'
  BY <1>9 DEF Orphan, StorePlace
<1>10. ASSUME NEW w \in Writer, Link(w) PROVE StoreTypes'
  BY <1>10 DEF Link, StorePlace
<1>11. ASSUME NEW w \in Writer, Commit(w) PROVE StoreTypes'
  <2>0. writer[w] \in WriterState /\ "release" \in StorePlace /\ Empty \in Manifest
    BY <1>0, EmptyManifest DEF StorePlace
  <2>1. /\ [writer[w] EXCEPT !.pc = "release", !.saw = Empty, !.done = TRUE] \in WriterState
        /\ [writer[w] EXCEPT !.pc = "release", !.saw = Empty, !.done = TRUE].pc = "release"
        /\ [writer[w] EXCEPT !.pc = "release", !.saw = Empty, !.done = TRUE].g = writer[w].g
    BY ONLY <2>0 DEF WriterState
  <2>2. writer' = [writer EXCEPT ![w] = [writer[w] EXCEPT !.pc = "release", !.saw = Empty, !.done = TRUE]]
    BY <1>11 DEF Commit
  <2>3. manifest' \in Manifest /\ writer[w].g \in Graph
    BY <1>11, CommittedManifest
  <2>4. UNCHANGED <<storeLock, file, past>>
    BY <1>11 DEF Commit
  <2>5. QED
    BY <2>1, <2>2, <2>3, <2>4
<1>12. ASSUME NEW w \in Writer, Fail(w) PROVE StoreTypes'
  BY <1>12 DEF Fail, StorePlace
<1>13. ASSUME NEW w \in Writer, Release(w) PROVE StoreTypes'
  BY <1>13 DEF Release, Returns, StorePlace
<1>14. ASSUME NEW w \in Writer, Unlock(w) PROVE StoreTypes'
  BY <1>14 DEF Unlock, Returns, StorePlace
<1>15. ASSUME NEW w \in Writer, Crash(w) PROVE StoreTypes'
  <2>1. storeLock # Absent => [storeLock EXCEPT !.left = TRUE] \in Lock
    BY DEF Lock
  <2>2. storeLock' \in Lock \cup {Absent} /\ crashes' \in 0 .. MaxCrashes
    BY <1>15, <2>1 DEF Crash, IsMine
  <2>3. QED
    BY <1>0, <1>15, <2>2 DEF Crash
<1>16. CASE UNCHANGED storeVars
  BY <1>16 DEF storeVars
<1> HIDE DEF StoreTypes
<1>17. QED
  BY <1>1, <1>2, <1>3, <1>4, <1>5, <1>6, <1>7, <1>8, <1>9, <1>10, <1>11, <1>12, <1>13, <1>14, <1>15, <1>16 DEF StoreNext, Serve

-----------------------------------------------------------------------------
(* The lock is exclusive until one that is held is moved away               *)

LEMMA HoldersStep ==
  ASSUME StoreTypes, HoldersOwnTheStore, [StoreNext]_storeVars PROVE HoldersOwnTheStore'
<1> USE AbsentAssumption, GoesTo DEF HoldersOwnTheStore, Busy, disk, past, IsMine
<1>0. Idle.pc = "idle" /\ writer \in [Writer -> WriterState]
  BY DEF Idle, StoreTypes
\* Who is busy has the lock, whole but for its first step, to itself.
<1>a. ASSUME ~displaced, NEW w \in Writer, writer[w].pc \in Busy
      PROVE  /\ storeLock # Absent /\ storeLock.by = w /\ ~storeLock.left
             /\ (storeLock.whole <=> writer[w].pc # "fill") /\ IsMine(w)
             /\ \A v \in Writer \ {w} : writer[v].pc \notin Busy
  BY <1>a
<1>b. ASSUME ~displaced, NEW w \in Writer, \A v \in Writer \ {w} : writer'[v] = writer[v],
             writer[w].pc \in Busy, writer'[w].pc \notin Busy
      PROVE  HoldersOwnTheStore'
  BY <1>a, <1>b
<1>c. ASSUME NEW w \in Writer, \A v \in Writer \ {w} : writer'[v] = writer[v],
             storeLock' = storeLock, ~displaced' => ~displaced,
             writer'[w].pc \in Busy => writer[w].pc \in Busy /\ writer[w].pc # "fill" /\ writer'[w].pc # "fill"
      PROVE  HoldersOwnTheStore'
  BY <1>c
<1>1. ASSUME NEW w \in Writer, NEW g \in Graph, Persist(w, g) PROVE HoldersOwnTheStore'
  BY <1>1 DEF Persist, StorePlace
<1>2. ASSUME NEW w \in Writer, Open(w) PROVE HoldersOwnTheStore'
  <2>1. CASE storeLock = Absent
    <3>1. \A v \in Writer : ~displaced => writer[v].pc \notin Busy
      BY <1>a, <2>1
    <3>2. Goes(w, "open", "fill") /\ storeLock' = [by |-> w, whole |-> FALSE, left |-> FALSE]
      BY <1>2, <2>1 DEF Open
    <3>3. writer'[w].pc = "fill" /\ \A v \in Writer \ {w} : writer'[v] = writer[v]
      BY <3>2 DEF StorePlace
    <3>4. [by |-> w, whole |-> FALSE, left |-> FALSE] \in Lock
      BY DEF Lock
    <3>5. IsMine(w)' /\ ~storeLock'.whole /\ displaced' = displaced
      BY <1>2, <3>2, <3>4 DEF Open
    <3>6. QED
      BY <3>1, <3>3, <3>5
  <2>2. CASE storeLock # Absent
    BY <1>2, <1>c, <2>2 DEF Open, StorePlace
  <2>3. QED
    BY <2>1, <2>2
<1>3. ASSUME NEW w \in Writer, Fill(w) PROVE HoldersOwnTheStore'
  <2>1. CASE displaced
    BY <1>3, <2>1 DEF Fill
  <2>2. CASE ~displaced
    <3>1. /\ writer[w].pc = "fill" /\ \A v \in Writer \ {w} : writer'[v] = writer[v]
          /\ \/ writer'[w].pc = "read" /\ storeLock' = [storeLock EXCEPT !.whole = TRUE]
             \/ writer'[w].pc = "idle"
      BY <1>3, <1>a, <2>2 DEF Fill, StorePlace
    <3>2. /\ storeLock \in Lock /\ IsMine(w)
          /\ \A v \in Writer \ {w} : writer'[v].pc \notin Busy
      BY <1>a, <2>2, <3>1 DEF StoreTypes
    <3>3. LET l == [storeLock EXCEPT !.whole = TRUE] IN
          l \in Lock /\ l.by = w /\ l.whole /\ ~l.left
      BY <3>2 DEF Lock
    <3>4. writer'[w].pc = "read" => IsMine(w)' /\ storeLock'.whole
      BY ONLY <3>1, <3>3, AbsentAssumption DEF IsMine
    <3>5. QED
      BY <3>1, <3>2, <3>4
  <2>3. QED
    BY <2>1, <2>2
<1>4. ASSUME NEW w \in Writer, JudgeStale(w) PROVE HoldersOwnTheStore'
  <2>1. writer'[w].pc \in {"open", "move"} /\ \A v \in Writer \ {w} : writer'[v] = writer[v]
    <3>1. CASE Goes(w, "judge", "open")
      BY <3>1 DEF StorePlace
    <3>2. CASE writer' = [writer EXCEPT ![w].pc = "move", ![w].judged = storeLock]
      BY <1>0, <3>2 DEF WriterState
    <3>3. QED
      BY <1>4, <3>1, <3>2 DEF JudgeStale
  <2>2. QED
    BY <1>4, <1>c, <2>1 DEF JudgeStale
<1>5. ASSUME NEW w \in Writer, Wait(w) PROVE HoldersOwnTheStore'
  BY <1>5 DEF Wait, StorePlace
<1>6. ASSUME NEW w \in Writer, Move(w) PROVE HoldersOwnTheStore'
  <2>1. writer'[w].pc = "open" /\ \A v \in Writer \ {w} : writer'[v] = writer[v]
    BY <1>0, <1>6 DEF Move, WriterState
  <2>2. ~displaced' => ~displaced /\ (storeLock = Absent \/ storeLock.left)
    BY <1>6 DEF Move, StoreTypes
  <2>3. \A v \in Writer : ~displaced' => writer[v].pc \notin Busy
    BY <1>a, <2>2
  <2>4. QED
    BY <2>1, <2>3
<1>7. ASSUME NEW w \in Writer, ReadManifest(w) PROVE HoldersOwnTheStore'
  <2>1. writer'[w].pc = "check" /\ \A v \in Writer \ {w} : writer'[v] = writer[v]
    BY <1>0, <1>7 DEF ReadManifest, WriterState
  <2>2. QED
    BY <1>7, <1>c, <2>1 DEF ReadManifest
<1>8. ASSUME NEW w \in Writer, Check(w) PROVE HoldersOwnTheStore'
  BY <1>8 DEF Check, StorePlace
<1>9. ASSUME NEW w \in Writer, Orphan(w) PROVE HoldersOwnTheStore'
  BY <1>9 DEF Orphan, StorePlace
<1>10. ASSUME NEW w \in Writer, Link(w) PROVE HoldersOwnTheStore'
  BY <1>10 DEF Link, StorePlace
<1>11. ASSUME NEW w \in Writer, Commit(w) PROVE HoldersOwnTheStore'
  <2>1. writer'[w].pc = "release" /\ \A v \in Writer \ {w} : writer'[v] = writer[v]
    BY <1>0, <1>11 DEF Commit, WriterState
  <2>2. QED
    BY <1>11, <1>c, <2>1 DEF Commit
<1>12. ASSUME NEW w \in Writer, Fail(w) PROVE HoldersOwnTheStore'
  BY <1>12 DEF Fail, StorePlace
<1>13. ASSUME NEW w \in Writer, Release(w) PROVE HoldersOwnTheStore'
  BY <1>13 DEF Release, StorePlace
<1>14. ASSUME NEW w \in Writer, Unlock(w) PROVE HoldersOwnTheStore'
  BY <1>14 DEF Unlock, StorePlace
<1>15. ASSUME NEW w \in Writer, Crash(w) PROVE HoldersOwnTheStore'
  <2>1. writer'[w] = Idle /\ \A v \in Writer \ {w} : writer'[v] = writer[v]
    BY <1>0, <1>15 DEF Crash
  <2>2. CASE IsMine(w)
    <3>1. \A v \in Writer \ {w} : ~displaced => writer[v].pc \notin Busy
      BY <1>a, <2>2
    <3>2. QED
      BY <1>0, <1>15, <2>1, <3>1 DEF Crash
  <2>3. CASE ~IsMine(w)
    BY <1>0, <1>15, <1>c, <2>1, <2>3 DEF Crash
  <2>4. QED
    BY <2>2, <2>3
<1>16. CASE UNCHANGED storeVars
  BY <1>16 DEF storeVars
<1> HIDE DEF HoldersOwnTheStore
<1>17. QED
  BY <1>1, <1>2, <1>3, <1>4, <1>5, <1>6, <1>7, <1>8, <1>9, <1>10, <1>11, <1>12, <1>13, <1>14, <1>15, <1>16 DEF StoreNext, Serve

-----------------------------------------------------------------------------
(* What one step of a writer does                                           *)

\* The place a call goes to tells what it has just done; only a commit writes
\* the manifest, and only moving a file aside or linking one writes a file.
LEMMA StepEffect ==
  ASSUME StoreTypes, NEW w \in Writer, Serve(w)
  PROVE  LET r == writer[w]
             n == writer'[w] IN
         /\ \A v \in Writer \ {w} : writer'[v] = writer[v]
         /\ (displaced => displaced') /\ damaged' = damaged
         /\ Commit(w) \/ manifest' = manifest
         /\ Orphan(w) \/ Link(w) \/ file' = file
         /\ kept' = kept \/ (r.done /\ kept' = kept \cup {r.g})
         /\ n.saw = Empty \/ n.saw = r.saw \/ n.saw = manifest
         /\ n.done => Commit(w) \/ (r.done /\ n.g = r.g /\ n.pc # "idle")
         /\ Commit(w) => n.g = r.g /\ n.pc = "release"
         /\ r.pc = "release" /\ n.done => n.pc = "unlock"
         /\ r.pc = "unlock" => ~n.done
         /\ n.pc = "check" => n.saw = manifest
         /\ n.pc = "orphan" => Check(w)
         /\ n.pc = "commit" => Check(w) \/ Link(w)
         /\ n.pc \in {"orphan", "link", "commit"} =>
              r.pc \in {"check", "orphan", "link"} /\ n.saw = r.saw /\ n.g = r.g
<1> DEFINE Effect ==
             LET r == writer[w]
                 n == writer'[w] IN
             /\ \A v \in Writer \ {w} : writer'[v] = writer[v]
             /\ (displaced => displaced') /\ damaged' = damaged
             /\ Commit(w) \/ manifest' = manifest
             /\ Orphan(w) \/ Link(w) \/ file' = file
             /\ kept' = kept \/ (r.done /\ kept' = kept \cup {r.g})
             /\ n.saw = Empty \/ n.saw = r.saw \/ n.saw = manifest
             /\ n.done => Commit(w) \/ (r.done /\ n.g = r.g /\ n.pc # "idle")
             /\ Commit(w) => n.g = r.g /\ n.pc = "release"
             /\ r.pc = "release" /\ n.done => n.pc = "unlock"
             /\ r.pc = "unlock" => ~n.done
             /\ n.pc = "check" => n.saw = manifest
             /\ n.pc = "orphan" => Check(w)
             /\ n.pc = "commit" => Check(w) \/ Link(w)
             /\ n.pc \in {"orphan", "link", "commit"} =>
                  r.pc \in {"check", "orphan", "link"} /\ n.saw = r.saw /\ n.g = r.g
<1> USE AbsentAssumption, GoesTo DEF disk, past
<1>0. Idle.pc = "idle" /\ Idle.saw = Empty /\ ~Idle.done /\ writer \in [Writer -> WriterState]
  BY DEF Idle, StoreTypes
<1>c. Commit(w) => writer[w].pc = "commit"
  BY DEF Commit
<1>1. ASSUME NEW g \in Graph, Persist(w, g) PROVE Effect
  <2>1. LET i == [Idle EXCEPT !.pc = "open", !.g = g] IN i.pc = "open" /\ i.saw = Empty /\ ~i.done
    BY DEF Idle
  <2>2. writer' = [writer EXCEPT ![w] = [Idle EXCEPT !.pc = "open", !.g = g]] /\ writer[w].pc = "idle"
    BY <1>1 DEF Persist
  <2>3. QED
    BY <1>0, <1>1, <1>c, <2>1, <2>2 DEF Persist
<1>2. CASE Open(w)
  BY <1>0, <1>2, <1>c DEF Open, StorePlace
<1>3. CASE Fill(w)
  BY <1>0, <1>3, <1>c DEF Fill, StorePlace
<1>4. CASE JudgeStale(w)
  <2>1. CASE Goes(w, "judge", "open")
    BY <1>0, <1>4, <1>c, <2>1 DEF JudgeStale, StorePlace
  <2>2. CASE writer[w].pc = "judge" /\ writer' = [writer EXCEPT ![w].pc = "move", ![w].judged = storeLock]
    <3>1. LET n == writer'[w] IN
          n.pc = "move" /\ n.g = writer[w].g /\ n.saw = writer[w].saw /\ n.done = writer[w].done
      BY <1>0, <2>2 DEF WriterState
    <3>2. QED
      BY <1>0, <1>4, <1>c, <2>2, <3>1 DEF JudgeStale
  <2>3. QED
    BY <1>4, <2>1, <2>2 DEF JudgeStale
<1>5. CASE Wait(w)
  BY <1>0, <1>5, <1>c DEF Wait, StorePlace
<1>6. CASE Move(w)
  <2>1. LET n == writer'[w] IN
        n.pc = "open" /\ n.g = writer[w].g /\ n.saw = writer[w].saw /\ n.done = writer[w].done
    BY <1>0, <1>6 DEF Move, WriterState
  <2>2. QED
    BY <1>0, <1>6, <1>c, <2>1 DEF Move
<1>7. CASE ReadManifest(w)
  <2>1. LET n == writer'[w] IN
        n.pc = "check" /\ n.g = writer[w].g /\ n.saw = manifest /\ n.done = writer[w].done
    BY <1>0, <1>7 DEF ReadManifest, WriterState
  <2>2. QED
    BY <1>0, <1>7, <1>c, <2>1 DEF ReadManifest
<1>8. CASE Check(w)
  <2>1. \E to \in {"commit", "link", "release", "orphan"} : Goes(w, "check", to)
    BY <1>8 DEF Check
  <2>2. QED
    BY <1>0, <1>8, <1>c, <2>1 DEF Check, StorePlace
<1>9. CASE Orphan(w)
  BY <1>0, <1>9, <1>c DEF Orphan, StorePlace
<1>10. CASE Link(w)
  BY <1>0, <1>10, <1>c DEF Link, StorePlace
<1>11. CASE Commit(w)
  <2>1. LET n == writer'[w] IN n.pc = "release" /\ n.g = writer[w].g /\ n.saw = Empty
    BY <1>0, <1>11 DEF Commit, WriterState
  <2>2. QED
    BY <1>0, <1>11, <1>c, <2>1 DEF Commit
<1>12. CASE Fail(w)
  BY <1>0, <1>12, <1>c DEF Fail, StorePlace
<1>13. CASE Release(w)
  BY <1>0, <1>13, <1>c DEF Release, Returns, StorePlace
<1>14. CASE Unlock(w)
  BY <1>0, <1>14, <1>c DEF Unlock, Returns, StorePlace
<1>15. CASE Crash(w) /\ ~Commit(w)
  BY <1>0, <1>15 DEF Crash
<1>16. QED
  BY <1>1, <1>2, <1>3, <1>4, <1>5, <1>6, <1>7, <1>8, <1>9, <1>10, <1>11, <1>12, <1>13, <1>14, <1>15 DEF Serve

-----------------------------------------------------------------------------
(* Manifests on disk and in hand                                            *)

LEMMA ManifestsStep ==
  ASSUME StoreTypes, ManifestsAreSound, [StoreNext]_storeVars PROVE ManifestsAreSound'
<1>1. ASSUME NEW w \in Writer, Serve(w) PROVE ManifestsAreSound'
  <2>1. ManifestOK(manifest)'
    BY <1>1, StepEffect, CommittedManifest DEF ManifestsAreSound
  <2>2. ManifestOK(writer'[w].saw)
    BY <1>1, StepEffect, EmptyManifest DEF ManifestsAreSound
  <2>3. \A v \in Writer : ManifestOK(writer'[v].saw)
    BY <1>1, <2>2, StepEffect DEF ManifestsAreSound
  <2>4. QED
    BY <2>1, <2>3 DEF ManifestsAreSound
<1>2. CASE UNCHANGED storeVars
  BY <1>2 DEF storeVars, disk, ManifestsAreSound
<1>3. QED
  BY <1>1, <1>2 DEF StoreNext

\* While the lock is exclusive nothing that a writer has read is out of date.
LEMMA OneIsBusy ==
  ASSUME HoldersOwnTheStore, ~displaced, NEW v \in Writer, NEW w \in Writer,
         writer[v].pc \in Busy, writer[w].pc \in Busy
  PROVE  v = w
  BY DEF HoldersOwnTheStore, IsMine

LEMMA SawStep ==
  ASSUME StoreTypes, ManifestsAreSound, HoldersOwnTheStore, HoldersSawTheManifest,
         [StoreNext]_storeVars
  PROVE  HoldersSawTheManifest'
<1>1. ASSUME NEW w \in Writer, Serve(w) PROVE HoldersSawTheManifest'
  <2>0. displaced \in BOOLEAN /\ writer[w].g \in Graph \cup {Absent}
    BY DEF StoreTypes, WriterState
  <2>1. ~displaced' => Listed(manifest) \subseteq Listed(manifest')
    <3>1. CASE Commit(w)
      BY <1>1, <2>0, <3>1, StepEffect, CommittedManifest DEF HoldersSawTheManifest, Commit
    <3>2. QED
      BY <1>1, <3>1, StepEffect
  <2>2. KeptVersionsStay'
    BY <1>1, <2>0, <2>1, StepEffect DEF HoldersSawTheManifest, KeptVersionsStay
  <2>3. ASSUME NEW v \in Writer
        PROVE  /\ writer'[v].done => writer'[v].pc \in {"release", "unlock"}
               /\ ~displaced' /\ writer'[v].done => writer'[v].g \in Listed(manifest')
    <3>1. CASE v # w
      BY <1>1, <2>0, <2>1, <3>1, StepEffect DEF HoldersSawTheManifest
    <3>2. CASE v = w /\ Commit(w)
      BY <1>1, <3>2, StepEffect, CommittedManifest
    <3>3. CASE v = w /\ ~Commit(w)
      BY <1>1, <2>0, <2>1, <3>3, StepEffect DEF HoldersSawTheManifest
    <3>4. QED
      BY <3>1, <3>2, <3>3
  <2>4. ASSUME NEW v \in Writer, ~displaced', writer'[v].pc \in {"check", "orphan", "link", "commit"}
        PROVE  writer'[v].saw = manifest'
    <3>1. CASE v = w
      BY <1>1, <2>0, <2>4, <3>1, StepEffect DEF HoldersSawTheManifest
    <3>2. CASE v # w /\ Commit(w)
      <4>1. writer[w].pc \in Busy
        BY <3>2 DEF Commit, Busy
      <4>2. writer[v].pc \in Busy /\ ~displaced
        BY <1>1, <2>0, <2>4, <3>2, StepEffect DEF Busy
      <4>3. QED
        BY <3>2, <4>1, <4>2, OneIsBusy
    <3>3. CASE v # w /\ ~Commit(w)
      BY <1>1, <2>0, <2>4, <3>3, StepEffect DEF HoldersSawTheManifest
    <3>4. QED
      BY <3>1, <3>2, <3>3
  <2>5. QED
    BY <2>2, <2>3, <2>4 DEF HoldersSawTheManifest
<1>2. CASE UNCHANGED storeVars
  BY <1>2 DEF storeVars, disk, past, HoldersSawTheManifest, KeptVersionsStay
<1>3. QED
  BY <1>1, <1>2 DEF StoreNext

-----------------------------------------------------------------------------
(* The files of the versions                                                *)

\* A file that can be read is only lost when a writer without an exclusive
\* lock moves aside what was unreadable at the start.
LEMMA ReadableStays ==
  ASSUME StoreTypes, HoldersOwnTheStore, FilesStayReadable, NEW w \in Writer, Serve(w),
         NEW g \in Graph, Readable(g)
  PROVE  Readable(g)'
<1>0. file \in [Graph -> {Absent, "unreadable", "graph"}] /\ displaced \in BOOLEAN
  BY DEF StoreTypes
<1>1. CASE Orphan(w)
  <2>1. /\ writer[w].pc = "orphan" /\ file' = [file EXCEPT ![writer[w].g] = Absent]
        /\ displaced' = displaced /\ damaged' = damaged
    BY <1>1 DEF Orphan, Goes, past
  <2>2. QED
    BY <1>0, <2>1 DEF FilesStayReadable, Readable
<1>2. CASE Link(w)
  <2>1. /\ file' = file \/ file' = [file EXCEPT ![writer[w].g] = "graph"]
        /\ displaced' = displaced /\ damaged' = damaged
    BY <1>2 DEF Link, past
  <2>2. QED
    BY <1>0, <2>1 DEF Readable
<1>3. CASE ~Orphan(w) /\ ~Link(w)
  BY <1>0, <1>3, StepEffect DEF Readable
<1>4. QED
  BY <1>1, <1>2, <1>3

LEMMA FilesStep ==
  ASSUME StoreTypes, ManifestsAreSound, HoldersOwnTheStore, HoldersSawTheManifest,
         FilesStayReadable, [StoreNext]_storeVars
  PROVE  FilesStayReadable'
<1>1. ASSUME NEW w \in Writer, Serve(w) PROVE FilesStayReadable'
  <2>0. /\ file \in [Graph -> {Absent, "unreadable", "graph"}] /\ displaced \in BOOLEAN
        /\ manifest \in Manifest /\ \A v \in Writer : writer[v].saw \in Manifest
        /\ writer[w].g \in Graph \cup {Absent}
    BY DEF StoreTypes, WriterState
  <2>1. Listed(manifest) \subseteq Graph /\ \A v \in Writer : Listed(writer[v].saw) \subseteq Graph
    BY <2>0 DEF Manifest, Listed, ToSet
  <2>2. \A g \in Graph : file'[g] = "unreadable" => g \in damaged'
    <3>1. \A g \in Graph : file'[g] = "unreadable" => file[g] = "unreadable"
      BY <1>1, <2>0, StepEffect, AbsentAssumption DEF Orphan, Link
    <3>2. QED
      BY <1>1, <3>1, StepEffect DEF FilesStayReadable
  <2>3. \A g \in Listed(manifest') : Readable(g)'
    <3>1. CASE Commit(w)
      <4>1. writer[w].pc = "commit"
        BY <3>1 DEF Commit
      <4>2. QED
        BY <1>1, <2>1, <3>1, <4>1, CommittedManifest, ReadableStays DEF FilesStayReadable
    <3>2. CASE ~Commit(w)
      BY <1>1, <2>1, <3>2, StepEffect, ReadableStays DEF FilesStayReadable
    <3>3. QED
      BY <3>1, <3>2
  <2>4. ASSUME NEW v \in Writer PROVE \A g \in Listed(writer'[v].saw) : Readable(g)'
    <3>1. writer'[v].saw = Empty \/ writer'[v].saw = writer[v].saw \/ writer'[v].saw = manifest
      BY <1>1, StepEffect
    <3>2. QED
      BY <1>1, <2>1, <3>1, EmptyManifest, ReadableStays DEF FilesStayReadable
  <2>5. ASSUME NEW v \in Writer, writer'[v].pc = "orphan"
        PROVE  writer'[v].g \in damaged' /\ (~displaced' => file'[writer'[v].g] = "unreadable")
    <3>1. CASE v = w
      <4>1. Check(w) /\ writer'[w].g = writer[w].g /\ damaged' = damaged
        BY <1>1, <2>5, <3>1, StepEffect
      <4>2. file' = file /\ writer[w].pc = "check" /\ writer[w].g \in Graph
        BY <4>1 DEF Check, disk, StoreTypes
      <4>3. Goes(w, "check", "orphan")
        BY <2>5, <3>1, <4>1, GoesTo DEF Check, StorePlace
      <4>4. file[writer[w].g] = "unreadable"
        <5>1. \/ file[writer[w].g] = "graph" /\ Goes(w, "check", "commit")
              \/ file[writer[w].g] = Absent /\ Goes(w, "check", "link")
              \/ file[writer[w].g] = "unreadable"
          BY <2>0, <4>1, <4>2 DEF Check
        <5>2. ~Goes(w, "check", "commit") /\ ~Goes(w, "check", "link")
          BY <2>5, <3>1, GoesTo DEF StorePlace
        <5>3. QED
          BY <5>1, <5>2
      <4>5. QED
        BY <3>1, <4>1, <4>2, <4>4 DEF FilesStayReadable
    <3>2. CASE v # w
      <4>1. writer'[v] = writer[v] /\ damaged' = damaged /\ (displaced => displaced')
        BY <1>1, <3>2, StepEffect
      <4>2. ~displaced => ~Orphan(w) /\ ~Link(w)
        <5>1. Orphan(w) \/ Link(w) => writer[w].pc \in Busy
          BY DEF Orphan, Link, Goes, Busy
        <5>2. writer[v].pc \in Busy
          BY <2>5, <4>1 DEF Busy
        <5>3. QED
          BY <3>2, <5>1, <5>2, OneIsBusy
      <4>3. QED
        BY <1>1, <2>5, <4>1, <4>2, StepEffect DEF FilesStayReadable
    <3>3. QED
      BY <3>1, <3>2
  <2>6. ASSUME NEW v \in Writer, writer'[v].pc = "commit" PROVE Readable(writer[v].g)'
    <3>1. CASE v = w /\ Check(w)
      <4>1. writer'[w].g = writer[w].g /\ writer[w].g \in Graph /\ UNCHANGED file
        BY <1>1, <2>6, <3>1, StepEffect DEF Check, StoreTypes, disk
      <4>2. file[writer[w].g] = "graph"
        <5>1. file[writer[w].g] = "graph" \/ (\E to \in {"link", "release", "orphan"} : Goes(w, "check", to))
          BY <3>1 DEF Check
        <5>2. \A to \in {"link", "release", "orphan"} : ~Goes(w, "check", to)
          BY <2>6, <3>1, GoesTo DEF StorePlace
        <5>3. QED
          BY <5>1, <5>2
      <4>3. QED
        BY <3>1, <4>1, <4>2 DEF Readable
    <3>2. CASE v = w /\ Link(w)
      <4>1. writer'[w].g = writer[w].g /\ writer[w].g \in Graph
        BY <1>1, <2>6, <3>2, StepEffect DEF Link, Goes, StoreTypes
      <4>2. ~Goes(w, "link", "release")
        BY <2>6, <3>2, GoesTo DEF StorePlace
      <4>3. file'[writer[w].g] = "graph"
        BY <2>0, <3>2, <4>1, <4>2 DEF Link
      <4>4. QED
        BY <3>2, <4>1, <4>3 DEF Readable
    <3>3. CASE v # w
      <4>1. writer'[v] = writer[v] /\ writer[v].g \in Graph
        BY <1>1, <2>6, <3>3, StepEffect DEF StoreTypes
      <4>2. QED
        BY <1>1, <2>6, <4>1, ReadableStays DEF FilesStayReadable
    <3>4. QED
      BY <1>1, <2>6, <3>1, <3>2, <3>3, StepEffect
  <2>7. QED
    BY <2>2, <2>3, <2>4, <2>5, <2>6 DEF FilesStayReadable
<1>2. CASE UNCHANGED storeVars
  BY <1>2 DEF storeVars, disk, past, FilesStayReadable, Readable
<1>3. QED
  BY <1>1, <1>2 DEF StoreNext

-----------------------------------------------------------------------------
(* Theorems                                                                 *)

LEMMA StoreStepInv == StoreInv /\ [StoreNext]_storeVars => StoreInv'
  BY StoreTypesStep, ManifestsStep, HoldersStep, SawStep, FilesStep DEF StoreInv

\* The inductive invariant of persist and its lock.
THEOREM StoreInvariance == StoreSpec => []StoreInv
  BY StoreInitInv, StoreStepInv, PTL DEF StoreSpec

\* Every variable keeps its type; a manifest, read or on disk, lists a graph once.
THEOREM StoreTypeCorrect == StoreSpec => []StoreTypeOK
<1>1. StoreInv => StoreTypeOK
  BY DEF StoreInv, StoreTypes, WriterState, ManifestsAreSound, StoreTypeOK
<1>2. QED
  BY <1>1, StoreInvariance, PTL

\* A version whose persist has returned is not lost to a crash or a takeover.
THEOREM KeptVersionsStayHolds == StoreSpec => []KeptVersionsStay
<1>1. StoreInv => KeptVersionsStay
  BY DEF StoreInv, HoldersSawTheManifest
<1>2. QED
  BY <1>1, StoreInvariance, PTL

\* Every version the manifest lists has its file, with one named exception.
THEOREM ListedCanBeReadHolds == StoreSpec => []ListedCanBeRead
<1>1. StoreInv => ListedCanBeRead
  BY DEF StoreInv, FilesStayReadable, Readable, ListedCanBeRead
<1>2. QED
  BY <1>1, StoreInvariance, PTL

\* No commit rewrites or drops an earlier version: its writer has read the
\* manifest it replaces.
THEOREM HistoryGrowsHolds == StoreSpec => HistoryGrows
<1>1. ASSUME StoreInv, [StoreNext]_storeVars
      PROVE  displaced' \/ IsPrefix(manifest.versions, manifest'.versions)
  <2>0. IsPrefix(manifest.versions, manifest.versions)
    BY <1>1 DEF StoreInv, StoreTypes, Manifest, IsPrefix
  <2>1. ASSUME NEW w \in Writer, Serve(w), ~displaced'
        PROVE  IsPrefix(manifest.versions, manifest'.versions)
    <3>1. CASE Commit(w)
      BY <1>1, <2>1, <3>1, StepEffect, CommittedManifest
         DEF StoreInv, StoreTypes, HoldersSawTheManifest, Commit
    <3>2. QED
      BY <1>1, <2>0, <2>1, <3>1, StepEffect DEF StoreInv
  <2>2. QED
    BY <1>1, <2>0, <2>1 DEF StoreNext, storeVars, disk
<1>2. QED
  BY <1>1, StoreInvariance, PTL DEF StoreSpec, HistoryGrows

\* Two writers work in the store of a model only after a lock that is held has
\* been moved away.
THEOREM OneWriterAtATime ==
  StoreSpec => [](~displaced => \A v, w \in Writer :
                    writer[v].pc \in Busy /\ writer[w].pc \in Busy => v = w)
<1>1. StoreInv => (~displaced => \A v, w \in Writer :
                     writer[v].pc \in Busy /\ writer[w].pc \in Busy => v = w)
  BY OneIsBusy DEF StoreInv
<1>2. QED
  BY <1>1, StoreInvariance, PTL


=============================================================================
