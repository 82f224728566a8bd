------------------------ MODULE QueueTransport_proofs ------------------------
(***************************************************************************)
(* Safety of the queue for every set of clients and requests and for every  *)
(* number of crashes, signals and stale locks.  The first part does not     *)
(* rest on the lock: exclusion between clients can fail, and yet no request *)
(* is dispatched twice, no mutation loses its evidence and nothing is left  *)
(* of a request that is settled.  The second part is what the lock adds as  *)
(* long as none goes stale.                                                 *)
(***************************************************************************)
EXTENDS QueueTransport, TLAPS

\* A request in queue/ has no history yet.
QueueIsFresh ==
  \A r \in queue :
    /\ executions[r] = 0
    /\ r \notin processing /\ r \notin responses /\ r \notin withdrawn

\* The request that the bridge works on has left queue/ by its claim, and its
\* count says how far the bridge has got.
ActiveIsClaimed ==
  bridge \in Busy =>
    /\ active \notin queue /\ active \notin withdrawn
    /\ executions[active] = IF bridge = "claimed" THEN 0 ELSE 1

\* No outcome is known before the response is written; until then a mutation
\* keeps its claim, and from then on the response is its evidence.
ActiveHasEvidence ==
  /\ bridge \in {"claimed", "executed"} =>
       /\ active \notin responses \cup learned
       /\ active \in Mutating => active \in processing
  /\ bridge = "persisted" /\ active \in Mutating => active \in responses \cup learned

\* A claim beside the one the bridge works on was retained, and ends the loop.
ClaimIsAlone ==
  /\ bridge = "scanning" => processing = {}
  /\ bridge \in Busy => processing \subseteq {active}

\* Responses, known outcomes and withdrawals agree with the execution count.
CountsAgree ==
  /\ \A r \in responses \cup learned : executions[r] = 1
  /\ \A r \in withdrawn : executions[r] = 0 /\ r \notin queue
  /\ \A r \in Request \ issued : executions[r] = 0

\* A client removes a claim only when it has read the outcome.
SettlesWhatItLearned ==
  \A c \in Client : pc[c] \in {"observed", "settling"} => cur[c] \in learned

MarkersAreReads == markers \subseteq ReadOnly

IInv ==
  /\ TypeOK
  /\ QueueIsFresh
  /\ ActiveIsClaimed
  /\ ActiveHasEvidence
  /\ ClaimIsAlone
  /\ CountsAgree
  /\ SettlesWhatItLearned
  /\ MarkersAreReads
  /\ AtMostOnce
  /\ EvidenceKept

\* The initial directories are empty, the bridge is off, nobody has a scope.
LEMMA InitInv == Init => IInv
<1> SUFFICES ASSUME Init PROVE IInv
  OBVIOUS
<1>1. TypeOK
  <2>1. pc \in [Client -> ClientPlaces] /\ kind \in [Client -> ScopeKinds]
    BY DEF Init, ClientPlaces, ScopeKinds
  <2>2. cur \in [Client -> issued \cup {None}] /\ target \in [Client -> issued \cup {None}]
    BY DEF Init
  <2>3. /\ seen \in [Client -> SUBSET Dirs] /\ executions \in [Request -> Nat]
        /\ faults \in [Faults -> Nat]
        /\ look \in [Client -> {None} \cup [dir : Dirs, names : SUBSET issued]]
    BY DEF Init
  <2>4. QED
    BY <2>1, <2>2, <2>3 DEF Init, TypeOK, BridgePlaces, Busy
<1>2. QED
  BY <1>1 DEF Init, IInv, QueueIsFresh, ActiveIsClaimed, ActiveHasEvidence, ClaimIsAlone, CountsAgree,
     SettlesWhatItLearned, MarkersAreReads, AtMostOnce, EvidenceKept, Busy, Mutating

\* Every step of a client, of the bridge or of the environment keeps the
\* invariant; only Settle needs more than its own definition.
LEMMA InvStep == IInv /\ [Next]_vars => IInv'
<1> SUFFICES ASSUME IInv, [Next]_vars PROVE IInv'
  OBVIOUS
<1> USE ConstantsAssumption DEF IInv, TypeOK, Busy, Mutating, ClientPlaces, InScope, ScopeKinds,
       BridgePlaces, Faults, Dirs
<1> USE DEF QueueIsFresh, ActiveIsClaimed, ActiveHasEvidence, ClaimIsAlone, CountsAgree,
       SettlesWhatItLearned, MarkersAreReads, AtMostOnce, EvidenceKept
<1> USE DEF At, Goto, files, lockVars, clientVars, bridgeVars, history, Sweep, ReleaseLock, OwnedBy,
       AbandonScan, Spend, Checked, ForgetScope
<1>1. ASSUME NEW c \in Client, NEW k \in ScopeKinds, StartScope(c, k) PROVE IInv'
  BY <1>1 DEF StartScope
<1>2. ASSUME NEW c \in Client, AcquireLock(c) PROVE IInv'
  BY <1>2 DEF AcquireLock
<1>3. ASSUME NEW c \in Client, LockRefused(c) PROVE IInv'
  BY <1>3 DEF LockRefused
<1>4. ASSUME NEW c \in Client, FindStaleLock(c) PROVE IInv'
  BY <1>4 DEF FindStaleLock
<1>5. ASSUME NEW c \in Client, RemoveStaleLock(c) PROVE IInv'
  BY <1>5 DEF RemoveStaleLock
<1>6. ASSUME NEW c \in Client, LeaveScope(c) PROVE IInv'
  BY <1>6 DEF LeaveScope
<1>7. ASSUME NEW c \in Client, BeginCheck(c) PROVE IInv'
  BY <1>7 DEF BeginCheck
<1>8. ASSUME NEW c \in Client, Authorize(c) PROVE IInv'
  BY <1>8 DEF Authorize
<1>9. ASSUME NEW c \in Client, RecoverRefused(c) PROVE IInv'
  BY <1>9 DEF RecoverRefused
<1>10. ASSUME NEW c \in Client, RecoverConsume(c) PROVE IInv'
  BY <1>10 DEF RecoverConsume
<1>11. ASSUME NEW c \in Client, PollMiss(c) PROVE IInv'
  BY <1>11 DEF PollMiss
<1>12. ASSUME NEW c \in Client, PollHit(c) PROVE IInv'
  BY <1>12 DEF PollHit
<1>13. ASSUME NEW c \in Client, RemoveResponse(c) PROVE IInv'
  BY <1>13 DEF RemoveResponse
<1>14. ASSUME NEW c \in Client, Settle(c) PROVE IInv'
  <2> DEFINE Places == {"leaving", "entered", "authorized", "recovering"}
  <2>1. PICK place \in Places : Goto(c, place)
    BY <1>14 DEF Settle
  <2>2. TypeOK'
    BY <1>14, <2>1 DEF Settle
  <2>3. cur[c] \in learned
    BY <1>14 DEF Settle
  <2>4. (QueueIsFresh /\ ActiveIsClaimed /\ ActiveHasEvidence /\ ClaimIsAlone)'
    BY <1>14, <2>1, <2>3 DEF Settle
  <2>5. (CountsAgree /\ SettlesWhatItLearned /\ MarkersAreReads)'
    BY <1>14, <2>1 DEF Settle
  <2>6. (AtMostOnce /\ EvidenceKept)'
    BY <1>14, <2>1, <2>3 DEF Settle
  <2>7. QED
    BY <2>2, <2>4, <2>5, <2>6
<1>15. ASSUME NEW c \in Client, TimeOut(c) PROVE IInv'
  BY <1>15 DEF TimeOut
<1>16. ASSUME NEW c \in Client, Withdraw(c) PROVE IInv'
  BY <1>16 DEF Withdraw
<1>17. ASSUME NEW c \in Client, Crash(c) PROVE IInv'
  BY <1>17 DEF Crash
<1>18. ASSUME NEW c \in Client, Signal(c) PROVE IInv'
  BY <1>18 DEF Signal
<1>19. ASSUME NEW c \in Client, ExitRemoveLock(c) PROVE IInv'
  BY <1>19 DEF ExitRemoveLock
<1>20. ASSUME NEW c \in Client, ExitRemoveRequest(c) PROVE IInv'
  BY <1>20 DEF ExitRemoveRequest
<1>21. ASSUME NEW c \in Client, Exit(c) PROVE IInv'
  BY <1>21 DEF Exit
<1>22. ASSUME NEW c \in Client, CleanupPid(c) PROVE IInv'
  BY <1>22 DEF CleanupPid
<1>23. ASSUME NEW c \in Client, NEW d \in Dirs, ListDir(c, d) PROVE IInv'
  <2>1. look' \in [Client -> {None} \cup [dir : Dirs, names : SUBSET issued']]
    <3>1. Contents(d) \in SUBSET issued /\ issued' = issued
      BY <1>23 DEF ListDir, Contents
    <3>2. [dir |-> d, names |-> Contents(d)] \in [dir : Dirs, names : SUBSET issued]
      BY <3>1
    <3>3. look' = look \/ look' = [look EXCEPT ![c] = [dir |-> d, names |-> Contents(d)]]
      BY <1>23 DEF ListDir
    <3>4. QED
      BY <3>1, <3>2, <3>3
  <2>2. TypeOK'
    BY <1>23, <2>1 DEF ListDir
  <2>3. QED
    BY <1>23, <2>2 DEF ListDir
<1>24. ASSUME NEW c \in Client, NEW r \in Request, RecoverRead(c, r) PROVE IInv'
  BY <1>24 DEF RecoverRead
<1>25. ASSUME NEW c \in Client, NEW r \in Request, Publish(c, r) PROVE IInv'
  BY <1>25 DEF Publish
<1>26. ASSUME NEW r \in Request, Claim(r) PROVE IInv'
  BY <1>26 DEF Claim
<1>27. ASSUME NEW r \in Request, SkipVanished(r) PROVE IInv'
  BY <1>27 DEF SkipVanished
<1>28. ASSUME AgeLock PROVE IInv'
  BY <1>28 DEF AgeLock
<1>29. ASSUME BridgeStart PROVE IInv'
  BY <1>29 DEF BridgeStart
<1>30. ASSUME Tick PROVE IInv'
  BY <1>30 DEF Tick
<1>31. ASSUME EndScan PROVE IInv'
  BY <1>31 DEF EndScan
<1>32. ASSUME Execute PROVE IInv'
  BY <1>32 DEF Execute
<1>33. ASSUME PersistResponse PROVE IInv'
  BY <1>33 DEF PersistResponse
<1>34. ASSUME PersistFails PROVE IInv'
  BY <1>34 DEF PersistFails
<1>35. ASSUME ReleaseClaim PROVE IInv'
  BY <1>35 DEF ReleaseClaim
<1>36. ASSUME ReleaseFails PROVE IInv'
  BY <1>36 DEF ReleaseFails
<1>37. ASSUME BridgeCrash PROVE IInv'
  BY <1>37 DEF BridgeCrash
<1>38. ASSUME NEW c \in Client, StatFiles(c) PROVE IInv'
  BY <1>38 DEF StatFiles
<1>39. CASE UNCHANGED vars
  <2>1. TypeOK'
    BY <1>39 DEF vars
  <2>2. QED
    BY <1>39, <2>1 DEF vars
<1> HIDE DEF IInv, TypeOK, At, Goto, Spend, Checked, OwnedBy, files, lockVars, clientVars, bridgeVars, history
<1>40. QED
  BY <1>1, <1>2, <1>3, <1>4, <1>5, <1>6, <1>7, <1>8, <1>9, <1>10, <1>11, <1>12, <1>13, <1>14,
     <1>15, <1>16, <1>17, <1>18, <1>19, <1>20, <1>21, <1>22, <1>23, <1>24, <1>25, <1>26, <1>27,
     <1>28, <1>29, <1>30, <1>31, <1>32, <1>33, <1>34, <1>35, <1>36, <1>37, <1>38, <1>39 DEF Next,
     ClientStep, ScopeStep, CallStep, BridgeStep, Environment

\* Only dispatch changes an execution count.
LEMMA ExecuteOrNot == [Next]_vars => Execute \/ UNCHANGED executions
  BY DEF Next, vars, ClientStep, ScopeStep, CallStep, BridgeStep, Environment, history, StartScope,
     AcquireLock, LockRefused, FindStaleLock, RemoveStaleLock, LeaveScope, BeginCheck, ListDir, StatFiles,
     Authorize, RecoverRead, RecoverRefused, RecoverConsume, Publish, PollMiss, PollHit, RemoveResponse, Settle,
     TimeOut, Withdraw, Crash, Signal, ExitRemoveLock, ExitRemoveRequest, Exit, CleanupPid, AgeLock,
     BridgeStart, Tick, Claim, SkipVanished, EndScan, PersistResponse, PersistFails, ReleaseClaim,
     ReleaseFails, BridgeCrash

\* Whatever any number of clients, crashes, signals and stale locks do, the
\* invariant holds.
THEOREM Invariance == Spec => []IInv
  BY InitInv, InvStep, PTL DEF Spec

\* The variables of the queue hold what they are meant to hold, for every set of
\* clients and requests.
THEOREM TypeCorrect == Spec => []TypeOK
<1>1. IInv => TypeOK
  BY DEF IInv
<1>2. QED
  BY Invariance, <1>1, PTL

\* No request is ever dispatched twice: the claim by rename is what keeps
\* claim_request from replaying one, with or without the lock.
THEOREM AtMostOnceHolds == Spec => []AtMostOnce
<1>1. IInv => AtMostOnce
  BY DEF IInv
<1>2. QED
  BY Invariance, <1>1, PTL

\* A dispatched mutation has its claim, its response or a reader of its outcome,
\* after any crash of either side and any cleanup.
THEOREM EvidenceIsKept == Spec => []EvidenceKept
<1>1. IInv => EvidenceKept
  BY DEF IInv
<1>2. QED
  BY Invariance, <1>1, PTL

\* What a timeout or a cleanup took out of queue/ is never dispatched.
THEOREM WithdrawnStaysOut == Spec => []WithdrawnNeverRuns
<1>1. IInv => WithdrawnNeverRuns
  BY DEF IInv, CountsAgree, WithdrawnNeverRuns
<1>2. QED
  BY Invariance, <1>1, PTL

\* The bridge never dispatches a request past a claim that was retained.
THEOREM RetainedClaimStops == Spec => NeverPastRetainedClaim
<1> DEFINE Alone == \A r \in Request : executions'[r] # executions[r] => processing \subseteq {r}
<1>1. ASSUME IInv, [Next]_vars PROVE [Alone]_vars
  <2>1. CASE Execute
    BY <1>1, <2>1 DEF IInv, ClaimIsAlone, Execute, Busy, TypeOK
  <2>2. CASE UNCHANGED executions
    BY <2>2
  <2>3. QED
    BY <1>1, <2>1, <2>2, ExecuteOrNot
<1>2. QED
  BY Invariance, <1>1, PTL DEF Spec, NeverPastRetainedClaim

-----------------------------------------------------------------------------
(* What is left of a request whose outcome is known                         *)

\* A client has only its own requests in flight.
CursIsOwn == \A c \in Client : cur[c] # None => Owner[cur[c]] = c

\* The bridge makes a claim only when there is none, so a claim that vanishes
\* leaves processing/ empty.
OneClaim == \A r, s \in processing : r = s

\* A directory that is listed and not yet looked at has not been found empty.
LookIsOpen ==
  \A c \in Client : look[c] # None =>
    At(c, "checking") /\ look[c].dir \in CheckedDirs(c) \ seen[c]

\* The response that a recovery has read was written by a dispatch.
TargetHasRun == \A c \in Client : target[c] # None => executions[target[c]] = 1

\* Its claim, if it is left, fails the second check of the recovery.
TargetIsSeen ==
  \A c \in Client : At(c, "checking") /\ target[c] # None /\ target[c] \in processing =>
    /\ "processing" \notin seen[c]
    /\ look[c] # None /\ look[c].dir = "processing" => look[c].names = {target[c]}

\* Who has read an outcome and left files of it is removing them, or is gone.
LearnedGoes ==
  \A r \in learned \cap (processing \cup responses) :
    LET c == Owner[r] IN
    pc[c] \in {"exiting", "unlocked", "dead"} \/ (pc[c] \in {"observed", "settling"} /\ cur[c] = r)

ResidueInv ==
  /\ CursIsOwn
  /\ OneClaim
  /\ LookIsOpen
  /\ TargetHasRun
  /\ TargetIsSeen
  /\ LearnedGoes

\* There are neither scopes nor files at the start.
LEMMA ResidueInit == Init => ResidueInv
  BY DEF Init, ResidueInv, CursIsOwn, OneClaim, LookIsOpen, TargetHasRun, TargetIsSeen, LearnedGoes, At

\* Every step of either side keeps ResidueInv.
LEMMA ResidueStep ==
  ASSUME IInv, ResidueInv, [Next]_vars
  PROVE  ResidueInv'
<1> USE ConstantsAssumption DEF IInv, TypeOK, Busy, Mutating, ClientPlaces, InScope, ScopeKinds,
       BridgePlaces, Faults, Dirs
<1> USE DEF At, Goto, files, lockVars, clientVars, bridgeVars, history, Sweep, ReleaseLock, OwnedBy,
       AbandonScan, Spend, Checked, ForgetScope, Contents, CheckedDirs, MayPublish
<1> USE DEF ResidueInv, CursIsOwn, OneClaim, LookIsOpen, TargetHasRun, TargetIsSeen, LearnedGoes,
       QueueIsFresh, ActiveIsClaimed, ActiveHasEvidence, ClaimIsAlone, CountsAgree, SettlesWhatItLearned
<1>1. ASSUME NEW c \in Client, AcquireLock(c) PROVE ResidueInv'
  BY <1>1 DEF AcquireLock
<1>2. ASSUME NEW c \in Client, LockRefused(c) PROVE ResidueInv'
  BY <1>2 DEF LockRefused
<1>3. ASSUME NEW c \in Client, FindStaleLock(c) PROVE ResidueInv'
  BY <1>3 DEF FindStaleLock
<1>4. ASSUME NEW c \in Client, RemoveStaleLock(c) PROVE ResidueInv'
  BY <1>4 DEF RemoveStaleLock
<1>5. ASSUME NEW c \in Client, LeaveScope(c) PROVE ResidueInv'
  BY <1>5 DEF LeaveScope
<1>6. ASSUME NEW c \in Client, BeginCheck(c) PROVE ResidueInv'
  BY <1>6 DEF BeginCheck
<1>7. ASSUME NEW c \in Client, Authorize(c) PROVE ResidueInv'
  BY <1>7 DEF Authorize
<1>8. ASSUME NEW c \in Client, StatFiles(c) PROVE ResidueInv'
  BY <1>8 DEF StatFiles
<1>9. ASSUME NEW c \in Client, RecoverRefused(c) PROVE ResidueInv'
  BY <1>9 DEF RecoverRefused
<1>10. ASSUME NEW c \in Client, RecoverConsume(c) PROVE ResidueInv'
  BY <1>10 DEF RecoverConsume
<1>11. ASSUME NEW c \in Client, PollMiss(c) PROVE ResidueInv'
  BY <1>11 DEF PollMiss
<1>12. ASSUME NEW c \in Client, PollHit(c) PROVE ResidueInv'
  BY <1>12 DEF PollHit
<1>13. ASSUME NEW c \in Client, RemoveResponse(c) PROVE ResidueInv'
  BY <1>13 DEF RemoveResponse
<1>14. ASSUME NEW c \in Client, Settle(c) PROVE ResidueInv'
  BY <1>14 DEF Settle
<1>15. ASSUME NEW c \in Client, TimeOut(c) PROVE ResidueInv'
  BY <1>15 DEF TimeOut
<1>16. ASSUME NEW c \in Client, Withdraw(c) PROVE ResidueInv'
  BY <1>16 DEF Withdraw
<1>17. ASSUME NEW c \in Client, Crash(c) PROVE ResidueInv'
  BY <1>17 DEF Crash
<1>18. ASSUME NEW c \in Client, Signal(c) PROVE ResidueInv'
  BY <1>18 DEF Signal
<1>19. ASSUME NEW c \in Client, ExitRemoveLock(c) PROVE ResidueInv'
  BY <1>19 DEF ExitRemoveLock
<1>20. ASSUME NEW c \in Client, ExitRemoveRequest(c) PROVE ResidueInv'
  BY <1>20 DEF ExitRemoveRequest
<1>21. ASSUME NEW c \in Client, Exit(c) PROVE ResidueInv'
  BY <1>21 DEF Exit
<1>22. ASSUME NEW c \in Client, CleanupPid(c) PROVE ResidueInv'
  BY <1>22 DEF CleanupPid
<1>23. ASSUME NEW c \in Client, NEW k \in ScopeKinds, StartScope(c, k) PROVE ResidueInv'
  BY <1>23 DEF StartScope
<1>24. ASSUME NEW c \in Client, NEW d \in Dirs, ListDir(c, d) PROVE ResidueInv'
  <2>1. look[c] = None /\ d \in CheckedDirs(c) \ seen[c] /\ At(c, "checking")
    BY <1>24 DEF ListDir
  <2>2. CASE Contents(d) = {}
    BY <1>24, <2>1, <2>2 DEF ListDir
  <2>3. CASE Contents(d) # {}
    <3> DEFINE entry == [dir |-> d, names |-> Contents(d)]
    <3>1. look' = [look EXCEPT ![c] = entry] /\ seen' = seen
      BY <1>24, <2>3 DEF ListDir
    <3>2. entry.dir = d /\ entry.names = Contents(d)
      OBVIOUS
    <3>3. look'[c] = entry /\ \A e \in Client \ {c} : look'[e] = look[e]
      BY <3>1
    <3> HIDE DEF entry
    <3>4. LookIsOpen'
      BY <1>24, <2>1, <3>1, <3>2, <3>3 DEF ListDir
    <3>5. TargetIsSeen'
      BY <1>24, <2>1, <3>1, <3>2, <3>3 DEF ListDir
    <3>6. (CursIsOwn /\ OneClaim /\ TargetHasRun /\ LearnedGoes)'
      BY <1>24 DEF ListDir
    <3>7. QED
      BY <3>4, <3>5, <3>6
  <2>4. QED
    BY <2>2, <2>3
<1>25. ASSUME NEW c \in Client, NEW r \in Request, RecoverRead(c, r) PROVE ResidueInv'
  BY <1>25 DEF RecoverRead
<1>26. ASSUME NEW c \in Client, NEW r \in Request, Publish(c, r) PROVE ResidueInv'
  BY <1>26 DEF Publish
<1>27. ASSUME NEW r \in Request, Claim(r) PROVE ResidueInv'
  BY <1>27 DEF Claim
<1>28. ASSUME NEW r \in Request, SkipVanished(r) PROVE ResidueInv'
  BY <1>28 DEF SkipVanished
<1>29. ASSUME AgeLock PROVE ResidueInv'
  BY <1>29 DEF AgeLock
<1>30. ASSUME BridgeStart PROVE ResidueInv'
  BY <1>30 DEF BridgeStart
<1>31. ASSUME Tick PROVE ResidueInv'
  BY <1>31 DEF Tick
<1>32. ASSUME EndScan PROVE ResidueInv'
  BY <1>32 DEF EndScan
<1>33. ASSUME Execute PROVE ResidueInv'
  BY <1>33 DEF Execute
<1>34. ASSUME PersistResponse PROVE ResidueInv'
  BY <1>34 DEF PersistResponse
<1>35. ASSUME PersistFails PROVE ResidueInv'
  BY <1>35 DEF PersistFails
<1>36. ASSUME ReleaseClaim PROVE ResidueInv'
  BY <1>36 DEF ReleaseClaim
<1>37. ASSUME ReleaseFails PROVE ResidueInv'
  BY <1>37 DEF ReleaseFails
<1>38. ASSUME BridgeCrash PROVE ResidueInv'
  BY <1>38 DEF BridgeCrash
<1>39. CASE UNCHANGED vars
  BY <1>39 DEF vars
<1> HIDE DEF IInv, TypeOK, ResidueInv, At, Goto, Spend, Checked, OwnedBy, files, lockVars, clientVars, bridgeVars, history
<1>40. QED
  BY <1>1, <1>2, <1>3, <1>4, <1>5, <1>6, <1>7, <1>8, <1>9, <1>10, <1>11, <1>12, <1>13, <1>14,
     <1>15, <1>16, <1>17, <1>18, <1>19, <1>20, <1>21, <1>22, <1>23, <1>24, <1>25, <1>26, <1>27,
     <1>28, <1>29, <1>30, <1>31, <1>32, <1>33, <1>34, <1>35, <1>36, <1>37, <1>38, <1>39 DEF
     Next, ClientStep, ScopeStep, CallStep, BridgeStep, Environment

\* Nothing of this needs the lock either.
THEOREM ResidueInvariance == Spec => []ResidueInv
<1>1. IInv /\ ResidueInv /\ [Next]_vars => ResidueInv'
  BY ResidueStep
<1>2. QED
  BY ResidueInit, Invariance, <1>1, PTL DEF Spec

\* Once the client of a request whose outcome was read is out of its scope, no
\* file of it is left, whoever has read the outcome and however.
THEOREM NoResidue == Spec => []NoResidueOfLearned
<1>1. IInv /\ ResidueInv => NoResidueOfLearned
  <2> SUFFICES ASSUME IInv, ResidueInv, NEW r \in learned, pc[Owner[r]] = "idle"
               PROVE  r \notin queue \cup processing \cup responses
    BY DEF NoResidueOfLearned
  <2>1. r \notin queue
    BY DEF IInv, QueueIsFresh, CountsAgree
  <2>2. r \notin processing \cup responses
    BY DEF ResidueInv, LearnedGoes
  <2>3. QED
    BY <2>1, <2>2
<1>2. QED
  BY Invariance, ResidueInvariance, <1>1, PTL

-----------------------------------------------------------------------------
(* What the lock is good for                                                *)

\* While no lock goes stale, the lock names the client that is in its scope.
HoldersOwnTheLock ==
  faults["aging"] = 0 =>
    /\ ~lockOld
    /\ \A c \in Client : /\ pc[c] # "removing"
                         /\ pc[c] \in InScope \cup {"exiting"} => lock = c

Undisturbed == faults["aging"] = 0 /\ faults["signal"] = 0

NobodyExits == faults["signal"] = 0 => \A c \in Client : pc[c] \notin {"exiting", "unlocked"}

\* Then a request in queue/ is that of the scope, or of its dead holder.
QueueIsHeld ==
  Undisturbed => \A r \in queue :
    LET c == Owner[r] IN
    /\ lock = c
    /\ pc[c] = "dead" \/ (pc[c] \in {"polling", "observed", "settling", "withdrawing"} /\ cur[c] = r)

\* What the bridge is about to run and has not been cancelled.
Ahead == bridge \in {"claimed", "executed"} /\ active \notin markers

AheadIsClaimed == Ahead => active \in processing

KindOfScope ==
  \A c \in Client : /\ At(c, "authorized") => kind[c] = "mutation"
                    /\ At(c, "recovering") => kind[c] = "recovery"

\* An idle check that lists processing/ finds it ...
AheadIsSeen ==
  Undisturbed => \A c \in Client :
    Ahead /\ look[c] # None /\ look[c].dir = "processing" => look[c].names = {active}

\* ... so that nothing but its own request is ahead of an authorized scope.
OwnIsAhead ==
  Undisturbed => \A c \in Client :
    /\ Ahead /\ kind[c] = "mutation"
    /\ \/ pc[c] \in {"authorized", "polling", "observed", "settling"}
       \/ At(c, "checking") /\ "processing" \in seen[c]
    => pc[c] \in {"polling", "observed", "settling"} /\ active = cur[c]

LockInv ==
  /\ HoldersOwnTheLock
  /\ NobodyExits
  /\ QueueIsHeld
  /\ AheadIsClaimed
  /\ KindOfScope
  /\ AheadIsSeen
  /\ OwnIsAhead

\* The lock is free, the bridge off.
LEMMA LockInit == Init => LockInv
  BY DEF Init, LockInv, HoldersOwnTheLock, NobodyExits, QueueIsHeld, Ahead, AheadIsClaimed, KindOfScope,
     AheadIsSeen, OwnIsAhead, InScope, At

\* Only an authorized scope of a mutation publishes.
LEMMA MutationsAreAuthorized ==
  ASSUME KindOfScope, NEW c \in Client, NEW r \in Request, MayPublish(c, r), kind[c] = "mutation"
  PROVE  At(c, "authorized")
  BY DEF KindOfScope, MayPublish, At

\* Every step keeps LockInv; Publish takes the most, for it is the step that puts
\* a request ahead of a scope.
LEMMA LockStep ==
  ASSUME IInv, ResidueInv, LockInv, [Next]_vars
  PROVE  LockInv'
<1> USE ConstantsAssumption DEF IInv, TypeOK, Busy, Mutating, ClientPlaces, InScope, ScopeKinds,
       BridgePlaces, Faults, Dirs
<1> USE DEF At, Goto, files, lockVars, clientVars, bridgeVars, history, Sweep, ReleaseLock, OwnedBy,
       AbandonScan, Spend, Checked, ForgetScope, Contents, CheckedDirs, MayPublish
<1> USE DEF LockInv, HoldersOwnTheLock, Undisturbed, NobodyExits, QueueIsHeld, Ahead, AheadIsClaimed,
       KindOfScope, AheadIsSeen, OwnIsAhead, ResidueInv, CursIsOwn, LookIsOpen, QueueIsFresh,
       ActiveIsClaimed, ActiveHasEvidence, ClaimIsAlone, CountsAgree, SettlesWhatItLearned
<1>1. ASSUME NEW c \in Client, AcquireLock(c) PROVE LockInv'
  BY <1>1 DEF AcquireLock
<1>2. ASSUME NEW c \in Client, LockRefused(c) PROVE LockInv'
  BY <1>2 DEF LockRefused
<1>3. ASSUME NEW c \in Client, FindStaleLock(c) PROVE LockInv'
  BY <1>3 DEF FindStaleLock
<1>4. ASSUME NEW c \in Client, RemoveStaleLock(c) PROVE LockInv'
  BY <1>4 DEF RemoveStaleLock
<1>5. ASSUME NEW c \in Client, LeaveScope(c) PROVE LockInv'
  BY <1>5 DEF LeaveScope
<1>6. ASSUME NEW c \in Client, BeginCheck(c) PROVE LockInv'
  BY <1>6 DEF BeginCheck
<1>7. ASSUME NEW c \in Client, Authorize(c) PROVE LockInv'
  BY <1>7 DEF Authorize
<1>8. ASSUME NEW c \in Client, StatFiles(c) PROVE LockInv'
  BY <1>8 DEF StatFiles
<1>9. ASSUME NEW c \in Client, RecoverRefused(c) PROVE LockInv'
  BY <1>9 DEF RecoverRefused
<1>10. ASSUME NEW c \in Client, RecoverConsume(c) PROVE LockInv'
  BY <1>10 DEF RecoverConsume
<1>11. ASSUME NEW c \in Client, PollMiss(c) PROVE LockInv'
  BY <1>11 DEF PollMiss
<1>12. ASSUME NEW c \in Client, PollHit(c) PROVE LockInv'
  BY <1>12 DEF PollHit
<1>13. ASSUME NEW c \in Client, RemoveResponse(c) PROVE LockInv'
  BY <1>13 DEF RemoveResponse
<1>14. ASSUME NEW c \in Client, Settle(c) PROVE LockInv'
  BY <1>14 DEF Settle
<1>15. ASSUME NEW c \in Client, TimeOut(c) PROVE LockInv'
  BY <1>15 DEF TimeOut
<1>16. ASSUME NEW c \in Client, Withdraw(c) PROVE LockInv'
  BY <1>16 DEF Withdraw
<1>17. ASSUME NEW c \in Client, Crash(c) PROVE LockInv'
  BY <1>17 DEF Crash
<1>18. ASSUME NEW c \in Client, Signal(c) PROVE LockInv'
  BY <1>18 DEF Signal
<1>19. ASSUME NEW c \in Client, ExitRemoveLock(c) PROVE LockInv'
  BY <1>19 DEF ExitRemoveLock
<1>20. ASSUME NEW c \in Client, ExitRemoveRequest(c) PROVE LockInv'
  BY <1>20 DEF ExitRemoveRequest
<1>21. ASSUME NEW c \in Client, Exit(c) PROVE LockInv'
  BY <1>21 DEF Exit
<1>22. ASSUME NEW c \in Client, CleanupPid(c) PROVE LockInv'
  BY <1>22 DEF CleanupPid
<1>23. ASSUME NEW c \in Client, NEW k \in ScopeKinds, StartScope(c, k) PROVE LockInv'
  BY <1>23 DEF StartScope
<1>24. ASSUME NEW c \in Client, NEW d \in Dirs, ListDir(c, d) PROVE LockInv'
  BY <1>24 DEF ListDir
<1>25. ASSUME NEW c \in Client, NEW r \in Request, RecoverRead(c, r) PROVE LockInv'
  BY <1>25 DEF RecoverRead
<1>26. ASSUME NEW c \in Client, NEW r \in Request, Publish(c, r) PROVE LockInv'
  <2>1. (HoldersOwnTheLock /\ NobodyExits /\ AheadIsClaimed /\ KindOfScope)'
    BY <1>26 DEF Publish
  <2>2. QueueIsHeld'
    BY <1>26 DEF Publish
  <2>3. Ahead' => Ahead /\ active' = active
    BY <1>26 DEF Publish
  <2>4. AheadIsSeen'
    BY <1>26, <2>3 DEF Publish
  <2>5. kind[c] = "mutation" => ~(Undisturbed /\ Ahead)
    <3>1. MayPublish(c, r)
      BY <1>26 DEF Publish
    <3>2. QED
      BY <3>1, MutationsAreAuthorized
  <2>6. OwnIsAhead'
    BY <1>26, <2>3, <2>5 DEF Publish
  <2>7. QED
    BY <2>1, <2>2, <2>4, <2>6
<1>27. ASSUME NEW r \in Request, Claim(r) PROVE LockInv'
  BY <1>27 DEF Claim
<1>28. ASSUME NEW r \in Request, SkipVanished(r) PROVE LockInv'
  BY <1>28 DEF SkipVanished
<1>29. ASSUME AgeLock PROVE LockInv'
  BY <1>29 DEF AgeLock
<1>30. ASSUME BridgeStart PROVE LockInv'
  BY <1>30 DEF BridgeStart
<1>31. ASSUME Tick PROVE LockInv'
  BY <1>31 DEF Tick
<1>32. ASSUME EndScan PROVE LockInv'
  BY <1>32 DEF EndScan
<1>33. ASSUME Execute PROVE LockInv'
  BY <1>33 DEF Execute
<1>34. ASSUME PersistResponse PROVE LockInv'
  BY <1>34 DEF PersistResponse
<1>35. ASSUME PersistFails PROVE LockInv'
  BY <1>35 DEF PersistFails
<1>36. ASSUME ReleaseClaim PROVE LockInv'
  BY <1>36 DEF ReleaseClaim
<1>37. ASSUME ReleaseFails PROVE LockInv'
  BY <1>37 DEF ReleaseFails
<1>38. ASSUME BridgeCrash PROVE LockInv'
  BY <1>38 DEF BridgeCrash
<1>39. CASE UNCHANGED vars
  BY <1>39 DEF vars
<1> HIDE DEF IInv, TypeOK, ResidueInv, LockInv, At, Goto, Spend, Checked, OwnedBy, files, lockVars, clientVars,
       bridgeVars, history
<1>40. QED
  BY <1>1, <1>2, <1>3, <1>4, <1>5, <1>6, <1>7, <1>8, <1>9, <1>10, <1>11, <1>12, <1>13, <1>14,
     <1>15, <1>16, <1>17, <1>18, <1>19, <1>20, <1>21, <1>22, <1>23, <1>24, <1>25, <1>26, <1>27,
     <1>28, <1>29, <1>30, <1>31, <1>32, <1>33, <1>34, <1>35, <1>36, <1>37, <1>38, <1>39 DEF
     Next, ClientStep, ScopeStep, CallStep, BridgeStep, Environment

\* With ResidueInv, LockInv holds of every run of clients, bridge and faults.
THEOREM LockInvariance == Spec => []LockInv
<1>1. IInv /\ ResidueInv /\ LockInv /\ [Next]_vars => LockInv'
  BY LockStep
<1>2. QED
  BY LockInit, Invariance, ResidueInvariance, <1>1, PTL DEF Spec

\* Scopes exclude each other as long as no lock goes stale, whoever crashes, is
\* interrupted or is cleaned up after.
THEOREM ScopesExclude == Spec => []ExclusiveScope
<1>1. LockInv => ExclusiveScope
  BY DEF LockInv, HoldersOwnTheLock, ExclusiveScope
<1>2. QED
  BY LockInvariance, <1>1, PTL

\* An authorized scope has nothing queued or running behind it.
THEOREM AuthorizedIsQuiescent == Spec => []AuthorizedMeansQuiescent
<1>1. LockInv => AuthorizedMeansQuiescent
  <2> SUFFICES ASSUME LockInv, Undisturbed, NEW c \in Client, At(c, "authorized")
               PROVE  queue = {} /\ ~Ahead
    BY DEF AuthorizedMeansQuiescent, Undisturbed, Ahead
  <2>1. lock = c
    BY DEF LockInv, HoldersOwnTheLock, Undisturbed, InScope, At
  <2>2. queue = {}
    BY <2>1 DEF LockInv, QueueIsHeld, At
  <2>3. ~Ahead
    BY DEF LockInv, OwnIsAhead, KindOfScope, At
  <2>4. QED
    BY <2>2, <2>3
<1>2. QED
  BY LockInvariance, <1>1, PTL

\* A recovery never takes the response that a client is polling for.
THEOREM OnlyOrphansAreTaken == Spec => RecoveryTakesOnlyOrphans
<1> DEFINE Orphan == \A c, d \in Client :
      RecoverConsume(c) /\ At(d, "polling") /\ faults["aging"] = 0 => cur[d] # target[c]
<1>1. LockInv => Orphan
  BY DEF LockInv, HoldersOwnTheLock, RecoverConsume, Checked, InScope, At
<1>2. LockInv => [Orphan]_vars
  BY <1>1
<1>3. QED
  BY LockInvariance, <1>2, PTL DEF RecoveryTakesOnlyOrphans

-----------------------------------------------------------------------------
(* The queue implements RequestLedger                                       *)

\* The steps that can move a request in the ledger; all others leave the
\* history alone.
LEMMA LedgerSteps ==
  ASSUME [Next]_vars
  PROVE  \/ UNCHANGED history
         \/ Execute
         \/ \E c \in Client : PollHit(c) \/ RecoverConsume(c)
         \/ \E c \in Client, r \in Request : Publish(c, r)
         \/ \E c \in Client : Withdraw(c) \/ ExitRemoveRequest(c) \/ CleanupPid(c)
  BY DEF Next, vars, ClientStep, ScopeStep, CallStep, BridgeStep, Environment, history,
     StartScope, AcquireLock, LockRefused, FindStaleLock, RemoveStaleLock, LeaveScope,
     BeginCheck, ListDir, StatFiles, Authorize, RecoverRead, RecoverRefused, PollMiss, RemoveResponse,
     Settle, TimeOut, Crash, Signal, ExitRemoveLock, Exit, AgeLock, BridgeStart, Tick, Claim,
     SkipVanished, EndScan, PersistResponse, PersistFails, ReleaseClaim, ReleaseFails,
     BridgeCrash

\* The stage of a request depends on the history alone.
LEMMA SameHistory == UNCHANGED history => \A r \in Request : Stage(r)' = Stage(r)
  BY DEF history, Stage

\* A step that moves one request, and no other, from one stage to the next.
LEMMA OneMoves ==
  ASSUME NEW r \in Request, NEW from, NEW to,
         Stage(r) = from, Stage(r)' = to,
         \A q \in Request \ {r} : Stage(q)' = Stage(q)
  PROVE  Ledger!Move(r, from, to)
  BY DEF Ledger!Move

\* Every step of the queue is a step of the ledger or leaves it as it is.
LEMMA StepIsLedgerStep ==
  ASSUME IInv, [Next]_vars
  PROVE  Ledger!Next \/ \A r \in Request : Stage(r)' = Stage(r)
<1> USE ConstantsAssumption DEF IInv, TypeOK, Mutating
<1>1. CASE UNCHANGED history
  BY <1>1, SameHistory
<1>2. CASE Execute
  <2>1. PICK r \in Request : r = active
    BY <1>2 DEF Execute, Busy
  <2>2. Stage(r) = "sent" /\ Stage(r)' = "done"
    BY <1>2, <2>1 DEF Execute, Stage, ActiveIsClaimed, ActiveHasEvidence, Busy
  <2>3. \A q \in Request \ {r} : Stage(q)' = Stage(q)
    BY <1>2, <2>1 DEF Execute, Stage
  <2>4. Ledger!Perform(r)
    BY <2>2, <2>3, OneMoves DEF Ledger!Perform
  <2>5. QED
    BY <2>4 DEF Ledger!Next
<1>3. ASSUME NEW c \in Client, PollHit(c) \/ RecoverConsume(c)
      PROVE  Ledger!Next \/ \A r \in Request : Stage(r)' = Stage(r)
  <2>1. CASE UNCHANGED learned
    BY <1>3, <2>1 DEF PollHit, RecoverConsume, Stage
  <2>2. ASSUME NEW r \in responses, r \notin learned, learned' = learned \cup {r}
        PROVE  Ledger!Next
    <3>1. r \in Request /\ Stage(r) = "done" /\ Stage(r)' = "known"
      BY <2>2 DEF Stage, CountsAgree
    <3>2. \A q \in Request \ {r} : Stage(q)' = Stage(q)
      BY <1>3, <2>2 DEF PollHit, RecoverConsume, Stage
    <3>3. Ledger!Learn(r)
      BY <3>1, <3>2, OneMoves DEF Ledger!Learn
    <3>4. QED
      BY <3>1, <3>3 DEF Ledger!Next
  <2>3. \/ UNCHANGED learned
        \/ \E r \in responses : r \notin learned /\ learned' = learned \cup {r}
    <3>1. CASE PollHit(c)
      BY <3>1 DEF PollHit
    <3>2. CASE RecoverConsume(c)
      <4>1. CASE target[c] \in responses /\ target[c] \notin learned
        BY <3>2, <4>1 DEF RecoverConsume
      <4>2. CASE target[c] \in learned
        <5>1. learned' = learned \cup {target[c]} \/ learned' = learned
          BY <3>2 DEF RecoverConsume
        <5>2. learned \cup {target[c]} = learned
          BY <4>2
        <5>3. QED
          BY <5>1, <5>2
      <4>3. CASE target[c] \notin responses
        BY <3>2, <4>3 DEF RecoverConsume
      <4>4. QED
        BY <4>1, <4>2, <4>3
    <3>3. QED
      BY <1>3, <3>1, <3>2
  <2>4. QED
    BY <2>1, <2>2, <2>3
<1>4. ASSUME NEW c \in Client, NEW r \in Request, Publish(c, r) PROVE Ledger!Next
  <2>1. Stage(r) = "unsent" /\ Stage(r)' = "sent"
    BY <1>4 DEF Publish, Stage, CountsAgree
  <2>2. \A q \in Request \ {r} : Stage(q)' = Stage(q)
    BY <1>4 DEF Publish, Stage
  <2>3. Ledger!Send(r)
    BY <2>1, <2>2, OneMoves DEF Ledger!Send
  <2>4. QED
    BY <2>3 DEF Ledger!Next
<1>5. ASSUME NEW c \in Client, Withdraw(c) \/ ExitRemoveRequest(c) \/ CleanupPid(c)
      PROVE  Ledger!Next
  <2> DEFINE R == withdrawn' \ withdrawn
  <2>1. R \subseteq queue /\ UNCHANGED <<issued, executions, learned>> /\ withdrawn' = withdrawn \cup R
    BY <1>5 DEF Withdraw, ExitRemoveRequest, CleanupPid, OwnedBy
  <2>2. \A r \in R : Stage(r) = "sent" /\ Stage(r)' = "withdrawn"
    <3>1. \A r \in R : r \in issued /\ executions[r] = 0 /\ r \notin withdrawn /\ r \in withdrawn'
      BY <2>1 DEF QueueIsFresh
    <3>2. \A r \in R : r \notin learned
      BY <3>1 DEF CountsAgree
    <3>3. QED
      BY <2>1, <3>1, <3>2 DEF Stage
  <2>3. \A r \in Request \ R : Stage(r)' = Stage(r)
    BY <2>1 DEF Stage
  <2>4. R \in SUBSET Request
    BY <2>1
  <2>5. Ledger!Withdraw(R)
    BY <2>2, <2>3, <2>4 DEF Ledger!Withdraw
  <2>6. QED
    BY <2>4, <2>5 DEF Ledger!Next
<1>6. QED
  BY <1>1, <1>2, <1>3, <1>4, <1>5, LedgerSteps

\* The queue, under all its faults, is an implementation of the ledger: requests
\* are sent, withdrawn, performed and answered in no other order than the
\* abstract one.
THEOREM QueueImplementsLedger == Spec => ImplementsLedger
<1>1. Init => Ledger!Init
  BY DEF Init, Ledger!Init, Stage
<1>2. ASSUME IInv, [Next]_vars PROVE [Ledger!Next]_[r \in Request |-> Stage(r)]
  <2>1. CASE \A r \in Request : Stage(r)' = Stage(r)
    BY <2>1
  <2>2. QED
    BY <1>2, <2>1, StepIsLedgerStep
<1>3. QED
  BY <1>1, <1>2, Invariance, PTL DEF Spec, ImplementsLedger, Ledger!Spec

=============================================================================
