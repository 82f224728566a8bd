--------------------------- MODULE TaskRequestLock ---------------------------
(***************************************************************************)
(* The lock file of one task: claimTaskRequest, releaseTaskRequest and       *)
(* recoverDeadTaskRequestLock in src/src/agent-task-store.mjs, as            *)
(* withTaskRequestSlot uses them.  Both files are created with link(2), so   *)
(* they appear with their content; every other file access is a step of its  *)
(* own.  A lock belongs to a request; what is asked of the operating system  *)
(* is whether the request's process is alive.                                *)
(***************************************************************************)
EXTENDS Naturals

CONSTANTS
  Request,  \* calls that name the task, each with owner_ids of its own
  Process,  \* node processes (pids)
  PidOf,    \* the process of each request
  Mortal,   \* bound: the processes that may die
  None

ASSUME RequestAssumption ==
  PidOf \in [Request -> Process] /\ None \notin Request

VARIABLES
  lock,     \* owner of <task>.lock
  recovery, \* owner of <task>.lock.recovery
  pc,       \* where each request is
  found,    \* the owner a request has read in the lock
  tries,    \* how many attempts a claim has left
  dead      \* processes that have died

vars == <<lock, recovery, pc, found, tries, dead>>

Attempts == 3

Place == {"idle", "create", "read", "judge", "recheck", "unlink", "removed", "lost",
          "held", "leaving"}

Alive(r) == PidOf[r] \notin dead
At(r, place) == pc[r] = place /\ Alive(r)
Goto(r, place) == pc' = [pc EXCEPT ![r] = place]

Init ==
  /\ lock = None /\ recovery = None
  /\ pc = [r \in Request |-> "idle"]
  /\ found = [r \in Request |-> None]
  /\ tries = [r \in Request |-> Attempts]
  /\ dead = {}

-----------------------------------------------------------------------------
(* claimTaskRequest                                                         *)

Claim(r) ==
  /\ At(r, "idle") /\ Goto(r, "create")
  /\ UNCHANGED <<lock, recovery, found, tries, dead>>

\* The claim returns, with the slot ("held") or with TASK_STATE_CONFLICT ("idle").
Return(r, place) == tries' = [tries EXCEPT ![r] = Attempts] /\ Goto(r, place)

Forget(r) == found' = [found EXCEPT ![r] = None]

Create(r) ==
  /\ At(r, "create")
  /\ \/ lock = None /\ lock' = r /\ Return(r, "held")
     \/ lock # None /\ UNCHANGED <<lock, tries>> /\ Goto(r, "read")
  /\ UNCHANGED <<recovery, found, dead>>

\* Mutant of Again: attempts are not counted.
AgainForever(r) == UNCHANGED tries /\ Goto(r, "create")

\* The next attempt, or the conflict after the last.
Again(r) ==
  \/ tries[r] > 1 /\ tries' = [tries EXCEPT ![r] = @ - 1] /\ Goto(r, "create")
  \/ tries[r] = 1 /\ Return(r, "idle")

Read(r) ==
  /\ At(r, "read")
  /\ \/ lock = None /\ Again(r) /\ UNCHANGED found
     \/ /\ lock # None /\ found' = [found EXCEPT ![r] = lock]
        /\ Goto(r, "judge") /\ UNCHANGED tries
  /\ UNCHANGED <<lock, recovery, dead>>

\* Mutant of Judge: the recovery file replaces one that is there.
JudgeAlone(r) ==
  /\ At(r, "judge")
  /\ \/ Alive(found[r]) /\ UNCHANGED recovery /\ Return(r, "idle") /\ Forget(r)
     \/ /\ ~Alive(found[r]) /\ recovery' = r
        /\ Goto(r, "recheck") /\ UNCHANGED <<found, tries>>
  /\ UNCHANGED <<lock, dead>>

\* A living owner, or a recovery under way, is a conflict.
Judge(r) ==
  /\ At(r, "judge")
  /\ \/ /\ Alive(found[r]) \/ recovery # None
        /\ UNCHANGED recovery /\ Return(r, "idle") /\ Forget(r)
     \/ /\ ~Alive(found[r]) /\ recovery = None /\ recovery' = r
        /\ Goto(r, "recheck") /\ UNCHANGED <<found, tries>>
  /\ UNCHANGED <<lock, dead>>

\* Mutant of Recheck: any lock that is there is removed.
RecheckPresence(r) ==
  /\ At(r, "recheck")
  /\ \/ lock = None /\ Goto(r, "removed")
     \/ lock # None /\ Goto(r, "unlink")
  /\ UNCHANGED <<lock, recovery, found, tries, dead>>

\* recoverDeadTaskRequestLock: only the dead owner's lock is removed.
Recheck(r) ==
  /\ At(r, "recheck")
  /\ \/ lock = None /\ Goto(r, "removed")
     \/ lock # None /\ lock = found[r] /\ Goto(r, "unlink")
     \/ lock # None /\ lock # found[r] /\ Goto(r, "lost")
  /\ UNCHANGED <<lock, recovery, found, tries, dead>>

Unlink(r) ==
  /\ At(r, "unlink")
  /\ lock' = None /\ Goto(r, "removed")
  /\ UNCHANGED <<recovery, found, tries, dead>>

\* Mutant of Settle: the recovery file stays when nothing was recovered.
SettleIfRemoved(r) ==
  /\ \/ At(r, "removed") /\ recovery' = None /\ Again(r)
     \/ At(r, "lost") /\ UNCHANGED recovery /\ Return(r, "idle")
  /\ Forget(r) /\ UNCHANGED <<lock, dead>>

\* The recovery file goes in any case.
Settle(r) ==
  /\ \/ At(r, "removed") /\ Again(r)
     \/ At(r, "lost") /\ Return(r, "idle")
  /\ recovery' = None /\ Forget(r)
  /\ UNCHANGED <<lock, dead>>

-----------------------------------------------------------------------------
(* releaseTaskRequest, after the callback                                   *)

CheckOwner(r) ==
  /\ At(r, "held")
  /\ \/ lock = r /\ Goto(r, "leaving")
     \/ lock # r /\ Goto(r, "idle")
  /\ UNCHANGED <<lock, recovery, found, tries, dead>>

Leave(r) ==
  /\ At(r, "leaving")
  /\ lock' = None /\ Goto(r, "idle")
  /\ UNCHANGED <<recovery, found, tries, dead>>

\* All requests of the process stop where they are, and the files stay.
Die(p) ==
  /\ p \in Mortal \ dead
  /\ dead' = dead \cup {p}
  /\ UNCHANGED <<lock, recovery, pc, found, tries>>

-----------------------------------------------------------------------------

Step(r) ==
  \/ Create(r) \/ Read(r) \/ Judge(r) \/ Recheck(r) \/ Unlink(r) \/ Settle(r)
  \/ CheckOwner(r) \/ Leave(r)

Next ==
  \/ \E r \in Request : Claim(r) \/ Step(r)
  \/ \E p \in Process : Die(p)

Spec == Init /\ [][Next]_vars

\* A living process runs; the callback of a request returns; and requests for
\* the task keep coming.
FairSpec == Spec /\ \A r \in Request : WF_vars(Step(r)) /\ WF_vars(Claim(r))

-----------------------------------------------------------------------------
(* Properties                                                               *)

\* Types, and no claim tries more than three times.
TypeOK ==
  /\ lock \in Request \cup {None} /\ recovery \in Request \cup {None}
  /\ pc \in [Request -> Place]
  /\ found \in [Request -> Request \cup {None}]
  /\ tries \in [Request -> 1 .. Attempts]
  /\ dead \subseteq Process

Inside == {r \in Request : pc[r] \in {"held", "leaving"} /\ Alive(r)}

Slot == INSTANCE RequestSlot WITH inside <- Inside

\* However claims, releases, deaths and recoveries interleave, at most one
\* living request of the task runs its callback, and one that does has the
\* slot until it leaves or dies (withTaskRequestSlot).
ImplementsSlot == Slot!Spec

\* A lock is only ever removed by its own request or after its process has died
\* (recoverDeadTaskRequestLock compares the owner again before it unlinks).
OnlyDeadLocksAreTaken ==
  [][lock # None /\ lock' # lock => ~Alive(lock) \/ pc[lock] = "leaving"]_vars

\* Every claim comes back, with the slot or with a conflict, and every request
\* gives the slot up.
ClaimsReturn == \A r \in Request : pc[r] # "idle" ~> (pc[r] = "idle" \/ ~Alive(r))

\* A recovery that its own process has not survived.
Orphaned == recovery # None /\ ~Alive(recovery)

\* The lock of a dead process is removed as long as somebody asks for the task
\* and no recoverer dies at it.
DeadLockGoes ==
  \A r \in Request : lock = r /\ ~Alive(r) ~> (lock # r \/ Orphaned)

=============================================================================
