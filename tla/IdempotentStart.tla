--------------------------- MODULE IdempotentStart ---------------------------
(***************************************************************************)
(* start_agent_task with one idempotency key: createTask and the create_task *)
(* side of claimIdempotency and recoverPendingIdempotencyClaim in            *)
(* src/src/agent-task-store.mjs, and the start of the intent in              *)
(* src/src/agent-gateway.mjs.  No request slot protects any of it: the task  *)
(* has no name yet that could be locked.                                     *)
(*                                                                         *)
(* The claim is created with link(2) and replaced with rename(2), so it is   *)
(* always complete; the recovery lock is opened first and written then.      *)
(* Calls of one process follow each other there, so each call stands for a   *)
(* process of its own.  Every file access is a step.                         *)
(***************************************************************************)
EXTENDS Naturals

CONSTANTS
  Call,    \* calls with this key, each in a process; and the task each may create
  Mortal,  \* bound: the calls whose process may die
  None

ASSUME CallAssumption == None \notin Call

VARIABLES
  claim,  \* the idempotency record of the key
  relock, \* its .recovery.lock
  tasks,  \* the state of each task that is stored
  pc,     \* where each call is
  after,  \* where a recovery goes on after it has released its lock
  got,    \* the task that a call has created, is given or looks up
  tries,  \* attempts left at the recovery lock
  dead,   \* processes that have died
  stolen, \* history: a living call's recovery lock was unlinked by another
  starts  \* history: how often an intent was begun

files == <<claim, relock, tasks>>
history == <<stolen, starts>>
vars == <<files, pc, after, got, tries, dead, history>>

Attempts == 3

Ended == {"answered", "refused"}
\* Inside recoverPendingIdempotencyClaim, with the recovery lock.
Recovering == {"sign", "reread", "lookup", "complete", "adopt", "release", "unlock"}
Place == Ended \cup Recovering \cup
  {"idle", "found", "open", "judge", "unlink", "write", "finish", "recovered", "begin", "moving"}
State == {"created", "understanding"}
\* A claim names the task of the call that made it, and so its owner_pid.
\* lapsed: its lease (of a lock not yet written: its age) is over.  That is
\* asked of the dead only.
Claim == [task : Call, done : BOOLEAN, lapsed : BOOLEAN]
Lock == [owner : Call, written : BOOLEAN, lapsed : BOOLEAN]

ASSUME RecordAssumption == None \notin State \cup Claim \cup Lock

Init ==
  /\ claim = None /\ relock = None
  /\ tasks = [c \in Call |-> None]
  /\ pc = [c \in Call |-> "idle"]
  /\ after = [c \in Call |-> "refused"]
  /\ got = [c \in Call |-> None]
  /\ tries = [c \in Call |-> Attempts]
  /\ dead = {} /\ stolen = FALSE /\ starts = 0

Alive(c) == c \notin dead
At(c, place) == pc[c] = place /\ Alive(c)
Goto(c, place) == pc' = [pc EXCEPT ![c] = place]
\* A step that changes no file.
Thinks == UNCHANGED <<files, dead, history>>

-----------------------------------------------------------------------------
(* createTask, claimIdempotency                                             *)

FreshClaim(c) == [task |-> c, done |-> FALSE, lapsed |-> FALSE]
CompleteClaim(c) == [task |-> c, done |-> TRUE, lapsed |-> FALSE]
FreshLock(c) == [owner |-> c, written |-> FALSE, lapsed |-> FALSE]

\* createJsonExclusive of the claim.
MakeClaim(c) ==
  /\ At(c, "idle")
  /\ \/ claim = None /\ claim' = FreshClaim(c) /\ Goto(c, "write")
     \/ claim # None /\ UNCHANGED claim /\ Goto(c, "found")
  /\ UNCHANGED <<relock, tasks, after, got, tries, dead, history>>

\* pendingClaimIsStale: the lease is over and the owner is dead.
Stale == ~claim.done /\ claim.lapsed /\ ~Alive(claim.task)
StaleLock == relock.lapsed /\ ~Alive(relock.owner)

\* Mutant of ReadClaim: only the lease is looked at.
ReadExpiredClaim(c) ==
  /\ At(c, "found")
  /\ \/ claim.done /\ got' = [got EXCEPT ![c] = claim.task] /\ Goto(c, "answered")
     \/ ~claim.done /\ Goto(c, "open") /\ UNCHANGED got
  /\ UNCHANGED <<after, tries>> /\ Thinks

\* A completed claim is replayed; a pending one is a conflict as long as its
\* owner lives or its lease lasts, and is recovered otherwise.
ReadClaim(c) ==
  /\ At(c, "found")
  /\ \/ claim.done /\ got' = [got EXCEPT ![c] = claim.task] /\ Goto(c, "answered")
     \/ ~claim.done /\ ~Stale /\ Goto(c, "refused") /\ UNCHANGED got
     \/ Stale /\ Goto(c, "open") /\ UNCHANGED got
  /\ UNCHANGED <<after, tries>> /\ Thinks

Write(c) ==
  /\ At(c, "write") /\ Goto(c, "finish")
  /\ tasks' = [tasks EXCEPT ![c] = "created"]
  /\ UNCHANGED <<claim, relock, after, got, tries, dead, history>>

\* finishIdempotencyClaim writes the record that the call remembers.
Finish(c) ==
  /\ At(c, "finish") /\ Goto(c, "begin")
  /\ claim' = CompleteClaim(c)
  /\ got' = [got EXCEPT ![c] = c]
  /\ UNCHANGED <<relock, tasks, after, tries, dead, history>>

-----------------------------------------------------------------------------
(* acquireIdempotencyRecoveryLock, releaseIdempotencyRecoveryLock            *)

Open(c) ==
  /\ At(c, "open")
  /\ \/ /\ relock = None /\ relock' = FreshLock(c)
        /\ Goto(c, "sign")
     \/ relock # None /\ UNCHANGED relock /\ Goto(c, "judge")
  /\ UNCHANGED <<claim, tasks, after, got, tries, dead, history>>

\* writeFile through the handle: nothing, when the file has been unlinked.
Sign(c) ==
  /\ At(c, "sign") /\ Goto(c, "reread")
  /\ relock' = IF relock # None /\ relock.owner = c THEN [relock EXCEPT !.written = TRUE] ELSE relock
  /\ UNCHANGED <<claim, tasks, after, got, tries, dead, history>>

\* idempotencyRecoveryLockIsStale: a lock that has gone counts as stale; one that
\* is there is stale when its owner has died and its lease, or age, is over.
Judge(c) ==
  /\ At(c, "judge")
  /\ \/ relock = None /\ Goto(c, "unlink")
     \/ relock # None /\ StaleLock /\ Goto(c, "unlink")
     \/ relock # None /\ ~StaleLock /\ Goto(c, "refused")
  /\ UNCHANGED <<after, got, tries>> /\ Thinks

\* The lock file goes, whoever has made it by now.
RemoveLock(c) ==
  /\ relock' = None
  /\ stolen' = (stolen \/ (relock # None /\ relock.owner # c /\ Alive(relock.owner)))

Again(c) ==
  \/ tries[c] > 1 /\ Goto(c, "open") /\ tries' = [tries EXCEPT ![c] = @ - 1]
  \/ tries[c] = 1 /\ Goto(c, "refused") /\ UNCHANGED tries

Unlink(c) ==
  /\ At(c, "unlink") /\ RemoveLock(c) /\ Again(c)
  /\ UNCHANGED <<claim, tasks, after, got, dead, starts>>

\* Mutant of Release: the lock is kept.
ReleaseNothing(c) ==
  /\ At(c, "release") /\ Goto(c, after[c])
  /\ UNCHANGED <<after, got, tries>> /\ Thinks

\* Another call's lock is let alone; one that is not written yet cannot be
\* parsed, and the error ends the call.
Release(c) ==
  /\ At(c, "release")
  /\ \/ relock = None /\ Goto(c, after[c])
     \/ relock # None /\ relock.owner = c /\ Goto(c, "unlock")
     \/ /\ relock # None /\ relock.owner # c
        /\ Goto(c, IF relock.written THEN after[c] ELSE "refused")
  /\ UNCHANGED <<after, got, tries>> /\ Thinks

Unlock(c) ==
  /\ At(c, "unlock") /\ RemoveLock(c) /\ Goto(c, after[c])
  /\ UNCHANGED <<claim, tasks, after, got, tries, dead, starts>>

-----------------------------------------------------------------------------
(* recoverPendingIdempotencyClaim of a create_task claim                    *)

ReleaseFor(c, place) == after' = [after EXCEPT ![c] = place] /\ Goto(c, "release")

\* Mutant of Reread: what was read before the lock is trusted.
RereadNothing(c) ==
  /\ At(c, "reread") /\ Goto(c, "lookup")
  /\ got' = [got EXCEPT ![c] = claim.task]
  /\ UNCHANGED <<after, tries>> /\ Thinks

Reread(c) ==
  /\ At(c, "reread")
  /\ \/ /\ claim.done /\ got' = [got EXCEPT ![c] = claim.task]
        /\ ReleaseFor(c, "recovered")
     \/ ~claim.done /\ ~Stale /\ ReleaseFor(c, "refused") /\ UNCHANGED got
     \/ Stale /\ Goto(c, "lookup") /\ got' = [got EXCEPT ![c] = claim.task] /\ UNCHANGED after
  /\ UNCHANGED tries /\ Thinks

\* Mutant of Lookup: the claim's task is taken to be stored.
LookupNothing(c) ==
  /\ At(c, "lookup") /\ Goto(c, "complete")
  /\ UNCHANGED <<after, got, tries>> /\ Thinks

\* getTask of the claim's task.
Lookup(c) ==
  /\ At(c, "lookup")
  /\ Goto(c, IF tasks[got[c]] # None THEN "complete" ELSE "adopt")
  /\ UNCHANGED <<after, got, tries>> /\ Thinks

\* recoveredCompletedClaim.
Complete(c) ==
  /\ At(c, "complete") /\ ReleaseFor(c, "recovered")
  /\ claim' = CompleteClaim(got[c])
  /\ UNCHANGED <<relock, tasks, got, tries, dead, history>>

\* No such task: the claim becomes this call's own.
Adopt(c) ==
  /\ At(c, "adopt") /\ ReleaseFor(c, "write")
  /\ claim' = FreshClaim(c)
  /\ UNCHANGED <<relock, tasks, got, tries, dead, history>>

-----------------------------------------------------------------------------
(* start: the intent is begun by the call that has created the task, or that *)
(* has recovered a task which nobody has begun.                              *)

Recovered(c) ==
  /\ At(c, "recovered")
  /\ Goto(c, IF tasks[got[c]] = "created" THEN "begin" ELSE "answered")
  /\ UNCHANGED <<after, got, tries>> /\ Thinks

\* transition to "understanding": getTask and assertTaskTransition ...
ReadTask(c) ==
  /\ At(c, "begin")
  /\ Goto(c, IF tasks[got[c]] = "created" THEN "moving" ELSE "refused")
  /\ UNCHANGED <<after, got, tries>> /\ Thinks

\* ... and writeTask, after which runIntent follows.
Begin(c) ==
  /\ At(c, "moving") /\ Goto(c, "answered")
  /\ tasks' = [tasks EXCEPT ![got[c]] = "understanding"]
  /\ starts' = starts + 1
  /\ UNCHANGED <<claim, relock, after, got, tries, dead, stolen>>

\* The process dies where it is, and its files stay.
Die(c) ==
  /\ c \in Mortal \ dead /\ dead' = dead \cup {c}
  /\ UNCHANGED <<files, pc, after, got, tries, history>>

\* Time passes.
LapseClaim ==
  /\ claim # None /\ ~claim.done /\ ~claim.lapsed /\ ~Alive(claim.task)
  /\ claim' = [claim EXCEPT !.lapsed = TRUE]
  /\ UNCHANGED <<relock, tasks, pc, after, got, tries, dead, history>>

LapseLock ==
  /\ relock # None /\ ~relock.lapsed /\ ~Alive(relock.owner)
  /\ relock' = [relock EXCEPT !.lapsed = TRUE]
  /\ UNCHANGED <<claim, tasks, pc, after, got, tries, dead, history>>

-----------------------------------------------------------------------------

Step(c) ==
  \/ MakeClaim(c) \/ ReadClaim(c) \/ Write(c) \/ Finish(c)
  \/ Open(c) \/ Sign(c) \/ Judge(c) \/ Unlink(c) \/ Release(c) \/ Unlock(c)
  \/ Reread(c) \/ Lookup(c) \/ Complete(c) \/ Adopt(c)
  \/ Recovered(c) \/ ReadTask(c) \/ Begin(c)

Next == LapseClaim \/ LapseLock \/ \E c \in Call : Step(c) \/ Die(c)

Spec == Init /\ [][Next]_vars

-----------------------------------------------------------------------------
(* Properties                                                               *)

TypeOK ==
  /\ claim \in Claim \cup {None} /\ relock \in Lock \cup {None}
  /\ tasks \in [Call -> State \cup {None}]
  /\ pc \in [Call -> Place]
  /\ after \in [Call -> {"recovered", "refused", "write"}]
  /\ got \in [Call -> Call \cup {None}]
  /\ tries \in [Call -> 1 .. Attempts]
  /\ dead \subseteq Call
  /\ stolen \in BOOLEAN /\ starts \in Nat

\* The calls that were given a task, as their own or as a replay.
Given == {c \in Call : pc[c] \in {"recovered", "begin", "moving", "answered"}}

\* No claim is complete, and no call is given a task, before that task is
\* stored: a replay never ends in TASK_NOT_FOUND (createTask writes the task
\* first).
GivenTasksAreStored ==
  /\ claim # None /\ claim.done => tasks[claim.task] # None
  /\ \A c \in Given : got[c] \in Call /\ tasks[got[c]] # None

\* "assert.equal(replay.task.task_id, created.task.task_id)": all calls with one
\* key are given the same task.
OneTaskPerKey == \A c, d \in Given : got[c] = got[d]

\* It holds through deaths and recoveries as long as no recovery lock is removed
\* under a living call (recoverPendingIdempotencyClaim).
OneTaskUnlessStolen == ~stolen => OneTaskPerKey

\* The intent of a key begins once at most: a key retained across retries makes
\* a retry safe.
BegunOnce == starts <= 1

\* It does as long as nobody dies, however the retries interleave.
BegunOnceWithoutDeaths == dead = {} => BegunOnce

\* A pending claim and a recovery lock are in the hands of a call that works on
\* them, or of nobody who lives: no key is blocked for good.  (After a theft an
\* unparsable lock may end the call that holds the claim.)
NothingIsHeld ==
  /\ ~stolen /\ claim # None /\ ~claim.done /\ Alive(claim.task) =>
       \/ pc[claim.task] \in {"write", "finish"}
       \/ pc[claim.task] \in {"release", "unlock"} /\ after[claim.task] = "write"
  /\ relock # None /\ Alive(relock.owner) => pc[relock.owner] \in Recovering

=============================================================================
