------------------------ MODULE IdempotentStart_proofs ------------------------
(* Safety of IdempotentStart, for every number of calls and deaths: what is  *)
(* given is stored, one key has one task unless a recovery lock is stolen,   *)
(* intents begin once as long as nobody dies, and nothing is left blocked.   *)
EXTENDS IdempotentStart, TLAPS

\* Inside or about to leave a recovery that goes on at the place.
Leaving(c, place) == pc[c] \in {"release", "unlock"} /\ after[c] = place

\* The calls that have a task for an answer, or will when they have released
\* their lock.
HasTask(c) == c \in Given \/ Leaving(c, "recovered")

\* The calls that own the claim, and those that are about to replace it.
Creates(c) == pc[c] \in {"write", "finish"} \/ Leaving(c, "write")
Replaces(c) == pc[c] \in {"lookup", "complete", "adopt"}

\* A claim is there once a call has begun, and what a call has in hand is stored
\* from the time on that it may be given.
InHand ==
  /\ \A c \in Call : pc[c] # "idle" => claim # None
  /\ \A c \in Call : pc[c] = "finish" => tasks[c] # None
  /\ \A c \in Call : Replaces(c) => got[c] \in Call
  /\ \A c \in Call : HasTask(c) \/ pc[c] = "complete" => got[c] \in Call /\ tasks[got[c]] # None
  /\ claim # None => (claim.done => tasks[claim.task] # None)

StoredInv == TypeOK /\ InHand

\* Unless stolen, the recovery lock is that of the living call inside.
LockInv ==
  /\ ~stolen => \A c \in Call : Alive(c) /\ pc[c] \in Recovering =>
                   relock # None /\ relock.owner = c
  /\ relock # None => (Alive(relock.owner) => pc[relock.owner] \in Recovering)

\* Unless stolen, the claim is where each call thinks it is.
OneTask ==
  ~stolen => \A c \in Call :
    /\ HasTask(c) => claim.done /\ claim.task = got[c]
    /\ Alive(c) /\ Creates(c) => ~claim.done /\ claim.task = c
    /\ Alive(c) /\ Replaces(c) => ~claim.done /\ claim.task = got[c] /\ ~Alive(claim.task)

Held ==
  ~stolen /\ claim # None => (~claim.done /\ Alive(claim.task) => Creates(claim.task))

\* As long as nobody dies, nobody recovers, and only the claim's call begins.
Quiet == {"idle", "found", "answered", "refused", "write", "finish", "begin", "moving"}
BegunOnceInv ==
  dead = {} =>
    /\ \A c \in Call :
         /\ pc[c] \in Quiet
         /\ pc[c] \in {"write", "finish"} => claim.task = c /\ ~claim.done
         /\ pc[c] \in {"begin", "moving"} => claim.task = c /\ claim.done
    /\ starts = 0 \/ (starts = 1 /\ claim # None /\ claim.done /\ pc[claim.task] \in Ended)

IInv == StoredInv /\ LockInv /\ OneTask /\ Held /\ BegunOnceInv

LEMMA Records ==
  \A c \in Call :
    /\ FreshClaim(c) \in Claim /\ FreshClaim(c) # None
    /\ CompleteClaim(c) \in Claim /\ CompleteClaim(c) # None
    /\ FreshLock(c) \in Lock /\ FreshLock(c) # None
<1>1. \A c \in Call : FreshClaim(c) \in Claim /\ CompleteClaim(c) \in Claim /\ FreshLock(c) \in Lock
  BY DEF FreshClaim, CompleteClaim, FreshLock, Claim, Lock
<1>2. QED
  BY <1>1, RecordAssumption

LEMMA InitInv == Init => IInv
<1> SUFFICES ASSUME Init PROVE IInv
  OBVIOUS
<1> USE CallAssumption, RecordAssumption DEF Init
<1>1. StoredInv
  <2>1. TypeOK
    <3>1. pc \in [Call -> Place] /\ tries \in [Call -> 1 .. Attempts]
      BY DEF Place, Ended, Recovering, Attempts
    <3>2. after \in [Call -> {"recovered", "refused", "write"}]
      OBVIOUS
    <3>3. QED
      BY <3>1, <3>2 DEF TypeOK
  <2>2. InHand
    BY DEF InHand, HasTask, Given, Leaving, Replaces
  <2>3. QED
    BY <2>1, <2>2 DEF StoredInv
<1>2. LockInv /\ OneTask /\ Held /\ BegunOnceInv
  BY DEF LockInv, OneTask, Held, BegunOnceInv, HasTask, Given, Leaving, Creates, Replaces, Quiet, Recovering
<1>3. QED
  BY <1>1, <1>2 DEF IInv

-----------------------------------------------------------------------------
(* What is given is stored                                                  *)

LEMMA StoredStep == StoredInv /\ [Next]_vars => StoredInv'
<1> SUFFICES ASSUME StoredInv, [Next]_vars PROVE StoredInv'
  OBVIOUS
<1> USE CallAssumption, RecordAssumption DEF StoredInv, InHand, HasTask, Given, Leaving, Replaces, TypeOK, Claim, Lock, State, Place, Ended, Recovering, Attempts, Alive, At, Goto, files, history
<1>1. ASSUME NEW c \in Call, MakeClaim(c) PROVE StoredInv'
  <2>1. TypeOK'
    BY <1>1, Records DEF MakeClaim
  <2>2. InHand'
    BY <1>1, Records DEF MakeClaim, FreshClaim
  <2>3. QED
    BY <2>1, <2>2
<1>2. ASSUME NEW c \in Call, ReadClaim(c) PROVE StoredInv'
  BY <1>2 DEF ReadClaim, Thinks, Stale
<1>3. ASSUME NEW c \in Call, Write(c) PROVE StoredInv'
  BY <1>3 DEF Write
<1>4. ASSUME NEW c \in Call, Finish(c) PROVE StoredInv'
  BY <1>4, Records DEF Finish, CompleteClaim
<1>5. ASSUME NEW c \in Call, Open(c) PROVE StoredInv'
  BY <1>5, Records DEF Open
<1>6. ASSUME NEW c \in Call, Sign(c) PROVE StoredInv'
  BY <1>6 DEF Sign
<1>7. ASSUME NEW c \in Call, Judge(c) PROVE StoredInv'
  BY <1>7 DEF Judge, Thinks, StaleLock
<1>8. ASSUME NEW c \in Call, Unlink(c) PROVE StoredInv'
  BY <1>8 DEF Unlink, RemoveLock, Again
<1>9. ASSUME NEW c \in Call, Release(c) PROVE StoredInv'
  BY <1>9 DEF Release, Thinks
<1>10. ASSUME NEW c \in Call, Unlock(c) PROVE StoredInv'
  BY <1>10 DEF Unlock, RemoveLock
<1>11. ASSUME NEW c \in Call, Reread(c) PROVE StoredInv'
  BY <1>11 DEF Reread, Thinks, ReleaseFor, Stale
<1>12. ASSUME NEW c \in Call, Lookup(c) PROVE StoredInv'
  BY <1>12 DEF Lookup, Thinks
<1>13. ASSUME NEW c \in Call, Complete(c) PROVE StoredInv'
  BY <1>13, Records DEF Complete, CompleteClaim, ReleaseFor
<1>14. ASSUME NEW c \in Call, Adopt(c) PROVE StoredInv'
  BY <1>14, Records DEF Adopt, FreshClaim, ReleaseFor
<1>15. ASSUME NEW c \in Call, Recovered(c) PROVE StoredInv'
  BY <1>15 DEF Recovered, Thinks
<1>16. ASSUME NEW c \in Call, ReadTask(c) PROVE StoredInv'
  BY <1>16 DEF ReadTask, Thinks
<1>17. ASSUME NEW c \in Call, Begin(c) PROVE StoredInv'
  BY <1>17 DEF Begin
<1>18. ASSUME NEW c \in Call, Die(c) PROVE StoredInv'
  BY <1>18 DEF Die
<1>19. CASE LapseClaim
  BY <1>19 DEF LapseClaim
<1>20. CASE LapseLock
  BY <1>20 DEF LapseLock
<1>21. CASE UNCHANGED vars
  BY <1>21 DEF vars
<1> HIDE DEF StoredInv
<1>22. QED
  BY <1>1, <1>2, <1>3, <1>4, <1>5, <1>6, <1>7, <1>8, <1>9, <1>10, <1>11,
     <1>12, <1>13, <1>14, <1>15, <1>16, <1>17, <1>18, <1>19, <1>20, <1>21 DEF
     Next, Step

-----------------------------------------------------------------------------
(* Who has the recovery lock                                                *)

LEMMA LockStep == StoredInv /\ LockInv /\ [Next]_vars => LockInv'
<1> SUFFICES ASSUME StoredInv /\ LockInv, [Next]_vars PROVE LockInv'
  OBVIOUS
<1> USE CallAssumption, RecordAssumption DEF StoredInv, LockInv, TypeOK, Claim, Lock, State, Place, Ended, Recovering, Attempts, Alive, At, Goto, files, history
<1>1. ASSUME NEW c \in Call, MakeClaim(c) PROVE LockInv'
  BY <1>1, Records DEF MakeClaim, FreshClaim
<1>2. ASSUME NEW c \in Call, ReadClaim(c) PROVE LockInv'
  BY <1>2 DEF ReadClaim, Thinks, Stale
<1>3. ASSUME NEW c \in Call, Write(c) PROVE LockInv'
  BY <1>3 DEF Write
<1>4. ASSUME NEW c \in Call, Finish(c) PROVE LockInv'
  BY <1>4, Records DEF Finish, CompleteClaim
<1>5. ASSUME NEW c \in Call, Open(c) PROVE LockInv'
  BY <1>5, Records DEF Open, FreshLock
<1>6. ASSUME NEW c \in Call, Sign(c) PROVE LockInv'
  BY <1>6 DEF Sign
<1>7. ASSUME NEW c \in Call, Judge(c) PROVE LockInv'
  BY <1>7 DEF Judge, Thinks, StaleLock
<1>8. ASSUME NEW c \in Call, Unlink(c) PROVE LockInv'
  BY <1>8 DEF Unlink, RemoveLock, Again
<1>9. ASSUME NEW c \in Call, Release(c) PROVE LockInv'
  BY <1>9 DEF Release, Thinks
<1>10. ASSUME NEW c \in Call, Unlock(c) PROVE LockInv'
  BY <1>10 DEF Unlock, RemoveLock
<1>11. ASSUME NEW c \in Call, Reread(c) PROVE LockInv'
  BY <1>11 DEF Reread, Thinks, ReleaseFor, Stale
<1>12. ASSUME NEW c \in Call, Lookup(c) PROVE LockInv'
  BY <1>12 DEF Lookup, Thinks
<1>13. ASSUME NEW c \in Call, Complete(c) PROVE LockInv'
  BY <1>13, Records DEF Complete, CompleteClaim, ReleaseFor
<1>14. ASSUME NEW c \in Call, Adopt(c) PROVE LockInv'
  BY <1>14, Records DEF Adopt, FreshClaim, ReleaseFor
<1>15. ASSUME NEW c \in Call, Recovered(c) PROVE LockInv'
  BY <1>15 DEF Recovered, Thinks
<1>16. ASSUME NEW c \in Call, ReadTask(c) PROVE LockInv'
  BY <1>16 DEF ReadTask, Thinks
<1>17. ASSUME NEW c \in Call, Begin(c) PROVE LockInv'
  BY <1>17 DEF Begin
<1>18. ASSUME NEW c \in Call, Die(c) PROVE LockInv'
  BY <1>18 DEF Die
<1>19. CASE LapseClaim
  BY <1>19 DEF LapseClaim
<1>20. CASE LapseLock
  BY <1>20 DEF LapseLock
<1>21. CASE UNCHANGED vars
  BY <1>21 DEF vars
<1> HIDE DEF LockInv
<1>22. QED
  BY <1>1, <1>2, <1>3, <1>4, <1>5, <1>6, <1>7, <1>8, <1>9, <1>10, <1>11,
     <1>12, <1>13, <1>14, <1>15, <1>16, <1>17, <1>18, <1>19, <1>20, <1>21 DEF
     Next, Step

-----------------------------------------------------------------------------
(* One task                                                                 *)

LEMMA OneTaskStep == StoredInv /\ LockInv /\ OneTask /\ [Next]_vars => OneTask'
<1> SUFFICES ASSUME StoredInv /\ LockInv /\ OneTask, [Next]_vars PROVE OneTask'
  OBVIOUS
<1> USE CallAssumption, RecordAssumption DEF StoredInv, InHand, LockInv, OneTask, Creates, HasTask, Given, Leaving, Replaces, TypeOK, Claim, Lock, State, Place, Ended, Recovering, Attempts, Alive, At, Goto, files, history
<1>1. ASSUME NEW c \in Call, MakeClaim(c) PROVE OneTask'
  BY <1>1, Records DEF MakeClaim, FreshClaim
<1>2. ASSUME NEW c \in Call, ReadClaim(c) PROVE OneTask'
  BY <1>2 DEF ReadClaim, Thinks, Stale
<1>3. ASSUME NEW c \in Call, Write(c) PROVE OneTask'
  BY <1>3 DEF Write
<1>4. ASSUME NEW c \in Call, Finish(c) PROVE OneTask'
  BY <1>4, Records DEF Finish, CompleteClaim
<1>5. ASSUME NEW c \in Call, Open(c) PROVE OneTask'
  BY <1>5, Records DEF Open, FreshLock
<1>6. ASSUME NEW c \in Call, Sign(c) PROVE OneTask'
  BY <1>6 DEF Sign
<1>7. ASSUME NEW c \in Call, Judge(c) PROVE OneTask'
  BY <1>7 DEF Judge, Thinks, StaleLock
<1>8. ASSUME NEW c \in Call, Unlink(c) PROVE OneTask'
  BY <1>8 DEF Unlink, RemoveLock, Again
<1>9. ASSUME NEW c \in Call, Release(c) PROVE OneTask'
  BY <1>9 DEF Release, Thinks
<1>10. ASSUME NEW c \in Call, Unlock(c) PROVE OneTask'
  BY <1>10 DEF Unlock, RemoveLock
<1>11. ASSUME NEW c \in Call, Reread(c) PROVE OneTask'
  BY <1>11 DEF Reread, Thinks, ReleaseFor, Stale
<1>12. ASSUME NEW c \in Call, Lookup(c) PROVE OneTask'
  BY <1>12 DEF Lookup, Thinks
<1>13. ASSUME NEW c \in Call, Complete(c) PROVE OneTask'
  BY <1>13, Records DEF Complete, CompleteClaim, ReleaseFor
<1>14. ASSUME NEW c \in Call, Adopt(c) PROVE OneTask'
  BY <1>14, Records DEF Adopt, FreshClaim, ReleaseFor
<1>15. ASSUME NEW c \in Call, Recovered(c) PROVE OneTask'
  BY <1>15 DEF Recovered, Thinks
<1>16. ASSUME NEW c \in Call, ReadTask(c) PROVE OneTask'
  BY <1>16 DEF ReadTask, Thinks
<1>17. ASSUME NEW c \in Call, Begin(c) PROVE OneTask'
  BY <1>17 DEF Begin
<1>18. ASSUME NEW c \in Call, Die(c) PROVE OneTask'
  BY <1>18 DEF Die
<1>19. CASE LapseClaim
  BY <1>19 DEF LapseClaim
<1>20. CASE LapseLock
  BY <1>20 DEF LapseLock
<1>21. CASE UNCHANGED vars
  BY <1>21 DEF vars
<1> HIDE DEF OneTask
<1>22. QED
  BY <1>1, <1>2, <1>3, <1>4, <1>5, <1>6, <1>7, <1>8, <1>9, <1>10, <1>11,
     <1>12, <1>13, <1>14, <1>15, <1>16, <1>17, <1>18, <1>19, <1>20, <1>21 DEF
     Next, Step

-----------------------------------------------------------------------------
(* Nothing is held                                                          *)

LEMMA HeldStep == StoredInv /\ LockInv /\ OneTask /\ Held /\ [Next]_vars => Held'
<1> SUFFICES ASSUME StoredInv /\ LockInv /\ OneTask /\ Held, [Next]_vars PROVE Held'
  OBVIOUS
<1> USE CallAssumption, RecordAssumption DEF StoredInv, InHand, LockInv, OneTask, Held, Creates, HasTask, Given, Leaving, Replaces, TypeOK, Claim, Lock, State, Place, Ended, Recovering, Attempts, Alive, At, Goto, files, history
<1>1. ASSUME NEW c \in Call, MakeClaim(c) PROVE Held'
  BY <1>1, Records DEF MakeClaim, FreshClaim
<1>2. ASSUME NEW c \in Call, ReadClaim(c) PROVE Held'
  BY <1>2 DEF ReadClaim, Thinks, Stale
<1>3. ASSUME NEW c \in Call, Write(c) PROVE Held'
  BY <1>3 DEF Write
<1>4. ASSUME NEW c \in Call, Finish(c) PROVE Held'
  BY <1>4, Records DEF Finish, CompleteClaim
<1>5. ASSUME NEW c \in Call, Open(c) PROVE Held'
  BY <1>5, Records DEF Open, FreshLock
<1>6. ASSUME NEW c \in Call, Sign(c) PROVE Held'
  BY <1>6 DEF Sign
<1>7. ASSUME NEW c \in Call, Judge(c) PROVE Held'
  BY <1>7 DEF Judge, Thinks, StaleLock
<1>8. ASSUME NEW c \in Call, Unlink(c) PROVE Held'
  BY <1>8 DEF Unlink, RemoveLock, Again
<1>9. ASSUME NEW c \in Call, Release(c) PROVE Held'
  BY <1>9 DEF Release, Thinks
<1>10. ASSUME NEW c \in Call, Unlock(c) PROVE Held'
  BY <1>10 DEF Unlock, RemoveLock
<1>11. ASSUME NEW c \in Call, Reread(c) PROVE Held'
  BY <1>11 DEF Reread, Thinks, ReleaseFor, Stale
<1>12. ASSUME NEW c \in Call, Lookup(c) PROVE Held'
  BY <1>12 DEF Lookup, Thinks
<1>13. ASSUME NEW c \in Call, Complete(c) PROVE Held'
  BY <1>13, Records DEF Complete, CompleteClaim, ReleaseFor
<1>14. ASSUME NEW c \in Call, Adopt(c) PROVE Held'
  BY <1>14, Records DEF Adopt, FreshClaim, ReleaseFor
<1>15. ASSUME NEW c \in Call, Recovered(c) PROVE Held'
  BY <1>15 DEF Recovered, Thinks
<1>16. ASSUME NEW c \in Call, ReadTask(c) PROVE Held'
  BY <1>16 DEF ReadTask, Thinks
<1>17. ASSUME NEW c \in Call, Begin(c) PROVE Held'
  BY <1>17 DEF Begin
<1>18. ASSUME NEW c \in Call, Die(c) PROVE Held'
  BY <1>18 DEF Die
<1>19. CASE LapseClaim
  BY <1>19 DEF LapseClaim
<1>20. CASE LapseLock
  BY <1>20 DEF LapseLock
<1>21. CASE UNCHANGED vars
  BY <1>21 DEF vars
<1> HIDE DEF Held
<1>22. QED
  BY <1>1, <1>2, <1>3, <1>4, <1>5, <1>6, <1>7, <1>8, <1>9, <1>10, <1>11,
     <1>12, <1>13, <1>14, <1>15, <1>16, <1>17, <1>18, <1>19, <1>20, <1>21 DEF
     Next, Step

-----------------------------------------------------------------------------
(* Without deaths                                                           *)

LEMMA BegunOnceStep == StoredInv /\ BegunOnceInv /\ [Next]_vars => BegunOnceInv'
<1> SUFFICES ASSUME StoredInv /\ BegunOnceInv, [Next]_vars PROVE BegunOnceInv'
  OBVIOUS
<1> USE CallAssumption, RecordAssumption DEF StoredInv, InHand, BegunOnceInv, Quiet, HasTask, Given, Leaving, Replaces, TypeOK, Claim, Lock, State, Place, Ended, Recovering, Attempts, Alive, At, Goto, files, history
<1>1. ASSUME NEW c \in Call, MakeClaim(c) PROVE BegunOnceInv'
  BY <1>1, Records DEF MakeClaim, FreshClaim
<1>2. ASSUME NEW c \in Call, ReadClaim(c) PROVE BegunOnceInv'
  BY <1>2 DEF ReadClaim, Thinks, Stale
<1>3. ASSUME NEW c \in Call, Write(c) PROVE BegunOnceInv'
  BY <1>3 DEF Write
<1>4. ASSUME NEW c \in Call, Finish(c) PROVE BegunOnceInv'
  BY <1>4, Records DEF Finish, CompleteClaim
<1>5. ASSUME NEW c \in Call, Open(c) PROVE BegunOnceInv'
  BY <1>5, Records DEF Open, FreshLock
<1>6. ASSUME NEW c \in Call, Sign(c) PROVE BegunOnceInv'
  BY <1>6 DEF Sign
<1>7. ASSUME NEW c \in Call, Judge(c) PROVE BegunOnceInv'
  BY <1>7 DEF Judge, Thinks, StaleLock
<1>8. ASSUME NEW c \in Call, Unlink(c) PROVE BegunOnceInv'
  BY <1>8 DEF Unlink, RemoveLock, Again
<1>9. ASSUME NEW c \in Call, Release(c) PROVE BegunOnceInv'
  BY <1>9 DEF Release, Thinks
<1>10. ASSUME NEW c \in Call, Unlock(c) PROVE BegunOnceInv'
  BY <1>10 DEF Unlock, RemoveLock
<1>11. ASSUME NEW c \in Call, Reread(c) PROVE BegunOnceInv'
  BY <1>11 DEF Reread, Thinks, ReleaseFor, Stale
<1>12. ASSUME NEW c \in Call, Lookup(c) PROVE BegunOnceInv'
  BY <1>12 DEF Lookup, Thinks
<1>13. ASSUME NEW c \in Call, Complete(c) PROVE BegunOnceInv'
  BY <1>13, Records DEF Complete, CompleteClaim, ReleaseFor
<1>14. ASSUME NEW c \in Call, Adopt(c) PROVE BegunOnceInv'
  BY <1>14, Records DEF Adopt, FreshClaim, ReleaseFor
<1>15. ASSUME NEW c \in Call, Recovered(c) PROVE BegunOnceInv'
  BY <1>15 DEF Recovered, Thinks
<1>16. ASSUME NEW c \in Call, ReadTask(c) PROVE BegunOnceInv'
  BY <1>16 DEF ReadTask, Thinks
<1>17. ASSUME NEW c \in Call, Begin(c) PROVE BegunOnceInv'
  BY <1>17 DEF Begin
<1>18. ASSUME NEW c \in Call, Die(c) PROVE BegunOnceInv'
  BY <1>18 DEF Die
<1>19. CASE LapseClaim
  BY <1>19 DEF LapseClaim
<1>20. CASE LapseLock
  BY <1>20 DEF LapseLock
<1>21. CASE UNCHANGED vars
  BY <1>21 DEF vars
<1> HIDE DEF BegunOnceInv
<1>22. QED
  BY <1>1, <1>2, <1>3, <1>4, <1>5, <1>6, <1>7, <1>8, <1>9, <1>10, <1>11,
     <1>12, <1>13, <1>14, <1>15, <1>16, <1>17, <1>18, <1>19, <1>20, <1>21 DEF
     Next, Step

-----------------------------------------------------------------------------

\* The inductive invariant of every behaviour.
THEOREM Invariance == Spec => []IInv
<1>1. IInv /\ [Next]_vars => IInv'
  BY StoredStep, LockStep, OneTaskStep, HeldStep, BegunOnceStep DEF IInv
<1>2. QED
  BY InitInv, <1>1, PTL DEF Spec

\* Claims, locks, tasks and program points keep their types, and no call makes
\* more than three attempts at the recovery lock.
THEOREM TypeCorrect == Spec => []TypeOK
<1>1. IInv => TypeOK
  BY DEF IInv, StoredInv
<1>2. QED
  BY Invariance, <1>1, PTL

\* A completed claim names a stored task, and every task that a call is given is
\* stored.
THEOREM GivenTasksAreStoredHolds == Spec => []GivenTasksAreStored
<1>1. IInv => GivenTasksAreStored
  BY DEF IInv, StoredInv, InHand, HasTask, Given, GivenTasksAreStored
<1>2. QED
  BY Invariance, <1>1, PTL

\* All calls with one key are given one task, through any deaths and recoveries
\* that do not remove a living call's recovery lock.
THEOREM OneTaskUnlessStolenHolds == Spec => []OneTaskUnlessStolen
<1>1. IInv => OneTaskUnlessStolen
  BY DEF IInv, OneTask, HasTask, Given, OneTaskUnlessStolen, OneTaskPerKey
<1>2. QED
  BY Invariance, <1>1, PTL

\* As long as no process dies, the intent of a key begins once at most.
THEOREM BegunOnceWithoutDeathsHolds == Spec => []BegunOnceWithoutDeaths
<1>1. IInv => BegunOnceWithoutDeaths
  BY DEF IInv, BegunOnceInv, BegunOnceWithoutDeaths, BegunOnce
<1>2. QED
  BY Invariance, <1>1, PTL

\* No pending claim and no recovery lock is left to a living call that no longer
\* works on it.
THEOREM NothingIsHeldHolds == Spec => []NothingIsHeld
<1>1. IInv => NothingIsHeld
  BY DEF IInv, LockInv, Held, Creates, Leaving, NothingIsHeld
<1>2. QED
  BY Invariance, <1>1, PTL

=============================================================================
