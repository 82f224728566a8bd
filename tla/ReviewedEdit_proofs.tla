------------------------- MODULE ReviewedEdit_proofs -------------------------
(***************************************************************************)
(* The reviewed edit for every number of processes, keys, inputs and calls,  *)
(* and for every set of processes that die.                                  *)
(***************************************************************************)
EXTENDS ReviewedEdit, TLAPS

AtAny(places) == call # None /\ call.at \in places

\* What a call works with from each place on: a key, an input of its own unless
\* it resumes the task, and a claim that is not complete.
CallIsOwn ==
  /\ AtAny(Place \ {"inspect"}) => call.key \in Key
  /\ AtAny({"claim", "recover", "rerun", "run", "execute", "apply", "receipt"}) =>
       call.input \in Input
  /\ AtAny(Place \ {"claim", "inspect", "leave"}) => Claimed(call.key) /\ ~Mine.done

\* The edit is handed over from "executing" only, where no way leads back.
OneAttempt ==
  /\ AttemptedOnce /\ commits <= attempts
  /\ task.state \in {"awaiting_input", "awaiting_review", "approved"} => attempts = 0
  /\ At("execute") => task.state = "approved"
  /\ At("apply") => task.state = "executing" /\ attempts = 0
  /\ At("receipt") => task.state = "executing" /\ commits = 1

\* A call finalizes with the receipt in the ledger.
FinalizesReceipt ==
  /\ ReceiptDecides
  /\ At("reclaim") \/ At("finalize") => receipt # None /\ task.state \in {"executing", "verifying"}
  /\ At("mark") => task.state = "completed"

AnswersAreKept ==
  /\ AnswersAreTrue
  /\ \A k \in Key : Claimed(k) /\ claims[k].response # None => claims[k].done

\* Before it owns its claim, and after it has let it go, a call leaves no claim
\* pending that a living process owns.
NothingIsHeld ==
  /\ NothingIsStuck
  /\ AtAny({"claim", "inspect", "recover", "reclaim", "abandoned", "envelope", "leave"}) =>
       \A k \in Key : Claimed(k) /\ ~claims[k].done => Gone(claims[k].owner)
  /\ AtAny({"claim", "inspect"}) => ~call.locked

IInv == TypeOK /\ CallIsOwn /\ OneAttempt /\ FinalizesReceipt /\ AnswersAreKept /\ NothingIsHeld

LEMMA InitInv == Init => IInv
  BY EditAssumption, RecordAssumption DEF Init, IInv, TypeOK, CallIsOwn, OneAttempt, FinalizesReceipt, AnswersAreKept,
     NothingIsHeld, AttemptedOnce, ReceiptDecides, AnswersAreTrue, NothingIsStuck, Task, State,
     Claimed, Gone, At, AtAny

-----------------------------------------------------------------------------
(* Types, and what a call works with                                        *)

TypeInv == TypeOK /\ CallIsOwn

LEMMA TypeStep == TypeInv /\ [Next]_vars => TypeInv'
<1> SUFFICES ASSUME TypeInv, [Next]_vars PROVE TypeInv'
  OBVIOUS
<1> USE EditAssumption, RecordAssumption DEF TypeInv, TypeOK, CallIsOwn, Task, Claim, Call, Receipt, State, Place,
        Claimed, Mine, At, AtAny, Goto, Stay, Left, Return, files, model,
        Slot!Enter, Begin, Slot!Exit, Moved, Touched
<1>1. ASSUME NEW p \in Process, Resume(p) PROVE TypeInv'
  <2> DEFINE c == [process |-> p, key |-> None, input |-> None, at |-> "inspect", locked |-> FALSE]
  <2>1. c \in Call /\ c.process = p /\ c.key = None /\ c.input = None /\ c.at = "inspect"
    OBVIOUS
  <2>2. call' = c /\ c # None /\ inside' = {p} /\ UNCHANGED <<task, files, dead, model>> /\ calls' = calls + 1
    BY <1>1, <2>1 DEF Resume, Enter, Begin
  <2> HIDE DEF c
  <2>3. QED
    BY <2>1, <2>2
<1>2. ASSUME NEW p \in Process, NEW k \in Key, NEW i \in Input, Submit(p, k, i) PROVE TypeInv'
  <2> DEFINE c == [process |-> p, key |-> k, input |-> i, at |-> "claim", locked |-> FALSE]
  <2>1. c \in Call /\ c.process = p /\ c.key = k /\ c.input = i /\ c.at = "claim"
    OBVIOUS
  <2>2. call' = c /\ c # None /\ inside' = {p} /\ UNCHANGED <<task, files, dead, model>> /\ calls' = calls + 1
    BY <1>2, <2>1 DEF Submit, Enter, Begin
  <2> HIDE DEF c
  <2>3. QED
    BY <2>1, <2>2
<1>3. CASE NewClaim
  <2>1. call \in Call /\ call.key \in Key /\ call.input \in Input
    BY <1>3 DEF NewClaim
  <2>2. FreshClaim \in Claim /\ ~FreshClaim.done
    BY <2>1 DEF FreshClaim
  <2> HIDE DEF Claim
  <2>3. QED
    BY <1>3, <2>1, <2>2 DEF NewClaim
<1>4. CASE Conflict
  BY <1>4 DEF Conflict
<1>5. CASE Replay
  BY <1>5 DEF Replay
<1>6. CASE LockPending
  <2> DEFINE c == [call EXCEPT !.at = "recover", !.key = call.key, !.locked = TRUE]
  <2>1. call \in Call /\ call # None /\ call.key \in Key
    BY <1>6 DEF LockPending
  <2>2. c \in Call /\ c.at = "recover" /\ c.key = call.key /\ c.process = call.process /\ c.input = call.input
    BY <2>1
  <2>3. call' = c /\ c # None
    BY <1>6, <2>2 DEF LockPending, Lock
  <2> HIDE DEF c
  <2>4. QED
    BY <1>6, <2>1, <2>2, <2>3 DEF LockPending, Lock, Stale
<1>7. CASE Recover
  <2>1. call \in Call /\ call.key \in Key /\ call.input \in Input /\ Mine \in Claim /\ ~Mine.done
    BY <1>7 DEF Recover
  <2>2. FreshClaim \in Claim /\ ~FreshClaim.done
    BY <2>1 DEF FreshClaim
  <2>3. /\ [Mine EXCEPT !.owner = call.process] \in Claim
        /\ ~[Mine EXCEPT !.owner = call.process].done
        /\ [Mine EXCEPT !.done = TRUE] \in Claim
    BY <2>1
  <2>4. PICK c \in Claim :
          /\ claims' \in {claims, [claims EXCEPT ![call.key] = c]}
          /\ call' = [call EXCEPT !.at = "leave"] \/ (~c.done /\ (claims' = claims => ~Mine.done) /\ \E place \in {"finalize", "rerun"} : Goto(place))
    BY <1>7, <2>1, <2>2, <2>3 DEF Recover
  <2> HIDE DEF Claim
  <2>5. QED
    BY <1>7, <2>1, <2>4 DEF Recover
<1>8. CASE Rerun
  <2> DEFINE c == [call EXCEPT !.at = "run", !.locked = FALSE]
  <2>1. call \in Call /\ call # None /\ call.key \in Key
    BY <1>8 DEF Rerun, Unlock
  <2>2. c \in Call /\ c.at = "run" /\ c.key = call.key /\ c.process = call.process /\ c.input = call.input
    BY <2>1
  <2>3. call' = c /\ c # None
    BY <1>8, <2>2 DEF Rerun, Unlock
  <2> HIDE DEF c
  <2>4. QED
    BY <1>8, <2>1, <2>2, <2>3 DEF Rerun, Unlock, Unlocked
<1>9. CASE Leave
  BY <1>9 DEF Leave, Unlocked
<1>10. CASE InspectOnly
  BY <1>10 DEF InspectOnly
<1>11. CASE InspectAndLock
  <2> DEFINE c == [call EXCEPT !.at = "reclaim", !.key = receipt.key, !.locked = TRUE]
  <2>1. call \in Call /\ call # None /\ receipt.key \in Key
    BY <1>11 DEF InspectAndLock
  <2>2. c \in Call /\ c.at = "reclaim" /\ c.key = receipt.key /\ c.process = call.process /\ c.input = call.input
    BY <2>1
  <2>3. call' = c /\ c # None
    BY <1>11, <2>2 DEF InspectAndLock, Lock
  <2> HIDE DEF c
  <2>4. QED
    BY <1>11, <2>1, <2>2, <2>3 DEF InspectAndLock, Lock, Stale
<1>12. CASE Reclaim
  BY <1>12 DEF Reclaim
<1>13. CASE Refused
  BY <1>13 DEF Refused
<1>14. CASE Approve
  BY <1>14 DEF Approve
<1>15. CASE Execute
  BY <1>15 DEF Execute
<1>16. CASE Apply
  BY <1>16 DEF Apply
<1>17. CASE RecordReceipt
  BY <1>17 DEF RecordReceipt
<1>18. CASE StartVerifying
  BY <1>18 DEF StartVerifying
<1>19. CASE Verified
  BY <1>19 DEF Verified
<1>20. CASE NotVerified
  BY <1>20 DEF NotVerified
<1>21. CASE Mark
  BY <1>21 DEF Mark
<1>22. CASE RecoverableError
  BY <1>22 DEF RecoverableError, Abandon
<1>23. CASE Abandoned
  <2> DEFINE to == IF task.state = "completed" THEN "leave" ELSE "envelope"
             c == [call EXCEPT !.at = to, !.locked = FALSE]
  <2>1. call \in Call /\ call # None /\ call.key \in Key /\ to \in {"leave", "envelope"}
    BY <1>23 DEF Abandoned, Unlock
  <2>2. c \in Call /\ c.at = to /\ c.key = call.key /\ c.process = call.process
    BY <2>1
  <2>3. call' = c /\ c # None
    BY <1>23, <2>2 DEF Abandoned, Unlock
  <2> HIDE DEF c, to
  <2>4. QED
    BY <1>23, <2>1, <2>2, <2>3 DEF Abandoned, Unlock, Unlocked
<1>24. CASE ForeignReceipt
  BY <1>24 DEF ForeignReceipt
<1>25. CASE FinalError
  BY <1>25 DEF FinalError, StatesAfterError
<1>26. CASE Envelope
  BY <1>26 DEF Envelope
<1>27. CASE Answer
  <2> DEFINE c == [Mine EXCEPT !.done = TRUE, !.response = Response]
  <2>1. call \in Call /\ call.key \in Key /\ Mine \in Claim
    BY <1>27 DEF Answer
  <2>2. c \in Claim
    BY <2>1 DEF Response
  <2>3. claims' = [claims EXCEPT ![call.key] = c]
    BY <1>27 DEF Answer
  <2> HIDE DEF c, Claim
  <2>4. QED
    BY <1>27, <2>1, <2>2, <2>3 DEF Answer
<1>28. ASSUME NEW p \in Process, Crash(p) PROVE TypeInv'
  BY <1>28 DEF Crash
<1>29. CASE UNCHANGED vars
  BY <1>29 DEF vars
<1> HIDE DEF TypeInv
<1>30. QED
  BY <1>1, <1>2, <1>3, <1>4, <1>5, <1>6, <1>7, <1>8, <1>9, <1>10, <1>11, <1>12, <1>13, <1>14, <1>15, <1>16, <1>17, <1>18, <1>19, <1>20, <1>21, <1>22, <1>23, <1>24, <1>25, <1>26, <1>27, <1>28, <1>29 DEF Next, Step

-----------------------------------------------------------------------------
(* The edit is attempted once                                               *)

LEMMA OneAttemptStep == TypeInv /\ OneAttempt /\ [Next]_vars => OneAttempt'
<1> SUFFICES ASSUME TypeInv /\ OneAttempt, [Next]_vars PROVE OneAttempt'
  OBVIOUS
<1>0. TypeInv'
  BY TypeStep
<1> USE <1>0, EditAssumption, RecordAssumption DEF TypeInv, TypeOK, CallIsOwn, OneAttempt,
        AttemptedOnce, Task, State, Reviewed, Claimed, Mine, At, AtAny, Goto, Stay, Left, Return, files, model,
        Slot!Enter, Begin, Slot!Exit, Moved, Touched
<1>1. ASSUME NEW p \in Process, Resume(p) PROVE OneAttempt'
  BY <1>1 DEF Resume, Enter, Begin
<1>2. ASSUME NEW p \in Process, NEW k \in Key, NEW i \in Input, Submit(p, k, i) PROVE OneAttempt'
  BY <1>2 DEF Submit, Enter, Begin
<1>3. CASE NewClaim
  BY <1>3 DEF NewClaim, FreshClaim
<1>4. CASE Conflict
  BY <1>4 DEF Conflict
<1>5. CASE Replay
  BY <1>5 DEF Replay
<1>6. CASE LockPending
  BY <1>6 DEF LockPending, Lock, Stale
<1>7. CASE Recover
  <2>1. /\ call' = [call EXCEPT !.at = "finalize"] \/ call' = [call EXCEPT !.at = "leave"]
             \/ call' = [call EXCEPT !.at = "rerun"]
        /\ call \in Call /\ UNCHANGED <<task, model>>
    BY <1>7 DEF Recover
  <2>2. call'.at \in {"finalize", "leave", "rerun"}
    BY <2>1 DEF Call
  <2>3. QED
    BY <2>1, <2>2
<1>8. CASE Rerun
  BY <1>8 DEF Rerun, Unlock, Unlocked
<1>9. CASE Leave
  BY <1>9 DEF Leave, Unlocked
<1>10. CASE InspectOnly
  BY <1>10 DEF InspectOnly
<1>11. CASE InspectAndLock
  BY <1>11 DEF InspectAndLock, Lock, Stale
<1>12. CASE Reclaim
  BY <1>12 DEF Reclaim
<1>13. CASE Refused
  BY <1>13 DEF Refused
<1>14. CASE Approve
  BY <1>14 DEF Approve
<1>15. CASE Execute
  BY <1>15 DEF Execute
<1>16. CASE Apply
  <2>1. call'.at \in {"receipt", "error"} /\ commits' \in {commits, commits + 1} /\ attempts' = attempts + 1
    BY <1>16 DEF Apply, Call
  <2>2. call'.at = "receipt" => commits' = commits + 1
    BY <1>16 DEF Apply, Call
  <2>3. QED
    BY <1>16, <2>1, <2>2 DEF Apply
<1>17. CASE RecordReceipt
  <2>1. call'.at \in {"finalize", "error"}
    BY <1>17 DEF RecordReceipt, Call
  <2>2. QED
    BY <1>17, <2>1 DEF RecordReceipt
<1>18. CASE StartVerifying
  BY <1>18 DEF StartVerifying
<1>19. CASE Verified
  BY <1>19 DEF Verified
<1>20. CASE NotVerified
  BY <1>20 DEF NotVerified
<1>21. CASE Mark
  BY <1>21 DEF Mark
<1>22. CASE RecoverableError
  BY <1>22 DEF RecoverableError, Abandon
<1>23. CASE Abandoned
  BY <1>23 DEF Abandoned, Unlock, Unlocked
<1>24. CASE ForeignReceipt
  BY <1>24 DEF ForeignReceipt
<1>25. CASE FinalError
  BY <1>25 DEF FinalError, StatesAfterError
<1>26. CASE Envelope
  BY <1>26 DEF Envelope
<1>27. CASE Answer
  BY <1>27 DEF Answer, Response
<1>28. ASSUME NEW p \in Process, Crash(p) PROVE OneAttempt'
  BY <1>28 DEF Crash
<1>29. CASE UNCHANGED vars
  BY <1>29 DEF vars
<1> HIDE DEF TypeInv, OneAttempt
<1>30. QED
  BY <1>1, <1>2, <1>3, <1>4, <1>5, <1>6, <1>7, <1>8, <1>9, <1>10, <1>11, <1>12, <1>13, <1>14, <1>15, <1>16, <1>17, <1>18, <1>19, <1>20, <1>21, <1>22, <1>23, <1>24, <1>25, <1>26, <1>27, <1>28, <1>29 DEF Next, Step

-----------------------------------------------------------------------------
(* The receipt decides                                                      *)

LEMMA ReceiptStep == TypeInv /\ OneAttempt /\ FinalizesReceipt /\ [Next]_vars => FinalizesReceipt'
<1> SUFFICES ASSUME TypeInv /\ OneAttempt /\ FinalizesReceipt, [Next]_vars PROVE FinalizesReceipt'
  OBVIOUS
<1>0. TypeInv'
  BY TypeStep
<1> USE <1>0, EditAssumption, RecordAssumption DEF TypeInv, TypeOK, CallIsOwn, OneAttempt, FinalizesReceipt,
        ReceiptDecides, Receipt, Task, State, Reviewed, MayHaveStarted, ReceiptMatches, Claimed, Mine, At, AtAny, Goto, Stay, Left, Return, files, model,
        Slot!Enter, Begin, Slot!Exit, Moved, Touched
<1>1. ASSUME NEW p \in Process, Resume(p) PROVE FinalizesReceipt'
  BY <1>1 DEF Resume, Enter, Begin
<1>2. ASSUME NEW p \in Process, NEW k \in Key, NEW i \in Input, Submit(p, k, i) PROVE FinalizesReceipt'
  BY <1>2 DEF Submit, Enter, Begin
<1>3. CASE NewClaim
  BY <1>3 DEF NewClaim, FreshClaim
<1>4. CASE Conflict
  BY <1>4 DEF Conflict
<1>5. CASE Replay
  BY <1>5 DEF Replay
<1>6. CASE LockPending
  BY <1>6 DEF LockPending, Lock, Stale
<1>7. CASE Recover
  <2>1. /\ \/ call' = [call EXCEPT !.at = "finalize"] /\ MayHaveStarted /\ receipt # None
           \/ call' = [call EXCEPT !.at = "leave"] \/ call' = [call EXCEPT !.at = "rerun"]
        /\ call \in Call /\ UNCHANGED <<task, receipt, model>>
    BY <1>7 DEF Recover
  <2>2. /\ call'.at \in {"finalize", "leave", "rerun"}
        /\ call'.at = "finalize" => MayHaveStarted /\ receipt # None
    BY <2>1 DEF Call
  <2>3. QED
    BY <2>1, <2>2
<1>8. CASE Rerun
  BY <1>8 DEF Rerun, Unlock, Unlocked
<1>9. CASE Leave
  BY <1>9 DEF Leave, Unlocked
<1>10. CASE InspectOnly
  BY <1>10 DEF InspectOnly
<1>11. CASE InspectAndLock
  BY <1>11 DEF InspectAndLock, Lock, Stale
<1>12. CASE Reclaim
  BY <1>12 DEF Reclaim
<1>13. CASE Refused
  BY <1>13 DEF Refused
<1>14. CASE Approve
  BY <1>14 DEF Approve
<1>15. CASE Execute
  BY <1>15 DEF Execute
<1>16. CASE Apply
  <2>1. call'.at \in {"receipt", "error"}
    BY <1>16 DEF Apply, Call
  <2>2. receipt = None /\ UNCHANGED <<task, receipt>>
    BY <1>16 DEF Apply
  <2>3. QED
    BY <2>1, <2>2
<1>17. CASE RecordReceipt
  <2>1. /\ call'.at \in {"finalize", "error"} /\ UNCHANGED <<task, model>>
        /\ task.state = "executing" /\ commits = 1
    BY <1>17 DEF RecordReceipt, Call
  <2>2. \/ receipt' \in Receipt
        \/ receipt' = receipt /\ call'.at = "error"
    BY <1>17 DEF RecordReceipt, Call
  <2>3. QED
    BY <2>1, <2>2
<1>18. CASE StartVerifying
  BY <1>18 DEF StartVerifying
<1>19. CASE Verified
  BY <1>19 DEF Verified
<1>20. CASE NotVerified
  BY <1>20 DEF NotVerified
<1>21. CASE Mark
  BY <1>21 DEF Mark
<1>22. CASE RecoverableError
  BY <1>22 DEF RecoverableError, Abandon
<1>23. CASE Abandoned
  BY <1>23 DEF Abandoned, Unlock, Unlocked
<1>24. CASE ForeignReceipt
  BY <1>24 DEF ForeignReceipt
<1>25. CASE FinalError
  BY <1>25 DEF FinalError, StatesAfterError
<1>26. CASE Envelope
  BY <1>26 DEF Envelope
<1>27. CASE Answer
  BY <1>27 DEF Answer, Response
<1>28. ASSUME NEW p \in Process, Crash(p) PROVE FinalizesReceipt'
  BY <1>28 DEF Crash
<1>29. CASE UNCHANGED vars
  BY <1>29 DEF vars
<1> HIDE DEF TypeInv, FinalizesReceipt
<1>30. QED
  BY <1>1, <1>2, <1>3, <1>4, <1>5, <1>6, <1>7, <1>8, <1>9, <1>10, <1>11, <1>12, <1>13, <1>14, <1>15, <1>16, <1>17, <1>18, <1>19, <1>20, <1>21, <1>22, <1>23, <1>24, <1>25, <1>26, <1>27, <1>28, <1>29 DEF Next, Step

-----------------------------------------------------------------------------
(* Answers are kept and true                                                *)

LEMMA AnswersStep == TypeInv /\ OneAttempt /\ AnswersAreKept /\ [Next]_vars => AnswersAreKept'
<1> SUFFICES ASSUME TypeInv /\ OneAttempt /\ AnswersAreKept, [Next]_vars PROVE AnswersAreKept'
  OBVIOUS
<1>0. TypeInv'
  BY TypeStep
<1> USE <1>0, EditAssumption, RecordAssumption DEF TypeInv, TypeOK, CallIsOwn, OneAttempt, AnswersAreKept,
        AnswersAreTrue, Claim, Call, Task, State, Reviewed, MayHaveStarted, Claimed, Mine, At, AtAny, Goto, Stay, Left, Return, files, model,
        Slot!Enter, Begin, Slot!Exit, Moved, Touched
<1>a. ASSUME NEW c \in Claim, call.key \in Key, claims' = [claims EXCEPT ![call.key] = c],
             UNCHANGED task, c.response # None => c.done /\ c.response = task.state
      PROVE  AnswersAreKept'
  <2>1. \A k \in Key : claims'[k] = IF k = call.key THEN c ELSE claims[k]
    BY <1>a
  <2> HIDE DEF Claim, Task
  <2>2. QED
    BY <1>a, <2>1
<1>b. ASSUME call.key \in Key, Claimed(call.key), ~Mine.done
      PROVE  /\ Mine \in Claim /\ Mine.response = None
             /\ \A p \in Process \cup {None} :
                  [Mine EXCEPT !.owner = p] \in Claim /\ [Mine EXCEPT !.owner = p].response = None
             /\ [Mine EXCEPT !.done = TRUE] \in Claim /\ [Mine EXCEPT !.done = TRUE].response = None
  <2>1. Mine \in Claim /\ Mine.response = None
    BY <1>b
  <2>2. ASSUME NEW m \in Claim, m.response = None, NEW p \in Process \cup {None}
        PROVE  /\ [m EXCEPT !.owner = p] \in Claim /\ [m EXCEPT !.owner = p].response = None
               /\ [m EXCEPT !.done = TRUE] \in Claim /\ [m EXCEPT !.done = TRUE].response = None
    BY ONLY <2>2 DEF Claim
  <2> HIDE DEF Claim, Mine
  <2>3. QED
    BY <2>1, <2>2
<1>c. ASSUME call \in Call, call.input \in Input PROVE FreshClaim \in Claim /\ FreshClaim.response = None
  BY <1>c DEF FreshClaim
<1>1. ASSUME NEW p \in Process, Resume(p) PROVE AnswersAreKept'
  BY <1>1 DEF Resume, Enter, Begin
<1>2. ASSUME NEW p \in Process, NEW k \in Key, NEW i \in Input, Submit(p, k, i) PROVE AnswersAreKept'
  BY <1>2 DEF Submit, Enter, Begin
<1>3. CASE NewClaim
  BY <1>3, <1>a, <1>c DEF NewClaim
<1>4. CASE Conflict
  BY <1>4 DEF Conflict
<1>5. CASE Replay
  BY <1>5 DEF Replay
<1>6. CASE LockPending
  BY <1>6 DEF LockPending, Lock, Stale
<1>7. CASE Recover
  <2>1. /\ call.key \in Key /\ Claimed(call.key) /\ ~Mine.done
        /\ call \in Call /\ call.input \in Input /\ UNCHANGED task
    BY <1>7 DEF Recover
  <2>2. \/ claims' = [claims EXCEPT ![call.key] = [Mine EXCEPT !.owner = call.process]]
        \/ UNCHANGED claims
        \/ claims' = [claims EXCEPT ![call.key] = FreshClaim]
        \/ claims' = [claims EXCEPT ![call.key] = [Mine EXCEPT !.done = TRUE]]
    BY <1>7, <2>1 DEF Recover
  <2>3. CASE UNCHANGED claims
    BY <2>1, <2>3
  <2>4. QED
    BY <1>a, <1>b, <1>c, <2>1, <2>2, <2>3
<1>8. CASE Rerun
  BY <1>8 DEF Rerun, Unlock, Unlocked
<1>9. CASE Leave
  BY <1>9 DEF Leave, Unlocked
<1>10. CASE InspectOnly
  BY <1>10 DEF InspectOnly
<1>11. CASE InspectAndLock
  BY <1>11 DEF InspectAndLock, Lock, Stale
<1>12. CASE Reclaim
  <2>1. call.key \in Key /\ Claimed(call.key) /\ ~Mine.done /\ call.process \in Process
    BY <1>12 DEF Reclaim
  <2>2. claims' = [claims EXCEPT ![call.key] = [Mine EXCEPT !.owner = call.process]]
    BY <1>12, <2>1 DEF Reclaim
  <2>3. QED
    BY <1>12, <1>a, <1>b, <2>1, <2>2 DEF Reclaim
<1>13. CASE Refused
  BY <1>13 DEF Refused
<1>14. CASE Approve
  BY <1>14 DEF Approve
<1>15. CASE Execute
  BY <1>15 DEF Execute
<1>16. CASE Apply
  BY <1>16 DEF Apply
<1>17. CASE RecordReceipt
  BY <1>17 DEF RecordReceipt
<1>18. CASE StartVerifying
  BY <1>18 DEF StartVerifying
<1>19. CASE Verified
  BY <1>19 DEF Verified
<1>20. CASE NotVerified
  BY <1>20 DEF NotVerified
<1>21. CASE Mark
  BY <1>21 DEF Mark
<1>22. CASE RecoverableError
  <2>1. call.key \in Key /\ Claimed(call.key) /\ ~Mine.done
    BY <1>22 DEF RecoverableError
  <2>2. QED
    BY <1>22, <1>a, <1>b, <2>1 DEF RecoverableError, Abandon
<1>23. CASE Abandoned
  BY <1>23 DEF Abandoned, Unlock, Unlocked
<1>24. CASE ForeignReceipt
  BY <1>24 DEF ForeignReceipt
<1>25. CASE FinalError
  BY <1>25 DEF FinalError, StatesAfterError
<1>26. CASE Envelope
  BY <1>26 DEF Envelope
<1>27. CASE Answer
  BY <1>27 DEF Answer, Response
<1>28. ASSUME NEW p \in Process, Crash(p) PROVE AnswersAreKept'
  BY <1>28 DEF Crash
<1>29. CASE UNCHANGED vars
  BY <1>29 DEF vars
<1> HIDE DEF TypeInv, AnswersAreKept
<1>30. QED
  BY <1>1, <1>2, <1>3, <1>4, <1>5, <1>6, <1>7, <1>8, <1>9, <1>10, <1>11, <1>12, <1>13, <1>14, <1>15, <1>16, <1>17, <1>18, <1>19, <1>20, <1>21, <1>22, <1>23, <1>24, <1>25, <1>26, <1>27, <1>28, <1>29 DEF Next, Step

-----------------------------------------------------------------------------
(* Nothing stays with the living                                            *)

LEMMA HeldStep == TypeInv /\ NothingIsHeld /\ [Next]_vars => NothingIsHeld'
<1> SUFFICES ASSUME TypeInv /\ NothingIsHeld, [Next]_vars PROVE NothingIsHeld'
  OBVIOUS
<1>0. TypeInv'
  BY TypeStep
<1> USE <1>0, EditAssumption, RecordAssumption DEF TypeInv, TypeOK, CallIsOwn, NothingIsHeld,
        NothingIsStuck, Gone, Claim, Call, Task, State, Place, Claimed, Mine, At, AtAny, Goto, Stay, Left, Return, files, model,
        Slot!Enter, Begin, Slot!Exit, Moved, Touched
<1>a. ASSUME NEW c \in Claim, NEW to \in Place \ {"claim", "inspect"}, call # None, call \in Call, call.key \in Key,
             claims' = [claims EXCEPT ![call.key] = c], Goto(to), UNCHANGED <<relocks, dead>>,
             \/ c.done \/ Gone(c.owner)
             \/ c.owner = call.process /\ to \in {"run", "rerun", "finalize"}
      PROVE  NothingIsHeld'
  <2>1. call'.at = to /\ call'.key = call.key /\ call'.process = call.process /\ call'.locked = call.locked
    BY <1>a
  <2>2. QED
    BY <1>a, <2>1
<1>b. ASSUME call \in Call, call.key \in Key, Claimed(call.key)
      PROVE  /\ \A p \in Process \cup {None} :
                  [Mine EXCEPT !.owner = p] \in Claim /\ [Mine EXCEPT !.owner = p].owner = p
             /\ [Mine EXCEPT !.done = TRUE] \in Claim /\ [Mine EXCEPT !.done = TRUE].done
  <2>1. Mine \in Claim
    BY <1>b
  <2>2. ASSUME NEW m \in Claim, NEW p \in Process \cup {None}
        PROVE  /\ [m EXCEPT !.owner = p] \in Claim /\ [m EXCEPT !.owner = p].owner = p
               /\ [m EXCEPT !.done = TRUE] \in Claim /\ [m EXCEPT !.done = TRUE].done
    BY ONLY <2>2 DEF Claim
  <2> HIDE DEF Claim, Mine
  <2>3. QED
    BY <2>1, <2>2
<1>c. ASSUME call \in Call, call.input \in Input PROVE FreshClaim \in Claim /\ FreshClaim.owner = call.process
  BY <1>c DEF FreshClaim
<1>1. ASSUME NEW p \in Process, Resume(p) PROVE NothingIsHeld'
  BY <1>1 DEF Resume, Enter, Begin
<1>2. ASSUME NEW p \in Process, NEW k \in Key, NEW i \in Input, Submit(p, k, i) PROVE NothingIsHeld'
  BY <1>2 DEF Submit, Enter, Begin
<1>3. CASE NewClaim
  BY <1>3, <1>a, <1>c DEF NewClaim
<1>4. CASE Conflict
  BY <1>4 DEF Conflict
<1>5. CASE Replay
  BY <1>5 DEF Replay
<1>6. CASE LockPending
  BY <1>6 DEF LockPending, Lock, Stale
<1>7. CASE Recover
  <2>1. /\ call # None /\ call.key \in Key /\ Claimed(call.key) /\ At("recover")
        /\ call \in Call /\ call.input \in Input /\ UNCHANGED <<relocks, dead>>
    BY <1>7 DEF Recover
  <2>2. \/ claims' = [claims EXCEPT ![call.key] = [Mine EXCEPT !.owner = call.process]] /\ Goto("finalize")
        \/ UNCHANGED claims /\ Goto("leave")
        \/ claims' = [claims EXCEPT ![call.key] = FreshClaim] /\ Goto("rerun")
        \/ claims' = [claims EXCEPT ![call.key] = [Mine EXCEPT !.done = TRUE]] /\ Goto("leave")
    BY <1>7, <2>1 DEF Recover
  <2>3. CASE UNCHANGED claims /\ Goto("leave")
    BY <2>1, <2>3
  <2>4. QED
    BY <1>a, <1>b, <1>c, <2>1, <2>2, <2>3
<1>8. CASE Rerun
  <2>1. /\ call' \in Call /\ call' # None /\ call'.at = "run" /\ ~call'.locked
        /\ call'.key = call.key /\ call'.process = call.process
    BY <1>8 DEF Rerun, Unlock
  <2>2. UNCHANGED <<claims, dead>> /\ \A k \in Key : Gone(relocks'[k])
    BY <1>8 DEF Rerun, Unlock, Unlocked
  <2>3. QED
    BY <1>8, <2>1, <2>2 DEF Rerun, Unlock
<1>9. CASE Leave
  BY <1>9 DEF Leave, Unlocked
<1>10. CASE InspectOnly
  BY <1>10 DEF InspectOnly
<1>11. CASE InspectAndLock
  <2>1. call # None /\ call \in Call /\ receipt.key \in Key /\ Lock(receipt.key, "reclaim")
    BY <1>11 DEF InspectAndLock, Receipt
  <2>2. /\ call'.at = "reclaim" /\ call'.key = receipt.key /\ call'.locked
        /\ call'.process = call.process /\ call' \in Call /\ call' # None
    BY <2>1 DEF Lock
  <2>3. /\ \A k \in Key : relocks'[k] = IF k = receipt.key THEN call.process ELSE relocks[k]
        /\ UNCHANGED <<claims, dead>> /\ Stale(receipt.key)
    BY <2>1 DEF Lock
  <2>4. \A k \in Key : Gone(relocks[k]) /\ (Claimed(k) /\ ~claims[k].done => Gone(claims[k].owner))
    BY <1>11 DEF InspectAndLock
  <2>5. QED
    BY <2>1, <2>2, <2>3, <2>4
<1>12. CASE Reclaim
  <2>1. call # None /\ call \in Call /\ call.key \in Key /\ Claimed(call.key)
    BY <1>12 DEF Reclaim
  <2>2. claims' = [claims EXCEPT ![call.key] = [Mine EXCEPT !.owner = call.process]]
    BY <1>12, <2>1 DEF Reclaim
  <2>3. QED
    BY <1>12, <1>a, <1>b, <2>1, <2>2 DEF Reclaim
<1>13. CASE Refused
  BY <1>13 DEF Refused
<1>14. CASE Approve
  BY <1>14 DEF Approve
<1>15. CASE Execute
  BY <1>15 DEF Execute
<1>16. CASE Apply
  BY <1>16 DEF Apply
<1>17. CASE RecordReceipt
  BY <1>17 DEF RecordReceipt
<1>18. CASE StartVerifying
  BY <1>18 DEF StartVerifying
<1>19. CASE Verified
  BY <1>19 DEF Verified
<1>20. CASE NotVerified
  BY <1>20 DEF NotVerified
<1>21. CASE Mark
  BY <1>21 DEF Mark
<1>22. CASE RecoverableError
  <2>1. call # None /\ call \in Call /\ call.key \in Key /\ Claimed(call.key)
    BY <1>22 DEF RecoverableError
  <2>2. QED
    BY <1>22, <1>a, <1>b, <2>1 DEF RecoverableError, Abandon
<1>23. CASE Abandoned
  BY <1>23 DEF Abandoned, Unlock, Unlocked
<1>24. CASE ForeignReceipt
  BY <1>24 DEF ForeignReceipt
<1>25. CASE FinalError
  BY <1>25 DEF FinalError, StatesAfterError
<1>26. CASE Envelope
  BY <1>26 DEF Envelope
<1>27. CASE Answer
  BY <1>27 DEF Answer, Response
<1>28. ASSUME NEW p \in Process, Crash(p) PROVE NothingIsHeld'
  BY <1>28 DEF Crash
<1>29. CASE UNCHANGED vars
  BY <1>29 DEF vars
<1> HIDE DEF TypeInv, NothingIsHeld
<1>30. QED
  BY <1>1, <1>2, <1>3, <1>4, <1>5, <1>6, <1>7, <1>8, <1>9, <1>10, <1>11, <1>12, <1>13, <1>14, <1>15, <1>16, <1>17, <1>18, <1>19, <1>20, <1>21, <1>22, <1>23, <1>24, <1>25, <1>26, <1>27, <1>28, <1>29 DEF Next, Step

-----------------------------------------------------------------------------

LEMMA StepInv == IInv /\ [Next]_vars => IInv'
  BY TypeStep, OneAttemptStep, ReceiptStep, AnswersStep, HeldStep DEF IInv, TypeInv

\* The inductive invariant of every behaviour.
THEOREM Invariance == Spec => []IInv
  BY InitInv, StepInv, PTL DEF Spec

\* Tasks, claims, locks, the receipt and the call keep their types, and the
\* request slot is the call's.
THEOREM TypeCorrect == Spec => []TypeOK
<1>1. IInv => TypeOK
  BY DEF IInv
<1>2. QED
  BY Invariance, <1>1, PTL

\* No reviewed edit is handed to the bridge twice.
THEOREM AttemptedOnceHolds == Spec => []AttemptedOnce
<1>1. IInv => AttemptedOnce
  BY DEF IInv, OneAttempt
<1>2. QED
  BY Invariance, <1>1, PTL

\* A recorded receipt keeps its task on the way to completion, and no task
\* completes without one.
THEOREM ReceiptDecidesHolds == Spec => []ReceiptDecides
<1>1. IInv => ReceiptDecides
  BY DEF IInv, FinalizesReceipt
<1>2. QED
  BY Invariance, <1>1, PTL

\* No recorded answer says "completed" of a task that is not.
THEOREM AnswersAreTrueHolds == Spec => []AnswersAreTrue
<1>1. IInv => AnswersAreTrue
  BY DEF IInv, AnswersAreKept
<1>2. QED
  BY Invariance, <1>1, PTL

\* No claim and no recovery lock is left to a living process.
THEOREM NothingIsStuckHolds == Spec => []NothingIsStuck
<1>1. IInv => NothingIsStuck
  BY DEF IInv, NothingIsHeld
<1>2. QED
  BY Invariance, <1>1, PTL

LEMMA AnswersStay ==
  ASSUME IInv, [Next]_vars, NEW k \in Key, Claimed(k), claims[k].response # None
  PROVE  claims'[k] = claims[k]
<1>1. claims[k].done /\ claims \in [Key -> Claim \cup {None}]
  BY DEF IInv, AnswersAreKept, TypeOK
<1>2. CASE Recover \/ Reclaim \/ RecoverableError \/ Answer
  <2>1. k # call.key
    BY <1>1, <1>2 DEF IInv, CallIsOwn, Mine, At, AtAny, Place, Recover, Reclaim, RecoverableError, Answer
  <2>2. QED
    BY <1>1, <1>2, <2>1 DEF Recover, Reclaim, RecoverableError, Answer
<1>3. CASE NewClaim
  BY <1>1, <1>3 DEF NewClaim
<1>4. CASE claims' = claims
  BY <1>4
<1>5. QED
  BY <1>2, <1>3, <1>4 DEF Next, Step, Resume, Submit, Enter, Begin, Conflict, Replay, LockPending, Rerun, Leave,
     InspectOnly, InspectAndLock, Refused, Approve, Execute, Apply, RecordReceipt, StartVerifying,
     Verified, NotVerified, Mark, Abandoned, ForeignReceipt, FinalError, Envelope, Crash, Lock,
     Unlock, files, vars

\* A recorded answer is never replaced: only claims that are not complete are
\* written to.
THEOREM AnswersAreFinalHolds == Spec => AnswersAreFinal
<1>1. IInv /\ [Next]_vars =>
        \A k \in Key : Claimed(k) /\ claims[k].response # None => claims'[k] = claims[k]
  BY AnswersStay
<1>2. QED
  BY Invariance, <1>1, PTL DEF Spec, AnswersAreFinal

-----------------------------------------------------------------------------
(* The reviewed edit is a claimed effect                                    *)

\* What is told stays told, and only an answer of the completed task tells more.
LEMMA ToldByAnswer ==
  ASSUME IInv, [Next]_vars
  PROVE  /\ Told => Told'
         /\ Told' => Told \/ (Answer /\ task.state = "completed")
<1> USE DEF Told, Claimed
<1>1. claims \in [Key -> Claim \cup {None}] /\ None \notin Claim /\ None # "completed"
  BY RecordAssumption DEF IInv, TypeOK, State
<1>2. Told => Told'
  BY <1>1, AnswersStay
<1> SUFFICES Told' => Told \/ (Answer /\ task.state = "completed")
  BY <1>2
<1>3. CASE claims' = claims
  BY <1>3
<1>4. ASSUME call.key \in Key, NEW c \in Claim, claims' = [claims EXCEPT ![call.key] = c],
             c.response = "completed" => Answer /\ task.state = "completed"
      PROVE  Told' => Told \/ (Answer /\ task.state = "completed")
  BY <1>1, <1>4
<1>5. ASSUME call # None, call.key \in Key, Claimed(call.key), ~Mine.done
      PROVE  /\ Mine \in Claim /\ Mine.response = None
             /\ \A p \in Process \cup {None} :
                  [Mine EXCEPT !.owner = p] \in Claim /\ [Mine EXCEPT !.owner = p].response = None
             /\ [Mine EXCEPT !.done = TRUE] \in Claim /\ [Mine EXCEPT !.done = TRUE].response = None
             /\ LET c == [Mine EXCEPT !.done = TRUE, !.response = Response] IN
                c \in Claim /\ c.response = task.state
  <2>1. Mine \in Claim /\ Mine.response = None /\ task.state \in State
    BY <1>5 DEF Mine, IInv, TypeOK, Task, AnswersAreKept
  <2>2. ASSUME NEW m \in Claim, m.response = None, NEW p \in Process \cup {None}, NEW s \in State
        PROVE  /\ [m EXCEPT !.owner = p] \in Claim /\ [m EXCEPT !.owner = p].response = None
               /\ [m EXCEPT !.done = TRUE] \in Claim /\ [m EXCEPT !.done = TRUE].response = None
               /\ [m EXCEPT !.done = TRUE, !.response = s] \in Claim
               /\ [m EXCEPT !.done = TRUE, !.response = s].response = s
    BY ONLY <2>2 DEF Claim
  <2> HIDE DEF Claimed
  <2>3. QED
    BY <2>1, <2>2 DEF Response
<1>6. ASSUME call # None, call.input \in Input PROVE FreshClaim \in Claim /\ FreshClaim.response = None
  BY <1>6 DEF FreshClaim, IInv, TypeOK, Call, Task, Claim
<1>7. CASE NewClaim
  <2>1. call # None /\ call.key \in Key /\ call.input \in Input
    BY <1>7 DEF NewClaim, IInv, CallIsOwn, At, AtAny, Place
  <2>2. claims' = [claims EXCEPT ![call.key] = FreshClaim]
    BY <1>7 DEF NewClaim
  <2>3. FreshClaim \in Claim /\ FreshClaim.response # "completed"
    BY <1>1, <1>6, <2>1
  <2> HIDE DEF Told, Claimed
  <2>4. QED
    BY <1>4, <2>1, <2>2, <2>3
<1>8. CASE Recover \/ Reclaim \/ RecoverableError \/ Answer
  <2>1. /\ call # None /\ call.key \in Key /\ Claimed(call.key) /\ ~Mine.done
        /\ call.process \in Process /\ (Recover => call.input \in Input)
    BY <1>8 DEF Recover, Reclaim, RecoverableError, Answer, IInv, TypeOK, CallIsOwn, At, AtAny, Place, Call
  <2>2. \/ claims' = claims
        \/ \E p \in Process \cup {None} : claims' = [claims EXCEPT ![call.key] = [Mine EXCEPT !.owner = p]]
        \/ Recover /\ claims' = [claims EXCEPT ![call.key] = FreshClaim]
        \/ claims' = [claims EXCEPT ![call.key] = [Mine EXCEPT !.done = TRUE]]
        \/ Answer /\ claims' = [claims EXCEPT ![call.key] = [Mine EXCEPT !.done = TRUE, !.response = Response]]
    BY <1>1, <1>8, <2>1 DEF Recover, Reclaim, RecoverableError, Answer, Abandon, Mine
  <2> HIDE DEF Claimed, Told
  <2>3. CASE claims' = claims
    BY <1>3, <2>3
  <2>4. ASSUME NEW p \in Process \cup {None}, claims' = [claims EXCEPT ![call.key] = [Mine EXCEPT !.owner = p]]
        PROVE  Told' => Told \/ (Answer /\ task.state = "completed")
    <3>1. [Mine EXCEPT !.owner = p] \in Claim /\ [Mine EXCEPT !.owner = p].response # "completed"
      BY <1>1, <1>5, <2>1
    <3>2. QED
      BY <1>4, <2>1, <2>4, <3>1
  <2>5. CASE Recover /\ claims' = [claims EXCEPT ![call.key] = FreshClaim]
    <3>1. FreshClaim \in Claim /\ FreshClaim.response # "completed"
      BY <1>1, <1>6, <2>1, <2>5
    <3>2. QED
      BY <1>4, <2>1, <2>5, <3>1
  <2>6. CASE claims' = [claims EXCEPT ![call.key] = [Mine EXCEPT !.done = TRUE]]
    <3>1. [Mine EXCEPT !.done = TRUE] \in Claim /\ [Mine EXCEPT !.done = TRUE].response # "completed"
      BY <1>1, <1>5, <2>1
    <3>2. QED
      BY <1>4, <2>1, <2>6, <3>1
  <2>7. CASE Answer /\ claims' = [claims EXCEPT ![call.key] = [Mine EXCEPT !.done = TRUE, !.response = Response]]
    <3>1. LET c == [Mine EXCEPT !.done = TRUE, !.response = Response] IN
          c \in Claim /\ c.response = task.state
      BY <1>5, <2>1
    <3>2. QED
      BY <1>4, <2>1, <2>7, <3>1
  <2>8. QED
    BY <2>2, <2>3, <2>4, <2>5, <2>6, <2>7
<1>9. QED
  BY <1>3, <1>7, <1>8 DEF Next, Step, Resume, Submit, Enter, Begin, Conflict, Replay, LockPending, Rerun, Leave,
     InspectOnly, InspectAndLock, Refused, Approve, Execute, Apply, RecordReceipt, StartVerifying,
     Verified, NotVerified, Mark, Abandoned, ForeignReceipt, FinalError, Envelope, Crash, Lock,
     Unlock, files, vars

LEMMA EffectStep ==
  ASSUME IInv, IInv', [Next]_vars PROVE [Effect!Next]_(Effect!vars)
<1> USE DEF Effect!vars, Effect!Next
<1>0. /\ ~PastReview => receipt = None /\ ~Told
      /\ receipt # None => commits = 1 /\ PastReview
      /\ commits \in Nat
  BY DEF IInv, TypeOK, FinalizesReceipt, ReceiptDecides, AnswersAreKept, AnswersAreTrue, PastReview, Told
<1>1. CASE Apply
  <2>1. PastReview /\ commits = 0 /\ receipt = None
    BY <1>1 DEF Apply, IInv, TypeOK, OneAttempt, FinalizesReceipt, ReceiptDecides, PastReview
  <2>2. UNCHANGED <<task, claims, receipt>> /\ commits' \in {0, 1}
    BY <1>1, <2>1 DEF Apply, files
  <2>3. QED
    BY <2>1, <2>2 DEF Effect!Perform, PastReview, Told, Claimed
<1>2. CASE RecordReceipt
  <2>1. commits = 1 /\ UNCHANGED <<task, claims, commits>>
    BY <1>2 DEF RecordReceipt, IInv, OneAttempt, model
  <2>2. receipt' = receipt \/ receipt' # None
    <3>1. [key |-> call.key, input |-> call.input] \in Receipt
      BY <1>2 DEF RecordReceipt, IInv, CallIsOwn, At, AtAny, Place, Receipt
    <3>2. QED
      BY <1>2, <3>1, RecordAssumption DEF RecordReceipt
  <2>3. QED
    BY <2>1, <2>2 DEF Effect!Record, PastReview, Told, Claimed
<1>3. CASE Answer
  <2>1. UNCHANGED <<task, receipt, commits>>
    BY <1>3 DEF Answer, model
  <2>2. task.state = "completed" => receipt # None
    BY DEF IInv, FinalizesReceipt, ReceiptDecides
  <2>3. PastReview' = PastReview /\ (Told' => Told \/ receipt # None) /\ (Told => Told')
    BY <2>1, <2>2, ToldByAnswer DEF PastReview
  <2>4. Told \in BOOLEAN /\ Told' \in BOOLEAN
    BY DEF Told
  <2>5. QED
    BY <2>1, <2>3, <2>4 DEF Effect!Tell
<1>4. CASE UNCHANGED <<receipt, commits>> /\ (PastReview => PastReview') /\ ~Answer
  <2>1. (Told' <=> Told)
    BY <1>4, ToldByAnswer
  <2>2. /\ PastReview \in BOOLEAN /\ PastReview' \in BOOLEAN
        /\ Told \in BOOLEAN /\ Told' \in BOOLEAN
    BY DEF PastReview, Told
  <2>3. Told' = Told
    BY <2>1, <2>2
  <2>4. CASE PastReview' = PastReview
    BY <1>4, <2>3, <2>4
  <2>5. CASE ~PastReview /\ PastReview' = TRUE
    BY <1>4, <2>3, <2>5 DEF Effect!Claim
  <2>6. QED
    BY <1>4, <2>2, <2>4, <2>5
<1>5. ASSUME ~Apply, ~RecordReceipt, ~Answer
      PROVE  UNCHANGED <<receipt, commits>> /\ (PastReview => PastReview')
  <2>1. UNCHANGED <<receipt, commits>>
    BY <1>5 DEF Next, Step, Resume, Submit, Enter, Begin, NewClaim, Conflict, Replay, LockPending, Recover, Rerun,
       Leave, InspectOnly, InspectAndLock, Reclaim, Refused, Approve, Execute, StartVerifying, Verified,
       NotVerified, Mark, RecoverableError, Abandoned, ForeignReceipt, FinalError, Envelope, Crash,
       Lock, Unlock, files, model, vars
  <2>2. PastReview => PastReview'
    <3>1. CASE task' = task
      BY <3>1 DEF PastReview
    <3>2. CASE Approve \/ Execute
      BY <3>2 DEF Approve, Execute, Reviewed, PastReview, IInv, OneAttempt
    <3>3. CASE InspectOnly \/ Mark \/ ForeignReceipt \/ Envelope
      BY <3>3 DEF InspectOnly, Mark, ForeignReceipt, Envelope, Touched, Moved, PastReview
    <3>4. CASE StartVerifying \/ Verified
      BY <3>4 DEF StartVerifying, Verified, Moved, PastReview
    <3>5. CASE FinalError
      <4>1. PICK s \in StatesAfterError : task' = Moved(s)
        BY <3>5 DEF FinalError
      <4>2. PastReview => s \in {"completed", "failed"}
        BY <4>1 DEF PastReview, StatesAfterError
      <4>3. QED
        BY <4>1, <4>2 DEF PastReview, Moved
    <3>6. QED
      BY <1>5, <3>1, <3>2, <3>3, <3>4, <3>5 DEF Next, Step, Resume, Submit, Enter, Begin, NewClaim, Conflict,
         Replay, LockPending, Recover, Rerun, Leave, InspectAndLock, Reclaim, Refused, NotVerified,
         RecoverableError, Abandoned, Crash, Lock, Unlock, vars
  <2>3. QED
    BY <2>1, <2>2
<1>6. QED
  BY <1>1, <1>2, <1>3, <1>4, <1>5

\* Whatever dies and is retried, a reviewed edit happens once at most, past its
\* review, and is answered "completed" on its recorded receipt only.
THEOREM EditImplementsClaim == Spec => EditsOnce
<1>1. Init => Effect!Init
  BY DEF Init, Effect!Init, PastReview, Told, Claimed
<1>2. QED
  BY <1>1, EffectStep, Invariance, PTL DEF Spec, EditsOnce, Effect!Spec

=============================================================================
