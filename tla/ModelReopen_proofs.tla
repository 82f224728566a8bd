-------------------------- MODULE ModelReopen_proofs --------------------------
(* Safety of the delivery and the reopen of a model, for every number of     *)
(* deaths: the journals of both implement ClaimedEffect, the verification    *)
(* record is one of a document that was opened again, and the close loses    *)
(* nothing.                                                                  *)
EXTENDS ModelReopen, TLAPS

\* The delivery's part of TypeOK, and the reopen's.
DeliveryTypeOK ==
  /\ state \in State /\ bound \in BOOLEAN
  /\ dir \in BOOLEAN /\ intent \in Links /\ receipt \in Receipt \cup {None}
  /\ request \in {"none", "sent", "saved", "failed"}
  /\ file \in Revision \cup {None} /\ doc \in Document /\ saves \in Nat
  /\ pc \in [Request -> Place] /\ crashes \in 0 .. MaxCrashes

ReopenTypeOK ==
  /\ rstate \in RState /\ result \in Stage
  /\ rdir \in BOOLEAN /\ started \in File /\ returned \in File /\ complete \in File
  /\ order \in Order /\ closes \in Nat
  /\ rpc \in [Request -> RPlace] /\ seen \in [Request -> RState]

\* Where the request that has claimed the delivery still works with the save.
Fresh == {"journal", "seal", "save"}
Saved == {"confirm", "hash", "sealReceipt"}
Holding == Fresh \cup {"wait"} \cup Saved

\* One request holds the claim; until it sends the save nothing has been sent.
OneSave ==
  /\ \A r \in Request : pc[r] \in Holding => dir
  /\ \A r, q \in Request : pc[r] \in Holding /\ pc[q] \in Holding => r = q
  /\ request # "none" => dir
  /\ \A r \in Request : pc[r] \in Fresh => request = "none"

\* Saves, evidence and completion follow each other.
SaveEvidence ==
  /\ saves = (IF request = "saved" THEN 1 ELSE 0)
  /\ \A r \in Request : pc[r] \in Saved => request = "saved"
  /\ receipt # None => request = "saved"
  /\ request = "saved" => file # None
  /\ \A r \in Request : pc[r] \in {"sealReceipt", "publish"} => receipt # None
  /\ state = "completed" => receipt # None

\* An unmodified document at the delivery file is its content.
Synced == doc.home /\ ~doc.modified => file = doc.rev

DeliveryInv == DeliveryTypeOK /\ OneSave /\ SaveEvidence /\ Synced

RFresh == {"begin", "sign", "execute", "close"}
Returned == {"record", "signReturn"}
RHolding == RFresh \cup {"wait"} \cup Returned
Completing == {"finalize", "verify", "end"}

OneClose ==
  /\ \A r \in Request : rpc[r] \in RHolding => rdir
  /\ \A r, q \in Request : rpc[r] \in RHolding /\ rpc[q] \in RHolding => r = q
  /\ order # "none" => rdir
  /\ \A r \in Request : rpc[r] \in RFresh => order = "none"
  /\ \A r \in Request : rpc[r] \in RHolding \ {"signReturn"} => returned = "absent"

CloseEvidence ==
  /\ order \in {"none", "sent"} => closes = 0
  /\ order \in Opening => closes = 1 /\ doc.new
  /\ \A r \in Request : rpc[r] \in Returned => order \in Opening
  /\ returned # "absent" => order \in Opening
  /\ \A r \in Request : rpc[r] \in {"complete", "signComplete"} \cup Completing => returned = "whole"
  /\ complete # "absent" => returned = "whole"
  /\ \A r \in Request : rpc[r] = "signComplete" => complete # "absent"
  /\ \A r \in Request : rpc[r] \in Completing => complete = "whole"
  /\ rstate = "completed" => complete = "whole"

ReopenInv == ReopenTypeOK /\ OneClose /\ CloseEvidence

IInv == DeliveryInv /\ ReopenInv

LEMMA InitInv == Init => IInv
<1> SUFFICES ASSUME Init PROVE IInv
  OBVIOUS
<1> USE CrashAssumption, RecordAssumption DEF Init, DeliveryInit, ReopenInit, Request
<1>1. DeliveryTypeOK
  <2>1. state \in State /\ bound \in BOOLEAN
    BY DEF State
  <2>1a. dir \in BOOLEAN
    OBVIOUS
  <2>1b. intent \in Links /\ saves \in Nat
    BY DEF Links
  <2>2. doc \in Document /\ file \in Revision \cup {None} /\ receipt \in Receipt \cup {None}
    BY DEF Document, Revision
  <2>3. pc \in [Request -> Place]
    BY DEF Place
  <2>4. crashes \in 0 .. MaxCrashes /\ request \in {"none", "sent", "saved", "failed"}
    OBVIOUS
  <2>5. QED
    BY <2>1, <2>1a, <2>1b, <2>2, <2>3, <2>4 DEF DeliveryTypeOK
<1>2. ReopenTypeOK
  BY DEF ReopenTypeOK, RState, Stage, File, Order, Opening, RPlace
<1>3. OneSave /\ SaveEvidence /\ Synced
  BY DEF OneSave, SaveEvidence, Synced, Holding, Fresh, Saved
<1>4. OneClose /\ CloseEvidence
  BY DEF OneClose, CloseEvidence, RHolding, RFresh, Returned, Completing, Opening
<1>5. QED
  BY <1>1, <1>2, <1>3, <1>4 DEF IInv, DeliveryInv, ReopenInv

-----------------------------------------------------------------------------
(* The delivery                                                             *)

LEMMA WorkInv ==
  ASSUME DeliveryInv, NEW r \in Request, Work(r) PROVE DeliveryInv'
<1> USE CrashAssumption, RecordAssumption DEF DeliveryInv, DeliveryTypeOK, OneSave, SaveEvidence, Synced, Holding, Fresh, Saved, Place, Links, Moves, Goto, Looks, journal, native
<1>1. CASE AskSource(r) \/ Deliver(r)
  BY <1>1 DEF AskSource, Deliver
<1>2. CASE Preflight(r)
  BY <1>2 DEF Preflight
<1>3. CASE Claim(r)
  <2>1. CASE ActiveIsSource /\ ~dir
    <3>1. /\ dir' = TRUE /\ pc' = [pc EXCEPT ![r] = "journal"]
          /\ UNCHANGED <<state, bound, intent, receipt, request, file, doc, saves, crashes>>
      BY <1>3, <2>1 DEF Claim
    <3>2. DeliveryTypeOK' /\ Synced' /\ SaveEvidence'
      BY <3>1
    <3>3. request = "none"
      BY <2>1
    <3>4. OneSave'
      BY <2>1, <3>1, <3>3
    <3>5. QED
      BY <3>2, <3>4
  <2>2. CASE ~(ActiveIsSource /\ ~dir)
    BY <1>3, <2>2 DEF Claim
  <2>3. QED
    BY <2>1, <2>2
<1>4. CASE Journal(r)
  BY <1>4 DEF Journal
<1>5. CASE Seal(r)
  BY <1>5 DEF Seal
<1>6. CASE Save(r)
  BY <1>6 DEF Save
<1>7. CASE Answer(r)
  BY <1>7 DEF Answer
<1>8. CASE Confirm(r)
  BY <1>8 DEF Confirm
<1>9. CASE Certify(r)
  BY <1>9 DEF Certify, Receipt, Revision
<1>10. CASE SealReceipt(r)
  BY <1>10 DEF SealReceipt, Receipt
<1>11. CASE Interrupted(r)
  BY <1>11 DEF Interrupted
<1>12. CASE Replay(r)
  BY <1>12 DEF Replay, Verified, Readable
<1>13. CASE Publish(r)
  BY <1>13 DEF Publish, StoreOnly, May, Allowed, State
<1>14. CASE Handle(r)
  BY <1>14 DEF Handle
<1>15. CASE Hold(r)
  BY <1>15 DEF Hold, StoreOnly, May, Allowed, State
<1>16. CASE Note(r)
  BY <1>16 DEF Note
<1>17. CASE Fail(r)
  BY <1>17 DEF Fail, StoreOnly, May, Allowed, State
<1>18. CASE Resume(r)
  BY <1>18 DEF Resume
<1>19. CASE Reopen(r)
  BY <1>19 DEF Reopen, StoreOnly, May, Allowed, State
<1>20. CASE Submit(r)
  BY <1>20 DEF Submit
<1>21. CASE Resubmit(r)
  BY <1>21 DEF Resubmit, StoreOnly, May, Allowed, State
<1>22. QED
  BY <1>1, <1>2, <1>3, <1>4, <1>5, <1>6, <1>7, <1>8, <1>9, <1>10, <1>11, <1>12, <1>13, <1>14, <1>15, <1>16, <1>17, <1>18, <1>19, <1>20, <1>21 DEF Work

LEMMA DeliveryStepInv == DeliveryInv /\ (DeliveryStep \/ User) => DeliveryInv'
<1> SUFFICES ASSUME DeliveryInv, DeliveryStep \/ User PROVE DeliveryInv'
  OBVIOUS
<1> USE CrashAssumption, RecordAssumption DEF DeliveryInv, DeliveryTypeOK, OneSave, SaveEvidence, Synced, Holding, Fresh, Saved, Place, Links, journal, native
<1>1. CASE Arrive
  BY <1>1 DEF Arrive, Moves, Goto, Looks, Request
<1>2. CASE SaveRuns
  <2>1. CASE UNCHANGED <<file, doc, saves>>
    BY <1>2, <2>1 DEF SaveRuns
  <2>2. CASE ActiveIsSource /\ request' = "saved" /\ saves' = saves + 1 /\ file' = doc.rev /\ doc' = [doc EXCEPT !.home = TRUE, !.modified = FALSE]
    <3>1. doc' \in Document /\ doc'.rev = doc.rev /\ doc.rev \in Revision
      BY <2>2 DEF Document
    <3>2. UNCHANGED <<state, bound, dir, intent, receipt, pc, crashes>> /\ request = "sent"
      BY <1>2 DEF SaveRuns
    <3>3. DeliveryTypeOK' /\ Synced'
      BY <2>2, <3>1, <3>2
    <3>4. OneSave'
      BY <2>2, <3>2
    <3>5. SaveEvidence'
      BY <2>2, <3>1, <3>2
    <3>6. QED
      BY <3>3, <3>4, <3>5
  <2>3. QED
    BY <1>2, <2>1, <2>2 DEF SaveRuns
<1>3. CASE \E r \in Request : Work(r)
  BY <1>3, WorkInv
<1>4. CASE Edit
  BY <1>4 DEF Edit, Document, Revision
<1>5. CASE Focus
  BY <1>5 DEF Focus, Document
<1>6. CASE UserSaves
  BY <1>6 DEF UserSaves, Document, Revision
<1>7. QED
  BY <1>1, <1>2, <1>3, <1>4, <1>5, <1>6 DEF DeliveryStep, User

-----------------------------------------------------------------------------
(* The reopen                                                               *)

LEMMA ReopenWorkInv ==
  ASSUME ReopenInv, UNCHANGED deliveryVars, NEW r \in Request, ReopenWork(r) PROVE ReopenInv'
<1> USE DEF ReopenInv, ReopenTypeOK, OneClose, CloseEvidence, RHolding, RFresh, Returned, Completing, Opening, RPlace, RMoves, RGoto, RLooks, RKeeps, rjournal, deliveryVars, native
<1>1. CASE ResumeReopen(r)
  BY <1>1 DEF ResumeReopen
<1>2. CASE SubmitReopen(r)
  BY <1>2 DEF SubmitReopen
<1>3. CASE ResubmitReopen(r)
  BY <1>3 DEF ResubmitReopen, Transition, RAllowed, RState, Stage
<1>4. CASE Open(r)
  BY <1>4 DEF Open
<1>5. CASE Ask(r)
  BY <1>5 DEF Ask, Transition, RAllowed, RState, Stage
<1>6. CASE Proof(r)
  BY <1>6 DEF Proof
<1>7. CASE ClaimReopen(r)
  <2>1. CASE IsSavedDocument /\ FileIntact /\ ~rdir
    <3>1. /\ rdir' = TRUE /\ rpc' = [rpc EXCEPT ![r] = "begin"]
          /\ UNCHANGED <<started, returned, complete, order, closes, rstate, result, seen>>
      BY <1>7, <2>1 DEF ClaimReopen
    <3>2. order = "none" /\ returned = "absent"
      BY <2>1
    <3>3. ReopenTypeOK' /\ CloseEvidence'
      BY <3>1
    <3>4. OneClose'
      BY <2>1, <3>1, <3>2
    <3>5. QED
      BY <3>3, <3>4
  <2>2. CASE ~(IsSavedDocument /\ FileIntact /\ ~rdir)
    BY <1>7, <2>2 DEF ClaimReopen
  <2>3. QED
    BY <2>1, <2>2
<1>8. CASE Begin(r)
  BY <1>8 DEF Begin, Writes, File
<1>9. CASE Sign(r)
  BY <1>9 DEF Sign, Writes, File
<1>10. CASE Execute(r)
  BY <1>10 DEF Execute, Transition, RAllowed, RState, Stage
<1>11. CASE Close(r)
  BY <1>11 DEF Close, Order
<1>12. CASE AnswerClose(r)
  BY <1>12 DEF AnswerClose, Order
<1>13. CASE Record(r)
  BY <1>13 DEF Record, Writes, File
<1>14. CASE SignReturn(r)
  BY <1>14 DEF SignReturn, Writes, File
<1>15. CASE Recover(r)
  BY <1>15 DEF Recover
<1>16. CASE Pend(r)
  BY <1>16 DEF Pend, Transition, RAllowed, RState, Stage
<1>17. CASE Complete(r)
  BY <1>17 DEF Complete, Writes, File
<1>18. CASE SignComplete(r)
  BY <1>18 DEF SignComplete, Writes, File
<1>19. CASE Finalize(r)
  BY <1>19 DEF Finalize, Transition, RAllowed, RState, Stage
<1>20. CASE Verify(r)
  BY <1>20 DEF Verify, Transition, RAllowed, RState, Stage
<1>21. CASE End(r)
  BY <1>21 DEF End, Transition, RAllowed, RState, Stage
<1>22. CASE Stop(r)
  BY <1>22 DEF Stop, RState, Stage
<1>23. QED
  BY <1>1, <1>2, <1>3, <1>4, <1>5, <1>6, <1>7, <1>8, <1>9, <1>10, <1>11, <1>12, <1>13, <1>14, <1>15, <1>16, <1>17, <1>18, <1>19, <1>20, <1>21, <1>22 DEF ReopenWork

LEMMA ReopenStepInv == IInv /\ [Next]_vars => IInv'
<1> SUFFICES ASSUME IInv, [Next]_vars PROVE IInv'
  OBVIOUS
<1> USE DEF IInv
<1>1. CASE (DeliveryStep \/ User) /\ UNCHANGED reopenVars
  <2>1. DeliveryInv'
    BY <1>1, DeliveryStepInv
  <2>2. doc'.new = doc.new
    <3>1. CASE \E r \in Request : Work(r)
      BY <3>1 DEF Work, AskSource, Deliver, Preflight, Claim, Journal, Seal, Save, Answer, Confirm, Certify, SealReceipt, Interrupted, Replay, Publish, Handle, Hold, Note, Fail, Resume, Reopen, Submit, Resubmit, StoreOnly, Looks, native
    <3>2. QED
      BY <1>1, <3>1 DEF DeliveryStep, Arrive, SaveRuns, User, Edit, Focus, UserSaves, Looks, native, DeliveryInv, DeliveryTypeOK, Document
  <2>3. ReopenInv'
    BY <1>1, <2>2 DEF ReopenInv, ReopenTypeOK, OneClose, CloseEvidence, reopenVars, rjournal
  <2>4. QED
    BY <2>1, <2>3
<1>2. CASE ReopenStep /\ UNCHANGED deliveryVars
  <2>1. DeliveryInv'
    BY <1>2 DEF DeliveryInv, DeliveryTypeOK, OneSave, SaveEvidence, Synced, deliveryVars, journal, native
  <2>2. ReopenInv'
    <3>1. CASE StartReopen
      BY <1>2, <3>1 DEF StartReopen, RMoves, RGoto, RLooks, RKeeps, rjournal, deliveryVars, native, Request, RPlace, ReopenInv, ReopenTypeOK, OneClose, CloseEvidence, RHolding, RFresh, Returned, Completing, Opening
    <3>2. CASE ArriveReopen
      BY <1>2, <3>2 DEF ArriveReopen, RMoves, RGoto, RKeeps, rjournal, deliveryVars, native, Request, RPlace, ReopenInv, ReopenTypeOK, OneClose, CloseEvidence, RHolding, RFresh, Returned, Completing, Opening
    <3>3. CASE \E r \in Request : ReopenWork(r)
      BY <1>2, <3>3, ReopenWorkInv
    <3>4. QED
      BY <1>2, <3>1, <3>2, <3>3 DEF ReopenStep
  <2>3. QED
    BY <2>1, <2>2
<1>3. CASE CloseRuns /\ UNCHANGED <<state, bound, journal, request, file, saves, pc, crashes>>
  <2>1. CASE UNCHANGED <<doc, closes>>
    BY <1>3, <2>1 DEF CloseRuns, DeliveryInv, DeliveryTypeOK, OneSave, SaveEvidence, Synced, journal, rjournal, ReopenInv, ReopenTypeOK, OneClose, CloseEvidence, Order, Opening, RFresh, Returned
  <2>2. CASE MayCloseDocument /\ closes' = closes + 1
    <3>1. PICK how \in Opening \cup {"failed"}, opened \in BOOLEAN :
            /\ how \in Opening => opened
            /\ order' = how
            /\ doc' = [doc EXCEPT !.new = opened, !.front = how = "activated",
                                  !.home = opened, !.rev = file]
      <4>1. closes \in Nat
        BY DEF ReopenInv, ReopenTypeOK
      <4>2. closes' # closes
        BY <2>2, <4>1
      <4>3. QED
        BY <1>3, <4>2 DEF CloseRuns
    <3>2. file \in Revision
      BY <2>2 DEF MayCloseDocument, FileIntact, IsSavedDocument, DeliveryInv, DeliveryTypeOK, SaveEvidence
    <3>3. doc' \in Document /\ doc'.rev = file /\ (how \in Opening => doc'.new)
      <4> DEFINE active == how = "activated"
      <4>1. doc \in Document /\ opened \in BOOLEAN /\ active \in BOOLEAN
        BY DEF DeliveryInv, DeliveryTypeOK
      <4>2. doc' = [doc EXCEPT !.new = opened, !.front = active, !.home = opened, !.rev = file]
        BY <3>1
      <4> HIDE DEF active
      <4>3. doc' \in Document /\ doc'.rev = file /\ doc'.new = opened
        BY <3>2, <4>1, <4>2 DEF Document
      <4>4. QED
        BY <3>1, <4>3
    <3>4. order = "sent" /\ UNCHANGED <<rdir, started, returned, complete, rstate, result, rpc, seen>>
      BY <1>3 DEF CloseRuns, rjournal
    <3>5. DeliveryInv'
      BY <1>3, <3>3 DEF DeliveryInv, DeliveryTypeOK, OneSave, SaveEvidence, Synced, journal
    <3>6. ReopenTypeOK' /\ OneClose'
      BY <2>2, <3>1, <3>4 DEF ReopenInv, ReopenTypeOK, OneClose, Order, Opening
    <3>7. CloseEvidence'
      BY <2>2, <3>1, <3>3, <3>4 DEF ReopenInv, ReopenTypeOK, OneClose, CloseEvidence, Opening, Returned
    <3>8. QED
      BY <3>5, <3>6, <3>7 DEF ReopenInv
  <2>3. QED
    BY <1>3, <2>1, <2>2 DEF CloseRuns
<1>4. CASE CrashBoth
  <2>1. DeliveryInv'
    BY <1>4, CrashAssumption DEF CrashBoth, Crash, DeliveryInv, DeliveryTypeOK, OneSave, SaveEvidence, Synced, Holding, Fresh, Saved, Place, journal, native, Request
  <2>2. ReopenInv'
    BY <1>4 DEF CrashBoth, Crash, native, rjournal, ReopenInv, ReopenTypeOK, OneClose, CloseEvidence, RHolding, RFresh, Returned, Completing, RPlace, Request
  <2>3. QED
    BY <2>1, <2>2
<1>5. CASE UNCHANGED vars
  BY <1>5 DEF vars, deliveryVars, reopenVars, journal, native, rjournal, DeliveryInv, DeliveryTypeOK, OneSave, SaveEvidence, Synced, ReopenInv, ReopenTypeOK, OneClose, CloseEvidence
<1>6. QED
  BY <1>1, <1>2, <1>3, <1>4, <1>5 DEF Next

LEMMA Inductive == Spec => []IInv
<1>1. QED
  BY InitInv, ReopenStepInv, PTL DEF Spec

-----------------------------------------------------------------------------
(* The properties of the runs                                               *)

\* Every variable keeps its type, whatever dies and whoever edits.
THEOREM TypeCorrect == Spec => []TypeOK
<1>1. IInv => TypeOK
  BY DEF IInv, DeliveryInv, DeliveryTypeOK, ReopenInv, ReopenTypeOK, TypeOK
<1>2. QED
  BY <1>1, Inductive, PTL

\* A verification record is one of a document that was opened again after the
\* close, and a completed reopen has its record.
THEOREM ReopenVerified == Spec => []VerifiedWasReopened
<1>1. IInv => VerifiedWasReopened
  BY DEF IInv, ReopenInv, CloseEvidence, VerifiedWasReopened, ReopenTypeOK, File
<1>2. QED
  BY <1>1, Inductive, PTL

\* What save_model or close_reopen_saved_model does not run, does not count.
LEMMA OthersCloseNothing ==
  ASSUME IInv, [Next]_vars, closes' # closes
  PROVE  CloseRuns /\ MayCloseDocument
<1>1. CASE (DeliveryStep \/ User) /\ UNCHANGED reopenVars
  BY <1>1 DEF reopenVars
<1>2. CASE ReopenStep
  BY <1>2 DEF ReopenStep, StartReopen, ArriveReopen, ReopenWork, RLooks, RKeeps, Writes,
    ResumeReopen, SubmitReopen, ResubmitReopen, Open, Ask, Proof, ClaimReopen, Begin, Sign,
    Execute, Close, AnswerClose, Record, SignReturn, Recover, Pend, Complete, SignComplete,
    Finalize, Verify, End, Stop
<1>3. QED
  BY <1>1, <1>2 DEF Next, CloseRuns, CrashBoth, vars, reopenVars

\* The document that is closed without saving is the content of its file.
THEOREM NothingIsLost == Spec => LosesNothing
<1>1. IInv /\ [Next]_vars => [closes' > closes => file = doc.rev]_vars
  <2> SUFFICES ASSUME IInv, [Next]_vars, closes' > closes PROVE file = doc.rev
    OBVIOUS
  <2>1. MayCloseDocument
    BY OthersCloseNothing DEF IInv, ReopenInv, ReopenTypeOK
  <2>2. QED
    BY <2>1 DEF IInv, DeliveryInv, Synced, MayCloseDocument, IsSavedDocument
<1>2. QED
  BY <1>1, Inductive, PTL DEF LosesNothing, Spec

-----------------------------------------------------------------------------
(* The journals implement ClaimedEffect                                     *)

LEMMA WorkRefines ==
  ASSUME DeliveryInv, DeliveryInv', NEW r \in Request, Work(r)
  PROVE  [SaveEffect!Next]_(SaveEffect!vars)
<1> USE DEF SaveEffect!vars, SaveEffect!Next, SaveEffect!Claim, SaveEffect!Record, SaveEffect!Tell, Moves, Goto
<1>1. CASE Claim(r)
  BY <1>1 DEF Claim, Looks, journal, native
<1>2. CASE Certify(r)
  <2>1. CASE receipt' = receipt
    BY <1>2, <2>1 DEF Certify, Looks, journal, native
  <2>2. CASE receipt' # receipt
    <3>1. pc[r] = "hash" /\ receipt' = [links |-> 2, hash |-> file] /\ UNCHANGED <<state, dir, saves>>
      BY <1>2, <2>2 DEF Certify, Looks, journal, native
    <3>2. saves = 1
      BY <3>1 DEF DeliveryInv, SaveEvidence, Saved
    <3>3. receipt' # None
      <4>1. pc'[r] = "sealReceipt"
        BY <1>2, <2>2 DEF Certify, Looks, journal, DeliveryInv, DeliveryTypeOK
      <4>2. QED
        BY <4>1 DEF DeliveryInv, SaveEvidence
    <3>4. QED
      BY <3>1, <3>2, <3>3
  <2>3. QED
    BY <2>1, <2>2
<1>3. CASE SealReceipt(r)
  <2>1. pc[r] = "sealReceipt" /\ pc'[r] = "publish" /\ UNCHANGED <<state, dir, saves>>
    BY <1>3 DEF SealReceipt, native, DeliveryInv, DeliveryTypeOK
  <2>2. receipt # None /\ receipt' # None
    BY <2>1 DEF DeliveryInv, SaveEvidence
  <2>3. QED
    BY <2>1, <2>2
<1>4. CASE Publish(r)
  BY <1>4 DEF Publish, Looks, StoreOnly, journal, native, DeliveryInv, SaveEvidence
<1>5. CASE Hold(r) \/ Fail(r) \/ Reopen(r) \/ Resubmit(r)
  BY <1>5 DEF Hold, Fail, Reopen, Resubmit, May, Allowed, StoreOnly, journal, native, DeliveryInv, DeliveryTypeOK, State
<1>6. CASE UNCHANGED <<state, dir, receipt, saves>>
  BY <1>6
<1>7. QED
  BY <1>1, <1>2, <1>3, <1>4, <1>5, <1>6 DEF Work, AskSource, Deliver, Preflight, Journal, Seal, Save, Answer,
    Confirm, Interrupted, Replay, Handle, Note, Resume, Submit, Looks, StoreOnly, journal, native

\* Through deaths, timeouts, late executions and retries a delivery saves once
\* at most, and completes on a receipt of a save that happened.
THEOREM DeliveryImplementsClaim == Spec => SavesOnce
<1>1. Init => SaveEffect!Init
  BY DEF Init, DeliveryInit, SaveEffect!Init
<1>2. IInv /\ IInv' /\ [Next]_vars => [SaveEffect!Next]_(SaveEffect!vars)
  <2> SUFFICES ASSUME IInv, IInv', [Next]_vars
               PROVE [SaveEffect!Next]_(SaveEffect!vars)
    OBVIOUS
  <2>1. CASE SaveRuns
    <3>1. dir /\ saves = 0
      BY <2>1 DEF SaveRuns, IInv, DeliveryInv, OneSave, SaveEvidence
    <3>2. UNCHANGED <<state, dir, receipt>> /\ saves' \in {saves, saves + 1}
      BY <2>1 DEF SaveRuns, journal
    <3>3. receipt = None
      BY <2>1 DEF SaveRuns, IInv, DeliveryInv, SaveEvidence
    <3>4. QED
      BY <3>1, <3>2, <3>3 DEF SaveEffect!vars, SaveEffect!Next, SaveEffect!Perform, IInv, DeliveryInv, DeliveryTypeOK
  <2>2. CASE \E r \in Request : Work(r)
    BY <2>2, WorkRefines DEF IInv
  <2>3. CASE UNCHANGED <<state, dir, receipt, saves>>
    BY <2>3 DEF SaveEffect!vars
  <2>4. QED
    BY <2>1, <2>2, <2>3 DEF Next, DeliveryStep, User, Arrive, Edit, Focus, UserSaves, CrashBoth, Crash,
      Looks, journal, native, vars, deliveryVars
<1>3. QED
  BY <1>1, <1>2, Inductive, PTL DEF Spec, SavesOnce, SaveEffect!Spec

LEMMA ReopenWorkRefines ==
  ASSUME ReopenInv, ReopenInv', NEW r \in Request, ReopenWork(r)
  PROVE  [CloseEffect!Next]_(CloseEffect!vars)
<1> USE DEF CloseEffect!vars, CloseEffect!Next, CloseEffect!Claim, CloseEffect!Record, CloseEffect!Tell, RMoves, RGoto, RLooks, RKeeps, Writes, rjournal
<1>1. CASE ClaimReopen(r)
  BY <1>1 DEF ClaimReopen
<1>2. CASE Record(r) \/ SignReturn(r)
  <2>1. rpc[r] \in Returned /\ UNCHANGED <<rdir, closes, rstate>>
    BY <1>2 DEF Record, SignReturn, Returned
  <2>2. closes = 1
    BY <2>1 DEF ReopenInv, CloseEvidence
  <2>3. returned' = returned \/ returned' # "absent"
    BY <1>2 DEF Record, SignReturn
  <2>4. QED
    BY <2>1, <2>2, <2>3
<1>3. CASE End(r)
  <2>1. rpc[r] = "end" /\ UNCHANGED <<rdir, closes, returned>>
    BY <1>3 DEF End, Transition
  <2>2. returned = "whole"
    BY <2>1 DEF ReopenInv, CloseEvidence, Completing
  <2>3. rstate' = rstate \/ rstate' = "completed"
    BY <1>3 DEF End, Transition
  <2>4. QED
    BY <2>1, <2>2, <2>3
<1>4. CASE ResubmitReopen(r) \/ Ask(r) \/ Execute(r) \/ Pend(r) \/ Finalize(r) \/ Verify(r) \/ Stop(r)
  BY <1>4 DEF ResubmitReopen, Ask, Execute, Pend, Finalize, Verify, Stop, Transition, RAllowed, ReopenInv, ReopenTypeOK, RState
<1>5. CASE UNCHANGED <<rdir, closes, returned, rstate>>
  BY <1>5
<1>6. QED
  BY <1>1, <1>2, <1>3, <1>4, <1>5 DEF ReopenWork, ResumeReopen, SubmitReopen, Open, Proof, Begin, Sign,
    Close, AnswerClose, Recover, Complete, SignComplete

\* Through the same faults a reopen closes the model once at most, and completes
\* on the recorded return of a close that happened.
THEOREM ReopenImplementsClaim == Spec => ClosesOnce
<1>1. Init => CloseEffect!Init
  BY DEF Init, ReopenInit, CloseEffect!Init
<1>2. IInv /\ IInv' /\ [Next]_vars => [CloseEffect!Next]_(CloseEffect!vars)
  <2> SUFFICES ASSUME IInv, IInv', [Next]_vars
               PROVE [CloseEffect!Next]_(CloseEffect!vars)
    OBVIOUS
  <2>1. CASE CloseRuns
    <3>1. rdir /\ closes = 0 /\ returned = "absent"
      BY <2>1 DEF CloseRuns, IInv, ReopenInv, OneClose, CloseEvidence, Opening
    <3>2. UNCHANGED <<rstate, rdir, returned>> /\ closes' \in {closes, closes + 1}
      BY <2>1 DEF CloseRuns, rjournal
    <3>3. QED
      BY <3>1, <3>2 DEF CloseEffect!vars, CloseEffect!Next, CloseEffect!Perform
  <2>2. CASE \E r \in Request : ReopenWork(r)
    BY <2>2, ReopenWorkRefines DEF IInv
  <2>3. CASE UNCHANGED <<rstate, rdir, returned, closes>>
    BY <2>3 DEF CloseEffect!vars
  <2>4. QED
    BY <2>1, <2>2, <2>3 DEF Next, ReopenStep, StartReopen, ArriveReopen, CrashBoth,
      RLooks, RKeeps, rjournal, vars, reopenVars
<1>3. QED
  BY <1>1, <1>2, Inductive, PTL DEF Spec, ClosesOnce, CloseEffect!Spec

=============================================================================
