------------------------ MODULE SessionGuard_proofs ------------------------
(***************************************************************************)
(* The transport guard for every number of clients, documents, files and    *)
(* revisions, and for every number of restarts, crashes and stale locks:    *)
(* what a guarded call is performed on does not depend on the queue lock.   *)
(***************************************************************************)
EXTENDS SessionGuard, TLAPS

\* Nobody waits for a guarded call outside a scope.
CallsAreInScope ==
  \A c \in Client : request[c] # None \/ answer[c] # None => scope[c] # None

\* A scope has consumed its revision only if its own mutation was confirmed;
\* a positive answer to a mutation is such a confirmation.
ConsumedIsOwn ==
  \A c \in Client :
    /\ scope[c] # None => (scope[c].consumed => own[c])
    /\ answer[c] # None => (answer[c].ok /\ answer[c].method \in ConsumesRevision => own[c])

\* A scope that has asked for another document is marked, and a client outside
\* a scope has asked for nothing.
SwitchIsMarked ==
  \A c \in Client :
    /\ scope[c] # None => (switched[c] => scope[c].invalidated)
    /\ scope[c] = None => ~switched[c]

\* A request leaves the revision out only after a confirmed mutation, and none
\* is sent after a document switch.
Honest(q) == ~q.switched /\ (q.exact \/ q.after)

RequestsAreHonest ==
  /\ \A c \in Client : request[c] # None => Honest(request[c])
  /\ \A q \in strays : Honest(q)

IInv == TypeOK /\ CallsAreInScope /\ ConsumedIsOwn /\ SwitchIsMarked /\ RequestsAreHonest

LEMMA InitInv == Init => IInv
<1> SUFFICES ASSUME Init PROVE IInv
  OBVIOUS
<1>1. PICK d \in Doc, r \in Revision :
        active = d /\ docs = Launched(d, r) /\ disk = [f \in File |-> r]
  BY DEF Init
<1>2. SketchUpOK
  BY <1>1 DEF Init, SketchUpOK, Launched, Untitled, Unborn, Window, Handle, IsOpen
<1>3. TypeOK
  BY <1>2 DEF Init, TypeOK, Bounds
<1>4. QED
  BY <1>3 DEF Init, IInv, CallsAreInScope, ConsumedIsOwn, SwitchIsMarked, RequestsAreHonest

\* An open window is a legal handle.
LEMMA WindowTyped ==
  ASSUME NEW f \in File \cup {None}, NEW r \in Revision, NEW m \in BOOLEAN
  PROVE  Window(f, r, m) \in Handle /\ Window(f, r, m).life = "open"
  BY DEF Window, Handle

\* What the bridge does for a request leaves SketchUp in a legal state.
LEMMA DispatchTyped ==
  ASSUME SketchUpOK, NEW q \in Call, NEW ok \in BOOLEAN, Dispatch(q, ok)
  PROVE  SketchUpOK' /\ performed' \in {None, q}
<1> USE DEF SketchUpOK, Call, IsOpen
<1>0. /\ Accepted(q) => active \in Doc
      /\ \A d \in Doc : docs[d].rev \in Revision /\ docs[d].path \in File \cup {None}
  BY DEF Accepted, Handle
<1> DEFINE Changed(w) == docs' = [docs EXCEPT ![active] = w]
<1>1. CASE Refuse(q, ok)
  BY <1>1 DEF Refuse, sketchup
<1>2. ASSUME Accepted(q), Build(q, ok) PROVE SketchUpOK'
  <2>1. PICK r \in Revision, m \in BOOLEAN : Changed(Window(Path(active), r, m))
    BY <1>2 DEF Build
  <2> DEFINE w == Window(Path(active), r, m)
  <2>2. w \in Handle /\ w.life = "open"
    BY <1>0, <1>2, <2>1 DEF Path, Window, Handle
  <2>3. Changed(w)
    BY <2>1
  <2> HIDE DEF w
  <2>4. docs' \in [Doc -> Handle] /\ docs'[active].life = "open"
    BY <1>0, <1>2, <2>2, <2>3
  <2>5. session' = session /\ active' = active /\ disk' = disk /\ pending' = None
    BY <1>2 DEF Build
  <2>6. QED
    BY <1>0, <2>4, <2>5
<1>3. ASSUME Accepted(q), Save(q, ok) PROVE SketchUpOK'
  <2> DEFINE w == Window(q.file, docs[active].rev, FALSE)
  <2>1. w \in Handle /\ w.life = "open"
    BY <1>0, <1>3, WindowTyped
  <2>2. docs' = docs \/ Changed(w)
    BY <1>3 DEF Save, SavedAs
  <2>3. disk' \in [File -> Revision]
    BY <1>0, <1>3 DEF Save
  <2> HIDE DEF w
  <2>4. QED
    BY <1>0, <1>3, <2>1, <2>2, <2>3 DEF Save
<1>4. ASSUME Accepted(q), SaveAndReset(q, ok) PROVE SketchUpOK'
  <2>1. CASE docs' = docs /\ disk' = disk
    BY <1>4, <2>1 DEF SaveAndReset
  <2>2. ASSUME NEW r \in Revision, NEW m \in BOOLEAN, Changed(Window(q.file, r, m)),
               disk' = [disk EXCEPT ![q.file] = docs[active].rev]
        PROVE  SketchUpOK'
    <3>1. Window(q.file, r, m) \in Handle /\ Window(q.file, r, m).life = "open"
      BY WindowTyped
    <3>2. QED
      BY <1>0, <1>4, <2>2, <3>1 DEF SaveAndReset
  <2>3. QED
    BY <1>4, <2>1, <2>2 DEF SaveAndReset
<1>5. ASSUME Observe PROVE SketchUpOK'
  BY <1>5 DEF Observe
<1>6. ASSUME Accepted(q), Open(q, ok) PROVE SketchUpOK'
  <2>1. Opened(q.file) \in Handle /\ Opened(q.file).life = "open"
    BY WindowTyped DEF Opened
  <2>2. CASE UNCHANGED <<docs, active>>
    BY <1>6, <2>2 DEF Open
  <2>3. ASSUME NEW d \in Doc, active' = d,
               \/ HasFile(d, q.file) /\ UNCHANGED docs
               \/ docs' = [docs EXCEPT ![d] = Opened(q.file)]
        PROVE  SketchUpOK'
    <3>1. docs' \in [Doc -> Handle] /\ docs'[d].life = "open"
      BY <2>1, <2>3 DEF HasFile
    <3>2. QED
      BY <1>6, <2>3, <3>1 DEF Open
  <2>4. QED
    BY <1>6, <2>2, <2>3 DEF Open
<1>7. ASSUME Accepted(q), Reopen(q, ok) PROVE SketchUpOK'
  <2> DEFINE closed == [docs EXCEPT ![active].life = "closed"]
  <2>1. active \in Doc /\ session' \in Nat /\ disk' \in [File -> Revision]
    BY <1>0, <1>7 DEF Reopen
  <2>2. pending' \in File \cup {None}
    BY <1>7 DEF Reopen
  <2>3. closed \in [Doc -> Handle]
    BY <2>1 DEF Handle
  <2>4. CASE UNCHANGED <<docs, active>>
    BY <2>1, <2>2, <2>4
  <2>5. CASE docs' = closed /\ FocusLeft(closed)
    BY <2>1, <2>2, <2>3, <2>5 DEF FocusLeft
  <2>6. ASSUME NEW d \in Doc, docs' = [closed EXCEPT ![d] = Opened(q.file)], active' = d
        PROVE  SketchUpOK'
    <3>1. Opened(q.file) \in Handle /\ Opened(q.file).life = "open"
      BY WindowTyped DEF Opened
    <3>2. docs' \in [Doc -> Handle] /\ docs'[d].life = "open"
      BY <2>3, <2>6, <3>1
    <3>3. QED
      BY <2>1, <2>2, <2>6, <3>2
  <2>7. QED
    BY <1>7, <2>4, <2>5, <2>6 DEF Reopen
<1>8. CASE Perform(q, ok)
  BY <1>2, <1>3, <1>4, <1>5, <1>6, <1>7, <1>8 DEF Perform
<1>9. QED
  BY <1>1, <1>8 DEF Dispatch

\* What the user does leaves SketchUp in a legal state.
LEMMA UserTyped == ASSUME SketchUpOK, User PROVE SketchUpOK'
<1> USE DEF SketchUpOK, IsOpen
<1>0. /\ session' \in Nat
      /\ \A d \in Doc : docs[d].rev \in Revision /\ docs[d].path \in File \cup {None}
  BY DEF User, Handle
<1> DEFINE Changed(w) == docs' = [docs EXCEPT ![active] = w]
<1>1. CASE Edit
  <2>1. PICK r \in Revision : Changed(Window(Path(active), r, TRUE))
    BY <1>1 DEF Edit
  <2>2. /\ Window(Path(active), r, TRUE) \in Handle
        /\ Window(Path(active), r, TRUE).life = "open"
    BY <1>0, <1>1, WindowTyped DEF Edit, Path
  <2>3. QED
    BY <1>0, <1>1, <2>1, <2>2 DEF Edit
<1>2. CASE UserSaves
  <2>1. PICK f \in File : /\ Changed(Window(f, docs[active].rev, FALSE))
                          /\ disk' = [disk EXCEPT ![f] = docs[active].rev]
    BY <1>2 DEF UserSaves, SavedAs
  <2> DEFINE w == Window(f, docs[active].rev, FALSE)
  <2>2. w \in Handle /\ w.life = "open"
    BY <1>0, <1>2, WindowTyped DEF UserSaves
  <2>3. disk' \in [File -> Revision]
    BY <1>0, <1>2, <2>1 DEF UserSaves
  <2>4. Changed(w)
    BY <2>1
  <2> HIDE DEF w
  <2>5. QED
    BY <1>0, <1>2, <2>2, <2>3, <2>4 DEF UserSaves
<1>3. CASE Focus
  BY <1>0, <1>3 DEF Focus
<1>4. CASE NewWindow
  <2>1. PICK d \in Doc : /\ active' = d
                         /\ \/ \E r \in Revision : docs' = [docs EXCEPT ![d] = Untitled(r)]
                            \/ \E f \in File : docs' = [docs EXCEPT ![d] = Opened(f)]
    BY <1>4 DEF NewWindow
  <2>2. /\ \A r \in Revision : Untitled(r) \in Handle /\ Untitled(r).life = "open"
        /\ \A f \in File : Opened(f) \in Handle /\ Opened(f).life = "open"
    BY WindowTyped DEF Untitled, Opened
  <2>3. docs' \in [Doc -> Handle] /\ docs'[d].life = "open"
    BY <2>1, <2>2
  <2>4. QED
    BY <1>0, <1>4, <2>1, <2>3 DEF NewWindow
<1>5. CASE CloseWindow
  <2>1. docs' \in [Doc -> Handle]
    BY <1>5 DEF CloseWindow, Handle
  <2>2. QED
    BY <1>0, <1>5, <2>1 DEF CloseWindow, FocusLeft
<1>6. CASE Overwrite
  BY <1>0, <1>6 DEF Overwrite
<1>7. QED
  BY <1>1, <1>2, <1>3, <1>4, <1>5, <1>6 DEF User

\* The state of the queue's scopes is legal after every step.
LEMMA TypeStep == IInv /\ [Next]_vars => TypeOK'
<1> SUFFICES ASSUME IInv, [Next]_vars PROVE TypeOK'
  OBVIOUS
<1> USE DEF IInv, TypeOK, sketchup, client, leftovers
<1>1. ASSUME active # None PROVE SessionState \in Contract
  BY <1>1 DEF SketchUpOK, SessionState, Contract, Handle, Path
<1>2. ASSUME NEW c \in Client, NEW g \in Contract, active # None, EnterScope(c, g),
             contract' \in [Client -> Contract \cup {None}], performed' = None
      PROVE  TypeOK'
  BY <1>2 DEF EnterScope, Context, SketchUpOK, IsOpen
<1>3. ASSUME NEW c \in Client, ClientStep(c), performed' = None PROVE TypeOK'
  <2> USE <1>3
  <2>1. CASE Handshake(c)
    BY <1>1, <2>1 DEF Handshake, MayProbe, SketchUpOK, IsOpen
  <2>2. CASE Authorize(c)
    BY <1>1, <1>2, <2>2 DEF Authorize, Binding, MayProbe
  <2>3. CASE AuthorizeFresh(c)
    BY <1>1, <1>2, <2>3 DEF AuthorizeFresh, MayProbe
  <2>4. ASSUME NEW m \in Asked, NEW f \in File, Send(c, m, f) PROVE TypeOK'
    <3>1. scope[c] \in Context /\ m \in Method
      BY <2>4, ConstantsAssumption DEF Send
    <3>2. request'[c] \in Call
      BY <2>4, <3>1 DEF Send, Call, Context
    <3>3. request' \in [Client -> Call \cup {None}]
      BY <2>4, <3>2 DEF Send
    <3>4. scope' \in [Client -> Context \cup {None}]
      <4> DEFINE b == m \in SwitchesDocument
      <4>0. b \in BOOLEAN /\ scope' = [scope EXCEPT ![c] = [scope[c] EXCEPT !.invalidated = b]]
        BY <2>4 DEF Send
      <4> HIDE DEF b
      <4>1. [scope[c] EXCEPT !.invalidated = b] \in Context
        BY <3>1, <4>0 DEF Context
      <4>2. QED
        BY <4>0, <4>1
    <3>5. switched' \in [Client -> BOOLEAN]
      BY <2>4 DEF Send
    <3>6. QED
      BY <2>4, <3>3, <3>4, <3>5 DEF Send, SketchUpOK, IsOpen
  <2>5. CASE Learn(c)
    <3>1. scope' \in [Client -> Context \cup {None}]
      <4> DEFINE b == scope[c].consumed \/ (answer[c].ok /\ answer[c].exact
                                              /\ answer[c].method \in ConsumesRevision)
      <4>1. scope' = [scope EXCEPT ![c] = [scope[c] EXCEPT !.consumed = b]]
        BY <2>5 DEF Learn
      <4>2. b \in BOOLEAN
        OBVIOUS
      <4> HIDE DEF b
      <4>3. scope[c] \in Context
        BY <2>5 DEF CallsAreInScope, Learn
      <4>4. [scope[c] EXCEPT !.consumed = b] \in Context
        BY <4>2, <4>3 DEF Context
      <4>5. QED
        BY <4>1, <4>4
    <3>2. QED
      BY <2>5, <3>1 DEF Learn, SketchUpOK, IsOpen
  <2>6. CASE TimeOut(c)
    BY <2>6 DEF TimeOut, SketchUpOK, IsOpen
  <2>7. CASE LeaveScope(c)
    BY <2>7 DEF LeaveScope, SketchUpOK, IsOpen
  <2>8. CASE Crash(c)
    BY <2>8 DEF Crash, Spend, Bounds, SketchUpOK, IsOpen
  <2>9. QED
    BY <1>3, <2>1, <2>2, <2>3, <2>4, <2>5, <2>6, <2>7, <2>8 DEF ClientStep
<1>4. ASSUME RemoveStaleLock \/ Reconcile \/ ProbeIdentity, performed' = None PROVE TypeOK'
  <2>1. CASE RemoveStaleLock
    BY <1>4, <2>1 DEF RemoveStaleLock, Spend, Bounds, SketchUpOK, IsOpen
  <2>2. CASE Reconcile
    BY <1>4, <2>2 DEF Reconcile, SketchUpOK, IsOpen
  <2>3. CASE ProbeIdentity
    BY <1>4, <2>3 DEF ProbeIdentity, SketchUpOK, IsOpen
  <2>4. QED
    BY <1>4, <2>1, <2>2, <2>3
<1>5. ASSUME RestartBridge, performed' = None PROVE TypeOK'
  BY <1>5 DEF RestartBridge, Spend, Bounds, SketchUpOK, IsOpen
<1>6. ASSUME RestartSketchUp, performed' = None PROVE TypeOK'
  <2>1. PICK d \in Doc, r \in Revision : active' = d /\ docs' = Launched(d, r)
    BY <1>6 DEF RestartSketchUp
  <2>2. docs' \in [Doc -> Handle] /\ docs'[d].life = "open"
    BY <2>1 DEF Launched, Untitled, Unborn, Window, Handle
  <2>3. SketchUpOK'
    BY <1>6, <2>1, <2>2 DEF RestartSketchUp, SketchUpOK, IsOpen
  <2>4. QED
    BY <1>6, <2>3 DEF RestartSketchUp, Spend, Bounds
<1>7. ASSUME User, performed' = None PROVE TypeOK'
  BY <1>7, UserTyped DEF User, Spend, Bounds
<1>8. ASSUME NEW c \in Client, Serve(c) PROVE TypeOK'
  <2>1. PICK ok \in BOOLEAN : Dispatch(request[c], ok)
    BY <1>8 DEF Serve
  <2>2. request[c] \in Call
    BY <1>8 DEF Serve
  <2>3. SketchUpOK' /\ performed' \in {None, request[c]}
    BY <2>1, <2>2, DispatchTyped
  <2>4. QED
    BY <1>8, <2>2, <2>3 DEF Serve, Answer, Call
<1>9. ASSUME NEW q \in strays, ServeStray(q) PROVE TypeOK'
  <2>1. PICK ok \in BOOLEAN : Dispatch(q, ok)
    BY <1>9 DEF ServeStray
  <2>2. SketchUpOK' /\ performed' \in {None, q} /\ q \in Call
    BY <2>1, DispatchTyped
  <2>3. QED
    BY <1>9, <2>2 DEF ServeStray
<1>10. CASE UNCHANGED vars
  BY <1>10 DEF vars, SketchUpOK, IsOpen
<1>11. QED
  BY <1>3, <1>4, <1>5, <1>6, <1>7, <1>8, <1>9, <1>10 DEF Next, OtherStep

\* Every step keeps what the requests and scopes say about each other.
LEMMA ScopeStep ==
  IInv /\ [Next]_vars => (CallsAreInScope /\ ConsumedIsOwn /\ SwitchIsMarked /\ RequestsAreHonest)'
<1> SUFFICES ASSUME IInv, [Next]_vars
             PROVE  (CallsAreInScope /\ ConsumedIsOwn /\ SwitchIsMarked /\ RequestsAreHonest)'
  OBVIOUS
<1> DEFINE Rest == CallsAreInScope /\ ConsumedIsOwn /\ SwitchIsMarked /\ RequestsAreHonest
<1>0. /\ Rest /\ strays \subseteq Call
      /\ scope \in [Client -> Context \cup {None}] /\ request \in [Client -> Call \cup {None}]
      /\ answer \in [Client -> Answer \cup {None}]
      /\ own \in [Client -> BOOLEAN] /\ switched \in [Client -> BOOLEAN]
  BY DEF IInv, TypeOK
<1> USE <1>0 DEF CallsAreInScope, ConsumedIsOwn, SwitchIsMarked, RequestsAreHonest, Honest,
                 client, leftovers
<1>1. ASSUME NEW c \in Client, Handshake(c) \/ Authorize(c) \/ AuthorizeFresh(c) PROVE Rest'
  BY <1>1 DEF Handshake, Authorize, AuthorizeFresh, EnterScope, MayProbe
<1>2. ASSUME NEW c \in Client, NEW m \in Asked, NEW f \in File, Send(c, m, f) PROVE Rest'
  <2> DEFINE b == m \in SwitchesDocument
  <2>1. /\ scope[c] \in Context /\ ~scope[c].invalidated /\ b \in BOOLEAN
        /\ scope' = [scope EXCEPT ![c] = [scope[c] EXCEPT !.invalidated = b]]
        /\ switched' = [switched EXCEPT ![c] = switched[c] \/ b]
        /\ request' = [request EXCEPT ![c] =
             [method |-> m, file |-> f, guard |-> scope[c].guard,
              exact |-> ~scope[c].consumed, after |-> own[c], switched |-> switched[c]]]
        /\ answer' = answer /\ own' = own /\ strays' = strays
    BY <1>2 DEF Send
  <2>2. scope[c].consumed => own[c]
    BY <2>1, <1>2 DEF Send
  <2>3. ~switched[c]
    BY <2>1, <1>2 DEF Send
  <2> HIDE DEF b
  <2>4. [scope[c] EXCEPT !.invalidated = b] \in Context
    BY <2>1 DEF Context
  <2>8. /\ scope'[c] # None /\ scope'[c].consumed = scope[c].consumed /\ scope'[c].invalidated = b
        /\ \A d \in Client \ {c} : scope'[d] = scope[d]
    BY <2>1, <2>4, ContextAssumption DEF Context
  <2>5. /\ switched'[c] = b
        /\ \A d \in Client \ {c} : switched'[d] = switched[d]
    BY <2>1, <2>3
  <2>6. /\ request'[c].exact = ~scope[c].consumed
        /\ request'[c].after = own[c] /\ ~request'[c].switched
        /\ \A d \in Client \ {c} : request'[d] = request[d]
    BY <2>1, <2>3
  <2>7. QED
    BY <2>1, <2>2, <2>8, <2>5, <2>6
<1>3. ASSUME NEW c \in Client, Learn(c) PROVE Rest'
  <2> DEFINE b == scope[c].consumed \/ (answer[c].ok /\ answer[c].exact
                                          /\ answer[c].method \in ConsumesRevision)
  <2>1. /\ scope[c] \in Context /\ answer[c] # None /\ b \in BOOLEAN
        /\ scope' = [scope EXCEPT ![c] = [scope[c] EXCEPT !.consumed = b]]
        /\ answer' = [answer EXCEPT ![c] = None]
        /\ request' = request /\ own' = own /\ switched' = switched /\ strays' = strays
    BY <1>3 DEF Learn
  <2>2. b => own[c]
    BY <2>1
  <2> HIDE DEF b
  <2>3. [scope[c] EXCEPT !.consumed = b] \in Context
    BY <2>1 DEF Context
  <2>4. /\ scope'[c] # None /\ scope'[c].consumed = b
        /\ scope'[c].invalidated = scope[c].invalidated
        /\ \A d \in Client \ {c} : scope'[d] = scope[d]
    BY <2>1, <2>3, ContextAssumption DEF Context
  <2>5. QED
    BY <2>1, <2>2, <2>4
<1>4. ASSUME NEW c \in Client, TimeOut(c) PROVE Rest'
  BY <1>4 DEF TimeOut
<1>5. ASSUME NEW c \in Client, LeaveScope(c) PROVE Rest'
  BY <1>5 DEF LeaveScope
<1>6. ASSUME NEW c \in Client, Crash(c) PROVE Rest'
  BY <1>6 DEF Crash
<1>7. ASSUME RemoveStaleLock \/ Reconcile \/ ProbeIdentity \/ RestartBridge \/ RestartSketchUp \/ User
      PROVE  Rest'
  BY <1>7 DEF RemoveStaleLock, Reconcile, ProbeIdentity, RestartBridge, RestartSketchUp, User
<1>8. ASSUME NEW c \in Client, Serve(c) PROVE Rest'
  BY <1>8 DEF Serve
<1>9. ASSUME NEW q \in strays, ServeStray(q) PROVE Rest'
  BY <1>9 DEF ServeStray
<1>10. CASE UNCHANGED vars
  BY <1>10 DEF vars
<1> HIDE <1>0 DEF CallsAreInScope, ConsumedIsOwn, SwitchIsMarked, RequestsAreHonest
<1>11. QED
  BY <1>1, <1>2, <1>3, <1>4, <1>5, <1>6, <1>7, <1>8, <1>9, <1>10 DEF Next, OtherStep, ClientStep

\* The inductive invariant of every behaviour.
THEOREM Invariance == Spec => []IInv
<1>1. IInv /\ [Next]_vars => IInv'
  BY TypeStep, ScopeStep DEF IInv
<1>2. QED
  BY InitInv, <1>1, PTL DEF Spec

\* Every variable keeps its type, and the document with the focus is open.
THEOREM TypeCorrect == Spec => []TypeOK
<1>1. IInv => TypeOK
  BY DEF IInv
<1>2. QED
  BY Invariance, <1>1, PTL

\* The request that a step performs was accepted by the bridge, and was honest.
LEMMA PerformedIsAccepted ==
  ASSUME IInv, Next, performed' # None
  PROVE  Accepted(performed') /\ Honest(performed')
<1>1. CASE OtherStep /\ performed' = None
  BY <1>1
<1>2. ASSUME NEW c \in Client, Serve(c) PROVE Accepted(performed') /\ Honest(performed')
  BY <1>2 DEF Serve, Dispatch, Refuse, Perform, IInv, RequestsAreHonest
<1>3. ASSUME NEW q \in strays, ServeStray(q) PROVE Accepted(performed') /\ Honest(performed')
  BY <1>3 DEF ServeStray, Dispatch, Refuse, Perform, IInv, RequestsAreHonest
<1>4. QED
  BY <1>1, <1>2, <1>3 DEF Next

\* A guarded request is performed only in the session and on the document of its
\* scope's handshake, and on the revision and unsaved-change flag of that
\* handshake unless the scope's own mutation has been confirmed there.
THEOREM MutatesWhatItSawHolds == Spec => MutatesWhatItSaw
<1>1. ASSUME IInv, Next, performed' # None
      PROVE  LET q == performed' IN
             /\ q.guard.session = session /\ q.guard.doc = active
             /\ \/ q.after
                \/ q.guard.rev = docs[active].rev /\ q.guard.modified = docs[active].modified
  BY <1>1, PerformedIsAccepted DEF Accepted, Bound, Honest
<1>2. QED
  BY Invariance, <1>1, PTL DEF Spec, MutatesWhatItSaw

\* No guarded request is performed that a scope sent after it had asked for
\* another document.
THEOREM SwitchEndsScopeHolds == Spec => SwitchEndsScope
<1>1. ASSUME IInv, Next, performed' # None PROVE ~performed'.switched
  BY <1>1, PerformedIsAccepted DEF Honest
<1>2. QED
  BY Invariance, <1>1, PTL DEF Spec, SwitchEndsScope

\* While an open_model is pending, guarded requests are performed on its target
\* only, and it is forgotten only there or by a new SketchUp.
THEOREM PendingOpenIsKept == Spec => PendingOpenHolds
<1>1. ASSUME IInv, Next, pending # None
      PROVE  /\ performed' # None => Path(active) = pending
             /\ pending' # pending => session' # session \/ Path(active) = pending
  <2>1. performed' # None => Path(active) = pending
    BY <1>1, PerformedIsAccepted DEF Accepted, PendingElsewhere
  <2> DEFINE Goal == pending' # pending => session' # session \/ Path(active) = pending
  <2>2. ASSUME NEW q, NEW ok, Dispatch(q, ok) PROVE Goal
    BY <1>1, <2>2 DEF Dispatch, Refuse, Perform, Accepted, PendingElsewhere, sketchup
  <2>3. ASSUME NEW c \in Client, ClientStep(c) PROVE Goal
    BY <2>3 DEF ClientStep, Handshake, Authorize, AuthorizeFresh, EnterScope, Send, Learn,
                TimeOut, LeaveScope, Crash, sketchup
  <2>4. ASSUME User PROVE Goal
    BY <2>4 DEF User, Edit, UserSaves, Focus, NewWindow, CloseWindow, Overwrite
  <2>5. ASSUME RemoveStaleLock \/ Reconcile \/ RestartBridge PROVE Goal
    BY <2>5 DEF RemoveStaleLock, Reconcile, RestartBridge, sketchup
  <2>6. ASSUME ProbeIdentity PROVE Goal
    BY <2>6 DEF ProbeIdentity
  <2>7. ASSUME RestartSketchUp PROVE Goal
    <3>1. session \in Nat
      BY <1>1 DEF IInv, TypeOK, SketchUpOK
    <3>2. session' = session + 1
      BY <2>7 DEF RestartSketchUp
    <3>3. QED
      BY <3>1, <3>2
  <2>8. Goal
    BY <1>1, <2>2, <2>3, <2>4, <2>5, <2>7, <2>6 DEF Next, OtherStep, Serve, ServeStray
  <2>9. QED
    BY <2>1, <2>8
<1>2. QED
  BY Invariance, <1>1, PTL DEF Spec, PendingOpenHolds

\* The bridge closes a document only when its file holds everything in it.
THEOREM ClosesOnlySavedHolds == Spec => ClosesOnlySaved
<1>1. ASSUME IInv, Next, performed' # None, NEW d \in Doc, IsOpen(d), docs'[d].life = "closed"
      PROVE  ~docs[d].modified /\ disk[Path(d)] = docs[d].rev
  <2> DEFINE Goal == ~docs[d].modified /\ disk[Path(d)] = docs[d].rev
  <2>1. docs \in [Doc -> Handle] /\ strays \subseteq Call
    BY <1>1 DEF IInv, TypeOK, SketchUpOK
  <2>2. ASSUME NEW q, NEW ok \in BOOLEAN, Perform(q, ok) PROVE Goal
    <3> USE DEF Window, IsOpen
    <3>1. CASE Build(q, ok)
      BY <1>1, <2>1, <3>1 DEF Build
    <3>2. CASE Save(q, ok)
      BY <1>1, <2>1, <3>2 DEF Save, SavedAs
    <3>3. CASE SaveAndReset(q, ok)
      BY <1>1, <2>1, <3>3 DEF SaveAndReset
    <3>4. CASE Observe
      BY <1>1, <2>1, <3>4 DEF Observe
    <3>5. CASE Open(q, ok)
      BY <1>1, <2>1, <3>5 DEF Open, Opened
    <3>6. CASE Reopen(q, ok)
      <4>1. d = active /\ MayClose(q)
        BY <1>1, <2>1, <3>6 DEF Reopen, Opened
      <4>2. QED
        BY <4>1 DEF MayClose, SavedModelHolds, SavedFileHolds
    <3>7. QED
      BY <2>2, <3>1, <3>2, <3>3, <3>4, <3>5, <3>6 DEF Perform
  <2>3. ASSUME NEW q, NEW ok \in BOOLEAN, Dispatch(q, ok) PROVE Goal
    BY <1>1, <2>2, <2>3 DEF Dispatch, Refuse
  <2> HIDE DEF Goal
  <2>4. Goal
    BY <1>1, <2>3 DEF Next, Serve, ServeStray
  <2>5. QED
    BY <2>4 DEF Goal
<1>2. IInv /\ Next => (performed' # None =>
        \A d \in Doc : IsOpen(d) /\ docs'[d].life = "closed" =>
          ~docs[d].modified /\ disk[Path(d)] = docs[d].rev)
  BY <1>1
<1>3. QED
  BY Invariance, <1>2, PTL DEF Spec, ClosesOnlySaved

=============================================================================
