------------------------- MODULE EditApproval_proofs -------------------------
(***************************************************************************)
(* Proofs about EditApproval, for any number of pages, requests, processes,   *)
(* challenges and faults.  The inductive invariant ties the place of every    *)
(* request to the record of the decision it has read and to what is spent     *)
(* and has run; and, where one process serves all requests, the task a        *)
(* request has read to the task as it is.                                    *)
(***************************************************************************)
EXTENDS EditApproval, SequenceTheorems, TLAPS

Approved == {"approve", "execute", "consume", "spend", "mark", "redact", "run"}
Used == {"mark", "redact", "run"}

\* Who writes a decision is alone with a file that is not whole yet.
Written ==
  \A t \in Tab : tab[t].pc = "write" =>
    /\ decision[tab[t].c] = Torn
    /\ \A u \in Tab : tab[u].pc = "write" /\ tab[u].c = tab[t].c => u = t

\* The user has been told of the decisions on record, and of no other ones.
Known ==
  \A c \in Challenge, x \in Choice :
    <<c, x>> \in told <=> decision[c] \in Decision /\ decision[c].choice = x

CarriedBy(r) ==
  /\ request[r].pc \in Approved =>
       /\ decision[request[r].c] \in Decision
       /\ decision[request[r].c].choice = "approved"
  /\ request[r].pc \in Used => request[r].c \in spent
  /\ request[r].pc = "run" => ~decision[request[r].c].open
  /\ request[r].pc = "recover" => request[r].saw \in {"awaiting_input", "awaiting_review", "failed"}
Carried == \A r \in Request : CarriedBy(r)

\* An approval that is spent is in the hands of one request, until its edit has run.
Held ==
  /\ \A r, s \in Request :
       request[r].pc \in Used /\ request[s].pc \in Used /\ request[r].c = request[s].c => r = s
  /\ \A r \in Request, i \in DOMAIN ran : request[r].pc \in Used => ran[i] # request[r].c
  /\ \A i, j \in DOMAIN ran : ran[i] = ran[j] => i = j

\* In one process one request at a time has read the task, and it has the task as it is.
Serial ==
  OneServer =>
    /\ \A r, s \in Request : request[r].got # None /\ request[s].got # None => r = s
    /\ \A r \in Request : request[r].got # None => request[r].got = task

Alone == Serial /\ ExecutesAlone

IInv ==
  /\ TypeOK /\ Written /\ Known /\ Carried /\ Held
  /\ RunsOnlyApproved /\ Alone

RequestType == [Request -> [pc : Place, c : Challenge, saw : State, got : Task \cup {None}]]
TabType == [Tab -> [pc : TabPlace, c : Challenge, choice : Choice]]

-----------------------------------------------------------------------------
(* Facts about the constants                                                *)

\* The states of a task.
LEMMA States ==
  State = {"understanding", "awaiting_input", "awaiting_review", "approved", "executing",
           "verifying", "completed", "failed"}
BY DEF State, Successors

Busy == {"executing", "completed", "failed"}

\* What the transitions of TASK_TRANSITIONS lead to.
LEMMA Transitions ==
  ASSUME NEW x \in State
  PROVE  /\ Successors[x] \subseteq State
         /\ x \in Busy => Successors[x] \subseteq {"verifying", "completed", "failed"}
         /\ "executing" \in Successors[x] => x \notin Busy
         /\ Recovery(x) \subseteq {"awaiting_input", "awaiting_review"}
BY States DEF Successors, Busy, Recovery

\* The first challenge, an idle page and an idle request.
LEMMA Constants ==
  /\ First \in Challenge
  /\ Idle \in [pc : TabPlace, c : Challenge, choice : Choice]
  /\ Free \in [pc : Place, c : Challenge, saw : State, got : Task \cup {None}]
<1>1. First \in Challenge
  BY BoundAssumption DEF First, Challenge
<1>2. Idle \in [pc : TabPlace, c : Challenge, choice : Choice]
  BY <1>1 DEF Idle, TabPlace, Choice
<1>3. Free \in [pc : Place, c : Challenge, saw : State, got : Task \cup {None}]
  BY <1>1, States DEF Free, Anew, Place
<1> QED BY <1>1, <1>2, <1>3

-----------------------------------------------------------------------------
(* The initial states                                                       *)

\* The initial states satisfy the invariant.
LEMMA InitInv == Init => IInv
<1> SUFFICES ASSUME Init PROVE IInv
  OBVIOUS
<1>1. task \in Task
  BY Constants, States DEF Init, Task
<1>2. /\ calls \in [user : 0 .. MaxDecisions, gateway : 0 .. MaxCalls]
      /\ faults \in 0 .. MaxFaults
  BY BoundAssumption DEF Init
<1>3. TypeOK
  BY <1>1, <1>2, Constants DEF Init, TypeOK
<1>4. Written /\ Known /\ Carried /\ Held
  BY NoneAssumption DEF Init, Written, Known, Carried, CarriedBy, Held, Idle, Free, Anew, Approved, Used
<1>5. RunsOnlyApproved /\ Alone
  BY DEF Init, RunsOnlyApproved, Alone, Serial, ExecutesAlone, Executes, Free, Anew
<1> QED BY <1>3, <1>4, <1>5 DEF IInv

-----------------------------------------------------------------------------
(* Steps that leave the requests and the task alone                         *)

\* A record keeps its choice, and a token that is gone does not come back.
Grows ==
  /\ spent \subseteq spent'
  /\ \A c \in Challenge : decision[c] \in Decision =>
       /\ decision'[c] \in Decision /\ decision'[c].choice = decision[c].choice
       /\ decision'[c].open => decision[c].open

\* What one request carries stays true while the records grow.
LEMMA CarriedStays ==
  ASSUME TypeOK, Grows, NEW r \in Request, CarriedBy(r), UNCHANGED request[r]
  PROVE  CarriedBy(r)'
<1>1. request[r].c \in Challenge
  BY DEF TypeOK
<1> QED BY <1>1 DEF Grows, CarriedBy, Approved, Used

\* The runs that have been stay approved while the records grow.
LEMMA RunsStay ==
  ASSUME TypeOK, Known, RunsOnlyApproved, Grows, Known', UNCHANGED ran
  PROVE  RunsOnlyApproved'
<1> SUFFICES ASSUME NEW i \in DOMAIN ran
             PROVE  <<ran[i], "approved">> \in told' /\ ran[i] \in spent' /\ ~decision'[ran[i]].open
  BY DEF RunsOnlyApproved
<1>1. ran[i] \in Challenge
  BY DEF TypeOK
<1>2. <<ran[i], "approved">> \in told /\ ran[i] \in spent /\ ~decision[ran[i]].open
  BY DEF RunsOnlyApproved
<1>3. decision[ran[i]] \in Decision /\ decision[ran[i]].choice = "approved"
  BY <1>1, <1>2 DEF Known, Choice
<1> QED BY <1>1, <1>2, <1>3 DEF Grows, Known, Choice

\* A step of a page or of time leaves the rest of the invariant true.
LEMMA AsideInv ==
  ASSUME IInv, Grows, Known', UNCHANGED <<request, server, task, ran>>
  PROVE  Carried' /\ Held' /\ RunsOnlyApproved' /\ Alone'
<1>1. Carried'
  BY CarriedStays DEF IInv, Carried
<1>2. Held'
  BY DEF IInv, Held
<1>3. Alone'
  BY DEF IInv, Alone, Serial, ExecutesAlone, Executes, OneServer
<1>4. RunsOnlyApproved'
  BY RunsStay DEF IInv
<1> QED BY <1>1, <1>2, <1>3, <1>4

\* Time.
LEMMA ExpireInv == ASSUME IInv, NEW c \in Challenge, Expire(c) PROVE IInv'
<1>1. Grows /\ Known' /\ UNCHANGED <<request, server, task, ran>>
  BY DEF IInv, Expire, files, past, Grows, Known
<1>2. TypeOK' /\ Written'
  BY DEF IInv, TypeOK, Written, Expire, files, past
<1> QED BY <1>1, <1>2, AsideInv DEF IInv

-----------------------------------------------------------------------------
(* Pages                                                                    *)

\* What the steps of a page have in common.
LEMMA TabGoesFacts ==
  ASSUME TypeOK, NEW t \in Tab, NEW from, NEW to \in TabPlace, TabGoes(t, from, to)
  PROVE  /\ tab' \in TabType
         /\ tab'[t].pc = to /\ (to # "idle" => tab'[t].c = tab[t].c)
         /\ \A u \in Tab \ {t} : tab'[u] = tab[u]
BY Constants DEF TypeOK, TabGoes, Idle, TabType

\* A step of a page that changes no file.
LEMMA QuietTabInv ==
  ASSUME IInv, UNCHANGED <<expired, challenge, spent, task, request, server, ran>>,
         calls' \in [user : 0 .. MaxDecisions, gateway : 0 .. MaxCalls], faults' \in 0 .. MaxFaults,
         UNCHANGED decision, UNCHANGED told, NEW t \in Tab, tab' \in TabType,
         tab'[t].pc # "write", \A u \in Tab \ {t} : tab'[u] = tab[u]
  PROVE  IInv'
<1>1. Grows /\ Known'
  BY DEF IInv, Grows, Known
<1>2. TypeOK'
  BY DEF IInv, TypeOK, TabType
<1>3. Written'
  BY DEF IInv, Written
<1> QED BY <1>1, <1>2, <1>3, AsideInv DEF IInv

\* The user decides.
LEMMA DecideInv ==
  ASSUME IInv, NEW t \in Tab, NEW c \in Challenge, NEW x \in Choice, Decide(t, c, x)
  PROVE  IInv'
<1>1. /\ tab' \in TabType
      /\ tab'[t].pc # "write" /\ \A u \in Tab \ {t} : tab'[u] = tab[u]
  BY DEF IInv, TypeOK, TabType, Decide, TabPlace
<1>2. calls' \in [user : 0 .. MaxDecisions, gateway : 0 .. MaxCalls] /\ faults' \in 0 .. MaxFaults
  BY BoundAssumption DEF IInv, TypeOK, Decide
<1> QED BY <1>1, <1>2, QuietTabInv DEF Decide, files, past

\* A file that is there, or is created.
LEMMA CreateInv == ASSUME IInv, NEW t \in Tab, Create(t) PROVE IInv'
<1> DEFINE c == tab[t].c
<1>1. /\ c \in Challenge /\ TypeOK /\ UNCHANGED told /\ TabOnly
      /\ calls' \in [user : 0 .. MaxDecisions, gateway : 0 .. MaxCalls] /\ faults' \in 0 .. MaxFaults
  BY DEF Create, IInv, TypeOK, TabOnly
<1>2. CASE decision[c] # None /\ TabGoes(t, "create", "existing") /\ UNCHANGED decision
  <2>1. tab' \in TabType /\ tab'[t].pc # "write" /\ \A u \in Tab \ {t} : tab'[u] = tab[u]
    BY <1>1, <1>2, TabGoesFacts DEF TabPlace
  <2> QED BY <1>1, <1>2, <2>1, QuietTabInv DEF TabOnly
<1>3. CASE decision[c] = None /\ TabGoes(t, "create", "write")
           /\ decision' = [decision EXCEPT ![c] = Torn]
  <2>1. /\ tab' \in TabType
        /\ tab'[t].pc = "write" /\ tab'[t].c = c /\ \A u \in Tab \ {t} : tab'[u] = tab[u]
    BY <1>1, <1>3, TabGoesFacts DEF TabPlace
  <2>2. /\ decision' \in [Challenge -> Decision \cup {None, Torn}]
        /\ decision'[c] = Torn /\ \A d \in Challenge \ {c} : decision'[d] = decision[d]
    BY <1>1, <1>3 DEF TypeOK
  <2>3. Grows /\ Known' /\ UNCHANGED <<request, server, task, ran>>
    BY <1>1, <1>3, <2>2, NoneAssumption DEF IInv, TabOnly, Grows, Known
  <2>4. TypeOK'
    BY <1>1, <2>1, <2>2 DEF TypeOK, TabOnly, TabType
  <2>5. Written'
    <3>1. \A u \in Tab : tab[u].pc = "write" => tab[u].c # c /\ tab[u].c \in Challenge
      BY <1>1, <1>3, NoneAssumption DEF IInv, Written, TypeOK
    <3> QED BY <2>1, <2>2, <3>1 DEF IInv, Written
  <2> QED BY <2>3, <2>4, <2>5, AsideInv DEF IInv
<1> QED BY <1>2, <1>3 DEF Create

\* The file is written, or left as it is.
LEMMA WriteInv == ASSUME IInv, NEW t \in Tab, Write(t) PROVE IInv'
<1> DEFINE c == tab[t].c
           x == tab[t].choice
<1>1. /\ c \in Challenge /\ x \in Choice /\ TypeOK /\ TabGoes(t, "write", "idle")
      /\ tab[t].pc = "write" /\ UNCHANGED <<expired, challenge, spent, task, request, server, calls, ran>>
  BY DEF Write, IInv, TypeOK, TabGoes
<1>2. /\ tab' \in TabType
      /\ tab'[t].pc = "idle" /\ \A u \in Tab \ {t} : tab'[u] = tab[u]
  BY <1>1, TabGoesFacts DEF TabPlace
<1>3. CASE UNCHANGED <<decision, told>> /\ faults < MaxFaults /\ faults' = faults + 1
  <2>1. calls' \in [user : 0 .. MaxDecisions, gateway : 0 .. MaxCalls] /\ faults' \in 0 .. MaxFaults
    BY <1>1, <1>3, BoundAssumption DEF TypeOK
  <2> QED BY <1>1, <1>2, <1>3, <2>1, QuietTabInv
<1>4. CASE /\ decision' = [decision EXCEPT ![c] = [choice |-> x, open |-> x = "approved"]]
           /\ told' = told \cup {<<c, x>>} /\ faults' = faults
  <2>1. decision[c] = Torn /\ \A u \in Tab \ {t} : tab[u].pc = "write" => tab[u].c # c
    BY <1>1 DEF IInv, Written
  <2>2. /\ decision' \in [Challenge -> Decision \cup {None, Torn}]
        /\ decision'[c] \in Decision /\ decision'[c].choice = x
        /\ \A d \in Challenge \ {c} : decision'[d] = decision[d]
    BY <1>1, <1>4, <2>1 DEF TypeOK, Decision
  <2>3. Grows
    BY <1>1, <2>1, <2>2, NoneAssumption DEF Grows
  <2>4. Known'
    <3>1. \A y \in Choice : <<c, y>> \notin told
      BY <1>1, <2>1, NoneAssumption DEF IInv, Known
    <3>2. SUFFICES ASSUME NEW d \in Challenge, NEW y \in Choice
                   PROVE  <<d, y>> \in told' <=> decision'[d] \in Decision /\ decision'[d].choice = y
      BY DEF Known
    <3>3. CASE d = c
      BY <1>1, <1>4, <2>2, <3>1, <3>3
    <3>4. CASE d # c
      <4>1. <<d, y>> \in told' <=> <<d, y>> \in told
        BY <1>4, <3>4
      <4> QED BY <2>2, <3>4, <4>1 DEF IInv, Known
    <3> QED BY <3>3, <3>4
  <2>5. TypeOK'
    BY <1>1, <1>2, <1>4, <2>2 DEF TypeOK, TabType
  <2>6. Written'
    <3> SUFFICES ASSUME NEW u \in Tab, tab'[u].pc = "write"
                 PROVE  /\ decision'[tab'[u].c] = Torn
                        /\ \A v \in Tab : tab'[v].pc = "write" /\ tab'[v].c = tab'[u].c => v = u
      BY DEF Written
    <3>1. u # t /\ tab'[u] = tab[u] /\ tab[u].c \in Challenge \ {c}
      BY <1>1, <1>2, <2>1 DEF TypeOK
    <3>2. decision'[tab'[u].c] = Torn
      BY <2>2, <3>1 DEF IInv, Written
    <3>3. \A v \in Tab : tab'[v].pc = "write" /\ tab'[v].c = tab'[u].c => v = u
      BY <1>2, <3>1 DEF IInv, Written
    <3> QED BY <3>2, <3>3
  <2> QED BY <1>1, <2>3, <2>4, <2>5, <2>6, AsideInv DEF IInv
<1> QED BY <1>1, <1>3, <1>4 DEF Write

\* The user is told of a decision that is there only if it is the same.
LEMMA ExistingInv == ASSUME IInv, NEW t \in Tab, Existing(t) PROVE IInv'
<1> DEFINE c == tab[t].c
<1>1. c \in Challenge /\ tab[t].choice \in Choice /\ TypeOK
  BY DEF IInv, TypeOK
<1>2. told' = told
  BY <1>1 DEF Existing, Intact, IInv, Known
<1>3. tab' \in TabType /\ tab'[t].pc = "idle" /\ \A u \in Tab \ {t} : tab'[u] = tab[u]
  BY <1>1, TabGoesFacts DEF Existing, TabPlace
<1>4. calls' \in [user : 0 .. MaxDecisions, gateway : 0 .. MaxCalls] /\ faults' \in 0 .. MaxFaults
  BY <1>1 DEF Existing, TabOnly, TypeOK
<1> QED BY <1>2, <1>3, <1>4, QuietTabInv DEF Existing, TabOnly

-----------------------------------------------------------------------------
(* Requests                                                                 *)

\* What the steps of a request have in common.
LEMMA MovesFacts ==
  ASSUME TypeOK, NEW r \in Request, NEW from, NEW to \in Place, Moves(r, from, to)
  PROVE  /\ request' \in RequestType /\ request[r].pc = from
         /\ request'[r].pc = to /\ request'[r].got = None
         /\ request'[r].saw = IF to = "approve" THEN request[r].saw ELSE "failed"
         /\ to \in Carrying => request'[r].c = request[r].c
         /\ \A s \in Request \ {r} : request'[s] = request[s]
<1>1. At(r, to) \in [pc : Place, c : Challenge, saw : State, got : Task \cup {None}]
  BY Constants, States DEF TypeOK, At, Anew
<1> QED BY <1>1 DEF TypeOK, RequestType, Moves, At, Anew

\* A step of a request that leaves the task alone and is not the one that takes it.
LEMMA QuietAlone ==
  ASSUME IInv, NEW r \in Request, \A s \in Request \ {r} : request'[s] = request[s],
         UNCHANGED <<task, server>>, request'[r].got = None, Executes(r)' => Executes(r)
  PROVE  Alone'
<1>1. Serial'
  BY DEF IInv, Alone, Serial, OneServer
<1>2. \A s \in Request : Executes(s)' => Executes(s)
  BY DEF Executes
<1>3. ExecutesAlone'
  BY <1>2 DEF IInv, Alone, ExecutesAlone, OneServer
<1> QED BY <1>1, <1>3 DEF Alone

\* A request that writes the task, and does not thereby take it, lets no other
\* one in and does not take it from the one that has it.
LEMMA WritesAlone ==
  ASSUME IInv, NEW r \in Request, \A s \in Request \ {r} : request'[s] = request[s],
         UNCHANGED server, request[r].got # None, request'[r].got = None,
         Executes(r)' => Executes(r),
         \/ task'.state = request[r].got.state
         \/ /\ task'.state \in Successors[request[r].got.state]
            /\ task'.state = "verifying" => Executes(r) /\ ~Executes(r)'
  PROVE  Alone'
<1>1. Serial'
  BY DEF IInv, Alone, Serial, OneServer
<1>2. \A s \in Request : Executes(s)' => Executes(s)
  BY DEF Executes
<1>3. ExecutesAlone'
  <2> SUFFICES ASSUME OneServer', NEW s \in Request, Executes(s)'
               PROVE  task'.state \in Busy /\ \A q \in Request \ {s} : ~Executes(q)'
    BY DEF ExecutesAlone, Busy
  <2>1. OneServer /\ request[r].got = task /\ Executes(s) /\ task.state \in Busy
    BY <1>2 DEF IInv, Alone, Serial, ExecutesAlone, OneServer, Busy
  <2>2. \A q \in Request \ {s} : ~Executes(q) /\ ~Executes(q)'
    BY <1>2, <2>1 DEF IInv, Alone, ExecutesAlone
  <2>3. task.state \in State
    BY DEF IInv, TypeOK, Task
  <2>4. task'.state # "verifying" \/ task'.state = task.state
    BY <2>1, <2>2
  <2>5. task'.state \in Busy
    BY <2>1, <2>3, <2>4, Transitions DEF Busy
  <2> QED BY <2>2, <2>5
<1> QED BY <1>1, <1>3 DEF Alone

\* A step of a request that neither spends, nor redacts, nor runs.
LEMMA RequestInv ==
  ASSUME IInv, NEW r \in Request, request' \in RequestType,
         \A s \in Request \ {r} : request'[s] = request[s],
         challenge' \in [Challenge -> {None, "torn", "awaiting", "consumed"}],
         task' \in Task, faults' \in 0 .. MaxFaults,
         calls' \in [user : 0 .. MaxDecisions, gateway : 0 .. MaxCalls],
         UNCHANGED <<expired, decision, spent, tab, server, told, ran>>,
         CarriedBy(r)',
         request'[r].pc \in Used => request[r].pc \in Used /\ request'[r].c = request[r].c,
         Alone'
  PROVE  IInv'
<1>1. Grows /\ Known'
  BY DEF IInv, Grows, Known
<1>2. TypeOK'
  BY DEF IInv, TypeOK, RequestType
<1>3. Written'
  BY DEF IInv, Written
<1>4. Carried'
  <2> SUFFICES ASSUME NEW s \in Request PROVE CarriedBy(s)'
    BY DEF Carried
  <2>1. CASE s = r
    BY <2>1
  <2>2. CASE s # r
    BY <1>1, <2>2, CarriedStays DEF IInv, Carried
  <2> QED BY <2>1, <2>2
<1>5. Held'
  <2>1. \A s \in Request : request'[s].pc \in Used =>
          request[s].pc \in Used /\ request'[s].c = request[s].c
    OBVIOUS
  <2> QED BY <2>1 DEF IInv, Held
<1>6. RunsOnlyApproved'
  BY <1>1, RunsStay DEF IInv
<1> QED BY <1>2, <1>3, <1>4, <1>5, <1>6, <1>1 DEF IInv

\* A step that changes only where a request is, and neither takes the task nor
\* gets an approval.
LEMMA QuietMoveInv ==
  ASSUME IInv, NEW r \in Request, NEW from, NEW to \in Place, Moves(r, from, to),
         UNCHANGED <<expired, decision, spent, task, tab, server, told, ran>>,
         challenge' \in [Challenge -> {None, "torn", "awaiting", "consumed"}],
         faults' \in 0 .. MaxFaults, calls' = calls,
         to \in Approved => from \in Approved /\ from # "redact" /\ to # "run",
         to \in Used => from \in Used,
         to \in {"consume", "spend", "mark", "redact", "run", "verify"} => Executes(r),
         to # "recover"
  PROVE  IInv'
<1>1. /\ request' \in RequestType /\ request[r].pc = from
      /\ request'[r].pc = to /\ request'[r].got = None
      /\ to \in Carrying => request'[r].c = request[r].c
      /\ \A s \in Request \ {r} : request'[s] = request[s]
  BY MovesFacts DEF IInv
<1>2. to \in Approved \cup Used => to \in Carrying
  BY DEF Approved, Used, Carrying
<1>3. CarriedBy(r)'
  BY <1>1, <1>2 DEF IInv, Carried, CarriedBy, Approved, Used
<1>4. Alone'
  BY <1>1, QuietAlone DEF Executes
<1> QED BY <1>1, <1>2, <1>3, <1>4, RequestInv DEF IInv, TypeOK

\* A request that goes elsewhere, with or without a challenge.
LEMMA AnewInv ==
  ASSUME IInv, NEW r \in Request, NEW pc \in Place, NEW c \in Challenge, NEW saw \in State,
         request' = [request EXCEPT ![r] = Anew(pc, c, saw)],
         UNCHANGED <<expired, decision, spent, task, tab, server, told, ran, faults>>,
         challenge' \in [Challenge -> {None, "torn", "awaiting", "consumed"}],
         calls' \in [user : 0 .. MaxDecisions, gateway : 0 .. MaxCalls],
         pc \notin Approved \cup {"verify"},
         pc = "recover" => saw \in {"awaiting_input", "awaiting_review", "failed"}
  PROVE  IInv'
<1>1. /\ request' \in RequestType
      /\ request'[r].pc = pc /\ request'[r].got = None /\ request'[r].saw = saw
      /\ \A s \in Request \ {r} : request'[s] = request[s]
  BY DEF IInv, TypeOK, RequestType, Anew
<1>2. CarriedBy(r)' /\ request'[r].pc \notin Used /\ ~Executes(r)'
  BY <1>1 DEF CarriedBy, Executes, Approved, Used
<1>3. Alone'
  BY <1>1, <1>2, QuietAlone
<1> QED BY <1>1, <1>2, <1>3, RequestInv DEF IInv, TypeOK

\* Requests that come in.
LEMMA ComesInv == ASSUME IInv, NEW r \in Request, Resume(r) \/ Submit(r) PROVE IInv'
<1>1. /\ UNCHANGED <<expired, decision, spent, task, tab, server, told, ran, faults>>
      /\ challenge' \in [Challenge -> {None, "torn", "awaiting", "consumed"}]
  BY DEF Resume, Submit, Called, files, past, IInv, TypeOK
<1>2. calls' \in [user : 0 .. MaxDecisions, gateway : 0 .. MaxCalls]
  <2>1. /\ calls \in [user : 0 .. MaxDecisions, gateway : 0 .. MaxCalls]
        /\ calls.gateway < MaxCalls /\ calls' = [calls EXCEPT !.gateway = @ + 1]
    BY DEF Resume, Submit, Called, IInv, TypeOK
  <2> QED BY <2>1, BoundAssumption
<1>3. task.state \in State /\ task.current \in Challenge \cup {None}
  BY DEF IInv, TypeOK, Task
<1>4. \E pc \in {"look", "decision", "input", "error"}, c \in Challenge, saw \in State :
        request' = [request EXCEPT ![r] = Anew(pc, c, saw)]
  <2>1. CASE Resume(r)
    BY <1>3, <2>1, States DEF Resume
  <2>2. CASE Submit(r)
    <3>1. CASE /\ task.state \in {"awaiting_review", "approved"} /\ task.current # None
               /\ Pending(task.current)
      BY <1>3, <2>2, <3>1 DEF Submit
    <3>2. CASE ~(/\ task.state \in {"awaiting_review", "approved"} /\ task.current # None
                 /\ Pending(task.current))
      BY <2>2, <3>2, States, Constants DEF Submit
    <3> QED BY <3>1, <3>2
  <2> QED BY <2>1, <2>2
<1>5. {"look", "decision", "input", "error"} \subseteq Place \ (Approved \cup {"verify", "recover"})
  BY DEF Place, Updates, Approved
<1> QED BY <1>1, <1>2, <1>4, <1>5, AnewInv

\* The task is read: in one process no other request has read it.
LEMMA ReadsInv == ASSUME IInv, NEW r \in Request, Reads(r) PROVE IInv'
<1>1. /\ request' = [request EXCEPT ![r].got = task] /\ request[r].got = None
      /\ UNCHANGED <<expired, faults, challenge, decision, spent, task, tab, server, calls, told, ran>>
  BY DEF Reads, GatewayOnly, files, past
<1>2. /\ request' \in RequestType /\ request'[r].got = task
      /\ request'[r].pc = request[r].pc /\ request'[r].c = request[r].c
      /\ request'[r].saw = request[r].saw
      /\ \A s \in Request \ {r} : request'[s] = request[s]
  BY <1>1 DEF IInv, TypeOK, RequestType
<1>3. CarriedBy(r)'
  BY <1>1, <1>2 DEF IInv, Carried, CarriedBy
<1>4. Serial'
  <2>1. OneServer => \A s \in Request : request[s].got = None
    BY DEF Reads, OneServer
  <2> QED BY <1>1, <1>2, <2>1 DEF Serial, OneServer
<1>5. ExecutesAlone'
  <2>1. \A s \in Request : Executes(s)' <=> Executes(s)
    BY <1>2 DEF Executes
  <2> QED BY <1>1, <2>1 DEF IInv, Alone, ExecutesAlone, OneServer
<1> QED BY <1>1, <1>2, <1>3, <1>4, <1>5, RequestInv DEF IInv, TypeOK, Alone

\* The task is written by a request that does not thereby take it.
LEMMA WritesInv ==
  ASSUME IInv, NEW r \in Request, NEW from, NEW to \in Place, NEW new \in Task,
         Writes(r, from, to, new),
         to \notin {"approve", "consume", "spend", "mark", "redact", "run", "verify", "recover"},
         to = "execute" => from = "approve",
         \/ new.state = request[r].got.state
         \/ /\ new.state \in Successors[request[r].got.state]
            /\ new.state = "verifying" => from = "verify"
  PROVE  IInv'
<1>1. /\ Moves(r, from, to) /\ task' = new /\ request[r].got # None
      /\ UNCHANGED <<expired, faults, challenge, decision, spent, tab, server, calls, told, ran>>
  BY DEF Writes, files, past
<1>2. /\ request' \in RequestType /\ request[r].pc = from
      /\ request'[r].pc = to /\ request'[r].got = None
      /\ to \in Carrying => request'[r].c = request[r].c
      /\ \A s \in Request \ {r} : request'[s] = request[s]
  BY <1>1, MovesFacts DEF IInv
<1>3. CarriedBy(r)' /\ ~Executes(r)' /\ request'[r].pc \notin Used
  BY <1>1, <1>2 DEF IInv, Carried, CarriedBy, Executes, Approved, Used, Carrying
<1>4. Alone'
  BY <1>1, <1>2, <1>3, WritesAlone DEF Executes
<1> QED BY <1>1, <1>2, <1>3, <1>4, RequestInv DEF IInv, TypeOK

\* The task with another state is a task.
LEMMA NewState ==
  ASSUME IInv, NEW r \in Request, NEW x, MayBecome(r, x)
  PROVE  /\ x \in State /\ request[r].got \in Task
         /\ [request[r].got EXCEPT !.state = x] \in Task
         /\ [request[r].got EXCEPT !.state = x].state = x
         /\ x \in Successors[request[r].got.state]
<1>1. request[r].got \in Task
  BY DEF MayBecome, IInv, TypeOK
<1>2. x \in State /\ x \in Successors[request[r].got.state]
  BY <1>1, Transitions DEF MayBecome, Task
<1> QED BY <1>1, <1>2 DEF Task

\* The task is updated, or gets another state, and is not taken.
LEMMA UpdateInv ==
  ASSUME IInv, NEW r \in Request,
         Assign(r) \/ Note(r) \/ Input(r) \/ Understand(r) \/ Review(r) \/ Approve(r)
         \/ Verify(r) \/ Finish(r) \/ Recover(r)
  PROVE  IInv'
<1>1. request[r].got \in Task \cup {None} /\ request[r].c \in Challenge
  BY DEF IInv, TypeOK
<1>2. CASE Assign(r)
  <2>1. request[r].got \in Task
    BY <1>1, <1>2 DEF Assign, Writes
  <2>2. PICK new : new = [request[r].got EXCEPT !.current = request[r].c]
    OBVIOUS
  <2>3. new \in Task /\ new.state = request[r].got.state
    BY <1>1, <2>1, <2>2 DEF Task
  <2>4. Writes(r, "assign", "note", new)
    BY <1>2, <2>2 DEF Assign
  <2> QED BY <2>3, <2>4, WritesInv DEF Place, Updates
<1>3. ASSUME NEW from, NEW to \in {"idle", "understand", "execute"}, Update(r, from, to),
             to = "execute" => from = "approve"
      PROVE  IInv'
  <2>1. request[r].got \in Task
    BY <1>1, <1>3 DEF Update, Writes
  <2> QED BY <1>3, <2>1, WritesInv DEF Update, Place, Updates
<1>4. ASSUME NEW from, NEW to \in {"idle", "note", "plan", "execute", "finish"}, NEW x,
             Transition(r, from, to, x), to = "execute" => from = "approve",
             x = "verifying" => from = "verify"
      PROVE  IInv'
  <2>1. MayBecome(r, x) /\ Writes(r, from, to, [request[r].got EXCEPT !.state = x])
    BY <1>4 DEF Transition
  <2> QED BY <1>4, <2>1, NewState, WritesInv DEF Place, Updates
<1>5. ASSUME NEW from, NEW to \in {"idle", "note"}, NEW current \in Challenge \cup {None},
             MayBecome(r, "awaiting_review"),
             Writes(r, from, to, [state |-> "awaiting_review", current |-> current])
      PROVE  IInv'
  <2>1. "awaiting_review" \in Successors[request[r].got.state]
    BY <1>5, NewState
  <2>2. [state |-> "awaiting_review", current |-> current] \in Task
    BY <1>5, States DEF Task
  <2> QED BY <1>5, <2>1, <2>2, WritesInv DEF Place, Updates
<1>6. CASE Note(r) \/ Input(r)
  BY <1>3, <1>6 DEF Note, Input
<1>7. CASE Understand(r) \/ Verify(r)
  BY <1>4, <1>7 DEF Understand, Verify
<1>8. CASE Review(r)
  BY <1>1, <1>5, <1>8 DEF Review
<1>9. CASE Approve(r)
  BY <1>3, <1>4, <1>9 DEF Approve
<1>10. CASE Finish(r)
  BY <1>4, <1>5, <1>10 DEF Finish
<1>11. CASE Recover(r)
  <2>1. request[r].pc = "recover" /\ Transition(r, "recover", "idle", request[r].saw)
    BY <1>11 DEF Recover, Transition, Writes, Moves
  <2>2. request[r].saw # "verifying"
    BY <2>1 DEF IInv, Carried, CarriedBy
  <2> QED BY <1>4, <2>1, <2>2
<1> QED BY <1>2, <1>6, <1>7, <1>8, <1>9, <1>10, <1>11

\* A request takes the task: the state it takes it from is one in which no other
\* one has it.
LEMMA ExecuteInv == ASSUME IInv, NEW r \in Request, Execute(r) PROVE IInv'
<1> DEFINE new == [request[r].got EXCEPT !.state = "executing"]
<1>1. /\ MayBecome(r, "executing") /\ Moves(r, "execute", "consume")
      /\ task' = new /\ request[r].got # None
      /\ UNCHANGED <<expired, faults, challenge, decision, spent, tab, server, calls, told, ran>>
  BY DEF Execute, Transition, Writes, files, past
<1>2. /\ request' \in RequestType /\ request[r].pc = "execute"
      /\ request'[r].pc = "consume" /\ request'[r].got = None
      /\ request'[r].c = request[r].c
      /\ \A s \in Request \ {r} : request'[s] = request[s]
  BY <1>1, MovesFacts DEF IInv, Place, Updates, Carrying
<1>3. /\ new \in Task /\ new.state = "executing"
      /\ "executing" \in Successors[request[r].got.state] /\ request[r].got.state \in State
  BY <1>1, NewState DEF Task
<1>4. CarriedBy(r)' /\ request'[r].pc \notin Used
  BY <1>1, <1>2 DEF IInv, Carried, CarriedBy, Approved, Used
<1>5. Serial'
  BY <1>1, <1>2 DEF IInv, Alone, Serial, OneServer
<1>6. ExecutesAlone'
  <2> SUFFICES ASSUME OneServer' PROVE \A s \in Request \ {r} : ~Executes(s)'
    BY <1>1, <1>2, <1>3 DEF ExecutesAlone, Executes
  <2>1. OneServer /\ request[r].got = task
    BY <1>1 DEF IInv, Alone, Serial, OneServer
  <2>2. task.state \notin Busy
    BY <1>3, <2>1, Transitions
  <2> QED BY <1>2, <2>1, <2>2 DEF IInv, Alone, ExecutesAlone, Executes, Busy
<1> QED BY <1>1, <1>2, <1>3, <1>4, <1>5, <1>6, RequestInv DEF IInv, TypeOK, Alone

\* A step of a resume, or of a submission that has a challenge made.
LEMMA ResumeInv ==
  ASSUME IInv, NEW r \in Request, Look(r) \/ Renew(r) \/ Fill(r) \/ Plan(r)
  PROVE  IInv'
<1> DEFINE Gone == {"idle", "note", "renew", "fill", "assign", "review"}
<1>1. /\ Gone \subseteq Place \ (Approved \cup Used \cup {"verify", "recover"})
      /\ Gone \cap {"consume", "spend", "mark", "redact", "run"} = {}
  BY DEF Place, Updates, Approved, Used
<1>2. TypeOK /\ request[r].c \in Challenge
  BY DEF IInv, TypeOK
<1>3. ASSUME NEW from, NEW to \in Gone, Moves(r, from, to), GatewayOnly
      PROVE  IInv'
  BY <1>1, <1>2, <1>3, QuietMoveInv DEF GatewayOnly, files, past, TypeOK
<1>4. ASSUME NEW from, NEW to \in Gone, NEW c \in Challenge, Goes(r, from, to, c),
             UNCHANGED <<expired, faults, decision, spent, task, tab, server, calls, past>>,
             challenge' \in [Challenge -> {None, "torn", "awaiting", "consumed"}]
      PROVE  IInv'
  BY <1>1, <1>2, <1>4, States, AnewInv DEF Goes, past, TypeOK
<1>5. CASE Look(r)
  BY <1>3, <1>5 DEF Look
<1>6. CASE Renew(r)
  <2> DEFINE c == request[r].c
  <2>1. CASE /\ Renewable(c) /\ Goes(r, "renew", "fill", Heir(c))
             /\ challenge' = [challenge EXCEPT ![Heir(c)] = "torn"]
             /\ UNCHANGED <<expired, faults, decision, spent, task, tab, server, calls, past>>
    BY <1>2, <1>4, <2>1 DEF Renewable, TypeOK
  <2>2. CASE Renewable(c) /\ Goes(r, "renew", "assign", Heir(c)) /\ GatewayOnly
    BY <1>2, <1>4, <2>2 DEF Renewable, TypeOK, GatewayOnly, files
  <2>3. CASE (\E to \in {"note", "idle"} : Moves(r, "renew", to)) /\ GatewayOnly
    BY <1>3, <2>3
  <2> QED BY <1>6, <2>1, <2>2, <2>3 DEF Renew
<1>7. CASE Fill(r)
  <2>1. /\ Moves(r, "fill", "assign")
        /\ challenge' \in [Challenge -> {None, "torn", "awaiting", "consumed"}]
        /\ UNCHANGED <<expired, faults, decision, spent, task, tab, server, calls, told, ran>>
    BY <1>2, <1>7 DEF Fill, TypeOK, past
  <2> QED BY <1>1, <1>2, <2>1, QuietMoveInv DEF TypeOK
<1>8. CASE Plan(r)
  <2>1. PICK c \in Challenge :
          /\ Goes(r, "plan", "review", c) /\ challenge' = [challenge EXCEPT ![c] = "awaiting"]
          /\ UNCHANGED <<expired, faults, decision, spent, task, tab, server, calls, past>>
    BY <1>8 DEF Plan
  <2>2. challenge' \in [Challenge -> {None, "torn", "awaiting", "consumed"}]
    BY <1>2, <2>1 DEF TypeOK
  <2> QED BY <1>4, <2>1, <2>2
<1> QED BY <1>5, <1>6, <1>7, <1>8

\* The decision is read: only an intact approval leads on.
LEMMA ReadDecisionInv == ASSUME IInv, NEW r \in Request, ReadDecision(r) PROVE IInv'
<1>1. /\ TypeOK /\ GatewayOnly /\ calls \in [user : 0 .. MaxDecisions, gateway : 0 .. MaxCalls]
      /\ UNCHANGED <<expired, faults, challenge, decision, spent, task, tab, server, calls, told, ran>>
  BY DEF ReadDecision, GatewayOnly, files, past, IInv, TypeOK
<1>2. CASE Moves(r, "decision", "error")
  BY <1>1, <1>2, QuietMoveInv DEF Place, Approved, Used, TypeOK
<1>3. CASE /\ Moves(r, "decision", "approve")
           /\ Intact(request[r].c) /\ Approves(decision[request[r].c])
  <2>1. /\ request' \in RequestType
        /\ request'[r].pc = "approve" /\ request'[r].c = request[r].c /\ request'[r].got = None
        /\ \A s \in Request \ {r} : request'[s] = request[s]
    BY <1>1, <1>3, MovesFacts DEF Place, Updates, Carrying
  <2>2. CarriedBy(r)' /\ ~Executes(r)'
    BY <1>1, <1>3, <2>1 DEF CarriedBy, Executes, Intact, Approves, Used
  <2>3. Alone'
    BY <1>1, <2>1, <2>2, QuietAlone
  <2> QED BY <1>1, <2>1, <2>2, <2>3, RequestInv DEF TypeOK, Used
<1> QED BY <1>2, <1>3 DEF ReadDecision

\* The token is looked at, and its challenge marked as consumed.
LEMMA ConsumeInv == ASSUME IInv, NEW r \in Request, Consume(r) \/ Mark(r) PROVE IInv'
<1>1. CASE Consume(r)
  BY <1>1, QuietMoveInv
    DEF Consume, Moves, GatewayOnly, files, past, IInv, TypeOK, Place, Approved, Used, Executes
<1>2. CASE Mark(r)
  <2>1. /\ challenge' \in [Challenge -> {None, "torn", "awaiting", "consumed"}]
        /\ UNCHANGED <<expired, faults, decision, spent, task, tab, server, calls, told, ran>>
    BY <1>2 DEF Mark, past, IInv, TypeOK
  <2>2. Moves(r, "mark", "redact") /\ Executes(r) /\ faults' \in 0 .. MaxFaults
    BY <1>2, <2>1 DEF Mark, Moves, Executes, IInv, TypeOK
  <2> QED BY <2>1, <2>2, QuietMoveInv DEF Place, Approved, Used
<1> QED BY <1>1, <1>2

\* A request that fails, or is refused, gives up what it carries.
LEMMA FailsInv ==
  ASSUME IInv, NEW r \in Request, Refused(r) \/ Fails(r) \/ Error(r) PROVE IInv'
<1> DEFINE Gone == {"idle", "note", "error"}
<1>1. /\ Gone \subseteq Place \ (Approved \cup Used \cup {"verify", "recover"})
      /\ Gone \cap {"consume", "spend", "mark", "redact", "run"} = {}
  BY DEF Place, Updates, Approved, Used
<1>2. ASSUME NEW from, NEW to \in Gone, Moves(r, from, to), faults' \in 0 .. MaxFaults,
             UNCHANGED <<expired, files, task, tab, server, calls, past>>
      PROVE  IInv'
  BY <1>1, <1>2, QuietMoveInv DEF files, past, IInv, TypeOK
<1>3. faults \in 0 .. MaxFaults /\ task.state \in State
  BY DEF IInv, TypeOK, Task
<1>4. CASE Refused(r)
  BY <1>2, <1>3, <1>4 DEF Refused, GatewayOnly
<1>5. CASE Fails(r)
  <2>1. faults' \in 0 .. MaxFaults
    BY <1>3, <1>5, BoundAssumption DEF Fails
  <2>2. AfterFailure(request[r].pc) \in Gone
    BY DEF AfterFailure
  <2> QED BY <1>2, <1>5, <2>1, <2>2 DEF Fails
<1>6. CASE Error(r)
  <2>1. CASE (\E to \in {"idle", "note"} : Moves(r, "error", to)) /\ GatewayOnly
    BY <1>2, <1>3, <2>1 DEF GatewayOnly
  <2>2. CASE /\ \E x \in Recovery(task.state) \cup {"failed"} :
                  request' = [request EXCEPT ![r] = Anew("recover", First, x)]
             /\ GatewayOnly
    <3>1. PICK x \in {"awaiting_input", "awaiting_review", "failed"} :
            request' = [request EXCEPT ![r] = Anew("recover", First, x)]
      BY <1>3, <2>2, Transitions
    <3>2. "recover" \in Place \ (Approved \cup {"verify"}) /\ x \in State
      BY States DEF Place, Updates, Approved
    <3> QED
      BY <2>2, <3>1, <3>2, Constants, AnewInv DEF GatewayOnly, files, past, IInv, TypeOK
  <2> QED BY <1>6, <2>1, <2>2 DEF Error
<1> QED BY <1>4, <1>5, <1>6

\* The token is spent: no other request has it, and its edit has not run.
LEMMA SpendInv == ASSUME IInv, NEW r \in Request, Spend(r) PROVE IInv'
<1> DEFINE c == request[r].c
<1>1. /\ c \notin spent /\ spent' = spent \cup {c} /\ Moves(r, "spend", "mark")
      /\ UNCHANGED <<expired, faults, challenge, decision, task, tab, server, calls, told, ran>>
  BY DEF Spend, past
<1>2. /\ request' \in RequestType /\ request[r].pc = "spend" /\ c \in Challenge
      /\ request'[r].pc = "mark" /\ request'[r].c = c /\ request'[r].got = None
      /\ \A s \in Request \ {r} : request'[s] = request[s]
  BY <1>1, MovesFacts DEF IInv, TypeOK, Place, Carrying
<1>3. Grows /\ Known' /\ Written'
  BY <1>1 DEF Grows, IInv, Known, Written
<1>4. TypeOK'
  BY <1>1, <1>2 DEF IInv, TypeOK, RequestType
<1>5. CarriedBy(r)'
  BY <1>1, <1>2 DEF IInv, Carried, CarriedBy, Approved, Used
<1>6. Carried'
  <2> SUFFICES ASSUME NEW s \in Request, s # r PROVE CarriedBy(s)'
    BY <1>5 DEF Carried
  <2> QED BY <1>2, <1>3, CarriedStays DEF IInv, Carried
<1>7. Held'
  <2>1. \A s \in Request \ {r} : request[s].pc \in Used => request[s].c # c
    BY <1>1 DEF IInv, Carried, CarriedBy
  <2>2. \A i \in DOMAIN ran : ran[i] # c
    BY <1>1 DEF IInv, RunsOnlyApproved
  <2> QED BY <1>1, <1>2, <2>1, <2>2 DEF IInv, Held
<1>8. Alone'
  BY <1>1, <1>2, QuietAlone DEF Executes
<1>9. RunsOnlyApproved'
  BY <1>1, <1>3, RunsStay DEF IInv
<1> QED BY <1>3, <1>4, <1>6, <1>7, <1>8, <1>9 DEF IInv

\* The token is taken out of the record, which keeps its choice.
LEMMA RedactInv == ASSUME IInv, NEW r \in Request, Redact(r) PROVE IInv'
<1> DEFINE c == request[r].c
<1>1. /\ Moves(r, "redact", "run") /\ decision' = [decision EXCEPT ![c].open = FALSE]
      /\ UNCHANGED <<expired, faults, challenge, spent, task, tab, server, calls, told, ran>>
      /\ c \in Challenge /\ decision[c] \in Decision
  BY DEF Redact, Intact, past, IInv, TypeOK
<1>2. /\ request' \in RequestType /\ request[r].pc = "redact"
      /\ request'[r].pc = "run" /\ request'[r].c = c /\ request'[r].got = None
      /\ \A s \in Request \ {r} : request'[s] = request[s]
  BY <1>1, MovesFacts DEF IInv, Place, Carrying
<1>3. /\ decision' \in [Challenge -> Decision \cup {None, Torn}]
      /\ decision'[c] \in Decision /\ decision'[c].choice = decision[c].choice
      /\ ~decision'[c].open
      /\ \A d \in Challenge \ {c} : decision'[d] = decision[d]
  BY <1>1 DEF IInv, TypeOK, Decision
<1>4. Grows
  BY <1>1, <1>3 DEF Grows
<1>5. Known'
  <2> SUFFICES ASSUME NEW d \in Challenge, NEW x \in Choice
               PROVE  <<d, x>> \in told <=> decision'[d] \in Decision /\ decision'[d].choice = x
    BY <1>1 DEF Known
  <2> QED BY <1>1, <1>3 DEF IInv, Known
<1>6. TypeOK'
  BY <1>1, <1>2, <1>3 DEF IInv, TypeOK, RequestType
<1>7. Written'
  <2>1. \A d \in Challenge : decision[d] = Torn => decision'[d] = Torn
    BY <1>1, <1>3, NoneAssumption
  <2> QED BY <1>1, <2>1 DEF IInv, TypeOK, Written
<1>8. CarriedBy(r)'
  BY <1>1, <1>2, <1>3 DEF IInv, Carried, CarriedBy, Approved, Used
<1>9. Carried'
  <2> SUFFICES ASSUME NEW s \in Request, s # r PROVE CarriedBy(s)'
    BY <1>8 DEF Carried
  <2> QED BY <1>2, <1>4, CarriedStays DEF IInv, Carried
<1>10. Held'
  <2>1. \A s \in Request : request'[s].pc \in Used =>
          request[s].pc \in Used /\ request'[s].c = request[s].c
    BY <1>2 DEF Used
  <2> QED BY <1>1, <2>1 DEF IInv, Held
<1>11. Alone'
  BY <1>1, <1>2, QuietAlone DEF Executes
<1>12. RunsOnlyApproved'
  BY <1>1, <1>4, <1>5, RunsStay DEF IInv
<1> QED BY <1>5, <1>6, <1>7, <1>9, <1>10, <1>11, <1>12 DEF IInv

\* The edit runs, on an approval that no other request has and no run has had.
LEMMA RunInv == ASSUME IInv, NEW r \in Request, Run(r) PROVE IInv'
<1> DEFINE c == request[r].c
<1>1. /\ Moves(r, "run", "verify") /\ ran' = Append(ran, c)
      /\ UNCHANGED <<expired, faults, challenge, decision, spent, task, tab, server, calls, told>>
  BY DEF Run, files
<1>2. /\ request' \in RequestType /\ request[r].pc = "run" /\ c \in Challenge
      /\ request'[r].pc = "verify" /\ request'[r].got = None
      /\ \A s \in Request \ {r} : request'[s] = request[s]
  BY <1>1, MovesFacts DEF IInv, TypeOK, Place, Updates
<1>3. Grows /\ Known' /\ Written'
  BY <1>1 DEF Grows, IInv, Known, Written
<1>4. /\ ran \in Seq(Challenge) /\ ran' \in Seq(Challenge)
      /\ \A i \in DOMAIN ran' : (i \in DOMAIN ran /\ ran'[i] = ran[i]) \/ (i = Len(ran) + 1 /\ ran'[i] = c)
  BY <1>1, <1>2 DEF IInv, TypeOK
<1>5. TypeOK'
  BY <1>1, <1>2, <1>4 DEF IInv, TypeOK, RequestType
<1>6. Carried'
  <2> SUFFICES ASSUME NEW s \in Request PROVE CarriedBy(s)'
    BY DEF Carried
  <2>1. CASE s = r
    BY <1>2, <2>1 DEF CarriedBy, Approved, Used
  <2>2. CASE s # r
    BY <1>2, <1>3, <2>2, CarriedStays DEF IInv, Carried
  <2> QED BY <2>1, <2>2
<1>7. Held'
  <2>1. \A s \in Request : request'[s].pc \in Used =>
          s # r /\ request[s].pc \in Used /\ request'[s].c = request[s].c
    BY <1>2 DEF Used
  <2>2. \A s \in Request \ {r} : request[s].pc \in Used => request[s].c # c
    BY <1>2 DEF IInv, Held, Used
  <2>3. \A i \in DOMAIN ran : ran[i] # c
    BY <1>2 DEF IInv, Held, Used
  <2>4. \A s \in Request, i \in DOMAIN ran' : request'[s].pc \in Used => ran'[i] # request'[s].c
    BY <1>4, <2>1, <2>2 DEF IInv, Held
  <2>5. \A i, j \in DOMAIN ran' : ran'[i] = ran'[j] => i = j
    BY <1>4, <2>3 DEF IInv, Held
  <2>6. \A q, s \in Request :
          request'[q].pc \in Used /\ request'[s].pc \in Used /\ request'[q].c = request'[s].c => q = s
    BY <2>1 DEF IInv, Held
  <2> QED BY <2>4, <2>5, <2>6 DEF Held
<1>8. Alone'
  BY <1>1, <1>2, QuietAlone DEF Executes
<1>9. RunsOnlyApproved'
  <2>1. /\ decision[c] \in Decision /\ decision[c].choice = "approved"
        /\ c \in spent /\ ~decision[c].open
    BY <1>2 DEF IInv, Carried, CarriedBy, Approved, Used
  <2>2. <<c, "approved">> \in told
    BY <1>2, <2>1 DEF IInv, Known, Choice
  <2> QED BY <1>1, <1>4, <2>1, <2>2 DEF IInv, RunsOnlyApproved
<1> QED BY <1>3, <1>5, <1>6, <1>7, <1>8, <1>9 DEF IInv

-----------------------------------------------------------------------------
(* Crashes, and every step                                                  *)

\* A process that ends forgets what it was doing.
LEMMA CrashInv == ASSUME IInv, NEW p \in Process, Crash(p) PROVE IInv'
<1>1. /\ UNCHANGED <<expired, challenge, decision, spent, task, server, calls, told, ran>>
      /\ faults' \in 0 .. MaxFaults
      /\ \A t \in Tab : UNCHANGED tab[t] \/ tab'[t].pc = "idle"
      /\ \A r \in Request : UNCHANGED request[r] \/ request'[r] = Free
  BY BoundAssumption DEF Crash, files, past, Idle, IInv, TypeOK
<1>2. request' \in RequestType /\ tab' \in TabType
  BY Constants DEF Crash, IInv, TypeOK, RequestType, TabType
<1>3. TypeOK'
  BY <1>1, <1>2 DEF IInv, TypeOK, RequestType, TabType
<1>4. Grows /\ Known'
  BY <1>1 DEF Grows, IInv, Known
<1>5. Written'
  <2>1. \A t \in Tab : tab'[t].pc = "write" => UNCHANGED tab[t]
    BY <1>1
  <2> QED BY <1>1, <2>1 DEF IInv, Written
<1>6. Carried'
  <2> SUFFICES ASSUME NEW r \in Request PROVE CarriedBy(r)'
    BY DEF Carried
  <2>1. CASE request'[r] = Free
    BY <2>1 DEF CarriedBy, Free, Anew, Approved, Used
  <2>2. CASE UNCHANGED request[r]
    BY <1>4, <2>2, CarriedStays DEF IInv, Carried
  <2> QED BY <1>1, <2>1, <2>2
<1>7. Held'
  <2>1. \A r \in Request : request'[r].pc \in Used => UNCHANGED request[r]
    BY <1>1 DEF Free, Anew, Used
  <2> QED BY <1>1, <2>1 DEF IInv, Held
<1>8. Serial'
  <2>1. \A r \in Request : request'[r].got # None => UNCHANGED request[r]
    BY <1>1 DEF Free, Anew
  <2> QED BY <1>1, <2>1 DEF IInv, Alone, Serial, OneServer
<1>9. ExecutesAlone'
  <2>1. \A r \in Request : Executes(r)' => Executes(r)
    BY <1>1 DEF Executes, Free, Anew
  <2> QED BY <1>1, <2>1 DEF IInv, Alone, ExecutesAlone, OneServer
<1>10. RunsOnlyApproved'
  BY <1>1, <1>4, RunsStay DEF IInv
<1> QED BY <1>3, <1>4, <1>5, <1>6, <1>7, <1>8, <1>9, <1>10 DEF IInv, Alone

\* Every step keeps the invariant.
LEMMA NextInv == IInv /\ [Next]_vars => IInv'
<1> SUFFICES ASSUME IInv, [Next]_vars PROVE IInv'
  OBVIOUS
<1>1. CASE \E p \in Process : Crash(p)
  BY <1>1, CrashInv
<1>2. CASE \E t \in Tab : Page(t)
  BY <1>2, DecideInv, CreateInv, WriteInv, ExistingInv DEF Page
<1>3. CASE \E r \in Request : Serve(r)
  BY <1>3, ReadsInv, FailsInv, UpdateInv, ComesInv, ResumeInv, ReadDecisionInv, ExecuteInv,
     ConsumeInv, SpendInv, RedactInv, RunInv DEF Serve
<1>4. CASE \E c \in Challenge : Expire(c)
  BY <1>4, ExpireInv
<1>5. CASE UNCHANGED vars
  <2>1. UNCHANGED <<expired, faults, challenge, decision, spent, task, tab, request, server,
                    calls, told, ran>>
    BY <1>5 DEF vars, files, past
  <2>2. Grows /\ Known'
    BY <2>1 DEF Grows, IInv, Known
  <2>3. TypeOK' /\ Written'
    BY <2>1 DEF IInv, TypeOK, Written
  <2> QED BY <2>1, <2>2, <2>3, AsideInv DEF IInv
<1> QED BY <1>1, <1>2, <1>3, <1>4, <1>5 DEF Next

\* The invariant always holds.
LEMMA Invariance == Spec => []IInv
BY InitInv, NextInv, PTL DEF Spec

-----------------------------------------------------------------------------
(* The ledger of consents                                                   *)

\* A step that changes no decision, and neither spends nor runs, is not seen.
LEMMA Unseen == ASSUME UNCHANGED <<decision, spent, ran>> PROVE UNCHANGED Consent!vars
BY DEF Consent!vars, Verdict

\* A page decides a challenge when its file is written whole, and not before.
LEMMA PageConsent ==
  ASSUME IInv, NEW t \in Tab, Page(t)
  PROVE  [Consent!Next]_(Consent!vars)
<1>1. PICK c \in Challenge, x \in Choice : c = tab[t].c /\ x = tab[t].choice
  BY DEF IInv, TypeOK
<1>2. UNCHANGED <<spent, ran>>
  BY DEF Page, Decide, Create, Write, Existing, TabOnly, files, past
<1>3. CASE UNCHANGED decision
  BY <1>2, <1>3, Unseen
<1>4. CASE Create(t)
  <2>1. UNCHANGED decision \/ (decision[c] = None /\ decision' = [decision EXCEPT ![c] = Torn])
    BY <1>1, <1>4 DEF Create
  <2>2. \A d \in Challenge : Verdict(d)' = Verdict(d)
    BY <1>1, <2>1, NoneAssumption DEF Verdict, IInv, TypeOK
  <2> QED BY <1>2, <2>2 DEF Consent!vars
<1>5. CASE Write(t) /\ decision' # decision
  <2>1. decision' = [decision EXCEPT ![c] = [choice |-> x, open |-> x = "approved"]]
    BY <1>1, <1>5 DEF Write
  <2>2. decision[c] = Torn
    BY <1>1, <1>5 DEF Write, TabGoes, IInv, Written
  <2>3. decision'[c] \in Decision /\ decision'[c].choice = x
    BY <1>1, <2>1, <2>2 DEF Decision, IInv, TypeOK
  <2>4. Verdict(c) = "open" /\ Verdict(c)' = x
    BY <2>2, <2>3, NoneAssumption DEF Verdict
  <2>5. \A d \in Challenge \ {c} : Verdict(d)' = Verdict(d)
    BY <1>1, <2>1 DEF Verdict, IInv, TypeOK
  <2>6. Consent!Decide(c, x)
    <3>1. [d \in Challenge |-> Verdict(d)]' = [[d \in Challenge |-> Verdict(d)] EXCEPT ![c] = x]
      BY <1>1, <2>4, <2>5
    <3> QED BY <1>1, <1>2, <2>4, <3>1 DEF Consent!Decide
  <2> QED BY <1>1, <2>6 DEF Consent!Next, Choice
<1> QED BY <1>3, <1>4, <1>5 DEF Page, Decide, Existing, files

\* A request spends an approval that was given, and runs the edit on it, once;
\* whatever else it does is not seen in the ledger.
LEMMA RequestConsent ==
  ASSUME IInv, NEW r \in Request, Serve(r)
  PROVE  [Consent!Next]_(Consent!vars)
<1>1. PICK c \in Challenge : c = request[r].c
  BY DEF IInv, TypeOK
<1>2. CASE Spend(r)
  <2>1. request[r].pc = "spend" /\ c \notin spent /\ spent' = spent \cup {c} /\ UNCHANGED <<decision, ran>>
    BY <1>1, <1>2 DEF Spend, Moves, past
  <2>2. Verdict(c) = "approved"
    BY <1>1, <2>1 DEF IInv, Carried, CarriedBy, Approved, Verdict
  <2>3. \A d \in Challenge : Verdict(d)' = Verdict(d)
    BY <2>1 DEF Verdict
  <2>4. Consent!Spend(c)
    BY <1>1, <2>1, <2>2, <2>3 DEF Consent!Spend
  <2> QED BY <1>1, <2>4 DEF Consent!Next
<1>3. CASE Redact(r)
  <2>1. /\ decision[c] \in Decision /\ decision' = [decision EXCEPT ![c].open = FALSE]
        /\ UNCHANGED <<spent, ran>>
    BY <1>1, <1>3 DEF Redact, Intact, past
  <2>2. \A d \in Challenge : Verdict(d)' = Verdict(d)
    BY <1>1, <2>1 DEF Verdict, Decision, IInv, TypeOK
  <2> QED BY <2>1, <2>2 DEF Consent!vars
<1>4. CASE Run(r)
  <2>1. request[r].pc = "run" /\ ran' = Append(ran, c) /\ UNCHANGED <<decision, spent>>
    BY <1>1, <1>4 DEF Run, Moves, files
  <2>2. c \in spent /\ \A i \in DOMAIN ran : ran[i] # c
    BY <1>1, <2>1 DEF IInv, Carried, CarriedBy, Held, Used
  <2>3. \A d \in Challenge : Verdict(d)' = Verdict(d)
    BY <2>1 DEF Verdict
  <2>4. Consent!Run(c)
    BY <2>1, <2>2, <2>3 DEF Consent!Run
  <2> QED BY <1>1, <2>4 DEF Consent!Next
<1>5. CASE \/ Reads(r) \/ Refused(r) \/ Fails(r) \/ Error(r) \/ Resume(r) \/ Submit(r) \/ Look(r)
           \/ Renew(r) \/ Fill(r) \/ Plan(r) \/ ReadDecision(r) \/ Consume(r) \/ Mark(r)
  BY <1>5, Unseen DEF Reads, Refused, Fails, Error, Resume, Submit, Called, Look, Renew, Fill, Plan,
     ReadDecision, Consume, Mark, GatewayOnly, files, past
<1>6. CASE \/ Recover(r) \/ Assign(r) \/ Note(r) \/ Input(r) \/ Understand(r) \/ Review(r)
           \/ Approve(r) \/ Execute(r) \/ Verify(r) \/ Finish(r)
  BY <1>6, Unseen DEF Recover, Assign, Note, Input, Understand, Review, Approve, Execute, Verify,
     Finish, Update, Transition, Writes, files, past
<1> QED BY <1>2, <1>3, <1>4, <1>5, <1>6 DEF Serve

\* Every step is one of the ledger's, or none.
LEMMA ConsentStep == IInv /\ [Next]_vars => [Consent!Next]_(Consent!vars)
<1> SUFFICES ASSUME IInv, [Next]_vars PROVE [Consent!Next]_(Consent!vars)
  OBVIOUS
<1>1. CASE (\E p \in Process : Crash(p)) \/ (\E c \in Challenge : Expire(c)) \/ UNCHANGED vars
  BY <1>1, Unseen DEF Crash, Expire, vars, files, past
<1>2. CASE \E t \in Tab : Page(t)
  BY <1>2, PageConsent
<1>3. CASE \E r \in Request : Serve(r)
  BY <1>3, RequestConsent
<1> QED BY <1>1, <1>2, <1>3 DEF Next

-----------------------------------------------------------------------------
(* Theorems                                                                 *)

\* Files, task, pages and requests of the approval keep their types.
THEOREM TypeCorrect == Spec => []TypeOK
<1>1. IInv => TypeOK
  BY DEF IInv
<1> QED BY <1>1, Invariance, PTL

\* A decision the user was told of by recordTrustedDecision stays on record, on
\* however many pages it is taken again and whatever crashes.
THEOREM DecisionsStand == Spec => []DecisionStands
<1>1. IInv => DecisionStands
  BY DEF IInv, Known, DecisionStands
<1> QED BY <1>1, Invariance, PTL

\* executeReviewedExistingEdit runs an edit only on an approval of the challenge
\* that consumeToken has spent and redacted.
THEOREM OnlyApprovedRun == Spec => []RunsOnlyApproved
<1>1. IInv => RunsOnlyApproved
  BY DEF IInv
<1> QED BY <1>1, Invariance, PTL

\* As long as one process of the gateway serves the requests at a task, however
\* they interleave their reads and writes of it, its errors open it again, and
\* its plan and challenge are replaced, one request at a time executes its edit.
THEOREM OneExecutes == Spec => []ExecutesAlone
<1>1. IInv => ExecutesAlone
  BY DEF IInv, Alone
<1> QED BY <1>1, Invariance, PTL

\* Challenges, decisions and spent tokens in files; any number of pages, requests
\* and processes of the gateway, whose writes of the task may undo each other's;
\* renewals, new plans and faults: seen from outside, every approval is spent once
\* and its edit runs once, as ConsentLedger says.
THEOREM ApprovalImplementsConsent == Spec => SpendsConsentOnce
<1>1. Init => Consent!Init
  BY NoneAssumption DEF Init, Consent!Init, Verdict
<1> QED BY <1>1, Invariance, ConsentStep, PTL DEF Spec, SpendsConsentOnce, Consent!Spec

=============================================================================
