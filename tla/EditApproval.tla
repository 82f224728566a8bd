----------------------------- MODULE EditApproval -----------------------------
(***************************************************************************)
(* How a reviewed edit gets and uses the approval of its user:               *)
(* ApprovalAuthority of src/src/approval-tokens.mjs, the pages of            *)
(* src/src/local-approval-host.mjs where the user decides, and the resume    *)
(* and submit of the task in src/src/agent-gateway.mjs.                      *)
(*                                                                         *)
(* The pages are served by one process and the task by others; all keep      *)
(* challenges, decisions and spent tokens in the same directory, where a     *)
(* file is created exclusively and then written, or replaced at once, and    *)
(* sign with the secret they find there.  Two requests may be at one task:   *)
(* its own, and one of the task whose child it is, from another slot.        *)
(* AgentTaskStore changes the task by reading it and writing all of it       *)
(* later; requests of one process wait for each other in between, those of   *)
(* different ones do not.  A challenge expires at any time.                  *)
(***************************************************************************)
EXTENDS Naturals, Sequences, FiniteSets

CONSTANTS
  Tab,          \* pages on which the user decides
  Request,      \* of the task itself, or of the task whose child it is
  Server,       \* processes of the gateway
  MaxReplaced,  \* bound: challenges that replace another one
  MaxFaults,    \* bound: crashes and failed steps
  MaxDecisions, \* bound: decisions of the user
  MaxCalls,     \* bound: resumes and submissions
  MaxEvents,    \* bound: faults, decisions and calls together
  Torn,         \* a decision that has not been written whole
  None

ASSUME BoundAssumption ==
  MaxReplaced \in Nat /\ MaxFaults \in Nat /\ MaxDecisions \in Nat /\ MaxCalls \in Nat
  /\ MaxEvents \in Nat
ASSUME ServerAssumption == "host" \notin Server

VARIABLES
  challenge, \* challenges/<id>.json
  expired,   \* challenges past their expiry
  decision,  \* local-decisions/<id>.json
  spent,     \* challenges with a file in spent/
  task,      \* the task's file
  tab,       \* what each page is at
  request,   \* what each request is at
  server,    \* the process that serves a request
  faults,    \* bound: those that have been
  calls,     \* bound: those that have been
  told,      \* history: decisions the user has been told of
  ran        \* history: the challenges whose edits have run, one for each run

files == <<challenge, decision, spent>>
past == <<told, ran>>
vars == <<expired, faults, files, task, tab, request, server, calls, past>>

Process == {"host"} \cup Server

\* <<p, n>> is the n-th renewal of the challenge of the p-th plan.
Challenge == {c \in (0 .. MaxReplaced) \X (0 .. MaxReplaced) : c[1] + c[2] <= MaxReplaced}
First == <<0, 0>>
\* The name of the renewal follows from that of the challenge.
Heir(c) == <<c[1], c[2] + 1>>
Choice == {"approved", "rejected"}

\* open: the token is in the record.
Decision == [choice : Choice, open : BOOLEAN]

\* TASK_TRANSITIONS, as far as a reviewed edit goes from the plan on.
Successors ==
  [understanding   |-> {"awaiting_input", "awaiting_review", "approved", "executing", "verifying",
                        "completed", "failed"},
   awaiting_input  |-> {"understanding", "awaiting_review", "executing", "failed"},
   awaiting_review |-> {"awaiting_input", "approved", "failed"},
   approved        |-> {"awaiting_input", "executing", "failed"},
   executing       |-> {"verifying", "completed", "failed"},
   verifying       |-> {"awaiting_input", "awaiting_review", "completed", "failed"},
   completed       |-> {},
   failed          |-> {}]
State == DOMAIN Successors
Ended == {x \in State : Successors[x] = {}}

\* current: the challenge the task shows, or None, once the edit that has been
\* made is under review.
Task == [state : State, current : Challenge \cup {None}]

TabPlace == {"idle", "create", "write", "existing"}
\* Where a request changes the task, having read it.
Updates == {"assign", "note", "input", "understand", "review", "approve", "execute", "verify",
            "finish", "recover"}
Carrying == {"renew", "fill", "assign", "review", "approve", "execute", "consume", "spend",
             "mark", "redact", "run"}
Place == Updates \cup
  {"idle", "look", "renew", "fill", "decision", "plan",
   "consume", "spend", "mark", "redact", "run", "error"}

ASSUME NoneAssumption ==
  /\ None \notin {"torn", "awaiting", "consumed"} \cup Decision
                   \cup Challenge \cup Task
  /\ Torn \notin Decision \cup {None}

Idle == [pc |-> "idle", c |-> First, choice |-> "approved"]
\* saw: the state the request goes by, got: the task as it has been read.
Anew(pc, c, saw) == [pc |-> pc, c |-> c, saw |-> saw, got |-> None]
Free == Anew("idle", First, "failed")

\* The task has just been planned.
Init ==
  /\ challenge = [c \in Challenge |-> IF c = First THEN "awaiting" ELSE None]
  /\ decision = [c \in Challenge |-> None] /\ expired = {} /\ spent = {}
  /\ task = [state |-> "awaiting_review", current |-> First]
  /\ tab = [t \in Tab |-> Idle] /\ request = [r \in Request |-> Free]
  /\ server \in [Request -> Server]
  /\ faults = 0 /\ calls = [user |-> 0, gateway |-> 0] /\ told = {} /\ ran = <<>>

\* Bound: see MaxEvents.
Room == faults + calls.user + calls.gateway < MaxEvents

-----------------------------------------------------------------------------
(* Challenges and decisions                                                 *)

\* verifyDecisionRecordIntegrity, of a record that is whole; one that was signed
\* with another secret, or past the expiry, fails like any file (see Fails).
Intact(c) == decision[c] \in Decision

\* The checks of a challenge before it is decided, or its decision used.
Pending(c) == challenge[c] = "awaiting" /\ c \notin expired

-----------------------------------------------------------------------------
(* A page: recordTrustedDecision                                            *)

TabGoes(t, from, to) ==
  /\ tab[t].pc = from
  /\ tab' = [tab EXCEPT ![t] = IF to = "idle" THEN Idle ELSE [@ EXCEPT !.pc = to]]
TabOnly == UNCHANGED <<expired, faults, challenge, spent, task, request, server, calls, ran>>

\* The user decides on a page that was opened before, for whichever challenge;
\* one that cannot be decided any more is refused.
Decide(t, c, x) ==
  /\ tab[t].pc = "idle" /\ Pending(c)
  /\ tab' = [tab EXCEPT ![t] = [pc |-> "create", c |-> c, choice |-> x]]
  /\ Room /\ calls.user < MaxDecisions /\ calls' = [calls EXCEPT !.user = @ + 1]
  /\ UNCHANGED <<expired, faults, files, task, request, server, past>>

\* Mutant of Create: the decision replaces one that is there.
Overwrite(t) ==
  /\ TabGoes(t, "create", "write")
  /\ decision' = [decision EXCEPT ![tab[t].c] = Torn]
  /\ told' = told /\ TabOnly

\* createJsonExclusive opens the file.
Create(t) ==
  LET c == tab[t].c IN
  /\ \/ decision[c] = None /\ TabGoes(t, "create", "write")
        /\ decision' = [decision EXCEPT ![c] = Torn]
     \/ decision[c] # None /\ TabGoes(t, "create", "existing") /\ UNCHANGED decision
  /\ told' = told /\ TabOnly

\* It writes it, or fails and leaves it so.
Write(t) ==
  LET c == tab[t].c x == tab[t].choice IN
  /\ TabGoes(t, "write", "idle")
  /\ \/ /\ decision' = [decision EXCEPT ![c] = [choice |-> x, open |-> x = "approved"]]
        /\ told' = told \cup {<<c, x>>} /\ faults' = faults
     \/ Room /\ faults < MaxFaults /\ faults' = faults + 1 /\ UNCHANGED <<decision, told>>
  /\ UNCHANGED <<expired, challenge, spent, task, request, server, calls, ran>>

\* A decision is there already: the same one is as good, another one, or one
\* that fails its check, is refused.
Existing(t) ==
  LET c == tab[t].c IN
  /\ TabGoes(t, "existing", "idle") /\ decision' = decision
  /\ \/ Intact(c) /\ decision[c].choice = tab[t].choice /\ told' = told \cup {<<c, tab[t].choice>>}
     \/ UNCHANGED told
  /\ TabOnly

-----------------------------------------------------------------------------
(* The task: AgentTaskStore                                                 *)

\* A request goes on with its challenge as long as it needs it, and with the
\* state it has seen until it approves.
At(r, to) ==
  Anew(to, IF to \in Carrying THEN request[r].c ELSE First,
           IF to = "approve" THEN request[r].saw ELSE "failed")
Moves(r, from, to) ==
  request[r].pc = from /\ request' = [request EXCEPT ![r] = At(r, to)]
\* A step of the gateway that changes neither the task nor a file.
GatewayOnly == UNCHANGED <<expired, faults, files, task, tab, server, calls, past>>

\* Mutant of Reads: no call waits for another one of its process.
ReadsAtOnce(r) ==
  /\ request[r].pc \in Updates /\ request[r].got = None
  /\ request' = [request EXCEPT ![r].got = task]
  /\ GatewayOnly

\* serialized: the read waits until no other call of this process is at the task.
Reads(r) ==
  /\ request[r].pc \in Updates /\ request[r].got = None
  /\ \A s \in Request : server[s] = server[r] => request[s].got = None
  /\ request' = [request EXCEPT ![r].got = task]
  /\ GatewayOnly

\* The task that was read is written with what is new of it.
Writes(r, from, to, new) ==
  /\ request[r].got # None /\ task' = new /\ Moves(r, from, to)
  /\ UNCHANGED <<expired, faults, files, tab, server, calls, past>>

\* update: it keeps the state that was read.
Update(r, from, to) == Writes(r, from, to, request[r].got)

MayBecome(r, x) == request[r].got # None /\ x \in Successors[request[r].got.state]
Transition(r, from, to, x) ==
  MayBecome(r, x) /\ Writes(r, from, to, [request[r].got EXCEPT !.state = x])

-----------------------------------------------------------------------------
(* Resume: refreshLocalApprovalState                                        *)

\* A call that is taken up.
Called ==
  /\ Room /\ calls.gateway < MaxCalls /\ calls' = [calls EXCEPT !.gateway = @ + 1]
  /\ UNCHANGED <<expired, faults, files, task, tab, server, past>>

Resume(r) ==
  /\ request[r].pc = "idle" /\ task.state = "awaiting_review" /\ task.current # None
  /\ request' = [request EXCEPT ![r] = Anew("look", task.current, "failed")]
  /\ Called

\* A decision leaves the challenge in the task.
Look(r) ==
  /\ \E to \in IF decision[request[r].c] = None THEN {"renew"} ELSE {"note", "idle"} :
       Moves(r, "look", to)
  /\ GatewayOnly

Goes(r, from, to, c) ==
  /\ request[r].pc = from
  /\ request' = [request EXCEPT ![r] = Anew(to, c, "failed")]

\* Bound: see MaxReplaced.
Replaceable == Cardinality({c \in Challenge : challenge[c] # None}) <= MaxReplaced

\* A challenge that has expired undecided gets a successor; its file is created
\* empty, or is there.
Renewable(c) == c \in expired /\ Heir(c) \in Challenge /\ (challenge[Heir(c)] = None => Replaceable)
Renew(r) ==
  LET c == request[r].c IN
  \/ /\ Renewable(c) /\ challenge[Heir(c)] = None /\ Goes(r, "renew", "fill", Heir(c))
     /\ challenge' = [challenge EXCEPT ![Heir(c)] = "torn"]
     /\ UNCHANGED <<expired, faults, decision, spent, task, tab, server, calls, past>>
  \/ /\ Renewable(c) /\ challenge[Heir(c)] \in {"awaiting", "consumed"}
     /\ Goes(r, "renew", "assign", Heir(c)) /\ GatewayOnly
  \/ ~Renewable(c) /\ (\E to \in {"note", "idle"} : Moves(r, "renew", to)) /\ GatewayOnly

Fill(r) ==
  /\ Moves(r, "fill", "assign")
  /\ challenge' = [challenge EXCEPT ![request[r].c] = "awaiting"]
  /\ UNCHANGED <<expired, faults, decision, spent, task, tab, server, calls, past>>

Assign(r) == Writes(r, "assign", "note", [request[r].got EXCEPT !.current = request[r].c])
\* What the user should do next is noted, here and after an error.
Note(r) == Update(r, "note", "idle")

-----------------------------------------------------------------------------
(* Submit: of new input, or executeReviewedExistingEdit                     *)

\* A task that has ended stays as it is; of one in review,
\* readStoredApprovalAuthorization reads the challenge.
Submit(r) ==
  /\ request[r].pc = "idle" /\ task.state \notin Ended
  /\ request' = [request EXCEPT ![r] =
       IF /\ task.state \in {"awaiting_review", "approved"} /\ task.current # None
          /\ Pending(task.current)
       THEN Anew("decision", task.current, task.state)
       ELSE Anew(IF task.state = "awaiting_input" THEN "input" ELSE "error", First, "failed")]
  /\ Called

\* What is to be edited is given anew, and a new plan gets a challenge.
Input(r) == Update(r, "input", "understand")
Understand(r) == Transition(r, "understand", "plan", "understanding")
Plan(r) ==
  \E c \in Challenge :
    /\ c[2] = 0 /\ challenge[c] = None /\ Replaceable /\ Goes(r, "plan", "review", c)
    /\ challenge' = [challenge EXCEPT ![c] = "awaiting"]
    /\ UNCHANGED <<expired, faults, decision, spent, task, tab, server, calls, past>>
Review(r) ==
  /\ MayBecome(r, "awaiting_review")
  /\ Writes(r, "review", "idle", [state |-> "awaiting_review", current |-> request[r].c])

\* It then reads the decision.
Approves(d) == d.choice = "approved" /\ d.open

\* Mutant of ReadDecision: any intact decision will do.
ReadAnyDecision(r) ==
  /\ Moves(r, "decision", IF Intact(request[r].c) THEN "approve" ELSE "error")
  /\ GatewayOnly

ReadDecision(r) ==
  /\ Moves(r, "decision",
       IF Intact(request[r].c) /\ Approves(decision[request[r].c])
       THEN "approve" ELSE "error")
  /\ GatewayOnly

\* The preflight passes, and a task that was seen in review becomes approved.
Approve(r) ==
  IF request[r].saw = "approved" THEN Update(r, "approve", "execute")
  ELSE Transition(r, "approve", "execute", "approved")

Execute(r) == Transition(r, "execute", "consume", "executing")

-----------------------------------------------------------------------------
(* consumeToken                                                             *)

\* Expiry is checked, the status of the challenge is not.
Consume(r) == request[r].c \notin expired /\ Moves(r, "consume", "spend") /\ GatewayOnly

\* The file in spent/ is created exclusively.
Spend(r) ==
  LET c == request[r].c IN
  /\ c \notin spent /\ Moves(r, "spend", "mark") /\ spent' = spent \cup {c}
  /\ UNCHANGED <<expired, faults, challenge, decision, task, tab, server, calls, past>>

Mark(r) ==
  /\ Moves(r, "mark", "redact")
  /\ challenge' = [challenge EXCEPT ![request[r].c] = "consumed"]
  /\ UNCHANGED <<expired, faults, decision, spent, task, tab, server, calls, past>>

\* The decision is read and replaced by one without the token.
Redact(r) ==
  LET c == request[r].c IN
  /\ Intact(c) /\ Moves(r, "redact", "run")
  /\ decision' = [decision EXCEPT ![c].open = FALSE]
  /\ UNCHANGED <<expired, faults, challenge, spent, task, tab, server, calls, past>>

Run(r) ==
  /\ Moves(r, "run", "verify") /\ ran' = Append(ran, request[r].c)
  /\ UNCHANGED <<expired, faults, files, task, tab, server, calls, told>>

\* finalizeReviewedMutationReceipt: the edit is verified, and a change of the
\* design goes to a review of its own.
Verify(r) == Transition(r, "verify", "finish", "verifying")
Finish(r) ==
  \/ Transition(r, "finish", "note", "completed")
  \/ /\ MayBecome(r, "awaiting_review")
     /\ Writes(r, "finish", "note", [state |-> "awaiting_review", current |-> None])

-----------------------------------------------------------------------------
(* Errors                                                                   *)

Goal(r) ==
  LET pc == request[r].pc IN
  CASE pc = "understand" -> "understanding"
    [] pc = "review" -> "awaiting_review"
    [] pc = "approve" -> "approved"
    [] pc = "execute" -> "executing"
    [] pc = "verify" -> "verifying"
    [] pc = "finish" -> "completed"
    [] OTHER -> request[r].saw

\* A transition that the task's state does not allow changes nothing.
Refused(r) ==
  /\ request[r].pc \in {"understand", "review", "approve", "execute", "verify", "finish", "recover"}
  /\ request[r].pc = "approve" => request[r].saw # "approved"
  /\ request[r].got # None /\ ~MayBecome(r, Goal(r))
  /\ Moves(r, request[r].pc, IF request[r].pc = "recover" THEN "idle" ELSE "error")
  /\ GatewayOnly

\* Where an error of what is at pc is dealt with.
AfterFailure(pc) ==
  IF pc \in {"look", "renew", "fill", "assign", "note", "recover"} THEN "idle" ELSE "error"

\* Mutant of Fails: an edit that has not been made gives its approval back.
FailsAndReturns(r) ==
  /\ request[r].pc \notin {"idle", "error"} /\ Room /\ faults < MaxFaults /\ faults' = faults + 1
  /\ Moves(r, request[r].pc, AfterFailure(request[r].pc))
  /\ spent' = IF request[r].pc = "run" THEN spent \ {request[r].c} ELSE spent
  /\ UNCHANGED <<expired, challenge, decision, task, tab, server, calls, past>>

\* Whatever does not hold, or fails, is an error; that of a resume, and of what
\* is done about an error, goes to the caller.
Fails(r) ==
  /\ request[r].pc \notin {"idle", "error"} /\ Room /\ faults < MaxFaults /\ faults' = faults + 1
  /\ Moves(r, request[r].pc, AfterFailure(request[r].pc))
  /\ UNCHANGED <<expired, files, task, tab, server, calls, past>>

\* recoveryStateFor, of a task that the error has left open.
Recovery(x) ==
  CASE x = "awaiting_review" -> {"awaiting_input", "awaiting_review"}
    [] x \in {"understanding", "awaiting_input", "approved"} -> {"awaiting_input"}
    [] OTHER -> {}

\* handleTaskError: by the error's code the task is open again, in the state it
\* is in or another one, or has failed; one that has ended stays so.  What was
\* committed is only noted.
Error(r) ==
  /\ \/ task.state \in Ended /\ Moves(r, "error", "idle")
     \/ task.state \in Recovery(task.state) /\ Moves(r, "error", "note")
     \/ \E x \in Recovery(task.state) \cup {"failed"} :
          /\ request[r].pc = "error" /\ task.state \notin Ended \cup {x}
          /\ request' = [request EXCEPT ![r] = Anew("recover", First, x)]
     \/ ran # <<>> /\ \E to \in {"note", "idle"} : Moves(r, "error", to)
  /\ GatewayOnly
Recover(r) == Transition(r, "recover", "idle", request[r].saw)

-----------------------------------------------------------------------------
(* Time and faults                                                         *)

Expire(c) ==
  /\ c \notin expired /\ challenge[c] # None /\ expired' = expired \cup {c}
  /\ UNCHANGED <<faults, files, task, tab, request, server, calls, past>>

Crash(p) ==
  /\ Room /\ faults < MaxFaults /\ faults' = faults + 1
  /\ tab' = IF p = "host" THEN [t \in Tab |-> Idle] ELSE tab
  /\ request' = [r \in Request |-> IF server[r] = p THEN Free ELSE request[r]]
  /\ <<tab, request>>' # <<tab, request>>
  /\ UNCHANGED <<expired, files, task, server, calls, past>>

Page(t) ==
  \/ \E c \in Challenge, x \in Choice : Decide(t, c, x)
  \/ Create(t) \/ Write(t) \/ Existing(t)

Serve(r) ==
  \/ Reads(r) \/ Refused(r) \/ Fails(r) \/ Error(r) \/ Recover(r)
  \/ Resume(r) \/ Look(r) \/ Renew(r) \/ Fill(r) \/ Assign(r) \/ Note(r)
  \/ Submit(r) \/ Input(r) \/ Understand(r) \/ Plan(r) \/ Review(r)
  \/ ReadDecision(r) \/ Approve(r) \/ Execute(r)
  \/ Consume(r) \/ Spend(r) \/ Mark(r) \/ Redact(r) \/ Run(r) \/ Verify(r) \/ Finish(r)

Next ==
  \/ \E p \in Process : Crash(p)
  \/ \E t \in Tab : Page(t)
  \/ \E r \in Request : Serve(r)
  \/ \E c \in Challenge : Expire(c)

Spec == Init /\ [][Next]_vars

-----------------------------------------------------------------------------
(* Properties                                                               *)

\* Files, task, pages and requests keep their types.
TypeOK ==
  /\ challenge \in [Challenge -> {None, "torn", "awaiting", "consumed"}]
  /\ decision \in [Challenge -> Decision \cup {None, Torn}]
  /\ expired \subseteq Challenge /\ spent \subseteq Challenge /\ task \in Task
  /\ faults \in 0 .. MaxFaults /\ calls \in [user : 0 .. MaxDecisions, gateway : 0 .. MaxCalls]
  /\ tab \in [Tab -> [pc : TabPlace, c : Challenge, choice : Choice]]
  /\ request \in [Request -> [pc : Place, c : Challenge, saw : State, got : Task \cup {None}]]
  /\ server \in [Request -> Server]
  /\ told \subseteq Challenge \X Choice /\ ran \in Seq(Challenge)

Verdict(c) == IF decision[c] \in Decision THEN decision[c].choice ELSE "open"

Consent == INSTANCE ConsentLedger WITH verdict <- [c \in Challenge |-> Verdict(c)]

\* Over renewals, new plans, two requests, several processes and faults, every
\* approval is spent once at most, after it was given, and its edit runs once at
\* most; a decision is never made twice nor taken back.
SpendsConsentOnce == Consent!Spec

\* A decision of which the user has been told is the one on record, whatever
\* other pages, requests and faults come later; its token may be gone.
DecisionStands ==
  \A c \in Challenge, x \in Choice :
    <<c, x>> \in told => decision[c] \in Decision /\ decision[c].choice = x

\* The edit runs on an approval that its user has given for this challenge, that
\* is spent, and whose token is in no file any more.
RunsOnlyApproved ==
  \A i \in DOMAIN ran :
    LET c == ran[i] IN
    <<c, "approved">> \in told /\ c \in spent /\ ~decision[c].open

\* A request that has taken the task to itself and is not done with the edit.
Executes(r) == request[r].pc \in {"consume", "spend", "mark", "redact", "run", "verify"}

OneServer == \A r, s \in Request : server[r] = server[s]

\* As long as one process serves all requests at a task, one of them at a time
\* executes its edit, and the task is executing meanwhile, or has failed: reads
\* and writes of several requests, errors that open the task again, renewals and
\* new plans do not let another one in.  Several processes may do so: what they
\* keep is SpendsConsentOnce.
ExecutesAlone ==
  OneServer =>
    \A r \in Request : Executes(r) =>
      task.state \in {"executing", "completed", "failed"} /\ \A s \in Request \ {r} : ~Executes(s)
=============================================================================
