---------------------------- MODULE ConsentLedger ----------------------------
(***************************************************************************)
(* What src/src/approval-tokens.mjs promises of the approvals of one edit,   *)
(* with no file, page or request in it: a challenge is decided once and its  *)
(* decision stays; an approval is spent once at most, having been given      *)
(* before; and the edit it approves runs once at most, after it was spent.   *)
(* An approval that is spent in vain is not given back.                      *)
(***************************************************************************)
EXTENDS Sequences

CONSTANT Challenge

VARIABLES
  verdict, \* of the user on each challenge
  spent,   \* challenges whose approval is used up
  ran      \* the challenges on whose approval an edit has run

vars == <<verdict, spent, ran>>

Init == verdict = [c \in Challenge |-> "open"] /\ spent = {} /\ ran = <<>>

Decide(c, x) ==
  /\ verdict[c] = "open" /\ verdict' = [verdict EXCEPT ![c] = x]
  /\ UNCHANGED <<spent, ran>>

Spend(c) ==
  /\ verdict[c] = "approved" /\ c \notin spent /\ spent' = spent \cup {c}
  /\ UNCHANGED <<verdict, ran>>

Run(c) ==
  /\ c \in spent /\ \A i \in DOMAIN ran : ran[i] # c
  /\ ran' = Append(ran, c) /\ UNCHANGED <<verdict, spent>>

Next ==
  \E c \in Challenge :
    Decide(c, "approved") \/ Decide(c, "rejected") \/ Spend(c) \/ Run(c)

Spec == Init /\ [][Next]_vars

=============================================================================
