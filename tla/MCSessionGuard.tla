--------------------------- MODULE MCSessionGuard ---------------------------
(* Small instances of SessionGuard: two handles, one file, two revisions.    *)
EXTENDS SessionGuard, TLC

Interchangeable ==
  Permutations(Doc) \cup Permutations(Revision) \cup Permutations(Client)

AllCalls == Method

\* Bound: three steps of users, new sessions, crashes and locks gone stale.
FewFaults == budget.session + budget.user + budget.crash + budget.aging <= 3

=============================================================================
