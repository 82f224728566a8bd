-------------------------- MODULE MCTaskRequestLock --------------------------
(* A small instance of TaskRequestLock: each request has a process.          *)
EXTENDS TaskRequestLock, TLC

CONSTANTS r1, r2, r3, p1, p2, p3

ThreeRequests == r1 :> p1 @@ r2 :> p2 @@ r3 :> p3

=============================================================================
