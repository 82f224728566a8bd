--------------------------- MODULE MCModelReopen ---------------------------
(* The reopen task is started when no request of the delivery task is under  *)
(* way, and none arrives after that.                                         *)
EXTENDS ModelReopen

OneTaskAtATime == rpc["start"] = "later" \/ \A r \in Request : pc[r] = "idle"
=============================================================================
