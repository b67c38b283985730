---------------------------- MODULE MCQueryLock ----------------------------
EXTENDS QueryLock

(* The query has count 1, the others have not.                             *)
OtherCounts == [p \in Peer |-> 2]

(* The shortest backoff.                                                   *)
BackoffShortest == {2 * AcquiringTime}
=============================================================================
