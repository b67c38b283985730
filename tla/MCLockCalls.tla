---------------------------- MODULE MCLockCalls ----------------------------
EXTENDS LockCalls

CONSTANTS p1, p2

UsesOverlap == [p \in Proc |-> IF p = p1 THEN Res ELSE {2}]
CountOne == [p \in Proc |-> [r \in Res |-> 1]]
LimitOne == [p \in Proc |-> 1]
ListenShortest == {AcquiringTime}
BackoffShortest == {2 * AcquiringTime}
=============================================================================
