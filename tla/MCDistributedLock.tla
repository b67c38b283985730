------------------------- MODULE MCDistributedLock -------------------------
EXTENDS DistributedLock, TLC

CONSTANTS p1, p2

(* Every process uses every resource, with count 1, and has no limit of    *)
(* tries, or all but p1 have one try.                                      *)
UsesAll == [p \in Proc |-> Res]
CountOne == [p \in Proc |-> [r \in Res |-> 1]]
NoLimit == [p \in Proc |-> 0]
LimitOne == [p \in Proc |-> IF p = p1 THEN 0 ELSE 1]

(* p1 wants both resources, p2 only the second.                            *)
UsesOverlap == [p \in Proc |-> IF p = p1 THEN Res ELSE {2}]

(* The shortest and the longest waits dist(rng) can draw.                  *)
ListenExtremes == {AcquiringTime, 2 * AcquiringTime - 1}
BackoffExtremes == {2 * AcquiringTime, 4 * AcquiringTime - 1}
ListenShortest == {AcquiringTime}
BackoffShortest == {2 * AcquiringTime}

Symmetry == Permutations(Proc)
=============================================================================
