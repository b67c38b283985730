---------------------------- MODULE CountingLock ----------------------------
(***************************************************************************)
(* What dist_lock promises, without messages or time: a process gets all   *)
(* the resources it asked for in one step, and only while each of them has *)
(* room among the processes that give it the same count.                   *)
(***************************************************************************)
EXTENDS Integers, FiniteSets

CONSTANTS Proc, Res, Uses, Count

VARIABLE phase    \* phase[p]: "out", "waiting" or "held"

Holds(p, r) == phase[p] = "held" /\ r \in Uses[p]

(* The holders of r that p must not exceed the count with.                 *)
Peers(p, r) == {q \in Proc : Holds(q, r) /\ Count[q][r] = Count[p][r]}

Init == phase = [p \in Proc |-> "out"]

Request(p) ==
  /\ phase[p] = "out"
  /\ phase' = [phase EXCEPT ![p] = "waiting"]

Grant(p) ==
  /\ phase[p] = "waiting"
  /\ \A r \in Uses[p] : Cardinality(Peers(p, r)) < Count[p][r]
  /\ phase' = [phase EXCEPT ![p] = "held"]

(* A release, the end of the program, giving up, or a crash.               *)
Leave(p) ==
  /\ phase[p] # "out"
  /\ phase' = [phase EXCEPT ![p] = "out"]

Next == \E p \in Proc : Request(p) \/ Grant(p) \/ Leave(p)

Spec == Init /\ [][Next]_phase

=============================================================================
