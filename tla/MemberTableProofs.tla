-------------------------- MODULE MemberTableProofs --------------------------
(***************************************************************************)
(* Theorems about MemberTable, for any set of members, and any part of it  *)
(* with the same count: what the mutexes exclude, and what a reset leaves. *)
(***************************************************************************)
EXTENDS MemberTable, FiniteSetTheorems, WellFoundedInduction, TLAPS

(* The iterator.                                                           *)
LEMMA LeastExists ==
  ASSUME NEW S \in SUBSET Nat, S # {}
  PROVE  \E m \in S : \A n \in S : m <= n
<1> DEFINE R == {ss \in Nat \X Nat : ss[1] < ss[2]}
<1>1. IsWellFoundedOn(R, Nat)
  BY NatLessThanWellFounded DEF OpToRel
<1> HIDE DEF R
<1>2. PICK m \in S : \A n \in S : ~ (<<n, m>> \in R)
  BY <1>1, WFMin
<1>3. ASSUME NEW n \in S PROVE m <= n
  <2>1. ~ (n < m)
    BY <1>2 DEF R
  <2> QED BY <2>1
<1> QED BY <1>3

LEMMA NextIsMember ==
  ASSUME NEW S \in SUBSET Member
  PROVE  NextOf(S) \in S \cup {End}
<1>1. CASE S = {}
  BY <1>1 DEF NextOf
<1>2. CASE S # {}
  <2>1. \E m \in S : \A n \in S : m <= n
    BY <1>2, LeastExists, MemberAssumption
  <2> QED BY <1>2, <2>1 DEF NextOf
<1> QED BY <1>1, <1>2

-----------------------------------------------------------------------------
(* The types.                                                              *)
LEMMA InitTypeOK == Init => TypeOK
BY DEF Init, TypeOK

LEMMA ReceiverTypeOK == TypeOK /\ Receiver => TypeOK'
<1> SUFFICES ASSUME TypeOK, Receiver PROVE TypeOK'
  OBVIOUS
<1> USE DEF TypeOK, caller
<1>1. ASSUME NEW m \in Member, Arrive(m) PROVE TypeOK'
  BY <1>1 DEF Arrive, Step
<1>2. CASE Test
  BY <1>2 DEF Test, Finish
<1>3. CASE Lock
  BY <1>3 DEF Lock, Step
<1>4. CASE Find
  BY <1>4 DEF Find, Step
<1>5. CASE Insert
  BY <1>5 DEF Insert, Step
<1>6. CASE Store
  BY <1>6 DEF Store, Finish
<1> QED BY <1>1, <1>2, <1>3, <1>4, <1>5, <1>6 DEF Receiver

LEMMA CallerTypeOK == TypeOK /\ Caller => TypeOK'
<1> SUFFICES ASSUME TypeOK, Caller PROVE TypeOK'
  OBVIOUS
<1> USE DEF TypeOK, receiver, Move
<1>1. CASE Acquiring
  BY <1>1 DEF Acquiring
<1>2. CASE Query \/ Idle \/ LockMembers
  BY <1>2 DEF Query, Idle, LockMembers
<1>3. CASE Scan
  BY <1>3, NextIsMember DEF Scan
<1>4. CASE Visit
  <2>1. NextOf({m \in table : m > at}) \in Member \cup {End}
    BY NextIsMember
  <2> QED BY <1>4, <2>1 DEF Visit
<1>5. CASE Scanned
  BY <1>5 DEF Scanned
<1>6. CASE Clear
  BY <1>6 DEF Clear
<1>7. CASE Destroy \/ Destroyed
  BY <1>7 DEF Destroy, Destroyed
<1> QED BY <1>1, <1>2, <1>3, <1>4, <1>5, <1>6, <1>7 DEF Caller

(* Each variable has a value of its kind, and what is added to the table   *)
(* is not in it, whatever the caller does between the search and the       *)
(* insertion.                                                              *)
THEOREM TypeCorrect == Spec => []TypeOK
<1>1. TypeOK /\ [Next]_vars => TypeOK'
  <2> SUFFICES ASSUME TypeOK, [Next]_vars PROVE TypeOK'
    OBVIOUS
  <2>1. CASE UNCHANGED vars
    BY <2>1 DEF vars, caller, receiver, TypeOK
  <2> QED BY <2>1, ReceiverTypeOK, CallerTypeOK DEF Next
<1> QED BY InitTypeOK, <1>1, PTL DEF Spec

-----------------------------------------------------------------------------
(* What the mutexes exclude: members_m is not held twice, and the          *)
(* destructor waits for the end of a dispatch and lets no other begin.     *)
Apart ==
  /\ cpc = "clear" => rpc \notin Guarded
  /\ cpc \in {"destroy", "destroyed"} => rpc = "idle"

(* No conflict but with a scan, as long as this holds.                     *)
LEMMA ApartImplies == Apart => OnlyScansRace
BY DEF Apart, OnlyScansRace, Conflict, Scanning, Guarded

LEMMA ApartStep == Apart /\ [Next]_vars => Apart'
<1> SUFFICES ASSUME Apart, [Next]_vars PROVE Apart'
  OBVIOUS
<1> USE DEF Apart, Guarded
<1>1. ASSUME Receiver PROVE Apart'
  <2>1. CASE \E m \in Member : Arrive(m)
    BY <2>1 DEF Arrive, Step, caller
  <2>2. CASE Test
    BY <2>2 DEF Test, Finish
  <2>3. CASE Lock \/ Find \/ Insert
    BY <2>3 DEF Lock, Find, Insert, Step, caller
  <2>4. CASE Store
    BY <2>4 DEF Store, Finish
  <2> QED BY <1>1, <2>1, <2>2, <2>3, <2>4 DEF Receiver
<1>2. ASSUME Caller PROVE Apart'
  <2> USE DEF Move, receiver
  <2>1. CASE Acquiring \/ Query \/ Idle
    BY <2>1 DEF Acquiring, Query, Idle
  <2>2. CASE Scan \/ Visit \/ Scanned
    BY <2>2 DEF Scan, Visit, Scanned
  <2>3. CASE LockMembers \/ Clear
    BY <2>3 DEF LockMembers, Clear
  <2>4. CASE Destroy \/ Destroyed
    BY <2>4 DEF Destroy, Destroyed
  <2> QED BY <1>2, <2>1, <2>2, <2>3, <2>4 DEF Caller
<1>3. CASE UNCHANGED vars
  BY <1>3 DEF vars, caller, receiver
<1> QED BY <1>1, <1>2, <1>3 DEF Next

(* reset and the destructor never meet an update; only the loops of        *)
(* isAcquirable and query_lock, which take no mutex, do.                   *)
THEOREM OnlyScansRaceCorrect == Spec => []OnlyScansRace
<1>1. Init => Apart
  BY DEF Init, Apart, Guarded
<1> QED BY <1>1, ApartStep, ApartImplies, PTL DEF Spec

-----------------------------------------------------------------------------
(* What a reset leaves: nothing, or the one member whose packet has passed *)
(* the test of the state before.                                           *)
Cleared == state = "IDLE" /\ cpc \notin {"reset", "clear"}

Left ==
  Cleared =>
    IF rpc \in {"idle", "test"} THEN \E x \in Member : table \subseteq {x}
    ELSE table \subseteq {id}

LEMMA LeftImplies == TypeOK /\ Left => AtMostOneLeft
<1> SUFFICES ASSUME TypeOK, Left, Cleared PROVE Cardinality(table) <= 1
  BY DEF AtMostOneLeft, Cleared
<1>1. PICK x \in Member : table \subseteq {x}
  BY DEF Left, TypeOK
<1>2. IsFiniteSet({x}) /\ Cardinality({x}) = 1
  BY FS_Singleton
<1>3. Cardinality(table) <= Cardinality({x})
  BY <1>1, <1>2, FS_Subset
<1> QED BY <1>2, <1>3

LEMMA LeftStep == TypeOK /\ Left /\ [Next]_vars => Left'
<1> SUFFICES ASSUME TypeOK, Left, [Next]_vars, Cleared' PROVE Left'
  BY DEF Left
<1>1. ASSUME Receiver PROVE Left'
  <2>0. Cleared /\ id \in Member
    BY <1>1 DEF Receiver, Arrive, Test, Lock, Find, Insert, Store, Finish, Step,
                Cleared, caller, TypeOK
  <2> USE <2>0 DEF Left, Cleared
  <2>1. CASE \E m \in Member : Arrive(m)
    BY <2>1 DEF Arrive, Step
  <2>2. CASE Test
    BY <2>2 DEF Test, Finish
  <2>3. CASE Lock \/ Find
    BY <2>3 DEF Lock, Find, Step
  <2>4. CASE Insert
    BY <2>4 DEF Insert, Step
  <2>5. CASE Store
    BY <2>5 DEF Store, Finish
  <2> QED BY <1>1, <2>1, <2>2, <2>3, <2>4, <2>5 DEF Receiver
<1>2. ASSUME Caller PROVE Left'
  <2> USE DEF Move, receiver, Left, Cleared
  <2>1. CASE Acquiring \/ Query \/ Idle \/ LockMembers
    BY <2>1 DEF Acquiring, Query, Idle, LockMembers
  <2>2. CASE Scan \/ Visit \/ Scanned
    BY <2>2 DEF Scan, Visit, Scanned
  <2>3. CASE Clear
    BY <2>3 DEF Clear, TypeOK
  <2>4. CASE Destroy \/ Destroyed
    BY <2>4 DEF Destroy, Destroyed, TypeOK
  <2> QED BY <1>2, <2>1, <2>2, <2>3, <2>4 DEF Caller
<1>3. CASE UNCHANGED vars
  BY <1>3 DEF vars, caller, receiver, Left, Cleared
<1> QED BY <1>1, <1>2, <1>3 DEF Next

(* Of the round before a reset, at most one member is known after it.      *)
THEOREM AtMostOneLeftCorrect == Spec => []AtMostOneLeft
<1>1. Init => TypeOK /\ Left
  <2>1. Init => Left
    BY DEF Init, Left
  <2> QED BY <2>1, InitTypeOK
<1> QED BY <1>1, TypeCorrect, LeftStep, LeftImplies, PTL DEF Spec

=============================================================================
