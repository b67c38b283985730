----------------------------- MODULE MemberTable -----------------------------
(***************************************************************************)
(* The table of members of one Resource, and the two threads that use it:  *)
(* the receiving thread, in actionPerformed and updateMember, and the      *)
(* caller's, which counts the members (isAcquirable), copies them          *)
(* (query_lock), deletes them (reset), and deletes the object.             *)
(*                                                                         *)
(* A thread is at one of the places below for as long as an access takes,  *)
(* or between two of them.  The mutexes are part of the places: members_m  *)
(* is held at those of Guarded and at "clear", update_m at every place of  *)
(* the receiving thread but "idle", and at "destroy".  What a member says  *)
(* is not modelled, nor how long the caller waits.                         *)
(***************************************************************************)
EXTENDS Naturals, FiniteSets

CONSTANTS
  Member,     \* the ids of the other processes, in the order of the map
  SameCount   \* those that give the resource the count that this one does

ASSUME MemberAssumption ==
  Member \subseteq Nat \ {0} /\ IsFiniteSet(Member) /\ SameCount \subseteq Member

VARIABLES
  state,   \* Resource::state
  table,   \* the members that are in the map
  cpc,     \* where the caller's thread is
  at,      \* the member its iterator points to, End past the last
  rpc,     \* where the receiving thread is
  id,      \* the member that sent the packet it handles
  freed    \* the Member it has a pointer to has been deleted

caller == <<cpc, at>>
receiver == <<rpc, id, freed>>
vars == <<state, table, caller, receiver>>

End == 0

(* The receiving thread holds members_m.                                   *)
Guarded == {"find", "insert", "store"}

(* It has a pointer to a Member.                                           *)
Pointing == {"found", "store"}

(* The caller's thread iterates over the map, without a mutex.             *)
Scanning == {"scan", "seen", "copy"}

-----------------------------------------------------------------------------
(* Two accesses at once, one of which changes what the other one uses: the *)
(* map, or a member.  (find does not change the map, store only a member.) *)
Conflict ==
  \/ rpc = "insert" /\ cpc \in Scanning \cup {"clear", "destroy"}
  \/ rpc = "store" /\ cpc \in Scanning /\ at = id
  \/ rpc \in {"find", "store"} /\ cpc \in {"clear", "destroy"}

(* A member is written that has been deleted.                              *)
FreedUse == rpc = "store" /\ freed

(* The program is undefined from then on.                                  *)
Undefined == Conflict \/ FreedUse

-----------------------------------------------------------------------------
(* The receiving thread.                                                   *)
Step(from, to) == rpc = from /\ rpc' = to

(* A packet of m, while the listener is there and its resource exists.     *)
Arrive(m) ==
  /\ Step("idle", "test")
  /\ cpc \notin {"destroy", "destroyed"}
  /\ id' = m
  /\ UNCHANGED <<state, table, caller, freed>>

(* actionPerformed ends.  If the packet was ACQUIRING its notification     *)
(* reaches a caller that listens, or that has announced.                   *)
Finish ==
  /\ rpc' = "idle"
  /\ \/ UNCHANGED cpc
     \/ cpc = "start" /\ cpc' = "backoff"
     \/ cpc = "announced" /\ cpc' = "collided"

(* Mutant of Test: an idle resource takes packets too.                     *)
TestCountOnly ==
  /\ rpc = "test"
  /\ IF id \in SameCount \/ state = "QUERYING"
     THEN rpc' = "known" /\ UNCHANGED cpc
     ELSE Finish
  /\ UNCHANGED <<state, table, at, id, freed>>

(* An idle resource ignores the packet, and only a query takes one with    *)
(* another count.                                                          *)
Test ==
  /\ rpc = "test"
  /\ IF state # "IDLE" /\ (id \in SameCount \/ state = "QUERYING")
     THEN rpc' = "known" /\ UNCHANGED cpc
     ELSE Finish
  /\ UNCHANGED <<state, table, at, id, freed>>

(* getMember, and later addMember or the update, take members_m.           *)
Lock ==
  /\ \/ Step("known", "find") \/ Step("missing", "insert") \/ Step("found", "store")
  /\ cpc # "clear"
  /\ UNCHANGED <<state, table, caller, id, freed>>

(* Mutant of Find: a member that is in the map is not found.               *)
FindNothing ==
  /\ Step("find", "missing")
  /\ freed' = FALSE
  /\ UNCHANGED <<state, table, caller, id>>

Find ==
  /\ Step("find", IF id \in table THEN "found" ELSE "missing")
  /\ freed' = FALSE
  /\ UNCHANGED <<state, table, caller, id>>

Insert ==
  /\ Step("insert", "found")
  /\ table' = table \cup {id}
  /\ freed' = FALSE
  /\ UNCHANGED <<state, caller, id>>

Store ==
  /\ rpc = "store" /\ Finish
  /\ UNCHANGED <<state, table, at, id, freed>>

-----------------------------------------------------------------------------
(* The caller's thread.                                                    *)
Move(from, to, st) == cpc \in from /\ cpc' = to /\ state' = st

(* setState at the head of the loop, after it has listened, when a         *)
(* resource is free, and in release_lock.  A released object may go on.    *)
Acquiring ==
  /\ \/ Move({"out", "backoff"}, "start", "STARTING")
     \/ Move({"start"}, "announced", "ACQUIRING")
     \/ Move({"counted"}, "held", "ACQUIRED")
     \/ Move({"out", "held"}, "out", "RELEASED")
     \/ Move({"backoff"}, "out", state)
  /\ UNCHANGED <<table, at, receiver>>

(* query_lock.                                                             *)
Query ==
  /\ Move({"out"}, "ask", "QUERYING")
  /\ UNCHANGED <<table, at, receiver>>

(* The iterator's next member in the map.                                  *)
NextOf(S) ==
  IF S = {} THEN End ELSE CHOOSE m \in S : \A n \in S : m <= n

(* begin(): isAcquirable, when the wait has timed out, or a query's copy.  *)
Scan ==
  /\ \/ Move({"announced"}, "scan", state) \/ Move({"ask"}, "copy", state)
  /\ at' = NextOf(table)
  /\ UNCHANGED <<table, receiver>>

(* One turn of the loop over the members, any of which may be a holder.    *)
Visit ==
  /\ at # End
  /\ \/ Move({"scan", "seen"}, "seen", state) \/ Move({"copy"}, "copy", state)
  /\ at' = NextOf({m \in table : m > at})
  /\ UNCHANGED <<table, receiver>>

Scanned ==
  /\ at = End
  /\ \/ Move({"scan", "seen"}, "counted", state)
     \/ Move({"seen"}, "full", state)
     \/ Move({"copy"}, "out", state)
  /\ UNCHANGED <<table, at, receiver>>

(* Mutant of Idle: nothing waits for members_m.                            *)
IdleUnlocked ==
  /\ Move({"collided", "full"}, "clear", "IDLE")
  /\ UNCHANGED <<table, at, receiver>>

(* reset, after a collision or a full resource: the state, then members_m, *)
Idle ==
  /\ Move({"collided", "full"}, "reset", "IDLE")
  /\ UNCHANGED <<table, at, receiver>>

LockMembers ==
  /\ Move({"reset"}, "clear", state)
  /\ rpc \notin Guarded
  /\ UNCHANGED <<table, at, receiver>>

(* and every member is erased and deleted.                                 *)
Clear ==
  /\ Move({"clear"}, "backoff", state)
  /\ table' = {}
  /\ freed' = (freed \/ (rpc \in Pointing /\ id \in table))
  /\ UNCHANGED <<at, rpc, id>>

(* The destructor releases, leaves the listeners, takes update_m,          *)
Destroy ==
  /\ Move({"out"}, "destroy", "RELEASED")
  /\ rpc = "idle"
  /\ UNCHANGED <<table, at, receiver>>

(* and deletes the resources with their members.                           *)
Destroyed ==
  /\ Move({"destroy"}, "destroyed", state)
  /\ table' = {}
  /\ UNCHANGED <<at, receiver>>

-----------------------------------------------------------------------------
Init ==
  /\ state = "IDLE" /\ table = {}
  /\ cpc = "out" /\ at = End
  /\ rpc = "idle" /\ id \in Member /\ freed = FALSE

Receiver == (\E m \in Member : Arrive(m)) \/ Test \/ Lock \/ Find \/ Insert \/ Store

Caller ==
  \/ Acquiring \/ Query \/ Scan \/ Visit \/ Scanned \/ Idle \/ LockMembers \/ Clear
  \/ Destroy \/ Destroyed

Next == ~ Undefined /\ (Receiver \/ Caller)

Spec == Init /\ [][Next]_vars

-----------------------------------------------------------------------------
(* Each variable has a value of its kind.  A member is added only if it is *)
(* not in the map: the receiving thread is the only one that adds any.     *)
TypeOK ==
  /\ state \in {"IDLE", "STARTING", "ACQUIRING", "ACQUIRED", "RELEASED", "QUERYING"}
  /\ table \subseteq Member
  /\ cpc \in {"out", "start", "announced", "collided", "scan", "seen", "counted",
              "full", "held", "reset", "clear", "backoff", "ask", "copy", "destroy", "destroyed"}
  /\ at \in Member \cup {End}
  /\ rpc \in {"idle", "test", "known", "find", "missing", "insert", "found", "store"}
  /\ id \in Member
  /\ freed \in BOOLEAN
  /\ rpc \in {"missing", "insert"} => id \notin table

(* The mutexes keep the two threads apart but for the loops that take      *)
(* none: isAcquirable and the copy of query_lock.  reset and the           *)
(* destructor never meet an update.                                        *)
OnlyScansRace == Conflict => cpc \in Scanning

(* A reset leaves at most one member, that of the packet that was being    *)
(* handled: what the table knows of the round before is gone, although     *)
(* actionPerformed tests the state long before it enters the member.       *)
AtMostOneLeft ==
  state = "IDLE" /\ cpc \notin {"reset", "clear"} => Cardinality(table) <= 1

(* "use a mutex for changing map" (addMember): there is one, members_m,    *)
(* and what it is for is that no update uses a member that is deleted.     *)
(* It does not hold: the mutex is dropped before the member is used.       *)
NeverFreed == ~ FreedUse

=============================================================================
