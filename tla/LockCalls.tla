------------------------------ MODULE LockCalls ------------------------------
(***************************************************************************)
(* The calls of the library about one resource at a time: acquire(res),    *)
(* release(res) and the queries.  An object that uses several resources    *)
(* makes them in any order, and holds what it has acquired meanwhile; the  *)
(* resources share the condition variables of the object.                  *)
(*                                                                         *)
(* Beaconing, packets and time are those of DistributedLock.  Here pc[p]   *)
(* is "idle" between two calls, and "short" or "long" in a query.          *)
(***************************************************************************)
EXTENDS DistributedLock

CONSTANT
  AsksHeld  \* TRUE: an object may query, or acquire again, what it holds

VARIABLES
  called,   \* called[p]: the resource of the call, or of the last one
  holds     \* holds[p]: what p has acquired and not released

calls == <<called, holds>>
lockVars == <<vars, calls>>

QueryPC == {"short", "long"}

ShortListenTime == BeaconTime * (SenseBeacons + 1)
LongListenTime == BeaconTime * 12

-----------------------------------------------------------------------------
(* acquire(res), and the head of its loop.                                 *)
StartFor(p, r) ==
  /\ SetState(p, {r}, "STARTING")
  /\ GoTo(p, "starting", 0)
  /\ UNCHANGED <<members, losses>>

(* What the program asks again: nothing in the code refuses a resource     *)
(* that the object holds, nor one that it has released, whose thread has   *)
(* ended (see lock_reuse in the README).                                   *)
MayAsk(p, r) ==
  /\ r \in holds[p] => AsksHeld
  /\ thread[p][r] = "stopped" => Reuse

AcquireCall(p, r) ==
  /\ pc[p] = "idle" /\ r \in Uses[p]
  /\ MayAsk(p, r)
  /\ StartFor(p, r)
  /\ retry' = [retry EXCEPT ![p] = 0]
  /\ called' = [called EXCEPT ![p] = r]
  /\ UNCHANGED holds

TryAgain(p) ==
  /\ pc[p] = "backoff" /\ timer[p] = 0
  /\ MayRetry(p, retry[p])
  /\ StartFor(p, called[p])
  /\ UNCHANGED <<retry, calls>>

AnnounceOne(p) ==
  /\ pc[p] = "listen" /\ timer[p] = 0
  /\ SetState(p, {called[p]}, "ACQUIRING")
  /\ GoTo(p, "arming", 0)
  /\ UNCHANGED <<retry, members, losses, calls>>

(* Mutant of AcquireOne: the members are not counted.                      *)
AcquireAtOnce(p) ==
  /\ pc[p] = "collide" /\ timer[p] = 0
  /\ SetState(p, {called[p]}, "ACQUIRED")
  /\ GoTo(p, "idle", 0)
  /\ holds' = [holds EXCEPT ![p] = @ \cup {called[p]}]
  /\ UNCHANGED <<retry, members, losses, called>>

AcquireOne(p) ==
  /\ pc[p] = "collide" /\ timer[p] = 0
  /\ Acquirable(p, called[p])
  /\ SetState(p, {called[p]}, "ACQUIRED")
  /\ GoTo(p, "idle", 0)
  /\ holds' = [holds EXCEPT ![p] = @ \cup {called[p]}]
  /\ UNCHANGED <<retry, members, losses, called>>

(* The resource is full, or the wait was interrupted.                      *)
Fails(p) ==
  \/ pc[p] = "collide" /\ timer[p] = 0 /\ ~ Acquirable(p, called[p])
  \/ pc[p] = "collided"

(* Mutant of ResetOne: every resource of the object is reset.              *)
ResetEach(p) ==
  /\ Fails(p)
  /\ SetState(p, Uses[p], "IDLE")
  /\ members' = [members EXCEPT ![p] = NoMembers]
  /\ retry' = [retry EXCEPT ![p] = IF @ < RetryMax[p] THEN @ + 1 ELSE @]
  /\ \E t \in BackoffTimes : GoTo(p, "backoff", t)
  /\ UNCHANGED <<losses, calls>>

ResetOne(p) ==
  /\ Fails(p)
  /\ SetState(p, {called[p]}, "IDLE")
  /\ members' = [members EXCEPT ![p][called[p]] = NoMembers[called[p]]]
  /\ retry' = [retry EXCEPT ![p] = IF @ < RetryMax[p] THEN @ + 1 ELSE @]
  /\ \E t \in BackoffTimes : GoTo(p, "backoff", t)
  /\ UNCHANGED <<losses, calls>>

(* The call returns false.                                                 *)
GiveUpOne(p) ==
  /\ pc[p] = "backoff" /\ timer[p] = 0
  /\ ~ MayRetry(p, retry[p])
  /\ GoTo(p, "idle", 0)
  /\ UNCHANGED <<retry, state, thread, beat, members, net, losses, calls>>

(* release(res): the thread of that resource stops.                        *)
ReleaseCall(p, r) ==
  /\ pc[p] = "idle" /\ r \in holds[p]
  /\ state' = [state EXCEPT ![p][r] = "RELEASED"]
  /\ thread' = [thread EXCEPT ![p][r] = "stopped"]
  /\ beat' = [beat EXCEPT ![p][r] = 0]
  /\ net' = net \cup Beacons(p, {r}, "RELEASED")
  /\ holds' = [holds EXCEPT ![p] = @ \ {r}]
  /\ called' = [called EXCEPT ![p] = r]
  /\ UNCHANGED <<pc, timer, retry, members, losses>>

-----------------------------------------------------------------------------
(* isBusy(res) and the other queries; nothing restores the state.          *)
QueryCall(p, r) ==
  /\ pc[p] = "idle" /\ r \in Uses[p]
  /\ MayAsk(p, r)
  /\ SetState(p, {r}, "QUERYING")
  /\ GoTo(p, "short", ShortListenTime)
  /\ called' = [called EXCEPT ![p] = r]
  /\ UNCHANGED <<retry, members, losses, holds>>

QueryReturns(p) ==
  /\ pc[p] \in QueryPC /\ timer[p] = 0
  /\ GoTo(p, "idle", 0)
  /\ UNCHANGED <<retry, state, thread, beat, members, net, losses, calls>>

(* updateMember: a query accounts the members with another count too.      *)
UpdatedByAny(m) ==
  IF \/ state[m.dst][m.res] = "QUERYING"
     \/ state[m.dst][m.res] # "IDLE" /\ Count[m.src][m.res] = Count[m.dst][m.res]
  THEN [members EXCEPT ![m.dst][m.res][m.src] = m.st]
  ELSE members

(* actionPerformed: any packet prolongs a query (any_cv).                  *)
Handle(m) ==
  /\ net' = net \ {m}
  /\ members' = UpdatedByAny(m)
  /\ IF Interrupts(m)
     THEN GoTo(m.dst, IF pc[m.dst] = "listen" THEN "heard" ELSE "collided", 0)
     ELSE IF pc[m.dst] = "short"
          THEN GoTo(m.dst, "long", LongListenTime)
          ELSE UNCHANGED <<pc, timer>>
  /\ UNCHANGED <<retry, state, thread, beat, losses, calls>>

-----------------------------------------------------------------------------
CallsInit ==
  /\ Init
  /\ called = [p \in Proc |-> CHOOSE r \in Uses[p] : First(r, Uses[p])]
  /\ holds = [p \in Proc |-> {}]

CallsNext ==
  \/ \E p \in Proc :
       \/ TryAgain(p) \/ AnnounceOne(p) \/ AcquireOne(p) \/ ResetOne(p)
       \/ GiveUpOne(p) \/ QueryReturns(p)
       \/ (Listen(p) \/ Arm(p) \/ Defer(p)) /\ UNCHANGED calls
       \/ \E r \in Uses[p] :
            \/ AcquireCall(p, r) \/ ReleaseCall(p, r) \/ QueryCall(p, r)
            \/ (Beacon(p, r) \/ Park(p, r)) /\ UNCHANGED calls
  \/ \E m \in net : Handle(m)
  \/ /\ \A p \in Proc : pc[p] \in QueryPC => timer[p] > 0
     /\ Tick /\ UNCHANGED calls

CallsSpec == CallsInit /\ [][CallsNext]_lockVars

-----------------------------------------------------------------------------
(* "to ensure an exclusive access to a shared resource" (README), for      *)
(* objects that acquire one resource after another.                        *)
HoldersWithinCount ==
  \A p \in Proc : \A r \in holds[p] :
    Cardinality({q \in Proc : r \in holds[q] /\ Count[q][r] = Count[p][r]}) <= Count[p][r]

(* What an object holds it beacons, while it acquires, fails to acquire,   *)
(* releases or queries another resource.                                   *)
HeldBeacons ==
  \A p \in Proc : \A r \in holds[p] :
    state[p][r] = "ACQUIRED" /\ thread[p][r] = "beaconing"

(* "only account the members reporting the same count number"              *)
(* (updateMember): while p acquires, these alone are counted as holders.   *)
(* It does not hold after a query, which leaves what it heard in the table.*)
OnlySameCount ==
  \A p, q \in Proc :
    pc[p] \in TimedPC /\ members[p][called[p]][q] = "ACQUIRED" =>
      Count[q][called[p]] = Count[p][called[p]]

=============================================================================
