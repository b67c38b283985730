--------------------------- MODULE DistributedLock ---------------------------
(***************************************************************************)
(* The acquisition protocol of dist_lock (src/src/DistributedLock.cc).     *)
(*                                                                         *)
(* A process is one DistributedLock object with its three kinds of thread: *)
(*   - the caller's thread, inside adquire_lock (variables pc, timer, and  *)
(*     retry);                                                             *)
(*   - one beaconing thread per resource, Resource::run (thread, beat);    *)
(*   - the receiving thread, which runs actionPerformed (action Receive).  *)
(* They share the state of each resource and its table of members.         *)
(*                                                                         *)
(* Time is counted in ticks.  beacon_time is BeaconTime ticks, and every   *)
(* timed wait of the code is a countdown.  Tick is disabled while a thread *)
(* is runnable or a datagram is due.  What scheduling and the network may  *)
(* add is in two constants.  A wait lasts up to MaxLag ticks longer than   *)
(* asked, and as many ticks a beaconing thread may need for its start, and *)
(* from its test of IDLE to the wait on beacon_cv, which nothing protects  *)
(* from setState.  At most MaxDelay ticks pass from the moment a beacon    *)
(* reads its state until a receiver has handled it.  Datagrams are not     *)
(* ordered.                                                                *)
(***************************************************************************)
EXTENDS Integers, FiniteSets

CONSTANTS
  Proc,           \* the DistributedLock objects (their random ids are distinct)
  Res,            \* resource names, numbers in the order of std::map
  Uses,           \* Uses[p]: the resources p defines
  Count,          \* Count[p][r]: the count p gives to resource r
  RetryMax,       \* RetryMax[p]: setAdquireMaxRetry, 0 for no limit
  WaitReady,      \* TRUE: acquire(), FALSE: acquire(res)
  Reuse,          \* TRUE: a released object may acquire again
  BeaconTime,     \* ticks between two beacons
  ListenTimes,    \* sampled values of the random listening time
  BackoffTimes,   \* sampled values of the random backoff time
  MaxDelay,       \* ticks a datagram may take to be handled
  MaxLag,         \* ticks by which a wait or a thread may be late
  MaxLosses,      \* bound on the number of datagrams lost
  Mortal          \* the processes that may be killed at any moment

(* SENSE_BEACONS of DistributedLock.h. *)
SenseBeacons == 3

AcquiringTime == BeaconTime * SenseBeacons

ASSUME ConstantsAssumption ==
  /\ IsFiniteSet(Proc)
  /\ Res \subseteq Nat
  /\ Uses \in [Proc -> SUBSET Res]
  /\ \A p \in Proc : Uses[p] # {}
  /\ Count \in [Proc -> [Res -> Nat \ {0}]]
  /\ RetryMax \in [Proc -> Nat]
  /\ WaitReady \in BOOLEAN
  /\ Reuse \in BOOLEAN
  /\ BeaconTime \in Nat
  /\ MaxDelay \in Nat
  /\ MaxLag \in Nat
  /\ MaxLosses \in Nat
  /\ Mortal \subseteq Proc

(* How long a wait for t ticks may last.                                   *)
Late(t) == t .. t + MaxLag

(* Between once and twice the shortest wait, and the lag.                  *)
ASSUME TimesAssumption ==
  /\ ListenTimes \subseteq AcquiringTime .. (2 * AcquiringTime + MaxLag)
  /\ BackoffTimes \subseteq 2 * AcquiringTime .. (4 * AcquiringTime + MaxLag)

VARIABLES
  pc,       \* pc[p]: where the caller's thread of p is
  timer,    \* timer[p]: ticks left of its timed wait
  retry,    \* retry[p]: attempts counted, cut off at RetryMax[p]
  state,    \* state[p][r]: Resource::state
  thread,   \* thread[p][r]: what the beaconing thread does
  beat,     \* beat[p][r]: ticks left until its next step
  members,  \* members[p][r][q]: state of member q, "NONE" if not in the map
  net,      \* datagrams in flight
  losses    \* datagrams lost so far

vars == <<pc, timer, retry, state, thread, beat, members, net, losses>>

State == {"IDLE", "STARTING", "ACQUIRING", "ACQUIRED", "RELEASED"}

(* The timed waits of adquire_lock.                                        *)
TimedPC == {"listen", "collide", "backoff"}

(* Runnable: a wait of the caller has been notified, or it is between two. *)
ReadyPC == {"unready", "readied", "starting", "heard", "arming", "collided"}

PC == TimedPC \cup ReadyPC
        \cup {"idle", "ready", "held", "released", "failed", "dead"}

(* A beaconing thread pauses between two turns ("beaconing"), has found    *)
(* IDLE but does not wait yet ("parking"), waits on beacon_cv ("parked"),  *)
(* or has ended.                                                           *)
ThreadState == {"beaconing", "parking", "parked", "stopped"}

Message ==
  {m \in [src : Proc, dst : Proc, res : Res, st : State, ttl : 0 .. MaxDelay] :
     m.src # m.dst}

-----------------------------------------------------------------------------
(* p has an open socket and a listener whose answer can still matter.  An  *)
(* object that failed, or that is released for good, is about to be        *)
(* deleted together with its process.                                      *)
Up(p) == \/ pc[p] \notin {"failed", "released", "dead"}
         \/ pc[p] = "released" /\ Reuse

Threads(p) == {r \in Uses[p] : thread[p][r] \in {"beaconing", "parking"}}

(* Mutant of Beacons: a process also handles its own packets.              *)
BeaconsToSelf(p, S, st) ==
  {m \in [src : {p}, dst : Proc, res : S, st : {st}, ttl : {MaxDelay}] :
     m.res \in Uses[m.dst] /\ Up(m.dst)}

(* The datagrams of one sendBeacon for each resource of S, one copy for    *)
(* every process that has the resource: the others, and p itself, discard  *)
(* the packet in actionPerformed.                                          *)
Beacons(p, S, st) ==
  {m \in [src : {p}, dst : Proc \ {p}, res : S, st : {st}, ttl : {MaxDelay}] :
     m.res \in Uses[m.dst] /\ Up(m.dst)}

(* Mutant of SetState: without the notify_all on beacon_cv.                *)
SetStateSilently(p, S, st) ==
  /\ state' = [state EXCEPT ![p] =
                 [r \in Res |-> IF r \in S THEN st ELSE state[p][r]]]
  /\ net' = net \cup Beacons(p, S, st)
  /\ UNCHANGED <<thread, beat>>

(* Resource::setState on each resource of S: store the state, send one     *)
(* beacon, and wake the beaconing thread if it waits on beacon_cv by then. *)
SetState(p, S, st) ==
  /\ state' = [state EXCEPT ![p] =
                 [r \in Res |-> IF r \in S THEN st ELSE state[p][r]]]
  /\ thread' = [thread EXCEPT ![p] =
                 [r \in Res |-> IF r \in S /\ thread[p][r] = "parked"
                                THEN "beaconing" ELSE thread[p][r]]]
  /\ \E b \in [Res -> Late(BeaconTime)] :
       beat' = [beat EXCEPT ![p] =
                 [r \in Res |-> IF r \in S /\ thread[p][r] = "parked"
                                THEN b[r] ELSE beat[p][r]]]
  /\ net' = net \cup Beacons(p, S, st)

(* The caller's thread moves on, to a wait of t ticks (0 if untimed).      *)
GoTo(p, l, t) ==
  /\ pc' = [pc EXCEPT ![p] = l]
  /\ timer' = [timer EXCEPT ![p] = t]

MayRetry(p, n) == RetryMax[p] = 0 \/ n < RetryMax[p]

(* The resources are taken in the order of the map.                        *)
First(r, S) == \A s \in S : r <= s

NoMembers == [r \in Res |-> [q \in Proc |-> "NONE"]]

(* Mutant of Acquirable: num_members <= count.                             *)
AcquirableIfFull(p, r) ==
  Cardinality({q \in Proc : members[p][r][q] = "ACQUIRED"}) <= Count[p][r]

(* Resource::isAcquirable *)
Acquirable(p, r) ==
  Cardinality({q \in Proc : members[p][r][q] = "ACQUIRED"}) < Count[p][r]

(* Mutant of Busy: only the first resource is looked at.                   *)
BusyFirst(p) ==
  {r \in Uses[p] : ~ Acquirable(p, r) /\ First(r, Uses[p])}

Busy(p) == {r \in Uses[p] : ~ Acquirable(p, r)}

-----------------------------------------------------------------------------
(* adquire_lock() gives the first resource its state and waits until its   *)
(* thread takes a turn (waitForReady), then goes on to the next one.       *)
Begin(p) ==
  /\ WaitReady
  /\ pc[p] \in {"idle", "released"}
  /\ pc[p] = "released" => Reuse
  /\ \E r \in Uses[p] : First(r, Uses[p]) /\ SetState(p, {r}, "STARTING")
  /\ GoTo(p, "unready", 0)
  /\ retry' = [retry EXCEPT ![p] = 0]
  /\ UNCHANGED <<members, losses>>

NotStarted(p) == {r \in Uses[p] : state[p][r] # "STARTING"}

BeginNext(p) ==
  /\ pc[p] = "readied"
  /\ NotStarted(p) # {}
  /\ \E r \in NotStarted(p) : First(r, NotStarted(p)) /\ SetState(p, {r}, "STARTING")
  /\ GoTo(p, "unready", 0)
  /\ UNCHANGED <<retry, members, losses>>

(* started_cv.wait: only from here on can a turn of the thread wake it.    *)
WaitForReady(p) ==
  /\ pc[p] = "unready"
  /\ GoTo(p, "ready", 0)
  /\ UNCHANGED <<retry, state, thread, beat, members, net, losses>>

(* The head of the while loop.                                             *)
Start(p) ==
  /\ SetState(p, Uses[p], "STARTING")
  /\ GoTo(p, "starting", 0)
  /\ UNCHANGED <<members, losses>>

FirstRound(p) ==
  /\ \/ pc[p] = "readied" /\ NotStarted(p) = {} /\ UNCHANGED retry
     \/ /\ ~ WaitReady
        /\ pc[p] \in {"idle", "released"}
        /\ pc[p] = "released" => Reuse
        /\ retry' = [retry EXCEPT ![p] = 0]
  /\ Start(p)

NextRound(p) ==
  /\ pc[p] = "backoff" /\ timer[p] = 0
  /\ MayRetry(p, retry[p])
  /\ Start(p)
  /\ UNCHANGED retry

(* listenForPacket: listen_cv.wait_for, for a random time.                 *)
Listen(p) ==
  /\ pc[p] = "starting"
  /\ \E t \in ListenTimes : GoTo(p, "listen", t)
  /\ UNCHANGED <<retry, state, thread, beat, members, net, losses>>

(* listenForPacket timed out: nobody else is acquiring.                    *)
Announce(p) ==
  /\ pc[p] = "listen" /\ timer[p] = 0
  /\ SetState(p, Uses[p], "ACQUIRING")
  /\ GoTo(p, "arming", 0)
  /\ UNCHANGED <<retry, members, losses>>

(* Mutant of Arm: the wait for collisions lasts one beacon.                *)
ArmBriefly(p) ==
  /\ pc[p] = "arming"
  /\ \E t \in Late(BeaconTime) : GoTo(p, "collide", t)
  /\ UNCHANGED <<retry, state, thread, beat, members, net, losses>>

(* cv.wait_for: only from here on can a notification reach the caller.     *)
Arm(p) ==
  /\ pc[p] = "arming"
  /\ \E t \in Late(AcquiringTime) : GoTo(p, "collide", t)
  /\ UNCHANGED <<retry, state, thread, beat, members, net, losses>>

(* The wait timed out and every resource is acquirable.                    *)
Acquire(p) ==
  /\ pc[p] = "collide" /\ timer[p] = 0
  /\ Busy(p) = {}
  /\ SetState(p, Uses[p], "ACQUIRED")
  /\ GoTo(p, "held", 0)
  /\ UNCHANGED <<retry, members, losses>>

(* Mutant of FindBusy: each resource is set to ACQUIRED before it is       *)
(* checked.                                                                *)
FindBusyLate(p) ==
  /\ pc[p] = "collide" /\ timer[p] = 0
  /\ Busy(p) # {}
  /\ SetState(p, {r \in Uses[p] : \A b \in Busy(p) : r <= b}, "ACQUIRED")
  /\ GoTo(p, "collided", 0)
  /\ UNCHANGED <<retry, members, losses>>

(* The wait timed out, but some resource is full: those that come before   *)
(* it in the map have been set to ACQUIRED when the loop breaks.           *)
FindBusy(p) ==
  /\ pc[p] = "collide" /\ timer[p] = 0
  /\ Busy(p) # {}
  /\ SetState(p, {r \in Uses[p] : \A b \in Busy(p) : r < b}, "ACQUIRED")
  /\ GoTo(p, "collided", 0)
  /\ UNCHANGED <<retry, members, losses>>

(* Mutants of Reset: the members are kept, or the attempt is not counted.  *)
ResetKeepingMembers(p) ==
  /\ pc[p] = "collided"
  /\ SetState(p, Uses[p], "IDLE")
  /\ retry' = [retry EXCEPT ![p] = IF @ < RetryMax[p] THEN @ + 1 ELSE @]
  /\ \E t \in BackoffTimes : GoTo(p, "backoff", t)
  /\ UNCHANGED <<members, losses>>

ResetUncounted(p) ==
  /\ pc[p] = "collided"
  /\ SetState(p, Uses[p], "IDLE")
  /\ members' = [members EXCEPT ![p] = NoMembers]
  /\ \E t \in BackoffTimes : GoTo(p, "backoff", t)
  /\ UNCHANGED <<retry, losses>>

(* Resource::reset of every resource, after a collision or a full one.     *)
Reset(p) ==
  /\ pc[p] = "collided"
  /\ SetState(p, Uses[p], "IDLE")
  /\ members' = [members EXCEPT ![p] = NoMembers]
  /\ retry' = [retry EXCEPT ![p] = IF @ < RetryMax[p] THEN @ + 1 ELSE @]
  /\ \E t \in BackoffTimes : GoTo(p, "backoff", t)
  /\ UNCHANGED losses

(* listenForPacket was interrupted: neither reset nor counted.             *)
Defer(p) ==
  /\ pc[p] = "heard"
  /\ \E t \in BackoffTimes : GoTo(p, "backoff", t)
  /\ UNCHANGED <<retry, state, thread, beat, members, net, losses>>

(* The object or its process is gone, and the datagrams sent to it too.    *)
Close(p, l) ==
  /\ GoTo(p, l, 0)
  /\ thread' = [thread EXCEPT ![p] = [r \in Res |-> "stopped"]]
  /\ beat' = [beat EXCEPT ![p] = [r \in Res |-> 0]]
  /\ net' = {m \in net : m.dst # p}
  /\ UNCHANGED <<retry, state, members, losses>>

(* adquire_lock returns false, and the program exits with status 5.        *)
GiveUp(p) ==
  /\ pc[p] = "backoff" /\ timer[p] = 0
  /\ ~ MayRetry(p, retry[p])
  /\ Close(p, "failed")

(* The command has finished: main returns its status at once, releaseAll   *)
(* is never reached, and nothing announces that the resource is free.      *)
Exit(p) == pc[p] = "held" /\ Close(p, "dead")

Crash(p) == p \in Mortal /\ Up(p) /\ Close(p, "dead")

(* releaseAll of the library: RELEASED, and stop every beaconing thread.   *)
Release(p) ==
  /\ pc[p] = "held"
  /\ GoTo(p, "released", 0)
  /\ state' = [state EXCEPT ![p] =
                 [r \in Res |-> IF r \in Uses[p] THEN "RELEASED" ELSE state[p][r]]]
  /\ thread' = [thread EXCEPT ![p] = [r \in Res |-> "stopped"]]
  /\ beat' = [beat EXCEPT ![p] = [r \in Res |-> 0]]
  /\ net' = {m \in net : m.dst # p \/ Reuse} \cup Beacons(p, Uses[p], "RELEASED")
  /\ UNCHANGED <<retry, members, losses>>

-----------------------------------------------------------------------------
(* One turn of Resource::run: notify started_cv, then beacon the current   *)
(* state, or go to wait on beacon_cv when there is nothing to say.         *)
Beacon(p, r) ==
  /\ r \in Uses[p] /\ thread[p][r] = "beaconing" /\ beat[p][r] = 0
  /\ IF state[p][r] = "IDLE"
     THEN /\ thread' = [thread EXCEPT ![p][r] = "parking"]
          /\ \E b \in 0 .. MaxLag : beat' = [beat EXCEPT ![p][r] = b]
          /\ UNCHANGED net
     ELSE /\ \E b \in Late(BeaconTime) : beat' = [beat EXCEPT ![p][r] = b]
          /\ net' = net \cup Beacons(p, {r}, state[p][r])
          /\ UNCHANGED thread
  /\ pc' = [pc EXCEPT ![p] =
              IF @ = "ready" /\ \A s \in Uses[p] : state[p][s] = "STARTING" => s <= r
              THEN "readied" ELSE @]
  /\ UNCHANGED <<timer, retry, state, members, losses>>

(* beacon_cv.wait.  A setState since the test has notified nobody, and the *)
(* thread sleeps until the next one.                                       *)
Park(p, r) ==
  /\ r \in Uses[p] /\ thread[p][r] = "parking" /\ beat[p][r] = 0
  /\ thread' = [thread EXCEPT ![p][r] = "parked"]
  /\ UNCHANGED <<pc, timer, retry, state, beat, members, net, losses>>

(* updateMember: an idle resource ignores packets, and a member that gives *)
(* the resource another count is not accounted.                            *)
Updated(m) ==
  IF /\ state[m.dst][m.res] # "IDLE"
     /\ Count[m.src][m.res] = Count[m.dst][m.res]
  THEN [members EXCEPT ![m.dst][m.res][m.src] = m.st]
  ELSE members

(* Mutant of Interrupts: the notification of cv is missing.                *)
InterruptsListener(m) == m.st = "ACQUIRING" /\ pc[m.dst] = "listen"

(* An ACQUIRING packet wakes the caller that listens, or that has announced *)
(* the same resource.  The cvs have no predicate: a notification that finds *)
(* the caller not yet waiting is lost.                                     *)
Interrupts(m) ==
  /\ m.st = "ACQUIRING"
  /\ \/ pc[m.dst] = "listen"
     \/ /\ pc[m.dst] = "collide"
        /\ state[m.dst][m.res] \in {"ACQUIRING", "ACQUIRED"}

(* actionPerformed                                                         *)
Receive(m) ==
  /\ net' = net \ {m}
  /\ members' = Updated(m)
  /\ IF Interrupts(m)
     THEN GoTo(m.dst, IF pc[m.dst] = "listen" THEN "heard" ELSE "collided", 0)
     ELSE UNCHANGED <<pc, timer>>
  /\ UNCHANGED <<retry, state, thread, beat, losses>>

(* UDP loses a datagram.                                                   *)
Lose(m) ==
  /\ losses < MaxLosses
  /\ losses' = losses + 1
  /\ net' = net \ {m}
  /\ UNCHANGED <<pc, timer, retry, state, thread, beat, members>>

Quiet ==
  /\ \A p \in Proc : /\ pc[p] \notin ReadyPC
                     /\ pc[p] \in TimedPC => timer[p] > 0
                     /\ \A r \in Threads(p) : beat[p][r] > 0
  /\ \A m \in net : m.ttl > 0

Minus1(n) == IF n > 0 THEN n - 1 ELSE 0

Tick ==
  /\ Quiet
  /\ timer' = [p \in Proc |-> Minus1(timer[p])]
  /\ beat' = [p \in Proc |-> [r \in Res |-> Minus1(beat[p][r])]]
  /\ net' = {[m EXCEPT !.ttl = @ - 1] : m \in net}
  /\ UNCHANGED <<pc, retry, state, thread, members, losses>>

-----------------------------------------------------------------------------
(* The resources are defined, and their threads started a moment ago.      *)
Init ==
  /\ pc = [p \in Proc |-> "idle"]
  /\ timer = [p \in Proc |-> 0]
  /\ retry = [p \in Proc |-> 0]
  /\ state = [p \in Proc |-> [r \in Res |-> "IDLE"]]
  /\ thread = [p \in Proc |-> [r \in Res |-> "beaconing"]]
  /\ beat \in [Proc -> [Res -> 0 .. MaxLag]]
  /\ members = [p \in Proc |-> NoMembers]
  /\ net = {}
  /\ losses = 0

Caller(p) ==
  \/ Begin(p) \/ BeginNext(p) \/ WaitForReady(p)
  \/ FirstRound(p) \/ NextRound(p) \/ Listen(p)
  \/ Announce(p) \/ Arm(p) \/ Acquire(p) \/ FindBusy(p) \/ Reset(p) \/ Defer(p)
  \/ GiveUp(p) \/ Exit(p) \/ Release(p) \/ Crash(p)

Next ==
  \/ \E p \in Proc : Caller(p)
  \/ \E p \in Proc : \E r \in Res : Beacon(p, r) \/ Park(p, r)
  \/ \E m \in net : Receive(m) \/ Lose(m)
  \/ Tick

Spec == Init /\ [][Next]_vars

FairSpec == Spec /\ WF_vars(Next)

-----------------------------------------------------------------------------
(* Each variable has a value of its kind.  A datagram is never addressed   *)
(* to its sender: actionPerformed discards a process's own packets.        *)
TypeOK ==
  /\ pc \in [Proc -> PC]
  /\ timer \in [Proc -> Nat]
  /\ retry \in [Proc -> Nat]
  /\ state \in [Proc -> [Res -> State]]
  /\ thread \in [Proc -> [Res -> ThreadState]]
  /\ beat \in [Proc -> [Res -> 0 .. BeaconTime + MaxLag]]
  /\ members \in [Proc -> [Res -> [Proc -> State \cup {"NONE"}]]]
  /\ net \subseteq Message
  /\ losses \in Nat

Holders(r) == {p \in Proc : pc[p] = "held" /\ r \in Uses[p]}

(* README: the lock is there "to ensure an exclusive access to a shared    *)
(* resource", or as many at once as the count: of the processes that give  *)
(* r the same count, no more than that hold it.                            *)
MutualExclusion ==
  \A r \in Res : \A p \in Holders(r) :
    Cardinality({q \in Holders(r) : Count[q][r] = Count[p][r]}) <= Count[p][r]

(* A thread that has found IDLE gets to its wait while the caller listens. *)
Prompt == MaxLag < AcquiringTime

(* What the promise rests on: datagrams are not lost, a released object    *)
(* is not used again, and a beacon is handled, whatever the delays, before *)
(* the one that should follow the next one.                                *)
Timely ==
  /\ MaxLosses = 0
  /\ ~ Reuse
  /\ MaxDelay + MaxLag < 2 * BeaconTime

-----------------------------------------------------------------------------
(* Why it holds.  Among processes that announced (the active ones) or hold *)
(* the same resource with the same count, the later one hears the earlier  *)
(* one before its wait for collisions is over.                             *)
Active == {p \in Proc : pc[p] \in {"arming", "collide"}}

Claims(p) == p \in Active \/ pc[p] = "held"

Left(p) == IF pc[p] = "arming" THEN AcquiringTime ELSE timer[p]

Shared(p, q) == {r \in Uses[p] \cap Uses[q] : Count[p][r] = Count[q][r]}

(* The state of every resource says where the caller's thread is, and      *)
(* whoever has announced or holds beacons it again and again: a thread may *)
(* sleep through the notification of STARTING, but then it waits by the    *)
(* time of ACQUIRING's, which wakes it.                                    *)
BeaconsGoOut ==
  \A p \in Proc : \A r \in Uses[p] :
    /\ pc[p] \in {"starting", "listen"} => state[p][r] = "STARTING"
    /\ p \in Active => state[p][r] = "ACQUIRING"
    /\ pc[p] = "held" => state[p][r] = "ACQUIRED"
    /\ Claims(p) => thread[p][r] = "beaconing"

(* Why: a thread is not as late for its wait as the caller listens, and    *)
(* none has stopped.                                                       *)
ParksInTime ==
  \A p \in Proc : \A r \in Uses[p] :
    /\ thread[p][r] = "parking" => beat[p][r] <= MaxLag
    /\ thread[p][r] = "parking" /\ pc[p] = "listen" => beat[p][r] < timer[p]
    /\ thread[p][r] = "stopped" => pc[p] \in {"released", "failed", "dead"}

(* Nothing a process said before it announced is still in flight when it   *)
(* acquires: such a late packet would overwrite its ACQUIRED in a table.   *)
StaleExpires ==
  \A m \in net :
    m.st \notin {"ACQUIRING", "ACQUIRED"} =>
      /\ m.src \in Active => m.ttl < Left(m.src)
      /\ pc[m.src] # "held"

(* q will have heard of p when its wait is over: p's packet or next beacon *)
(* arrives before that, or q has already entered p as a holder.            *)
Hears(q, p, r) ==
  \/ \E m \in net :
       /\ m.src = p /\ m.dst = q /\ m.res = r
       /\ m.st \in IF pc[p] = "held" THEN {"ACQUIRING", "ACQUIRED"}
                                    ELSE {"ACQUIRING"}
       /\ m.ttl < Left(q)
  \/ beat[p][r] + MaxDelay < Left(q)
  \/ pc[p] = "held" /\ members[q][r][p] = "ACQUIRED"

(* The heart of the algorithm: an active process hears every holder, and   *)
(* of two active ones at least one hears the other.                        *)
LaterHearsEarlier ==
  \A q \in Active : \A p \in Proc \ {q} : \A r \in Shared(p, q) :
    /\ pc[p] = "held" => Hears(q, p, r)
    /\ p \in Active => Hears(q, p, r) \/ Hears(p, q, r)

(* Together they are inductive when the network is Timely.                 *)
Inv == TypeOK /\ BeaconsGoOut /\ ParksInTime /\ StaleExpires /\ LaterHearsEarlier

(* Whoever is entered as a holder in a table has been one.  (With several  *)
(* resources the code does announce ACQUIRED for those before a full one.) *)
NoFalseHolder ==
  \A p, q \in Proc : \A r \in Uses[q] :
    members[q][r][p] = "ACQUIRED" => pc[p] \in {"held", "released", "dead"}

-----------------------------------------------------------------------------
(* Seen from outside: who is out, waiting, or holds.                       *)
Waiting(p) == pc[p] \in TimedPC \cup ReadyPC \cup {"ready"}

Phase == [p \in Proc |-> CASE pc[p] = "held" -> "held"
                           [] Waiting(p) -> "waiting"
                           [] OTHER -> "out"]

CL == INSTANCE CountingLock WITH phase <- Phase

(* The protocol implements the counting lock: a process is granted all its *)
(* resources at once, and only when each has room.                         *)
ImplementsCountingLock == CL!Spec

Gone(p) == pc[p] \in {"released", "failed", "dead"}

(* The caller waits for the turn of a thread that sleeps through it: run   *)
(* had found IDLE but did not wait when setState notified it.              *)
Hangs(p) ==
  /\ pc[p] = "ready"
  /\ \E r \in Uses[p] : state[p][r] = "STARTING" /\ thread[p][r] = "parked"

(* Left alone, a process acquires or gives up, whatever the others did     *)
(* before they went: collided, held, finished without a word, or crashed.  *)
(* Only waitForReady may keep it for ever.                                 *)
AloneAcquires ==
  \A p \in Proc :
    (Waiting(p) /\ \A q \in Proc \ {p} : Gone(q)) ~>
      (pc[p] = "held" \/ Gone(p) \/ Hangs(p))

(* With a limit of tries a call of acquire returns, true or false, or does *)
(* not get past waitForReady.                                              *)
AcquireReturns ==
  \A p \in Proc : RetryMax[p] > 0 => (Waiting(p) ~> (~ Waiting(p) \/ Hangs(p)))

=============================================================================
