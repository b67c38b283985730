----------------------- MODULE DistributedLockProofs -----------------------
(***************************************************************************)
(* Proofs about the acquisition protocol, for any number of processes and  *)
(* resources and any times: the types, the invariant Inv, and from it that *)
(* no resource has more holders than its count as long as Timely holds.    *)
(***************************************************************************)
EXTENDS DistributedLock, FiniteSetTheorems, TLAPS

(* The derived times are numbers, and a wait is never cut short.           *)
LEMMA Times ==
  /\ SenseBeacons = 3
  /\ AcquiringTime \in Nat
  /\ AcquiringTime = 3 * BeaconTime
  /\ \A t \in Nat : \A u \in Late(t) : u \in Nat /\ u >= t
  /\ Late(BeaconTime) \subseteq 0 .. BeaconTime + MaxLag
  /\ ListenTimes \subseteq Nat /\ BackoffTimes \subseteq Nat
BY ConstantsAssumption, TimesAssumption DEF SenseBeacons, AcquiringTime, Late

LEMMA ListensLong ==
  ASSUME Prompt, NEW t \in ListenTimes
  PROVE  t \in Nat /\ MaxLag \in Nat /\ MaxLag < t
<1>1. MaxLag < AcquiringTime /\ MaxLag \in Nat /\ AcquiringTime \in Nat
  BY Times, ConstantsAssumption DEF Prompt
<1>2. t \in AcquiringTime .. (2 * AcquiringTime + MaxLag)
  BY TimesAssumption
<1> QED BY <1>1, <1>2

(* What a beacon is.                                                       *)
LEMMA BeaconsAre ==
  ASSUME NEW p \in Proc, NEW S \in SUBSET Res, NEW st \in State
  PROVE  \A m \in Beacons(p, S, st) :
           /\ m \in Message
           /\ m.src = p /\ m.dst # p /\ m.res \in S /\ m.st = st
           /\ m.ttl = MaxDelay
BY ConstantsAssumption DEF Beacons, Message

(* SetState chooses when the threads it wakes beacon next.                 *)
LEMMA SetStateBeat ==
  ASSUME TypeOK, NEW p \in Proc, NEW S, NEW st, SetState(p, S, st)
  PROVE  \E b \in [Res -> 0 .. BeaconTime + MaxLag] :
           beat' = [beat EXCEPT ![p] = [r \in Res |-> IF r \in S /\ thread[p][r] = "parked"
                                                      THEN b[r] ELSE beat[p][r]]]
<1>1. PICK b \in [Res -> Late(BeaconTime)] :
        beat' = [beat EXCEPT ![p] = [r \in Res |-> IF r \in S /\ thread[p][r] = "parked"
                                                   THEN b[r] ELSE beat[p][r]]]
  BY DEF SetState
<1>2. b \in [Res -> 0 .. BeaconTime + MaxLag]
  BY Times
<1> QED BY <1>1, <1>2

(* SetState keeps the types of what it changes.                            *)
LEMMA SetStateTypes ==
  ASSUME TypeOK, NEW p \in Proc, NEW S \in SUBSET Res, NEW st \in State,
         SetState(p, S, st)
  PROVE  /\ state' \in [Proc -> [Res -> State]]
         /\ thread' \in [Proc -> [Res -> ThreadState]]
         /\ beat' \in [Proc -> [Res -> 0 .. BeaconTime + MaxLag]]
         /\ net' \subseteq Message
<1>1. beat' \in [Proc -> [Res -> 0 .. BeaconTime + MaxLag]]
  <2>1. PICK b \in [Res -> 0 .. BeaconTime + MaxLag] :
          beat' = [beat EXCEPT ![p] = [r \in Res |-> IF r \in S /\ thread[p][r] = "parked"
                                                     THEN b[r] ELSE beat[p][r]]]
    BY SetStateBeat
  <2>2. beat \in [Proc -> [Res -> 0 .. BeaconTime + MaxLag]]
    BY DEF TypeOK
  <2> QED BY <2>1, <2>2
<1>2. net' \subseteq Message
  BY BeaconsAre DEF SetState, TypeOK
<1>3. /\ state' \in [Proc -> [Res -> State]]
      /\ thread' \in [Proc -> [Res -> ThreadState]]
  BY DEF SetState, TypeOK, ThreadState
<1> QED BY <1>1, <1>2, <1>3

(* SetState changes nobody else's resources.                               *)
LEMMA SetStateOthers ==
  ASSUME TypeOK, NEW p \in Proc, NEW S, NEW st, SetState(p, S, st)
  PROVE  \A q \in Proc \ {p} : /\ state'[q] = state[q]
                               /\ thread'[q] = thread[q]
                               /\ beat'[q] = beat[q]
<1>1. \A q \in Proc \ {p} : beat'[q] = beat[q]
  BY SetStateBeat DEF TypeOK
<1> QED BY <1>1 DEF SetState, TypeOK

(* SetState sets the states it is told to, and wakes the threads that      *)
(* wait.                                                                   *)
LEMMA SetStateSelf ==
  ASSUME TypeOK, NEW p \in Proc, NEW S \in SUBSET Res, NEW st, SetState(p, S, st)
  PROVE  /\ \A r \in S : state'[p][r] = st
         /\ \A r \in Res : thread'[p][r] = IF r \in S /\ thread[p][r] = "parked"
                                          THEN "beaconing" ELSE thread[p][r]
BY DEF SetState, TypeOK

(* SetState does not touch a thread that does not sleep.                   *)
LEMMA SetStateAwake ==
  ASSUME TypeOK, NEW p \in Proc, NEW S, NEW st, SetState(p, S, st),
         NEW r \in Res, thread[p][r] # "parked"
  PROVE  thread'[p][r] = thread[p][r] /\ beat'[p][r] = beat[p][r]
<1>1. beat'[p][r] = beat[p][r]
  BY SetStateBeat DEF TypeOK
<1> QED BY <1>1 DEF SetState, TypeOK

(* What Close does.                                                        *)
LEMMA CloseEffect ==
  ASSUME TypeOK, NEW p \in Proc, NEW l \in PC, Close(p, l)
  PROVE  /\ TypeOK'
         /\ net' \subseteq net
         /\ pc' = [pc EXCEPT ![p] = l]
BY ConstantsAssumption DEF Close, GoTo, TypeOK, ThreadState

-----------------------------------------------------------------------------
(* The types are kept by every step.                                       *)
LEMMA CallerType ==
  ASSUME TypeOK, NEW p \in Proc, Caller(p)
  PROVE  TypeOK'
<1> USE DEF PC, TimedPC, ReadyPC
<1>1. /\ Uses[p] \in SUBSET Res
      /\ \A S \in SUBSET Res : \A st \in State :
           SetState(p, S, st) =>
             /\ state' \in [Proc -> [Res -> State]]
             /\ thread' \in [Proc -> [Res -> ThreadState]]
             /\ beat' \in [Proc -> [Res -> 0 .. BeaconTime + MaxLag]]
             /\ net' \subseteq Message
  BY SetStateTypes, ConstantsAssumption
<1>2. /\ {"IDLE", "STARTING", "ACQUIRING", "ACQUIRED", "RELEASED"} \subseteq State
      /\ \A l \in PC : \A t \in Nat :
           GoTo(p, l, t) => pc' \in [Proc -> PC] /\ timer' \in [Proc -> Nat]
  BY DEF GoTo, TypeOK, State
<1>3. /\ \A t \in ListenTimes \cup BackoffTimes : t \in Nat
      /\ \A t \in Late(AcquiringTime) : t \in Nat
      /\ RetryMax \in [Proc -> Nat]
  BY Times, ConstantsAssumption
<1>4. CASE Begin(p)
  <2>1. PICK r \in Uses[p] : SetState(p, {r}, "STARTING")
    BY <1>4 DEF Begin
  <2>2. {r} \in SUBSET Res
    BY <1>1
  <2> QED BY <1>1, <1>2, <1>4, <2>1, <2>2 DEF Begin, TypeOK
<1>5. CASE BeginNext(p)
  <2>1. PICK r \in NotStarted(p) : SetState(p, {r}, "STARTING")
    BY <1>5 DEF BeginNext
  <2>2. {r} \in SUBSET Res
    BY <1>1 DEF NotStarted
  <2> QED BY <1>1, <1>2, <1>5, <2>1, <2>2 DEF BeginNext, TypeOK
<1>6. CASE FirstRound(p) \/ NextRound(p)
  <2>1. retry' \in [Proc -> Nat]
    BY <1>6 DEF FirstRound, NextRound, TypeOK
  <2>2. Start(p)
    BY <1>6 DEF FirstRound, NextRound
  <2> QED BY <1>1, <1>2, <1>3, <2>1, <2>2 DEF Start, TypeOK
<1>7. CASE Announce(p)
  BY <1>1, <1>2, <1>7 DEF Announce, TypeOK
<1>8. CASE Arm(p) \/ Listen(p) \/ WaitForReady(p)
  BY <1>2, <1>3, <1>8 DEF Arm, Listen, WaitForReady, TypeOK
<1>9. CASE Acquire(p)
  BY <1>1, <1>2, <1>9 DEF Acquire, TypeOK
<1>10. CASE FindBusy(p)
  <2>1. {r \in Uses[p] : \A b \in Busy(p) : r < b} \in SUBSET Res
    BY <1>1
  <2> QED BY <1>1, <1>2, <1>10, <2>1 DEF FindBusy, TypeOK
<1>11. CASE Reset(p)
  <2>1. NoMembers \in [Res -> [Proc -> State \cup {"NONE"}]]
    BY DEF NoMembers
  <2>2. members' \in [Proc -> [Res -> [Proc -> State \cup {"NONE"}]]]
    BY <1>11, <2>1 DEF Reset, TypeOK
  <2>3. retry' \in [Proc -> Nat]
    BY <1>3, <1>11 DEF Reset, TypeOK
  <2> QED BY <1>1, <1>2, <1>3, <1>11, <2>2, <2>3 DEF Reset, TypeOK
<1>12. CASE Defer(p)
  BY <1>2, <1>3, <1>12 DEF Defer, TypeOK
<1>13. CASE GiveUp(p) \/ Exit(p) \/ Crash(p)
  BY <1>13, CloseEffect DEF GiveUp, Exit, Crash
<1>14. CASE Release(p)
  <2>1. net' \subseteq Message
    BY <1>1, <1>2, <1>14, BeaconsAre DEF Release, TypeOK
  <2>2. pc' \in [Proc -> PC] /\ timer' \in [Proc -> Nat]
    BY <1>2, <1>14 DEF Release
  <2>3. beat' \in [Proc -> [Res -> 0 .. BeaconTime + MaxLag]]
    BY <1>14, ConstantsAssumption DEF Release, TypeOK
  <2>4. /\ state' \in [Proc -> [Res -> State]]
        /\ thread' \in [Proc -> [Res -> ThreadState]]
    BY <1>2, <1>14 DEF Release, TypeOK, ThreadState
  <2> QED BY <1>14, <2>1, <2>2, <2>3, <2>4 DEF Release, TypeOK
<1> QED
  BY <1>4, <1>5, <1>6, <1>7, <1>8, <1>9, <1>10, <1>11, <1>12, <1>13, <1>14
  DEF Caller

(* Every step keeps the types: one case for each action.                   *)
LEMMA TypeStep == TypeOK /\ [Next]_vars => TypeOK'
<1> SUFFICES ASSUME TypeOK, [Next]_vars PROVE TypeOK'
  OBVIOUS
<1>1. ASSUME NEW p \in Proc, NEW r \in Res, Beacon(p, r) PROVE TypeOK'
  <2>1. pc' \in [Proc -> PC]
    <3> DEFINE l == IF pc[p] = "ready"
                         /\ \A s \in Uses[p] : state[p][s] = "STARTING" => s <= r
                      THEN "readied" ELSE pc[p]
    <3>1. pc' = [pc EXCEPT ![p] = l]
      BY <1>1 DEF Beacon
    <3>2. pc \in [Proc -> PC] /\ "readied" \in PC /\ pc[p] \in PC
      BY DEF TypeOK, PC, ReadyPC
    <3>3. l \in PC
      BY <3>2
    <3> HIDE DEF l
    <3> QED BY <3>1, <3>2, <3>3
  <2>2. thread' \in [Proc -> [Res -> ThreadState]]
    <3>1. thread' = thread \/ thread' = [thread EXCEPT ![p][r] = "parking"]
      BY <1>1 DEF Beacon
    <3>2. thread \in [Proc -> [Res -> ThreadState]] /\ "parking" \in ThreadState
      BY DEF TypeOK, ThreadState
    <3> QED BY <3>1, <3>2
  <2>3. beat' \in [Proc -> [Res -> 0 .. BeaconTime + MaxLag]]
    <3>1. \E b \in 0 .. BeaconTime + MaxLag : beat' = [beat EXCEPT ![p][r] = b]
      <4>1. 0 .. MaxLag \subseteq 0 .. BeaconTime + MaxLag
        BY ConstantsAssumption
      <4> QED BY <1>1, <4>1, Times DEF Beacon
    <3>2. beat \in [Proc -> [Res -> 0 .. BeaconTime + MaxLag]]
      BY DEF TypeOK
    <3> QED BY <3>1, <3>2
  <2>4. net' \subseteq Message
    <3>1. state[p][r] \in State
      BY DEF TypeOK
    <3> QED BY <1>1, <3>1, BeaconsAre DEF Beacon, TypeOK
  <2> QED BY <1>1, <2>1, <2>2, <2>3, <2>4 DEF Beacon, TypeOK
<1>2. ASSUME NEW m \in net, Receive(m) PROVE TypeOK'
  <2>1. m.src \in Proc /\ m.dst \in Proc /\ m.res \in Res /\ m.st \in State
    BY DEF TypeOK, Message
  <2>2. members' \in [Proc -> [Res -> [Proc -> State \cup {"NONE"}]]]
    BY <1>2, <2>1 DEF Receive, Updated, TypeOK
  <2>3. pc' \in [Proc -> PC] /\ timer' \in [Proc -> Nat]
    <3>1. \/ pc' = pc /\ timer' = timer
          \/ \E l \in PC : /\ pc' = [pc EXCEPT ![m.dst] = l]
                           /\ timer' = [timer EXCEPT ![m.dst] = 0]
      BY <1>2 DEF Receive, GoTo, PC, ReadyPC
    <3>2. pc \in [Proc -> PC] /\ timer \in [Proc -> Nat]
      BY DEF TypeOK
    <3>3. CASE pc' = pc /\ timer' = timer
      BY <3>2, <3>3
    <3>4. ASSUME NEW l \in PC, pc' = [pc EXCEPT ![m.dst] = l],
                 timer' = [timer EXCEPT ![m.dst] = 0]
          PROVE  pc' \in [Proc -> PC] /\ timer' \in [Proc -> Nat]
      BY <2>1, <3>2, <3>4
    <3> QED BY <3>1, <3>3, <3>4
  <2> QED BY <1>2, <2>2, <2>3 DEF Receive, TypeOK
<1>3. ASSUME NEW m \in net, Lose(m) PROVE TypeOK'
  BY <1>3 DEF Lose, TypeOK
<1>4. CASE Tick
  <2>1. \A n \in Nat : Minus1(n) \in Nat /\ Minus1(n) <= n
    BY DEF Minus1
  <2>2. timer' \in [Proc -> Nat]
    BY <1>4, <2>1 DEF Tick, TypeOK
  <2>3. beat' \in [Proc -> [Res -> 0 .. BeaconTime + MaxLag]]
    <3>1. \A p \in Proc : \A r \in Res : Minus1(beat[p][r]) \in 0 .. BeaconTime + MaxLag
      BY <2>1, ConstantsAssumption DEF TypeOK
    <3> QED BY <1>4, <3>1 DEF Tick
  <2>4. net' \subseteq Message
    <3>1. ASSUME NEW m \in net PROVE [m EXCEPT !.ttl = @ - 1] \in Message
      <4>1. m \in Message /\ m.ttl > 0
        BY <1>4 DEF Tick, Quiet, TypeOK
      <4> QED BY <4>1, ConstantsAssumption DEF Message
    <3> QED BY <1>4, <3>1 DEF Tick
  <2> QED BY <1>4, <2>2, <2>3, <2>4 DEF Tick, TypeOK
<1>5. CASE UNCHANGED vars
  BY <1>5 DEF vars, TypeOK
<1>6. ASSUME NEW p \in Proc, NEW r \in Res, Park(p, r) PROVE TypeOK'
  BY <1>6 DEF Park, TypeOK, ThreadState
<1> QED
  BY CallerType, <1>1, <1>2, <1>3, <1>4, <1>5, <1>6 DEF Next

(* At first every object is idle, and its threads have just been started.  *)
LEMMA InitSteady == Init => TypeOK /\ BeaconsGoOut /\ ParksInTime
<1> SUFFICES ASSUME Init PROVE TypeOK /\ BeaconsGoOut /\ ParksInTime
  OBVIOUS
<1>1. 0 .. MaxLag \subseteq 0 .. BeaconTime + MaxLag
  BY ConstantsAssumption
<1>2. TypeOK
  BY <1>1, ConstantsAssumption
  DEF Init, TypeOK, PC, ReadyPC, TimedPC, State, ThreadState, NoMembers, Message
<1>3. \A p \in Proc : pc[p] = "idle" /\ \A r \in Uses[p] : thread[p][r] = "beaconing"
  BY ConstantsAssumption DEF Init
<1> QED BY <1>2, <1>3 DEF BeaconsGoOut, ParksInTime, Claims, Active

(* Every variable keeps its type, for any number of processes, resources,  *)
(* losses and crashes.                                                     *)
THEOREM TypeCorrect == Spec => []TypeOK
<1>1. Init => TypeOK
  BY InitSteady
<1> QED BY <1>1, TypeStep, PTL DEF Spec

-----------------------------------------------------------------------------
(* A step of the caller's thread of x is about x alone: it adds packets of *)
(* x, and takes away at most packets to x.                                 *)
LEMMA CallerFrame ==
  ASSUME TypeOK, NEW x \in Proc, Caller(x)
  PROVE  /\ \A q \in Proc \ {x} :
              /\ pc'[q] = pc[q] /\ timer'[q] = timer[q] /\ state'[q] = state[q]
              /\ thread'[q] = thread[q] /\ beat'[q] = beat[q]
              /\ members'[q] = members[q]
         /\ \A m \in net' : m \in net \/ m.src = x
         /\ \A m \in net : m.dst # x => m \in net'
<1>1. /\ Uses[x] \in SUBSET Res
      /\ \A S \in SUBSET Res : \A st \in State :
           SetState(x, S, st) =>
             /\ \A q \in Proc \ {x} : /\ state'[q] = state[q]
                                      /\ thread'[q] = thread[q]
                                      /\ beat'[q] = beat[q]
             /\ \A m \in net' : m \in net \/ m.src = x
             /\ \A m \in net : m \in net'
  <2>1. Uses[x] \in SUBSET Res
    BY ConstantsAssumption
  <2>2. ASSUME NEW S \in SUBSET Res, NEW st \in State, SetState(x, S, st)
        PROVE  /\ \A q \in Proc \ {x} : /\ state'[q] = state[q]
                                        /\ thread'[q] = thread[q]
                                        /\ beat'[q] = beat[q]
               /\ net' = net \cup Beacons(x, S, st)
    BY <2>2, SetStateOthers DEF SetState
  <2>3. ASSUME NEW S \in SUBSET Res, NEW st \in State
        PROVE  \A m \in Beacons(x, S, st) : m.src = x
    BY BeaconsAre
  <2> QED BY <2>1, <2>2, <2>3
<1>2. /\ {"IDLE", "STARTING", "ACQUIRING", "ACQUIRED", "RELEASED"} \subseteq State
      /\ \A l, t : GoTo(x, l, t) =>
           \A q \in Proc \ {x} : pc'[q] = pc[q] /\ timer'[q] = timer[q]
  BY DEF GoTo, TypeOK, State
<1>3. CASE Begin(x)
  <2>1. PICK r \in Uses[x] : SetState(x, {r}, "STARTING")
    BY <1>3 DEF Begin
  <2>2. {r} \in SUBSET Res
    BY <1>1
  <2> QED BY <1>1, <1>2, <1>3, <2>1, <2>2 DEF Begin
<1>4. CASE BeginNext(x)
  <2>1. PICK r \in NotStarted(x) : SetState(x, {r}, "STARTING")
    BY <1>4 DEF BeginNext
  <2>2. {r} \in SUBSET Res
    BY <1>1 DEF NotStarted
  <2> QED BY <1>1, <1>2, <1>4, <2>1, <2>2 DEF BeginNext
<1>5. CASE FirstRound(x) \/ NextRound(x)
  BY <1>1, <1>2, <1>5 DEF FirstRound, NextRound, Start
<1>6. CASE Announce(x)
  BY <1>1, <1>2, <1>6 DEF Announce
<1>7. CASE Arm(x) \/ Defer(x) \/ Listen(x) \/ WaitForReady(x)
  BY <1>2, <1>7 DEF Arm, Defer, Listen, WaitForReady
<1>8. CASE Acquire(x)
  BY <1>1, <1>2, <1>8 DEF Acquire
<1>9. CASE FindBusy(x)
  <2>1. {r \in Uses[x] : \A b \in Busy(x) : r < b} \in SUBSET Res
    BY <1>1
  <2> QED BY <1>1, <1>2, <1>9, <2>1 DEF FindBusy
<1>10. CASE Reset(x)
  BY <1>1, <1>2, <1>10 DEF Reset, TypeOK
<1>11. CASE GiveUp(x) \/ Exit(x) \/ Crash(x)
  BY <1>2, <1>11 DEF GiveUp, Exit, Crash, Close, TypeOK
<1>12. CASE Release(x)
  <2>1. \A m \in Beacons(x, Uses[x], "RELEASED") : m.src = x
    BY <1>1, <1>2, BeaconsAre
  <2> QED BY <1>2, <1>12, <2>1 DEF Release, TypeOK
<1> QED
  BY <1>3, <1>4, <1>5, <1>6, <1>7, <1>8, <1>9, <1>10, <1>11, <1>12 DEF Caller

(* Only three steps lead the caller's thread to, or leave it in, a claim.  *)
LEMMA ClaimSteps ==
  ASSUME TypeOK, NEW x \in Proc, Caller(x), Claims(x)'
  PROVE  Announce(x) \/ Arm(x) \/ Acquire(x)
<1>1. \A l, t : GoTo(x, l, t) => pc'[x] = l
  BY DEF GoTo, TypeOK
<1> QED
  BY <1>1 DEF Caller, Claims, Active, Begin, BeginNext, WaitForReady, FirstRound,
     NextRound, Start, Listen, FindBusy, Reset, Defer, GiveUp, Exit, Crash, Close, Release

(* In those three steps, what others know or will hear of x is kept, and   *)
(* so is what x knows.  Only Announce may wake a thread of x.              *)
LEMMA ClaimKeeps ==
  ASSUME TypeOK, BeaconsGoOut, NEW x \in Proc,
         Announce(x) \/ Arm(x) \/ Acquire(x)
  PROVE  /\ net \subseteq net' /\ members' = members
         /\ ~ Announce(x) => \A r \in Uses[x] : beat'[x][r] = beat[x][r]
<1>1. Uses[x] \in SUBSET Res
  BY ConstantsAssumption
<1>2. CASE Announce(x)
  BY <1>2 DEF Announce, SetState
<1>3. CASE Arm(x)
  BY <1>3 DEF Arm
<1>4. CASE Acquire(x)
  <2>1. \A r \in Uses[x] : thread[x][r] = "beaconing"
    BY <1>4 DEF Acquire, BeaconsGoOut, Claims, Active
  <2>2. SetState(x, Uses[x], "ACQUIRED")
    BY <1>4 DEF Acquire
  <2>3. \A r \in Uses[x] : beat'[x][r] = beat[x][r]
    BY <1>1, <2>1, <2>2, SetStateAwake
  <2> QED BY <1>4, <2>2, <2>3 DEF Acquire, SetState
<1> QED BY <1>2, <1>3, <1>4

(* What BeaconsGoOut and ParksInTime say of one resource.                  *)
Steady(p, r) ==
  /\ pc[p] \in {"starting", "listen"} => state[p][r] = "STARTING"
  /\ p \in Active => state[p][r] = "ACQUIRING"
  /\ pc[p] = "held" => state[p][r] = "ACQUIRED"
  /\ Claims(p) => thread[p][r] = "beaconing"
  /\ thread[p][r] = "parking" => beat[p][r] <= MaxLag
  /\ thread[p][r] = "parking" /\ pc[p] = "listen" => beat[p][r] < timer[p]
  /\ thread[p][r] = "stopped" => pc[p] \in {"released", "failed", "dead"}

LEMMA SteadyIs ==
  BeaconsGoOut /\ ParksInTime <=> \A p \in Proc : \A r \in Uses[p] : Steady(p, r)
BY DEF BeaconsGoOut, ParksInTime, Steady

(* What a setState leaves of a thread: it stays late if it was.            *)
LEMMA SetStateLate ==
  ASSUME TypeOK, NEW x \in Proc, NEW S \in SUBSET Res, NEW st, SetState(x, S, st),
         NEW r \in Res
  PROVE  /\ r \in S => state'[x][r] = st
         /\ \/ thread'[x][r] = thread[x][r]
            \/ thread[x][r] = "parked" /\ thread'[x][r] = "beaconing"
         /\ r \in S => thread'[x][r] # "parked"
         /\ thread'[x][r] = "parking" => beat'[x][r] = beat[x][r]
<1>1. /\ \A s \in S : state'[x][s] = st
      /\ \A s \in Res : thread'[x][s] = IF s \in S /\ thread[x][s] = "parked"
                                       THEN "beaconing" ELSE thread[x][s]
  BY SetStateSelf
<1>2. thread[x][r] # "parked" => beat'[x][r] = beat[x][r]
  BY SetStateAwake
<1> QED BY <1>1, <1>2

(* The caller's thread keeps its resources steady.                         *)
LEMMA CallerSteady ==
  ASSUME TypeOK, TypeOK', Prompt, ~ Reuse, NEW x \in Proc, Caller(x), NEW r \in Uses[x],
         Steady(x, r)
  PROVE  Steady(x, r)'
<1> USE DEF Steady, Claims, Active
<1>1. /\ Uses[x] \in SUBSET Res /\ r \in Res
      /\ \A S \in SUBSET Res : \A st \in State :
           SetState(x, S, st) =>
             /\ r \in S => state'[x][r] = st
             /\ \/ thread'[x][r] = thread[x][r]
                \/ thread[x][r] = "parked" /\ thread'[x][r] = "beaconing"
             /\ r \in S => thread'[x][r] # "parked"
             /\ thread'[x][r] = "parking" => beat'[x][r] = beat[x][r]
  <2>1. Uses[x] \in SUBSET Res /\ r \in Res
    BY ConstantsAssumption
  <2> QED BY <2>1, SetStateLate
<1>2. /\ {"IDLE", "STARTING", "ACQUIRING", "ACQUIRED", "RELEASED"} \subseteq State
      /\ \A l, t : GoTo(x, l, t) => pc'[x] = l /\ timer'[x] = t
      /\ thread[x][r] \in ThreadState /\ thread'[x][r] \in ThreadState
      /\ beat[x][r] \in Nat
  BY <1>1, ConstantsAssumption DEF GoTo, TypeOK, State
<1>3. CASE Begin(x)
  <2>1. PICK s \in Uses[x] : SetState(x, {s}, "STARTING")
    BY <1>3 DEF Begin
  <2>2. {s} \in SUBSET Res
    BY <1>1
  <2> QED BY <1>1, <1>2, <1>3, <2>1, <2>2 DEF Begin
<1>4. CASE BeginNext(x)
  <2>1. PICK s \in NotStarted(x) : SetState(x, {s}, "STARTING")
    BY <1>4 DEF BeginNext
  <2>2. {s} \in SUBSET Res
    BY <1>1 DEF NotStarted
  <2> QED BY <1>1, <1>2, <1>4, <2>1, <2>2 DEF BeginNext
<1>5. CASE FirstRound(x) \/ NextRound(x)
  <2>1. Start(x) /\ pc[x] \notin {"released", "failed", "dead"}
    BY <1>5 DEF FirstRound, NextRound
  <2> QED BY <1>1, <1>2, <2>1 DEF Start
<1>6. CASE Listen(x)
  <2>1. pc[x] = "starting" /\ pc'[x] = "listen" /\ timer'[x] \in ListenTimes
    BY <1>2, <1>6 DEF Listen
  <2>2. MaxLag < timer'[x]
    BY <2>1, ListensLong
  <2>3. UNCHANGED <<state, thread, beat>> /\ timer'[x] \in Nat /\ MaxLag \in Nat
    BY <1>6, ConstantsAssumption DEF Listen, TypeOK
  <2> QED BY <1>2, <2>1, <2>2, <2>3
<1>7. CASE Announce(x)
  <2>1. thread[x][r] \in {"beaconing", "parked"}
    BY <1>2, <1>7 DEF Announce, ThreadState
  <2> QED BY <1>1, <1>2, <1>7, <2>1 DEF Announce
<1>8. CASE Arm(x) \/ Defer(x) \/ WaitForReady(x)
  BY <1>2, <1>8 DEF Arm, Defer, WaitForReady
<1>9. CASE Acquire(x)
  BY <1>1, <1>2, <1>9 DEF Acquire
<1>10. CASE FindBusy(x)
  <2>1. {s \in Uses[x] : \A b \in Busy(x) : s < b} \in SUBSET Res
    BY <1>1
  <2> QED BY <1>1, <1>2, <1>10, <2>1 DEF FindBusy
<1>11. CASE Reset(x)
  BY <1>1, <1>2, <1>11 DEF Reset
<1>12. CASE GiveUp(x) \/ Exit(x) \/ Crash(x) \/ Release(x)
  <2>1. pc'[x] \in {"released", "failed", "dead"} /\ thread'[x][r] = "stopped"
    BY <1>1, <1>2, <1>12 DEF GiveUp, Exit, Crash, Close, Release, TypeOK
  <2> QED BY <2>1
<1> QED
  BY <1>3, <1>4, <1>5, <1>6, <1>7, <1>8, <1>9, <1>10, <1>11, <1>12 DEF Caller

(* A beaconing thread keeps its resource steady: what it finds IDLE is not *)
(* being acquired.                                                         *)
LEMMA ThreadSteady ==
  ASSUME TypeOK, TypeOK', NEW x \in Proc, NEW s \in Res, Beacon(x, s) \/ Park(x, s),
         NEW p \in Proc, NEW r \in Uses[p], Steady(p, r)
  PROVE  Steady(p, r)'
<1> USE DEF Claims, Active
<1>1. r \in Res /\ state' = state /\ timer' = timer
      /\ (pc'[p] = pc[p] \/ (pc[p] = "ready" /\ pc'[p] = "readied"))
  BY ConstantsAssumption DEF Beacon, Park, TypeOK
<1>2. CASE ~ (p = x /\ r = s)
  <2>1. \/ thread' = thread
        \/ \E t \in ThreadState : thread' = [thread EXCEPT ![x][s] = t]
    BY DEF Beacon, Park, ThreadState
  <2>2. beat' = beat \/ \E b \in Nat : beat' = [beat EXCEPT ![x][s] = b]
    BY Times, ConstantsAssumption DEF Beacon, Park, Late
  <2>3. /\ thread \in [Proc -> [Res -> ThreadState]]
        /\ beat \in [Proc -> [Res -> 0 .. BeaconTime + MaxLag]]
    BY DEF TypeOK
  <2>4. thread'[p][r] = thread[p][r] /\ beat'[p][r] = beat[p][r]
    BY <1>1, <1>2, <2>1, <2>2, <2>3
  <2> QED BY <1>1, <2>4 DEF Steady
<1>3. CASE p = x /\ r = s /\ Beacon(x, s)
  <2>1. thread[p][r] = "beaconing"
    BY <1>3 DEF Beacon
  <2>2. CASE state[p][r] = "IDLE"
    <3>1. PICK b \in 0 .. MaxLag : beat' = [beat EXCEPT ![p][r] = b]
      BY <1>3, <2>2 DEF Beacon
    <3>2. beat'[p][r] = b /\ thread'[p][r] = "parking"
      BY <1>1, <1>3, <2>2, <3>1 DEF Beacon, TypeOK
    <3> QED BY <1>1, <2>2, <3>1, <3>2, ConstantsAssumption DEF Steady
  <2>3. CASE state[p][r] # "IDLE"
    <3>1. thread'[p][r] = "beaconing"
      BY <1>3, <2>1, <2>3 DEF Beacon
    <3> QED BY <1>1, <3>1 DEF Steady
  <2> QED BY <2>2, <2>3
<1>4. CASE p = x /\ r = s /\ Park(x, s)
  <2>1. thread[p][r] = "parking" /\ thread'[p][r] = "parked"
    BY <1>1, <1>4 DEF Park, TypeOK
  <2> QED BY <1>1, <2>1 DEF Steady
<1> QED BY <1>2, <1>3, <1>4

(* Every step keeps the beacons going out, and the threads in time.        *)
LEMMA BeaconsGoOutStep ==
  ASSUME TypeOK, TypeOK', BeaconsGoOut, ParksInTime, Prompt, ~ Reuse, [Next]_vars
  PROVE  BeaconsGoOut' /\ ParksInTime'
<1>1. SUFFICES ASSUME NEW p \in Proc, NEW r \in Uses[p] PROVE Steady(p, r)'
  BY DEF BeaconsGoOut, ParksInTime, Steady
<1>2. Steady(p, r) /\ r \in Res
  BY SteadyIs, ConstantsAssumption
<1>3. ASSUME NEW x \in Proc, Caller(x) PROVE Steady(p, r)'
  <2>1. CASE p = x
    BY <1>2, <1>3, <2>1, CallerSteady
  <2>2. CASE p # x
    BY <1>2, <1>3, <2>2, CallerFrame DEF Steady, Claims, Active
  <2> QED BY <2>1, <2>2
<1>4. ASSUME NEW x \in Proc, NEW s \in Res, Beacon(x, s) \/ Park(x, s)
      PROVE  Steady(p, r)'
  BY <1>2, <1>4, ThreadSteady
<1>5. ASSUME NEW m \in net, Receive(m) PROVE Steady(p, r)'
  <2>1. /\ state' = state /\ thread' = thread /\ beat' = beat
        /\ \/ pc'[p] = pc[p] /\ timer'[p] = timer[p]
           \/ pc[p] = "listen" /\ pc'[p] = "heard"
           \/ pc[p] = "collide" /\ pc'[p] = "collided"
    BY <1>5 DEF Receive, GoTo, Interrupts, TypeOK
  <2> QED BY <1>2, <2>1 DEF Steady, Claims, Active
<1>6. CASE (\E m \in net : Lose(m)) \/ UNCHANGED vars
  BY <1>2, <1>6 DEF Lose, vars, Steady, Claims, Active
<1>7. CASE Tick
  <2>1. /\ pc' = pc /\ state' = state /\ thread' = thread
        /\ timer'[p] = Minus1(timer[p]) /\ beat'[p][r] = Minus1(beat[p][r])
        /\ timer[p] \in Nat /\ beat[p][r] \in Nat /\ MaxLag \in Nat
    BY <1>2, <1>7, ConstantsAssumption DEF Tick, TypeOK
  <2>2. CASE thread[p][r] = "parking"
    <3>1. beat[p][r] > 0 /\ (pc[p] = "listen" => timer[p] > 0)
      BY <1>7, <2>2 DEF Tick, Quiet, Threads, TimedPC
    <3> QED BY <1>2, <2>1, <2>2, <3>1 DEF Steady, Claims, Active, Minus1
  <2>3. CASE thread[p][r] # "parking"
    BY <1>2, <2>1, <2>3 DEF Steady, Claims, Active
  <2> QED BY <2>2, <2>3
<1> QED
  BY <1>3, <1>4, <1>5, <1>6, <1>7 DEF Next

(* Packets of an earlier state are gone before a claim becomes a hold.     *)
LEMMA StaleExpiresStep ==
  ASSUME TypeOK, TypeOK', BeaconsGoOut, StaleExpires, Timely, [Next]_vars
  PROVE  StaleExpires'
<1> DEFINE Fresh == {"ACQUIRING", "ACQUIRED"}
<1>1. ASSUME NEW x \in Proc, Caller(x) PROVE StaleExpires'
  <2>1. SUFFICES ASSUME NEW m \in net', m.st \notin Fresh, Claims(m.src)'
                 PROVE  (m.src \in Active)' /\ m.ttl < Left(m.src)'
    BY DEF StaleExpires, Claims, Active
  <2>2. m \in Message /\ m.src \in Proc /\ m.ttl \in 0 .. MaxDelay
    BY DEF TypeOK, Message
  <2>3. CASE m.src # x
    <3>1. m \in net /\ pc'[m.src] = pc[m.src] /\ timer'[m.src] = timer[m.src]
      BY <1>1, <2>2, <2>3, CallerFrame
    <3> QED BY <2>1, <3>1 DEF StaleExpires, Claims, Active, Left
  <2>4. CASE m.src = x /\ Announce(x)
    <3>1. pc'[x] = "arming"
      BY <2>4 DEF Announce, GoTo, TypeOK
    <3>2. Left(x)' = 3 * BeaconTime /\ MaxDelay < 3 * BeaconTime
      BY <3>1, Times, ConstantsAssumption DEF Left, Timely
    <3> QED BY <2>2, <2>4, <3>1, <3>2, ConstantsAssumption DEF Active
  <2>5. CASE m.src = x /\ Arm(x)
    <3>1. m \in net /\ pc[x] = "arming" /\ pc'[x] = "collide"
      BY <2>5 DEF Arm, GoTo, TypeOK
    <3>2. timer'[x] \in Late(AcquiringTime)
      BY <2>5 DEF Arm, GoTo, TypeOK
    <3>3. timer'[x] >= AcquiringTime /\ timer'[x] \in Nat
      BY <3>2, Times
    <3>4. m.ttl < AcquiringTime
      BY <2>1, <2>5, <3>1 DEF StaleExpires, Active, Left
    <3> QED BY <2>2, <2>5, <3>1, <3>3, <3>4, Times, ConstantsAssumption DEF Active, Left
  <2>6. CASE m.src = x /\ Acquire(x)
    <3>1. Uses[x] \in SUBSET Res /\ "ACQUIRED" \in State
      BY ConstantsAssumption DEF State
    <3>2. m \in net
      BY <2>1, <2>6, <3>1, BeaconsAre DEF Acquire, SetState
    <3>3. m.ttl < timer[x] /\ timer[x] = 0
      BY <2>1, <2>6, <3>2 DEF StaleExpires, Active, Left, Acquire
    <3> QED BY <2>2, <3>3, ConstantsAssumption
  <2> QED
    BY <1>1, <2>1, <2>3, <2>4, <2>5, <2>6, ClaimSteps
<1>2. ASSUME NEW x \in Proc, NEW s \in Res, Beacon(x, s) PROVE StaleExpires'
  <2>1. SUFFICES ASSUME NEW m \in net', m.st \notin Fresh, Claims(m.src)'
                 PROVE  (m.src \in Active)' /\ m.ttl < Left(m.src)'
    BY DEF StaleExpires, Claims, Active
  <2>2. m.src \in Proc
    BY DEF TypeOK, Message
  <2>3. timer' = timer /\ state[x][s] \in State
        /\ (Claims(m.src)' => pc'[m.src] = pc[m.src])
    BY <1>2, <2>2 DEF Beacon, TypeOK, Claims, Active
  <2>4. m \in net
    <3>1. ASSUME m \in Beacons(x, {s}, state[x][s]) PROVE FALSE
      <4>1. m.src = x /\ m.st = state[x][s] /\ s \in Uses[x]
        BY <1>2, <2>3, <3>1, BeaconsAre DEF Beacon
      <4> QED BY <2>1, <2>2, <2>3, <4>1 DEF BeaconsGoOut, Claims, Active
    <3> QED BY <1>2, <2>1, <3>1 DEF Beacon
  <2> QED BY <2>1, <2>3, <2>4 DEF StaleExpires, Claims, Active, Left
<1>3. ASSUME NEW n \in net, Receive(n) PROVE StaleExpires'
  <2>1. SUFFICES ASSUME NEW m \in net', m.st \notin Fresh, Claims(m.src)'
                 PROVE  (m.src \in Active)' /\ m.ttl < Left(m.src)'
    BY DEF StaleExpires, Claims, Active
  <2>2. m.src \in Proc /\ m \in net /\ n.dst \in Proc
    BY <1>3 DEF Receive, TypeOK, Message
  <2>3. pc'[m.src] = pc[m.src] /\ timer'[m.src] = timer[m.src]
    BY <1>3, <2>1, <2>2 DEF Receive, GoTo, TypeOK, Claims, Active
  <2> QED BY <2>1, <2>2, <2>3 DEF StaleExpires, Claims, Active, Left
<1>4. ASSUME NEW m \in net, Lose(m) PROVE StaleExpires'
  BY <1>4 DEF Lose, StaleExpires, Active, Left
<1>5. CASE Tick
  <2>1. SUFFICES ASSUME NEW m \in net', m.st \notin Fresh, Claims(m.src)'
                 PROVE  (m.src \in Active)' /\ m.ttl < Left(m.src)'
    BY DEF StaleExpires, Claims, Active
  <2>2. PICK n \in net : m = [n EXCEPT !.ttl = @ - 1]
    BY <1>5 DEF Tick
  <2>3. n \in Message /\ n.src \in Proc /\ n.ttl \in Nat
    BY ConstantsAssumption DEF TypeOK, Message
  <2>4. m.src = n.src /\ m.st = n.st /\ m.ttl = n.ttl - 1
    BY <2>2, <2>3 DEF Message
  <2>5. n.src \in Active /\ n.ttl < Left(n.src) /\ pc' = pc
    BY <1>5, <2>1, <2>4 DEF Tick, StaleExpires, Claims, Active
  <2>6. pc[n.src] = "collide" /\ timer[n.src] > 0
    BY <1>5, <2>3, <2>5 DEF Tick, Quiet, Active, ReadyPC, TimedPC
  <2>7. timer'[n.src] = timer[n.src] - 1 /\ timer[n.src] \in Nat
    BY <1>5, <2>3, <2>6 DEF Tick, Minus1, TypeOK
  <2> QED BY <2>3, <2>4, <2>5, <2>6, <2>7 DEF Active, Left
<1>6. CASE UNCHANGED vars
  BY <1>6 DEF vars, StaleExpires, Active, Left
<1>7. ASSUME NEW x \in Proc, NEW s \in Res, Park(x, s) PROVE StaleExpires'
  BY <1>7 DEF Park, StaleExpires, Active, Left
<1> QED
  BY <1>1, <1>2, <1>3, <1>4, <1>5, <1>6, <1>7 DEF Next

-----------------------------------------------------------------------------
(* Beacons are frequent enough for the wait that follows an announcement.  *)
LEMMA BeatInTime ==
  ASSUME TypeOK, Timely, NEW p \in Proc, NEW r \in Res
  PROVE  beat[p][r] + MaxDelay < AcquiringTime
<1>1. beat[p][r] \in 0 .. BeaconTime + MaxLag
  BY DEF TypeOK
<1> QED BY <1>1, Times, ConstantsAssumption DEF Timely

(* What is left of the wait that follows an announcement is a number.      *)
LEMMA LeftType ==
  ASSUME TypeOK, NEW p \in Proc
  PROVE  Left(p) \in Nat
BY Times DEF TypeOK, Left

(* What makes q hear p outlasts the steps that leave p's packets to q,     *)
(* p's beat, the entry of p and the wait of q as they are.                 *)
LEMMA HearsKept ==
  ASSUME TypeOK, TypeOK', NEW p \in Proc, NEW q \in Proc, NEW r \in Res,
         Hears(q, p, r),
         Left(q)' >= Left(q),
         \A m \in net : m.src = p /\ m.dst = q => m \in net',
         beat'[p][r] = beat[p][r],
         members'[q][r][p] = members[q][r][p],
         pc[p] = "held" => pc'[p] = "held"
  PROVE  Hears(q, p, r)'
<1>1. Left(q) \in Nat /\ Left(q)' \in Nat
  BY LeftType, Times DEF TypeOK, Left
<1>2. CASE \E m \in net : /\ m.src = p /\ m.dst = q /\ m.res = r
                          /\ m.st \in IF pc[p] = "held" THEN {"ACQUIRING", "ACQUIRED"}
                                                       ELSE {"ACQUIRING"}
                          /\ m.ttl < Left(q)
  <2>1. PICK m \in net : /\ m.src = p /\ m.dst = q /\ m.res = r
                         /\ m.st \in IF pc[p] = "held" THEN {"ACQUIRING", "ACQUIRED"}
                                                      ELSE {"ACQUIRING"}
                         /\ m.ttl < Left(q)
    BY <1>2
  <2>2. m.ttl \in Nat
    BY ConstantsAssumption DEF TypeOK, Message
  <2>3. m \in net' /\ m.ttl < Left(q)'
    BY <1>1, <2>1, <2>2
  <2> QED BY <2>1, <2>3 DEF Hears
<1>3. CASE beat[p][r] + MaxDelay < Left(q)
  <2>1. beat[p][r] \in Nat
    BY ConstantsAssumption DEF TypeOK
  <2> QED BY <1>1, <1>3, <2>1, ConstantsAssumption DEF Hears
<1>4. CASE pc[p] = "held" /\ members[q][r][p] = "ACQUIRED"
  BY <1>4 DEF Hears
<1> QED
  BY <1>2, <1>3, <1>4 DEF Hears

(* The beacon that is due goes out, and is heard before the wait is over.  *)
LEMMA BeaconKeepsHears ==
  ASSUME TypeOK, TypeOK', BeaconsGoOut,
         NEW x \in Proc, NEW s \in Res, Beacon(x, s),
         NEW q \in Active, NEW p \in Proc \ {q}, NEW r \in Shared(p, q),
         Claims(p), Hears(q, p, r)
  PROVE  Hears(q, p, r)'
<1>1. q \in Proc /\ r \in Uses[p] /\ r \in Uses[q] /\ r \in Res
  BY ConstantsAssumption DEF Active, Shared
<1>2. /\ pc'[p] = pc[p] /\ pc'[q] = pc[q] /\ timer' = timer /\ members' = members
      /\ net \subseteq net'
  BY <1>1 DEF Beacon, Claims, Active, TypeOK
<1>3. Left(q)' = Left(q) /\ Left(q) \in Nat
  BY <1>1, <1>2, LeftType DEF Left
<1>4. CASE x = p /\ s = r /\ beat[p][r] + MaxDelay < Left(q)
  <2>1. beat[p][r] = 0 /\ state[p][r] \in {"ACQUIRING", "ACQUIRED"}
        /\ (pc[p] # "held" => state[p][r] = "ACQUIRING")
    BY <1>1, <1>4 DEF Beacon, BeaconsGoOut, Claims
  <2> DEFINE m == [src |-> p, dst |-> q, res |-> r, st |-> state[p][r], ttl |-> MaxDelay]
  <2>2. m \in net'
    <3>1. m \in Beacons(p, {r}, state[p][r])
      BY <1>1 DEF Beacons, Up, Active
    <3> QED BY <1>4, <2>1, <3>1 DEF Beacon
  <2>3. m.ttl < Left(q)'
    BY <1>3, <1>4, <2>1, ConstantsAssumption
  <2>4. m.src = p /\ m.dst = q /\ m.res = r /\ m.st = state[p][r]
    OBVIOUS
  <2> HIDE DEF m
  <2> QED BY <1>2, <2>1, <2>2, <2>3, <2>4 DEF Hears
<1>5. CASE ~ (x = p /\ s = r)
  <2>1. beat'[p][r] = beat[p][r]
    <3>1. beat' = beat \/ \E b : beat' = [beat EXCEPT ![x][s] = b]
      BY DEF Beacon
    <3>2. beat \in [Proc -> [Res -> 0 .. BeaconTime + MaxLag]]
      BY DEF TypeOK
    <3> QED BY <1>1, <1>5, <3>1, <3>2
  <2> QED BY <1>1, <1>2, <1>3, <2>1, HearsKept
<1>6. CASE ~ (beat[p][r] + MaxDelay < Left(q))
  BY <1>2, <1>3, <1>6 DEF Hears
<1> QED BY <1>4, <1>5, <1>6

(* A packet of p that q handles wakes q, or enters p in q's table.         *)
LEMMA ReceiveKeepsHears ==
  ASSUME TypeOK, TypeOK', BeaconsGoOut, StaleExpires, Timely,
         NEW n \in net, Receive(n),
         NEW q \in Active, q \in Active', NEW p \in Proc \ {q}, NEW r \in Shared(p, q),
         Claims(p), Claims(p)', Hears(q, p, r)
  PROVE  Hears(q, p, r)'
<1>1. /\ q \in Proc /\ p \in Proc /\ r \in Uses[q] /\ r \in Res
      /\ Count[p][r] = Count[q][r] /\ n.dst \in Proc
  BY ConstantsAssumption DEF Active, Shared, TypeOK, Message
<1>2. /\ pc'[p] = pc[p] /\ pc'[q] = pc[q] /\ timer'[q] = timer[q]
      /\ (n.dst = q => ~ Interrupts(n))
  BY <1>1 DEF Receive, GoTo, TypeOK, Claims, Active
<1>3. Left(q)' = Left(q) /\ beat' = beat
  BY <1>2 DEF Left, Receive
<1>4. CASE pc[q] = "arming"
  BY <1>1, <1>2, <1>3, <1>4, BeatInTime DEF Hears, Left
<1>5. CASE pc[q] = "collide"
  <2>1. state[q][r] = "ACQUIRING"
    BY <1>1 DEF BeaconsGoOut
  <2>2. CASE n.src = p /\ n.dst = q /\ n.res = r
    <3>1. n.st # "ACQUIRING"
      BY <1>2, <1>5, <2>1, <2>2 DEF Interrupts
    <3>2. members'[q][r][p] = n.st
      BY <1>1, <2>1, <2>2 DEF Receive, Updated, TypeOK
    <3>3. CASE pc[p] = "held"
      <4>1. n.st = "ACQUIRED"
        BY <2>2, <3>1, <3>3 DEF StaleExpires
      <4> QED BY <1>2, <3>2, <3>3, <4>1 DEF Hears
    <3>4. CASE pc[p] # "held"
      BY <1>2, <1>3, <3>1, <3>4 DEF Hears, Receive
    <3> QED BY <3>3, <3>4
  <2>3. CASE ~ (n.src = p /\ n.dst = q /\ n.res = r)
    <3>1. members'[q][r][p] = members[q][r][p]
      <4>1. \/ members' = members
            \/ members' = [members EXCEPT ![n.dst][n.res][n.src] = n.st]
        BY DEF Receive, Updated
      <4>2. members \in [Proc -> [Res -> [Proc -> State \cup {"NONE"}]]]
        BY DEF TypeOK
      <4>3. n.src \in Proc /\ n.res \in Res
        BY DEF TypeOK, Message
      <4>4. CASE n.dst # q
        BY <1>1, <4>1, <4>2, <4>4
      <4>5. CASE n.dst = q /\ n.res # r
        BY <1>1, <4>1, <4>2, <4>3, <4>5
      <4>6. CASE n.dst = q /\ n.res = r /\ n.src # p
        BY <1>1, <4>1, <4>2, <4>3, <4>6
      <4> QED BY <2>3, <4>4, <4>5, <4>6
    <3>2. \A m \in net : m.src = p /\ m.dst = q /\ m.res = r => m \in net'
      BY <2>3 DEF Receive
    <3> QED BY <1>2, <1>3, <3>1, <3>2 DEF Hears
  <2> QED BY <2>2, <2>3
<1> QED BY <1>4, <1>5 DEF Active

(* Packet, beat and wait run down together.                                *)
LEMMA TickKeepsHears ==
  ASSUME TypeOK, TypeOK', BeaconsGoOut, Tick,
         NEW q \in Active, NEW p \in Proc \ {q}, NEW r \in Shared(p, q),
         Claims(p), Hears(q, p, r)
  PROVE  Hears(q, p, r)'
<1>1. q \in Proc /\ p \in Proc /\ r \in Uses[p] /\ r \in Res
  BY ConstantsAssumption DEF Active, Shared
<1>2. pc[q] = "collide" /\ timer[q] > 0 /\ timer[q] \in Nat
  BY <1>1 DEF Tick, Quiet, Active, ReadyPC, TimedPC, TypeOK
<1>3. Left(q) = timer[q] /\ Left(q)' = timer[q] - 1 /\ pc' = pc
  BY <1>1, <1>2 DEF Tick, Left, Minus1
<1>4. ASSUME NEW m \in net, m.src = p, m.dst = q, m.res = r,
             m.st \in IF pc[p] = "held" THEN {"ACQUIRING", "ACQUIRED"}
                                        ELSE {"ACQUIRING"},
             m.ttl < Left(q)
      PROVE  Hears(q, p, r)'
  <2> DEFINE n == [m EXCEPT !.ttl = @ - 1]
  <2>1. m \in Message /\ m.ttl \in Nat
    BY ConstantsAssumption DEF TypeOK, Message
  <2>2. /\ n.src = p /\ n.dst = q /\ n.res = r /\ n.st = m.st /\ n.ttl = m.ttl - 1
        /\ n \in net'
    BY <1>4, <2>1 DEF Tick, Message
  <2>3. n.ttl < Left(q)'
    BY <1>2, <1>3, <1>4, <2>1, <2>2
  <2> HIDE DEF n
  <2> QED BY <1>3, <1>4, <2>2, <2>3 DEF Hears
<1>5. CASE beat[p][r] + MaxDelay < Left(q)
  <2>1. beat[p][r] > 0 /\ beat[p][r] \in Nat
    BY <1>1, ConstantsAssumption DEF Tick, Quiet, Threads, BeaconsGoOut, TypeOK
  <2>2. beat'[p][r] = beat[p][r] - 1
    BY <1>1, <2>1 DEF Tick, Minus1
  <2> QED BY <1>2, <1>3, <1>5, <2>1, <2>2, ConstantsAssumption DEF Hears
<1>6. CASE pc[p] = "held" /\ members[q][r][p] = "ACQUIRED"
  BY <1>3, <1>6 DEF Tick, Hears
<1> QED
  BY <1>4, <1>5, <1>6 DEF Hears

-----------------------------------------------------------------------------
(* The heart of the algorithm, preserved by the caller's thread.           *)
LEMMA CallerKeepsOrder ==
  ASSUME Inv, TypeOK', Timely, NEW x \in Proc, Caller(x)
  PROVE  LaterHearsEarlier'
<1> USE DEF Inv
<1>1. SUFFICES ASSUME NEW q \in Active', NEW p \in Proc \ {q}, NEW r \in Shared(p, q),
                      Claims(p)'
               PROVE  /\ pc'[p] = "held" => Hears(q, p, r)'
                      /\ (p \in Active)' => Hears(q, p, r)' \/ Hears(p, q, r)'
  BY DEF LaterHearsEarlier, Claims, Shared
<1>2. q \in Proc /\ Claims(q)' /\ r \in Res /\ r \in Uses[p] /\ r \in Uses[q]
      /\ r \in Shared(q, p)
  BY ConstantsAssumption DEF Active, Claims, Shared
<1>3. ASSUME NEW z \in {p, q}
      PROVE  /\ \A m \in net : m.dst = z => m \in net'
             /\ ~ (Announce(x) /\ z = x) => beat'[z][r] = beat[z][r]
             /\ members'[z] = members[z]
  <2>1. CASE z = x
    <3>1. Announce(x) \/ Arm(x) \/ Acquire(x)
      BY <1>1, <1>2, <2>1, ClaimSteps
    <3> QED BY <1>2, <2>1, <3>1, ClaimKeeps
  <2>2. CASE z # x
    BY <1>1, <1>2, <2>2, CallerFrame
  <2> QED BY <2>1, <2>2
<1>4. ASSUME NEW z \in {p, q}, Announce(x), z = x
      PROVE  pc'[z] = "arming" /\ \A y \in {p, q} : y # z => Hears(z, y, r)'
  <2>1. pc'[z] = "arming"
    BY <1>4 DEF Announce, GoTo, TypeOK
  <2>2. \A y \in {p, q} : y # z => beat'[y][r] + MaxDelay < AcquiringTime
    BY <1>2, <1>3, <1>4, BeatInTime
  <2> QED BY <2>1, <2>2 DEF Hears, Left
<1>5. ASSUME NEW z \in {p, q}, z \in Active, z \in Active',
             ~ (Announce(x) /\ x \in {p, q})
      PROVE  Left(z)' >= Left(z)
  <2>1. CASE z # x
    BY <1>2, <1>5, <2>1, CallerFrame, LeftType DEF Left
  <2>2. CASE z = x
    <3>1. Arm(x) \/ Acquire(x)
      BY <1>5, <2>2, ClaimSteps DEF Claims
    <3>2. Arm(x)
      BY <1>5, <2>2, <3>1 DEF Acquire, GoTo, TypeOK, Active
    <3>3. pc[z] = "arming" /\ pc'[z] = "collide" /\ timer'[z] \in Late(AcquiringTime)
      BY <2>2, <3>2 DEF Arm, GoTo, TypeOK
    <3> QED BY <3>3, Times DEF Left
  <2> QED BY <2>1, <2>2
<1>6. ASSUME NEW y \in {p, q}, NEW z \in {p, q}, y # z, Hears(z, y, r),
             z \in Active, z \in Active',
             ~ (Announce(x) /\ x \in {p, q})
      PROVE  Hears(z, y, r)'
  <2>1. pc[y] = "held" => pc'[y] = "held"
    <3>1. CASE y = x
      BY <1>1, <1>2, <1>6, <3>1, ClaimSteps DEF Arm, Acquire
    <3>2. CASE y # x
      BY <1>2, <3>2, CallerFrame
    <3> QED BY <3>1, <3>2
  <2>2. Left(z)' >= Left(z)
    BY <1>5, <1>6
  <2> QED BY <1>2, <1>3, <1>6, <2>1, <2>2, HearsKept
<1>7. CASE Announce(x) /\ x \in {p, q}
  <2>1. CASE x = q
    BY <1>4, <1>7, <2>1
  <2>2. CASE x = p
    BY <1>4, <1>7, <2>2
  <2> QED BY <1>7, <2>1, <2>2
<1>8. CASE ~ (Announce(x) /\ x \in {p, q})
  <2>1. q \in Active /\ (Claims(p)) /\ (pc[p] # "held" => p \in Active)
        /\ (pc'[p] = "held" => pc[p] = "held" \/ (Acquire(x) /\ x = p))
    <3>1. ASSUME NEW z \in {p, q}, z # x PROVE pc'[z] = pc[z]
      BY <1>2, <3>1, CallerFrame
    <3>2. ASSUME NEW z \in {p, q}, z = x
          PROVE  \/ Arm(x) /\ pc[z] = "arming" /\ pc'[z] = "collide"
                 \/ Acquire(x) /\ pc[z] = "collide" /\ pc'[z] = "held"
      BY <1>1, <1>2, <1>8, <3>2, ClaimSteps DEF Arm, Acquire, GoTo, TypeOK
    <3> QED BY <1>1, <1>2, <3>1, <3>2 DEF Claims, Active
  <2>2. Hears(q, p, r) \/ (pc[p] # "held" /\ Hears(p, q, r))
    BY <1>1, <1>2, <2>1 DEF LaterHearsEarlier
  <2>3. CASE Hears(q, p, r)
    <3>1. Hears(q, p, r)'
      BY <1>6, <1>8, <2>1, <2>3
    <3> QED BY <3>1
  <2>4. CASE pc[p] # "held" /\ Hears(p, q, r)
    <3>1. p \in Active
      BY <2>1, <2>4
    <3>2. CASE Acquire(x) /\ x = p
      <4>1. Left(p) = 0
        BY <3>1, <3>2 DEF Acquire, Left
      <4>2. beat[q][r] + MaxDelay \in Nat /\ \A m \in net : m.ttl \in Nat
        BY <1>2, ConstantsAssumption DEF TypeOK, Message
      <4>3. pc[q] # "held"
        BY <2>1 DEF Active
      <4> QED BY <2>4, <4>1, <4>2, <4>3 DEF Hears
    <3>3. CASE ~ (Acquire(x) /\ x = p)
      <4>1. p \in Active'
        BY <1>1, <2>1, <2>4, <3>3 DEF Claims
      <4>2. Hears(p, q, r)'
        BY <1>6, <1>8, <2>4, <3>1, <4>1
      <4> QED BY <2>1, <2>4, <3>3, <4>1, <4>2
    <3> QED BY <3>2, <3>3
  <2> QED BY <2>2, <2>3, <2>4
<1> QED BY <1>7, <1>8

(* Every step keeps the order in which claims hear each other.             *)
LEMMA OrderStep ==
  ASSUME Inv, TypeOK', Timely, [Next]_vars
  PROVE  LaterHearsEarlier'
<1> USE DEF Inv
<1>1. ASSUME NEW x \in Proc, Caller(x) PROVE LaterHearsEarlier'
  BY <1>1, CallerKeepsOrder
<1>2. SUFFICES ASSUME ~ \E x \in Proc : Caller(x),
                      NEW q \in Active', NEW p \in Proc \ {q}, NEW r \in Shared(p, q),
                      Claims(p)'
               PROVE  /\ pc'[p] = "held" => Hears(q, p, r)'
                      /\ (p \in Active)' => Hears(q, p, r)' \/ Hears(p, q, r)'
  BY <1>1 DEF LaterHearsEarlier, Claims, Shared
<1>3. q \in Proc /\ r \in Uses[p] /\ r \in Uses[q] /\ r \in Shared(q, p)
  BY DEF Active, Shared
<1>4. ASSUME NEW y \in {p, q}, NEW z \in {p, q}, y # z, Hears(z, y, r),
             z \in Active, z \in Active', Claims(y), Claims(y)'
      PROVE  Hears(z, y, r)'
  <2>1. y \in Proc \ {z} /\ r \in Shared(y, z)
    BY <1>3, <1>4 DEF Shared
  <2>2. ASSUME NEW x \in Proc, NEW s \in Res, Beacon(x, s) PROVE Hears(z, y, r)'
    BY <1>4, <2>1, <2>2, BeaconKeepsHears
  <2>3. ASSUME NEW n \in net, Receive(n) PROVE Hears(z, y, r)'
    BY <1>4, <2>1, <2>3, ReceiveKeepsHears
  <2>4. ASSUME NEW m \in net, Lose(m) PROVE FALSE
    BY <2>4 DEF Lose, Timely, TypeOK
  <2>5. CASE Tick
    BY <1>4, <2>1, <2>5, TickKeepsHears
  <2>6. CASE UNCHANGED vars
    BY <1>4, <2>6 DEF vars, Hears, Left
  <2>7. ASSUME NEW x \in Proc, NEW s \in Res, Park(x, s) PROVE Hears(z, y, r)'
    BY <1>4, <2>7 DEF Park, Hears, Left
  <2> QED BY <1>2, <2>2, <2>3, <2>4, <2>5, <2>6, <2>7 DEF Next
<1>5. \A z \in {p, q} : /\ Claims(z)' => pc'[z] = pc[z]
  <2>1. ASSUME NEW x \in Proc, NEW s \in Res, Beacon(x, s), NEW z \in {p, q}, Claims(z)'
        PROVE  pc'[z] = pc[z]
    BY <1>3, <2>1 DEF Beacon, TypeOK, Claims, Active
  <2>2. ASSUME NEW n \in net, Receive(n), NEW z \in {p, q}, Claims(z)'
        PROVE  pc'[z] = pc[z]
    BY <1>3, <2>2 DEF Receive, GoTo, TypeOK, Message, Claims, Active
  <2>3. ASSUME NEW m \in net, Lose(m) PROVE pc' = pc
    BY <2>3 DEF Lose
  <2>4. CASE Tick \/ UNCHANGED vars
    BY <2>4 DEF Tick, vars
  <2>5. ASSUME NEW x \in Proc, NEW s \in Res, Park(x, s) PROVE pc' = pc
    BY <2>5 DEF Park
  <2> QED BY <1>2, <2>1, <2>2, <2>3, <2>4, <2>5 DEF Next
<1>6. pc'[q] = pc[q] /\ pc'[p] = pc[p] /\ q \in Active /\ Claims(p) /\ Claims(q)'
  BY <1>2, <1>3, <1>5 DEF Claims, Active
<1>7. CASE pc[p] = "held"
  <2>1. Hears(q, p, r)
    BY <1>2, <1>6, <1>7 DEF LaterHearsEarlier
  <2> QED BY <1>2, <1>4, <1>6, <2>1
<1>8. CASE p \in Active
  <2>1. Hears(q, p, r) \/ Hears(p, q, r)
    BY <1>2, <1>6, <1>8 DEF LaterHearsEarlier
  <2>2. Claims(q) /\ p \in Active' /\ pc'[p] # "held"
    BY <1>6, <1>8 DEF Claims, Active
  <2> QED BY <1>2, <1>4, <1>6, <1>8, <2>1, <2>2
<1> QED BY <1>6, <1>7, <1>8 DEF Claims

(* The invariant is inductive.                                             *)
THEOREM InvCorrect ==
  ASSUME Timely
  PROVE  Spec => []Inv
<1>1. Init => Inv
  <2> SUFFICES ASSUME Init PROVE Inv
    OBVIOUS
  <2>1. TypeOK /\ BeaconsGoOut /\ ParksInTime
    BY InitSteady
  <2> QED BY <2>1 DEF Init, Inv, StaleExpires, LaterHearsEarlier, Active
<1>2. Inv /\ [Next]_vars => Inv'
  <2> SUFFICES ASSUME Inv, [Next]_vars PROVE Inv'
    OBVIOUS
  <2>1. TypeOK'
    BY TypeStep DEF Inv
  <2>2. Prompt /\ ~ Reuse
    BY Times, ConstantsAssumption DEF Timely, Prompt
  <2>3. BeaconsGoOut' /\ ParksInTime'
    BY <2>1, <2>2, BeaconsGoOutStep DEF Inv
  <2> QED
    BY <2>1, <2>3, StaleExpiresStep, OrderStep DEF Inv
<1> QED BY <1>1, <1>2, PTL DEF Spec

(* As long as no thread takes longer from its test of IDLE to its wait     *)
(* than a caller listens, a process that has announced or holds beacons    *)
(* that state for each of its resources, whichever notifications its       *)
(* threads missed, and whatever is lost, delayed or killed: only a         *)
(* released object that acquires again may be silent.                      *)
THEOREM BeaconingCorrect ==
  ASSUME Prompt, ~ Reuse
  PROVE  Spec => []BeaconsGoOut
<1>1. Init => BeaconsGoOut /\ ParksInTime
  BY InitSteady
<1>2. TypeOK /\ TypeOK' /\ BeaconsGoOut /\ ParksInTime /\ [Next]_vars
        => BeaconsGoOut' /\ ParksInTime'
  BY BeaconsGoOutStep
<1> QED BY <1>1, <1>2, TypeCorrect, PTL DEF Spec

(* For any delays within Timely, what a process beaconed before it         *)
(* announced is handled or gone when it acquires.                          *)
THEOREM ExpiryCorrect ==
  ASSUME Timely
  PROVE  Spec => []StaleExpires
<1>1. Inv => StaleExpires
  BY DEF Inv
<1> QED BY <1>1, InvCorrect, PTL

(* For any delays within Timely, of two processes that announced the later *)
(* hears the earlier before its wait is over, and both hear every holder.  *)
THEOREM HearingCorrect ==
  ASSUME Timely
  PROVE  Spec => []LaterHearsEarlier
<1>1. Inv => LaterHearsEarlier
  BY DEF Inv
<1> QED BY <1>1, InvCorrect, PTL

-----------------------------------------------------------------------------
(* p holds, or did.                                                        *)
Held(p) == pc[p] \in {"held", "released", "dead"}

(* Only such a process says that it holds, and only it is believed to.     *)
Truth ==
  /\ \A p \in Proc : \A r \in Uses[p] : state[p][r] = "ACQUIRED" => Held(p)
  /\ \A m \in net : m.st = "ACQUIRED" => Held(m.src)
  /\ NoFalseHolder

(* A process that holds, or did, never does anything else again.           *)
LEMMA HeldKept ==
  ASSUME TypeOK, ~ Reuse, [Next]_vars, NEW p \in Proc, Held(p)
  PROVE  Held(p)'
<1>1. ASSUME NEW x \in Proc, Caller(x) PROVE Held(p)'
  <2>1. CASE p # x
    BY <1>1, <2>1, CallerFrame DEF Held
  <2>2. CASE p = x
    <3>1. Exit(x) \/ Release(x) \/ Crash(x)
      BY <1>1, <2>2 DEF Caller, Held, Begin, BeginNext, WaitForReady, FirstRound,
         NextRound, Listen, Announce, Arm, Acquire, FindBusy, Reset, Defer, GiveUp
    <3> QED BY <2>2, <3>1 DEF Exit, Release, Crash, Close, GoTo, Held, TypeOK
  <2> QED BY <2>1, <2>2
<1>2. ASSUME NEW x \in Proc, NEW s \in Res, Beacon(x, s) PROVE Held(p)'
  BY <1>2 DEF Beacon, Held, TypeOK
<1>3. ASSUME NEW m \in net, Receive(m) PROVE Held(p)'
  BY <1>3 DEF Receive, Interrupts, GoTo, Held, TypeOK
<1>4. CASE \/ (\E m \in net : Lose(m)) \/ Tick \/ UNCHANGED vars
           \/ \E x \in Proc : \E s \in Res : Park(x, s)
  BY <1>4 DEF Lose, Tick, Park, vars, Held
<1> QED BY <1>1, <1>2, <1>3, <1>4 DEF Next

(* With one resource, only Acquire sets ACQUIRED: FindBusy comes to none   *)
(* before the full one.                                                    *)
LEMMA AcquiredBy ==
  ASSUME TypeOK, NEW x \in Proc, Caller(x), \A r, s \in Uses[x] : r = s
  PROVE  \/ Held(x)'
         \/ /\ \A r \in Uses[x] : state'[x][r] = "ACQUIRED" => state[x][r] = "ACQUIRED"
            /\ \A m \in net' : m.st = "ACQUIRED" => m \in net
<1>1. Uses[x] \in SUBSET Res
  BY ConstantsAssumption
<1>2. ASSUME NEW S \in SUBSET Uses[x], NEW st \in State \ {"ACQUIRED"}, SetState(x, S, st)
      PROVE  /\ \A r \in Uses[x] : state'[x][r] = "ACQUIRED" => state[x][r] = "ACQUIRED"
             /\ \A m \in net' : m.st = "ACQUIRED" => m \in net
  <2>1. \A m \in Beacons(x, S, st) : m.st = st
    BY <1>1, BeaconsAre
  <2> QED BY <1>1, <1>2, <2>1 DEF SetState, TypeOK
<1>3. {"IDLE", "STARTING", "ACQUIRING"} \subseteq State \ {"ACQUIRED"}
  BY DEF State
<1>4. CASE Begin(x)
  <2>1. PICK r \in Uses[x] : SetState(x, {r}, "STARTING")
    BY <1>4 DEF Begin
  <2> QED BY <1>2, <1>3, <2>1
<1>5. CASE BeginNext(x)
  <2>1. PICK r \in NotStarted(x) : SetState(x, {r}, "STARTING")
    BY <1>5 DEF BeginNext
  <2>2. {r} \subseteq Uses[x]
    BY DEF NotStarted
  <2> QED BY <1>2, <1>3, <2>1, <2>2
<1>6. CASE FirstRound(x) \/ NextRound(x)
  BY <1>2, <1>3, <1>6 DEF FirstRound, NextRound, Start
<1>7. CASE Announce(x)
  BY <1>2, <1>3, <1>7 DEF Announce
<1>8. CASE Reset(x)
  BY <1>2, <1>3, <1>8 DEF Reset
<1>9. CASE Arm(x) \/ Defer(x) \/ GiveUp(x) \/ Listen(x) \/ WaitForReady(x)
  BY <1>9 DEF Arm, Defer, GiveUp, Close, Listen, WaitForReady
<1>10. CASE FindBusy(x)
  <2> DEFINE Before == {r \in Uses[x] : \A b \in Busy(x) : r < b}
  <2>1. Before = {}
    <3>1. PICK b \in Busy(x) : TRUE
      BY <1>10 DEF FindBusy
    <3>2. b \in Uses[x] /\ ~ (b < b)
      BY <1>1, ConstantsAssumption DEF Busy
    <3> QED BY <3>1, <3>2
  <2>2. SetState(x, {}, "ACQUIRED")
    BY <1>10, <2>1 DEF FindBusy
  <2>3. Beacons(x, {}, "ACQUIRED") = {}
    BY BeaconsAre DEF State
  <2> QED BY <1>1, <2>2, <2>3 DEF SetState, TypeOK
<1>11. CASE Acquire(x) \/ Exit(x) \/ Crash(x) \/ Release(x)
  BY <1>11 DEF Acquire, Exit, Crash, Release, Close, GoTo, Held, TypeOK
<1> QED BY <1>4, <1>5, <1>6, <1>7, <1>8, <1>9, <1>10, <1>11 DEF Caller

(* Every step keeps to the truth.                                          *)
LEMMA TruthStep ==
  ASSUME TypeOK, TypeOK', Truth, ~ Reuse, [Next]_vars,
         \A p \in Proc : \A r, s \in Uses[p] : r = s
  PROVE  Truth'
<1>1. \A p \in Proc : Held(p) => Held(p)'
  BY HeldKept
<1>2. /\ \A m \in net : m.src \in Proc /\ m.dst \in Proc /\ m.res \in Res
      /\ \A q \in Proc : \A r \in Uses[q] : r \in Res
      /\ members \in [Proc -> [Res -> [Proc -> State \cup {"NONE"}]]]
  BY ConstantsAssumption DEF TypeOK, Message
<1>3. ASSUME NEW x \in Proc, Caller(x) PROVE Truth'
  <2>1. /\ \A q \in Proc \ {x} : state'[q] = state[q] /\ members'[q] = members[q]
        /\ \A m \in net' : m \in net \/ m.src = x
    BY <1>3, CallerFrame
  <2>2. \A p \in Proc : \A r \in Uses[p] : state'[p][r] = "ACQUIRED" => Held(p)'
    BY <1>1, <1>3, <2>1, AcquiredBy DEF Truth
  <2>3. \A m \in net' : m.st = "ACQUIRED" => Held(m.src)'
    BY <1>1, <1>2, <1>3, <2>1, AcquiredBy DEF Truth
  <2>4. members' = members \/ members' = [members EXCEPT ![x] = NoMembers]
    BY <1>3 DEF Caller, Begin, BeginNext, WaitForReady, FirstRound, NextRound, Start,
       Listen, Announce, Arm, Acquire, FindBusy, Reset, Defer, GiveUp, Exit, Crash, Close, Release
  <2>5. \A q \in Proc : \A r \in Uses[q] : \A p \in Proc :
          members'[q][r][p] = "ACQUIRED" => members[q][r][p] = "ACQUIRED"
    <3>1. CASE members' = [members EXCEPT ![x] = NoMembers]
      <4>1. \A q \in Proc : members'[q] = IF q = x THEN NoMembers ELSE members[q]
        BY <1>2, <3>1
      <4>2. \A r \in Res : \A p \in Proc : NoMembers[r][p] = "NONE"
        BY DEF NoMembers
      <4> QED BY <1>2, <4>1, <4>2
    <3> QED BY <2>4, <3>1
  <2> QED BY <1>1, <2>2, <2>3, <2>5 DEF Truth, NoFalseHolder, Held
<1>4. ASSUME NEW x \in Proc, NEW s \in Res, Beacon(x, s) PROVE Truth'
  <2>1. s \in Uses[x] /\ state[x][s] \in State /\ {s} \in SUBSET Res
    BY <1>4 DEF Beacon, TypeOK
  <2>2. \A m \in net' : m \in net \/ (m.src = x /\ m.st = state[x][s])
    BY <1>4, <2>1, BeaconsAre DEF Beacon
  <2>3. state' = state /\ members' = members
    BY <1>4 DEF Beacon
  <2> QED BY <1>1, <1>2, <2>1, <2>2, <2>3 DEF Truth, NoFalseHolder, Held
<1>5. ASSUME NEW m \in net, Receive(m) PROVE Truth'
  <2>1. \A q \in Proc : \A r \in Uses[q] : \A p \in Proc :
          members'[q][r][p] = "ACQUIRED" =>
            members[q][r][p] = "ACQUIRED" \/ (p = m.src /\ m.st = "ACQUIRED")
    <3>1. members' = members \/ members' = [members EXCEPT ![m.dst][m.res][m.src] = m.st]
      BY <1>5 DEF Receive, Updated
    <3>2. ASSUME NEW q \in Proc, NEW r \in Res, NEW p \in Proc,
                 members'[q][r][p] # members[q][r][p]
          PROVE  p = m.src /\ members'[q][r][p] = m.st
      <4>1. members' = [members EXCEPT ![m.dst][m.res][m.src] = m.st]
        BY <3>1, <3>2
      <4>2. members'[q] = IF q = m.dst THEN [members[q] EXCEPT ![m.res][m.src] = m.st] ELSE members[q]
        BY <1>2, <4>1
      <4>3. members[q] \in [Res -> [Proc -> State \cup {"NONE"}]]
        BY <1>2
      <4>4. members'[q][r] \in {members[q][r], [members[q][r] EXCEPT ![m.src] = m.st]}
        BY <1>2, <4>2, <4>3
      <4>5. members[q][r] \in [Proc -> State \cup {"NONE"}]
        BY <4>3
      <4> QED BY <3>2, <4>4, <4>5
    <3>3. SUFFICES ASSUME NEW q \in Proc, NEW r \in Uses[q], NEW p \in Proc,
                          members'[q][r][p] = "ACQUIRED"
                   PROVE  members[q][r][p] = "ACQUIRED" \/ (p = m.src /\ m.st = "ACQUIRED")
      OBVIOUS
    <3>4. r \in Res
      BY <1>2
    <3>5. CASE members'[q][r][p] = members[q][r][p]
      BY <3>3, <3>5
    <3>6. CASE members'[q][r][p] # members[q][r][p]
      <4>1. p = m.src /\ members'[q][r][p] = m.st
        BY <3>2, <3>4, <3>6
      <4> QED BY <3>3, <4>1
    <3> QED BY <3>5, <3>6
  <2>2. state' = state /\ net' \subseteq net
    BY <1>5 DEF Receive
  <2>3. NoFalseHolder'
    <3>1. SUFFICES ASSUME NEW p \in Proc, NEW q \in Proc, NEW r \in Uses[q],
                          members'[q][r][p] = "ACQUIRED"
                   PROVE  Held(p)'
      BY DEF NoFalseHolder, Held
    <3>2. Held(p)
      BY <2>1, <3>1 DEF Truth, NoFalseHolder, Held
    <3> QED BY <1>1, <3>2
  <2>4. \A n \in net' : n.st = "ACQUIRED" => Held(n.src)'
    BY <1>1, <1>2, <2>2 DEF Truth
  <2>5. \A p \in Proc : \A r \in Uses[p] : state'[p][r] = "ACQUIRED" => Held(p)'
    BY <1>1, <2>2 DEF Truth
  <2> QED BY <2>3, <2>4, <2>5 DEF Truth
<1>6. ASSUME NEW m \in net, Lose(m) PROVE Truth'
  BY <1>6, <1>1, <1>2 DEF Lose, Truth, NoFalseHolder, Held
<1>7. CASE Tick
  <2>1. /\ state' = state /\ members' = members
        /\ \A n \in net' : \E m \in net : n.src = m.src /\ n.st = m.st
    BY <1>7 DEF Tick, TypeOK, Message
  <2> QED BY <1>1, <1>2, <2>1 DEF Truth, NoFalseHolder, Held
<1>8. CASE UNCHANGED vars
  BY <1>8 DEF vars, Truth, NoFalseHolder, Held
<1>9. ASSUME NEW x \in Proc, NEW s \in Res, Park(x, s) PROVE Truth'
  BY <1>9 DEF Park, Truth, NoFalseHolder, Held
<1> QED BY <1>3, <1>4, <1>5, <1>6, <1>7, <1>8, <1>9 DEF Next

(* Of processes that each use one resource, only one that acquired it is   *)
(* ever entered as a holder in a table, whatever the network does.         *)
THEOREM TruthfulTables ==
  ASSUME ~ Reuse, \A p \in Proc : \A r, s \in Uses[p] : r = s
  PROVE  Spec => []NoFalseHolder
<1>1. Init => Truth
  BY ConstantsAssumption DEF Init, Truth, NoFalseHolder, NoMembers
<1>2. TypeOK /\ TypeOK' /\ Truth /\ [Next]_vars => Truth'
  BY TruthStep
<1>3. Truth => NoFalseHolder
  BY DEF Truth
<1> QED BY <1>1, <1>2, <1>3, TypeCorrect, PTL DEF Spec

-----------------------------------------------------------------------------
(* A process that acquires has entered every holder in its table, so there *)
(* is room for it.                                                         *)
LEMMA AcquireHasRoom ==
  ASSUME Inv, NEW x \in Proc, Acquire(x), NEW r \in Uses[x]
  PROVE  Cardinality({q \in Holders(r) : Count[q][r] = Count[x][r]}) < Count[x][r]
<1> DEFINE Peers == {q \in Holders(r) : Count[q][r] = Count[x][r]}
           Known == {q \in Proc : members[x][r][q] = "ACQUIRED"}
<1>1. x \in Active /\ Left(x) = 0 /\ r \in Res /\ Acquirable(x, r)
  BY ConstantsAssumption DEF Acquire, Active, Left, Busy
<1>2. ASSUME NEW p \in Peers PROVE p \in Known
  <2>1. p \in Proc \ {x} /\ pc[p] = "held" /\ r \in Shared(p, x)
    BY <1>1 DEF Holders, Shared, Active
  <2>2. Hears(x, p, r)
    BY <1>1, <2>1 DEF Inv, LaterHearsEarlier
  <2>3. beat[p][r] + MaxDelay \in Nat /\ \A m \in net : m.ttl \in Nat
    BY <1>1, <2>1, ConstantsAssumption DEF Inv, TypeOK, Message
  <2> QED BY <1>1, <2>1, <2>2, <2>3 DEF Hears
<1>3. IsFiniteSet(Known)
  BY FS_Subset, ConstantsAssumption
<1>4. Peers \subseteq Known
  BY <1>2
<1>5. /\ IsFiniteSet(Peers) /\ Cardinality(Peers) <= Cardinality(Known)
      /\ Cardinality(Peers) \in Nat /\ Cardinality(Known) \in Nat
  BY <1>3, <1>4, FS_Subset, FS_CardinalityType
<1>6. Cardinality(Known) < Count[x][r] /\ Count[x][r] \in Nat
  BY <1>1, ConstantsAssumption DEF Acquirable
<1> HIDE DEF Peers, Known
<1>7. Cardinality(Peers) < Count[x][r]
  BY <1>5, <1>6
<1> QED BY <1>7 DEF Peers

(* Only Acquire makes a holder.                                            *)
LEMMA NewHolder ==
  ASSUME TypeOK, [Next]_vars, NEW p \in Proc, pc'[p] = "held", pc[p] # "held"
  PROVE  Acquire(p)
<1>1. ASSUME NEW x \in Proc, Caller(x) PROVE Acquire(p)
  <2>1. p = x
    BY <1>1, CallerFrame
  <2>2. Announce(x) \/ Arm(x) \/ Acquire(x)
    BY <1>1, <2>1, ClaimSteps DEF Claims
  <2> QED BY <2>1, <2>2 DEF Announce, Arm, GoTo, TypeOK
<1>2. ASSUME NEW x \in Proc, NEW s \in Res, Beacon(x, s) PROVE FALSE
  BY <1>2 DEF Beacon, TypeOK
<1>3. ASSUME NEW n \in net, Receive(n) PROVE FALSE
  BY <1>3 DEF Receive, GoTo, TypeOK, Message
<1>4. ASSUME NEW m \in net, Lose(m) PROVE FALSE
  BY <1>4 DEF Lose
<1>5. CASE Tick \/ UNCHANGED vars \/ \E x \in Proc : \E s \in Res : Park(x, s)
  BY <1>5 DEF Tick, Park, vars
<1> QED BY <1>1, <1>2, <1>3, <1>4, <1>5 DEF Next

(* Every step keeps the counts: a holder is added where there is room.     *)
LEMMA ExclusionStep ==
  ASSUME Inv, Inv', MutualExclusion, [Next]_vars
  PROVE  MutualExclusion'
<1> USE DEF Inv
<1>1. SUFFICES ASSUME NEW r \in Res, NEW p \in Holders(r)'
               PROVE  Cardinality({q \in Holders(r)' : Count[q][r] = Count[p][r]}) <= Count[p][r]
  BY DEF MutualExclusion
<1> DEFINE Before == {q \in Holders(r) : Count[q][r] = Count[p][r]}
           After  == {q \in Holders(r)' : Count[q][r] = Count[p][r]}
<1>2. p \in Proc /\ r \in Uses[p] /\ pc'[p] = "held" /\ Count[p][r] \in Nat
  BY ConstantsAssumption DEF Holders
<1>3. IsFiniteSet(Before) /\ Cardinality(Before) \in Nat
  BY FS_Subset, FS_CardinalityType, ConstantsAssumption DEF Holders
<1>4. CASE \E x \in Proc : Acquire(x) /\ x \in After
  <2>1. PICK x \in Proc : Acquire(x) /\ x \in After
    BY <1>4
  <2>2. r \in Uses[x] /\ Count[x][r] = Count[p][r] /\ Caller(x)
    BY <2>1 DEF Holders, Caller
  <2>3. Cardinality(Before) < Count[p][r]
    BY <2>1, <2>2, AcquireHasRoom
  <2>4. After \subseteq Before \cup {x}
    BY <2>2, CallerFrame DEF Holders
  <2> HIDE DEF Before, After
  <2>5. /\ IsFiniteSet(Before \cup {x})
        /\ Cardinality(Before \cup {x}) <= Cardinality(Before) + 1
        /\ Cardinality(Before \cup {x}) \in Nat
    <3>1. /\ IsFiniteSet(Before \cup {x})
          /\ \/ Cardinality(Before \cup {x}) = Cardinality(Before)
             \/ Cardinality(Before \cup {x}) = Cardinality(Before) + 1
      BY <1>3, FS_AddElement
    <3> QED BY <1>3, <3>1
  <2>6. Cardinality(After) <= Cardinality(Before \cup {x}) /\ Cardinality(After) \in Nat
    BY <2>4, <2>5, FS_Subset, FS_CardinalityType
  <2>7. Cardinality(After) <= Count[p][r]
    BY <1>2, <1>3, <2>3, <2>5, <2>6
  <2> QED BY <2>7 DEF After
<1>5. CASE ~ \E x \in Proc : Acquire(x) /\ x \in After
  <2>1. After \subseteq Before
    BY <1>5, NewHolder DEF Holders
  <2>2. p \in Holders(r)
    BY <1>2, <2>1
  <2>3. Cardinality(Before) <= Count[p][r]
    BY <2>2 DEF MutualExclusion
  <2>4. Cardinality(After) <= Cardinality(Before) /\ Cardinality(After) \in Nat
    BY <1>3, <2>1, FS_Subset, FS_CardinalityType
  <2> HIDE DEF Before, After
  <2>5. Cardinality(After) <= Count[p][r]
    BY <1>2, <1>3, <2>3, <2>4
  <2> QED BY <2>5 DEF After
<1> QED BY <1>4, <1>5

(* The promise of the README, for every number of processes, resources,    *)
(* counts and times, crashes included, when no datagram is lost and none   *)
(* is handled later than Timely allows.                                    *)
THEOREM Exclusive ==
  ASSUME Timely
  PROVE  Spec => []MutualExclusion
<1>1. Init => MutualExclusion
  BY DEF Init, MutualExclusion, Holders
<1>2. Inv /\ Inv' /\ MutualExclusion /\ [Next]_vars => MutualExclusion'
  BY ExclusionStep
<1>3. Spec => []Inv
  BY InvCorrect
<1> QED BY <1>1, <1>2, <1>3, PTL DEF Spec

-----------------------------------------------------------------------------
(* The counting lock counts as the protocol does.                          *)
LEMMA SameCardinality == ASSUME NEW S PROVE CL!Cardinality(S) = Cardinality(S)
BY DEF CL!Cardinality, Cardinality, CL!IsFiniteSet, IsFiniteSet

(* What a caller's step is for an observer of the counting lock.           *)
LEMMA PhaseIs ==
  ASSUME TypeOK, NEW p \in Proc
  PROVE  /\ Phase[p] = "held" <=> pc[p] = "held"
         /\ Phase[p] = "waiting" <=> Waiting(p)
         /\ Phase[p] = "out" <=> pc[p] \in {"idle", "released", "failed", "dead"}
BY DEF Phase, Waiting, TypeOK, PC, TimedPC, ReadyPC

(* A step that moves only p's caller moves only p's phase.                 *)
LEMMA PhaseMoves ==
  ASSUME TypeOK, TypeOK', NEW p \in Proc, \A q \in Proc \ {p} : pc'[q] = pc[q]
  PROVE  /\ Phase' = [Phase EXCEPT ![p] = Phase'[p]]
         /\ Phase'[p] = Phase[p] => Phase' = Phase
<1>1. \A q \in Proc \ {p} : Phase'[q] = Phase[q]
  BY DEF Phase, Waiting
<1>2. Phase = [q \in Proc |-> Phase[q]] /\ Phase' = [q \in Proc |-> Phase'[q]]
  BY DEF Phase
<1> QED BY <1>1, <1>2

(* Every step is a step of the counting lock, or changes no phase.         *)
LEMMA RefinementStep ==
  ASSUME Inv, Inv', Timely, [Next]_vars
  PROVE  [CL!Next]_Phase
<1> USE DEF Inv
<1>1. ASSUME NEW x \in Proc, Caller(x) PROVE [CL!Next]_Phase
  <2>1. \A q \in Proc \ {x} : pc'[q] = pc[q]
    BY <1>1, CallerFrame
  <2>2. /\ Phase' = [Phase EXCEPT ![x] = Phase'[x]]
        /\ Phase'[x] = Phase[x] => Phase' = Phase
        /\ Phase'[x] \in {"out", "waiting", "held"} /\ Phase[x] \in {"out", "waiting", "held"}
    BY <2>1, PhaseMoves DEF Phase
  <2>3. CASE Acquire(x)
    <3>1. Phase[x] = "waiting" /\ Phase'[x] = "held"
      <4>1. pc[x] = "collide" /\ pc'[x] = "held"
        BY <2>3 DEF Acquire, GoTo, TypeOK
      <4>2. Waiting(x) /\ ~ Waiting(x)'
        BY <4>1 DEF Waiting, TimedPC, ReadyPC
      <4>3. Phase[x] = "waiting"
        BY <4>2, PhaseIs
      <4>4. Phase'[x] = "held"
        BY <4>1, <4>2 DEF Phase
      <4> QED BY <4>3, <4>4
    <3>2. \A r \in Uses[x] : CL!Peers(x, r) = {q \in Holders(r) : Count[q][r] = Count[x][r]}
      BY PhaseIs DEF CL!Peers, CL!Holds, Holders
    <3>3. \A r \in Uses[x] : Cardinality(CL!Peers(x, r)) < Count[x][r]
      BY <2>3, <3>2, AcquireHasRoom
    <3>4. Phase' = [Phase EXCEPT ![x] = "held"]
      BY <2>2, <3>1
    <3>5. CL!Grant(x)
      BY <3>1, <3>3, <3>4, SameCardinality DEF CL!Grant
    <3> QED BY <3>5 DEF CL!Next
  <2>4. CASE ~ Acquire(x)
    <3>1. ~ (Phase'[x] = "held" /\ Phase[x] # "held")
      BY <2>4, NewHolder, PhaseIs DEF Phase
    <3>2. ~ (Phase'[x] = "waiting" /\ Phase[x] = "held")
      <4>1. ASSUME pc[x] = "held" PROVE pc'[x] \in {"held", "released", "dead"}
        BY <1>1, <4>1 DEF Caller, Begin, BeginNext, WaitForReady, FirstRound, NextRound,
           Listen, Announce, Arm, Acquire, FindBusy, Reset, Defer, GiveUp, Exit, Crash, Close, Release, GoTo, TypeOK,
           ReadyPC
      <4> QED BY <4>1, PhaseIs DEF Phase, Waiting, TimedPC, ReadyPC
    <3>3. CASE Phase'[x] = Phase[x]
      BY <2>2, <3>3
    <3>4. CASE Phase'[x] = "waiting" /\ Phase[x] = "out"
      BY <2>2, <3>4 DEF CL!Next, CL!Request
    <3>5. CASE Phase'[x] = "out" /\ Phase[x] # "out"
      BY <2>2, <3>5 DEF CL!Next, CL!Leave
    <3> QED BY <2>2, <3>1, <3>2, <3>3, <3>4, <3>5
  <2> QED BY <2>3, <2>4
<1>2. ASSUME NEW x \in Proc, NEW s \in Res, Beacon(x, s) PROVE Phase' = Phase
  <2>1. \A q \in Proc : pc'[q] = pc[q] \/ (pc[q] = "ready" /\ pc'[q] = "readied")
    BY <1>2 DEF Beacon, TypeOK
  <2> QED BY <2>1 DEF Phase, Waiting, ReadyPC
<1>3. ASSUME NEW n \in net, Receive(n) PROVE Phase' = Phase
  <2>1. \A q \in Proc : pc'[q] = pc[q]
          \/ (pc[q] \in {"listen", "collide"} /\ pc'[q] \in {"heard", "collided"})
    BY <1>3 DEF Receive, GoTo, Interrupts, TypeOK
  <2> QED BY <2>1 DEF Phase, Waiting, ReadyPC, TimedPC
<1>4. ASSUME NEW m \in net, Lose(m) PROVE Phase' = Phase
  BY <1>4 DEF Lose, Phase, Waiting
<1>5. CASE Tick \/ UNCHANGED vars \/ \E x \in Proc : \E s \in Res : Park(x, s)
  BY <1>5 DEF Tick, Park, vars, Phase, Waiting
<1> QED BY <1>1, <1>2, <1>3, <1>4, <1>5 DEF Next

(* Seen from outside, the protocol is the counting lock: a process gets    *)
(* all its resources in one step, and only when each of them has room.     *)
THEOREM Implements ==
  ASSUME Timely
  PROVE  Spec => ImplementsCountingLock
<1>1. Init => CL!Init
  BY DEF Init, CL!Init, Phase, Waiting, TimedPC, ReadyPC
<1>2. Inv /\ Inv' /\ [Next]_vars => [CL!Next]_Phase
  BY RefinementStep
<1>3. Spec => []Inv
  BY InvCorrect
<1> QED
  BY <1>1, <1>2, <1>3, PTL DEF Spec, ImplementsCountingLock, CL!Spec
=============================================================================
