--------------------------- MODULE LockCallsProofs ---------------------------
(***************************************************************************)
(* Theorems about LockCalls, for any number of objects and resources and   *)
(* any counts, as long as no object asks again for what it holds or has    *)
(* released: what an object holds it goes on beaconing, when no thread is  *)
(* as late as the shortest wait to listen (Prompt); and no resource has    *)
(* more holders than its count, when beacons arrive in time (InTime).      *)
(***************************************************************************)
EXTENDS LockCalls, FiniteSetTheorems, TLAPS

(* The types, as far as they matter here, and whose resources are called   *)
(* for and held.                                                           *)
Datagram ==
  [src : Proc, dst : Proc, res : Res, st : State \cup {"QUERYING"}, ttl : Int]

Acquiring(p) == pc[p] \notin {"idle"} \cup QueryPC

CallsTypeOK ==
  /\ pc \in [Proc -> PC \cup QueryPC]
  /\ timer \in [Proc -> Nat]
  /\ state \in [Proc -> [Res -> State \cup {"QUERYING"}]]
  /\ thread \in [Proc -> [Res -> ThreadState]]
  /\ beat \in [Proc -> [Res -> Nat]]
  /\ called = [p \in Proc |-> called[p]]
  /\ holds \in [Proc -> SUBSET Res]
  /\ net \subseteq Datagram
  /\ \A p \in Proc : holds[p] \subseteq Uses[p]
  /\ \A p \in Proc : Acquiring(p) => called[p] \in Uses[p]

(* p has announced r, and its wait for collisions is not over.             *)
Announced(p, r) == pc[p] \in {"arming", "collide"} /\ called[p] = r

(* A resource of p: what is held beacons; what is called for is not held,  *)
(* and has a thread, which waits, if it must, before the call announces.   *)
Sound(p, r) ==
  /\ r \in holds[p] => state[p][r] = "ACQUIRED" /\ thread[p][r] = "beaconing"
  /\ Acquiring(p) /\ called[p] = r => r \notin holds[p] /\ thread[p][r] # "stopped"
  /\ pc[p] \in {"starting", "listen"} /\ called[p] = r => state[p][r] = "STARTING"
  /\ Announced(p, r) => state[p][r] = "ACQUIRING" /\ thread[p][r] = "beaconing"
  /\ thread[p][r] = "parking" => beat[p][r] <= MaxLag
  /\ thread[p][r] = "parking" /\ pc[p] = "listen" /\ called[p] = r => beat[p][r] < timer[p]

CallsInv == CallsTypeOK /\ \A p \in Proc : \A r \in Uses[p] : Sound(p, r)

(* While it acquires, an object does not hold what it acquires.            *)
LEMMA CalledIs ==
  ASSUME CallsInv, NEW p \in Proc, Acquiring(p)
  PROVE  /\ called[p] \in Uses[p] /\ called[p] \in Res /\ called[p] \notin holds[p]
         /\ thread[p][called[p]] # "stopped"
         /\ pc[p] = "listen" /\ timer[p] = 0 => thread[p][called[p]] # "parking"
         /\ pc[p] \in {"arming", "collide"} => thread[p][called[p]] = "beaconing"
<1> DEFINE s == called[p]
<1>1. s \in Uses[p] /\ s \in Res /\ timer[p] \in Nat /\ beat[p][s] \in Nat
  BY ConstantsAssumption DEF CallsInv, CallsTypeOK
<1>2. Sound(p, s)
  BY <1>1 DEF CallsInv
<1> QED BY <1>1, <1>2 DEF Sound, Announced

LEMMA HeldBeaconsIs == CallsInv => HeldBeacons
<1> SUFFICES ASSUME CallsInv, NEW p \in Proc, NEW r \in holds[p]
             PROVE  state[p][r] = "ACQUIRED" /\ thread[p][r] = "beaconing"
  BY DEF HeldBeacons
<1>1. r \in Uses[p]
  BY DEF CallsInv, CallsTypeOK
<1> QED BY <1>1 DEF CallsInv, Sound

LEMMA AnnouncedIs ==
  ASSUME CallsInv, NEW p \in Proc, NEW r, Announced(p, r)
  PROVE  /\ r \in Uses[p] /\ r \notin holds[p]
         /\ state[p][r] = "ACQUIRING" /\ thread[p][r] = "beaconing"
<1>1. Acquiring(p)
  BY DEF Announced, Acquiring, QueryPC
<1>2. r \in Uses[p]
  BY <1>1 DEF Announced, CallsInv, CallsTypeOK
<1>3. Sound(p, r)
  BY <1>2 DEF CallsInv
<1> QED BY <1>1, <1>2, <1>3 DEF Sound, Announced

-----------------------------------------------------------------------------
(* setState on one resource.                                               *)
SetsOne(p, s, st) ==
  /\ state' \in [Proc -> [Res -> State \cup {"QUERYING"}]]
  /\ thread' \in [Proc -> [Res -> ThreadState]]
  /\ beat' \in [Proc -> [Res -> Nat]]
  /\ net' \subseteq Datagram
  /\ \A q \in Proc : \A r \in Res : ~ (q = p /\ r = s) =>
       /\ state'[q][r] = state[q][r] /\ thread'[q][r] = thread[q][r]
       /\ beat'[q][r] = beat[q][r]
  /\ state'[p][s] = st
  /\ thread'[p][s] = IF thread[p][s] = "parked" THEN "beaconing" ELSE thread[p][s]
  /\ thread[p][s] # "parked" => beat'[p][s] = beat[p][s]

LEMMA SetStateIs ==
  ASSUME CallsTypeOK, NEW p \in Proc, NEW s \in Res, NEW st \in State \cup {"QUERYING"},
         SetState(p, {s}, st)
  PROVE  SetsOne(p, s, st)
<1>1. /\ state' \in [Proc -> [Res -> State \cup {"QUERYING"}]]
      /\ \A q \in Proc : \A r \in Res :
           state'[q][r] = IF q = p /\ r = s THEN st ELSE state[q][r]
  BY DEF SetState, CallsTypeOK
<1>2. thread' \in [Proc -> [Res -> ThreadState]]
  BY DEF SetState, CallsTypeOK, ThreadState
<1>3. net' \subseteq Datagram
  BY ConstantsAssumption DEF SetState, CallsTypeOK, Beacons, Datagram
<1>4. \A q \in Proc : \A r \in Res :
        thread'[q][r] = IF q = p /\ r = s /\ thread[q][r] = "parked"
                        THEN "beaconing" ELSE thread[q][r]
  BY DEF SetState, CallsTypeOK
<1>5. PICK b \in [Res -> Late(BeaconTime)] :
        beat' = [beat EXCEPT ![p] = [r \in Res |-> IF r \in {s} /\ thread[p][r] = "parked"
                                                   THEN b[r] ELSE beat[p][r]]]
  BY DEF SetState
<1>6. Late(BeaconTime) \subseteq Nat
  BY ConstantsAssumption DEF Late
<1>7. /\ beat' \in [Proc -> [Res -> Nat]]
      /\ \A q \in Proc : \A r \in Res : ~ (q = p /\ r = s /\ thread[p][s] = "parked") =>
           beat'[q][r] = beat[q][r]
  <2>1. b \in [Res -> Nat] /\ beat \in [Proc -> [Res -> Nat]]
    BY <1>6 DEF CallsTypeOK
  <2> QED BY <1>5, <2>1
<1> QED BY <1>1, <1>2, <1>3, <1>4, <1>7 DEF SetsOne

(* A step that sets the state of the resource called for.  If it acquires  *)
(* the resource, the thread beacons; if it announces, the thread waits by  *)
(* now, or is awake.                                                       *)
LEMMA RoundStep ==
  ASSUME CallsInv, NEW p \in Proc, NEW s \in Uses[p], s \notin holds[p],
         NEW st \in State \cup {"QUERYING"}, SetState(p, {s}, st),
         NEW l \in PC \cup QueryPC, NEW t \in Nat, GoTo(p, l, t),
         called' = [called EXCEPT ![p] = s],
         \/ holds' = holds
         \/ /\ holds' = [holds EXCEPT ![p] = @ \cup {s}]
            /\ st = "ACQUIRED" /\ l = "idle" /\ thread[p][s] = "beaconing",
         thread[p][s] # "stopped",
         l \notin {"listen", "collide"},
         l = "starting" => st = "STARTING",
         l = "arming" => st = "ACQUIRING" /\ thread[p][s] # "parking"
  PROVE  CallsInv'
<1>0. s \in Res /\ thread[p][s] \in ThreadState
  BY ConstantsAssumption DEF CallsInv, CallsTypeOK
<1>t. CallsTypeOK
  BY DEF CallsInv
<1>u. SetsOne(p, s, st)
  BY <1>0, <1>t, SetStateIs
<1>1. /\ pc' \in [Proc -> PC \cup QueryPC] /\ timer' \in [Proc -> Nat]
      /\ called' = [q \in Proc |-> called'[q]] /\ holds' \in [Proc -> SUBSET Res]
      /\ pc'[p] = l /\ called'[p] = s /\ timer'[p] = t
      /\ holds'[p] \subseteq holds[p] \cup {s}
      /\ s \in holds'[p] => st = "ACQUIRED" /\ l = "idle" /\ thread[p][s] = "beaconing"
      /\ \A q \in Proc \ {p} : /\ pc'[q] = pc[q] /\ timer'[q] = timer[q]
                               /\ called'[q] = called[q] /\ holds'[q] = holds[q]
  <2>1. /\ pc' \in [Proc -> PC \cup QueryPC] /\ timer' \in [Proc -> Nat]
        /\ pc'[p] = l /\ timer'[p] = t
        /\ \A q \in Proc \ {p} : pc'[q] = pc[q] /\ timer'[q] = timer[q]
    BY <1>t DEF GoTo, CallsTypeOK
  <2>2. /\ called' = [q \in Proc |-> called'[q]] /\ called'[p] = s
        /\ \A q \in Proc \ {p} : called'[q] = called[q]
    BY <1>t DEF CallsTypeOK
  <2>3. holds \in [Proc -> SUBSET Res]
    BY <1>t DEF CallsTypeOK
  <2>4. /\ holds' \in [Proc -> SUBSET Res] /\ holds'[p] \subseteq holds[p] \cup {s}
        /\ s \in holds'[p] => st = "ACQUIRED" /\ l = "idle" /\ thread[p][s] = "beaconing"
        /\ \A q \in Proc \ {p} : holds'[q] = holds[q]
    BY <1>0, <2>3
  <2> QED BY <2>1, <2>2, <2>4
<1>2. CallsTypeOK'
  <2>1. ASSUME NEW q \in Proc
        PROVE  holds'[q] \subseteq Uses[q] /\ (Acquiring(q)' => called'[q] \in Uses[q])
    BY <1>1, <1>t DEF Acquiring, CallsTypeOK
  <2> QED BY <1>1, <1>u, <2>1 DEF CallsTypeOK, SetsOne
<1>3. ASSUME NEW q \in Proc, NEW r \in Uses[q] PROVE Sound(q, r)'
  <2>0. r \in Res /\ Sound(q, r)
    BY ConstantsAssumption DEF CallsInv
  <2>1. CASE q = p /\ r = s
    <3>2. thread[p][s] = "parking" => beat[p][s] <= MaxLag
      BY <2>0, <2>1 DEF Sound
    <3>3. thread'[p][s] # "stopped" /\ (thread'[p][s] = "parking" => beat'[p][s] <= MaxLag)
      BY <1>u, <3>2 DEF SetsOne
    <3>4. l = "arming" => st = "ACQUIRING" /\ thread'[p][s] = "beaconing"
      BY <1>0, <1>u DEF ThreadState, SetsOne
    <3>5. s \in holds'[p] => thread'[p][s] = "beaconing"
      BY <1>1, <1>u DEF SetsOne
    <3>6. Acquiring(p)' => s \notin holds'[p]
      BY <1>1 DEF Acquiring
    <3>7. l \in {"starting", "listen"} => st = "STARTING"
      OBVIOUS
    <3>8. l \in {"arming", "collide"} => st = "ACQUIRING" /\ thread'[p][s] = "beaconing"
      BY <3>4
    <3>9. state'[p][s] = st /\ pc'[p] = l /\ (s \in holds'[p] => st = "ACQUIRED")
      BY <1>1, <1>u DEF SetsOne
    <3> QED BY <2>1, <3>3, <3>5, <3>6, <3>7, <3>8, <3>9 DEF Sound, Announced
  <2>2. CASE ~ (q = p /\ r = s)
    <3>1. /\ state'[q][r] = state[q][r] /\ thread'[q][r] = thread[q][r]
          /\ beat'[q][r] = beat[q][r]
      BY <1>u, <2>0, <2>2 DEF SetsOne
    <3>2. CASE q = p
      <4>1. called'[q] # r /\ (r \in holds'[q] => r \in holds[q])
        BY <1>1, <2>2, <3>2
      <4> QED BY <2>0, <3>1, <4>1 DEF Sound, Announced
    <3>3. CASE q # p
      BY <1>1, <2>0, <3>1, <3>3 DEF Sound, Announced, Acquiring
    <3> QED BY <3>2, <3>3
  <2> QED BY <2>1, <2>2
<1> QED BY <1>2, <1>3 DEF CallsInv

(* The steps that only move the caller.                                    *)
LEMMA MoveStep ==
  ASSUME CallsInv, NEW p \in Proc, NEW l \in PC \cup QueryPC, NEW t \in Nat, GoTo(p, l, t),
         Acquiring(p) \/ l \in {"idle"} \cup QueryPC,
         l = "listen" => pc[p] = "starting" /\ t > MaxLag,
         l # "starting",
         l \in {"arming", "collide"} => pc[p] \in {"arming", "collide"},
         net' \subseteq Datagram,
         UNCHANGED <<state, thread, beat, called, holds>>
  PROVE  CallsInv'
<1>1. /\ pc' \in [Proc -> PC \cup QueryPC] /\ timer' \in [Proc -> Nat]
      /\ pc'[p] = l /\ timer'[p] = t
      /\ \A q \in Proc \ {p} : pc'[q] = pc[q] /\ timer'[q] = timer[q]
  BY DEF GoTo, CallsInv, CallsTypeOK
<1>2. \A q \in Proc : Acquiring(q)' => Acquiring(q)
  BY <1>1 DEF Acquiring
<1>3. CallsTypeOK'
  BY <1>1, <1>2 DEF CallsInv, CallsTypeOK
<1>4. ASSUME NEW q \in Proc, NEW r \in Uses[q] PROVE Sound(q, r)'
  <2>0. Sound(q, r) /\ beat[q][r] \in Nat /\ MaxLag \in Nat
    BY ConstantsAssumption DEF CallsInv, CallsTypeOK
  <2>1. CASE q = p
    <3>1. Announced(p, r)' => Announced(p, r)
      BY <1>1 DEF Announced
    <3>2. thread[p][r] = "parking" /\ l = "listen" => beat[p][r] < t
      BY <2>0, <2>1 DEF Sound
    <3> QED BY <1>1, <1>2, <2>0, <2>1, <3>1, <3>2 DEF Sound
  <2>2. CASE q # p
    BY <1>1, <1>2, <2>0, <2>2 DEF Sound, Announced
  <2> QED BY <2>1, <2>2
<1> QED BY <1>3, <1>4 DEF CallsInv

(* The steps that leave callers, calls and states alone, and change no     *)
(* thread but one that beacons or is about to wait.                        *)
LEMMA ThreadStep ==
  ASSUME CallsInv, pc' = pc, timer' \in [Proc -> Nat],
         UNCHANGED <<state, called, holds>>, net' \subseteq Datagram,
         thread' \in [Proc -> [Res -> ThreadState]], beat' \in [Proc -> [Res -> Nat]],
         \A q \in Proc : \A r \in Uses[q] :
           /\ thread[q][r] = "beaconing" /\ state[q][r] # "IDLE"
                => thread'[q][r] = "beaconing"
           /\ thread'[q][r] = "stopped" => thread[q][r] = "stopped"
           /\ thread'[q][r] = "parking" =>
                /\ beat'[q][r] <= MaxLag
                /\ pc[q] = "listen" /\ called[q] = r => beat'[q][r] < timer'[q]
  PROVE  CallsInv'
<1>1. CallsTypeOK'
  BY DEF CallsInv, CallsTypeOK, Acquiring
<1>2. ASSUME NEW q \in Proc, NEW r \in Uses[q] PROVE Sound(q, r)'
  <2>1. Sound(q, r)
    BY DEF CallsInv
  <2> QED BY <2>1 DEF Sound, Announced, Acquiring
<1> QED BY <1>1, <1>2 DEF CallsInv

LEMMA CallTimes ==
  /\ AcquiringTime \in Nat /\ AcquiringTime = 3 * BeaconTime
  /\ \A t \in Nat : \A u \in Late(t) : u \in Nat /\ u >= t
  /\ Late(BeaconTime) \subseteq 0 .. BeaconTime + MaxLag
  /\ 0 .. MaxLag \subseteq 0 .. BeaconTime + MaxLag
  /\ ListenTimes \subseteq Nat /\ BackoffTimes \subseteq Nat
  /\ ShortListenTime \in Nat /\ LongListenTime \in Nat
BY ConstantsAssumption, TimesAssumption
   DEF SenseBeacons, AcquiringTime, Late, ShortListenTime, LongListenTime

LEMMA ListensLong ==
  ASSUME Prompt, NEW t \in ListenTimes
  PROVE  t \in Nat /\ MaxLag < t
<1>1. MaxLag < AcquiringTime /\ MaxLag \in Nat /\ AcquiringTime \in Nat
  BY CallTimes, ConstantsAssumption DEF Prompt
<1>2. t \in AcquiringTime .. (2 * AcquiringTime + MaxLag)
  BY TimesAssumption
<1> QED BY <1>1, <1>2

-----------------------------------------------------------------------------
LEMMA InitCallsInv == CallsInit => CallsInv
<1> SUFFICES ASSUME CallsInit PROVE CallsInv
  OBVIOUS
<1>1. /\ pc = [p \in Proc |-> "idle"] /\ timer = [p \in Proc |-> 0]
      /\ holds = [p \in Proc |-> {}] /\ net = {}
      /\ state = [p \in Proc |-> [r \in Res |-> "IDLE"]]
      /\ thread = [p \in Proc |-> [r \in Res |-> "beaconing"]]
      /\ beat \in [Proc -> [Res -> 0 .. MaxLag]]
      /\ called = [p \in Proc |-> called[p]]
  BY DEF CallsInit, Init
<1>2. \A p \in Proc : ~ Acquiring(p)
  BY <1>1 DEF Acquiring
<1>3. beat \in [Proc -> [Res -> Nat]]
  BY <1>1, ConstantsAssumption
<1>4. CallsTypeOK
  BY <1>1, <1>2, <1>3 DEF CallsTypeOK, PC, State, ThreadState
<1>5. ASSUME NEW p \in Proc, NEW r \in Uses[p] PROVE Sound(p, r)
  BY <1>1, <1>2, ConstantsAssumption DEF Sound, Announced
<1> QED BY <1>4, <1>5 DEF CallsInv

(* The calls, up to their ends.                                            *)
LEMMA CallStep ==
  ASSUME CallsInv, ~ AsksHeld, ~ Reuse, NEW p \in Proc,
         \/ \E r \in Uses[p] : AcquireCall(p, r) \/ QueryCall(p, r)
         \/ TryAgain(p) \/ AnnounceOne(p) \/ ResetOne(p) \/ AcquireOne(p)
  PROVE  CallsInv'
<1>0. /\ {"IDLE", "STARTING", "ACQUIRING", "ACQUIRED", "QUERYING"}
           \subseteq State \cup {"QUERYING"}
      /\ {"starting", "arming", "backoff", "short", "idle"} \subseteq PC \cup QueryPC
      /\ 0 \in Nat /\ ShortListenTime \in Nat /\ BackoffTimes \subseteq Nat
  BY CallTimes DEF State, PC, TimedPC, ReadyPC, QueryPC
<1>1. ASSUME NEW r \in Uses[p], AcquireCall(p, r) PROVE CallsInv'
  <2>1. /\ r \notin holds[p] /\ thread[p][r] # "stopped" /\ holds' = holds
        /\ SetState(p, {r}, "STARTING") /\ GoTo(p, "starting", 0)
        /\ called' = [called EXCEPT ![p] = r]
    BY <1>1 DEF AcquireCall, MayAsk, StartFor
  <2> QED BY <1>0, <2>1, RoundStep
<1>2. ASSUME NEW r \in Uses[p], QueryCall(p, r) PROVE CallsInv'
  <2>1. /\ r \notin holds[p] /\ thread[p][r] # "stopped" /\ holds' = holds
        /\ SetState(p, {r}, "QUERYING") /\ GoTo(p, "short", ShortListenTime)
        /\ called' = [called EXCEPT ![p] = r]
    BY <1>2 DEF QueryCall, MayAsk
  <2> QED BY <1>0, <2>1, RoundStep
<1>3. CASE TryAgain(p) \/ AnnounceOne(p) \/ ResetOne(p) \/ AcquireOne(p)
  <2>1. Acquiring(p)
    BY <1>3 DEF TryAgain, AnnounceOne, AcquireOne, ResetOne, Fails, Acquiring, QueryPC
  <2>2. /\ called[p] \in Uses[p] /\ called[p] \notin holds[p]
        /\ thread[p][called[p]] # "stopped"
        /\ pc[p] = "listen" /\ timer[p] = 0 => thread[p][called[p]] # "parking"
        /\ pc[p] \in {"arming", "collide"} => thread[p][called[p]] = "beaconing"
    BY <2>1, CalledIs
  <2>3. [called EXCEPT ![p] = called[p]] = called
    BY DEF CallsInv, CallsTypeOK
  <2>4. CASE TryAgain(p)
    <3>1. /\ SetState(p, {called[p]}, "STARTING") /\ GoTo(p, "starting", 0)
          /\ called' = called /\ holds' = holds
      BY <2>4 DEF TryAgain, StartFor, calls
    <3> QED BY <1>0, <2>2, <2>3, <3>1, RoundStep
  <2>5. CASE AnnounceOne(p)
    <3>1. /\ SetState(p, {called[p]}, "ACQUIRING") /\ GoTo(p, "arming", 0)
          /\ called' = called /\ holds' = holds
      BY <2>5 DEF AnnounceOne, calls
    <3>2. thread[p][called[p]] # "parking"
      BY <2>2, <2>5 DEF AnnounceOne
    <3> QED BY <1>0, <2>2, <2>3, <3>1, <3>2, RoundStep
  <2>6. CASE ResetOne(p)
    <3>1. PICK t \in BackoffTimes : GoTo(p, "backoff", t)
      BY <2>6 DEF ResetOne
    <3>2. SetState(p, {called[p]}, "IDLE") /\ called' = called /\ holds' = holds
      BY <2>6 DEF ResetOne, calls
    <3> QED BY <1>0, <2>2, <2>3, <3>1, <3>2, RoundStep
  <2>7. CASE AcquireOne(p)
    <3>1. /\ SetState(p, {called[p]}, "ACQUIRED") /\ GoTo(p, "idle", 0)
          /\ called' = called /\ pc[p] = "collide"
          /\ holds' = [holds EXCEPT ![p] = @ \cup {called[p]}]
      BY <2>7 DEF AcquireOne
    <3> QED BY <1>0, <2>2, <2>3, <3>1, RoundStep
  <2> QED BY <1>3, <2>4, <2>5, <2>6, <2>7
<1> QED BY <1>1, <1>2, <1>3

LEMMA ReleaseStep ==
  ASSUME CallsInv, NEW p \in Proc, NEW s \in Uses[p], ReleaseCall(p, s) PROVE CallsInv'
<1>0. s \in Res
  BY ConstantsAssumption
<1>1. /\ pc' = pc /\ timer' = timer /\ ~ Acquiring(p)
      /\ called' = [q \in Proc |-> called'[q]] /\ holds' \in [Proc -> SUBSET Res]
      /\ holds'[p] = holds[p] \ {s}
      /\ \A q \in Proc \ {p} : called'[q] = called[q] /\ holds'[q] = holds[q]
  BY DEF ReleaseCall, Acquiring, CallsInv, CallsTypeOK
<1>2. /\ state' \in [Proc -> [Res -> State \cup {"QUERYING"}]]
      /\ thread' \in [Proc -> [Res -> ThreadState]]
      /\ beat' \in [Proc -> [Res -> Nat]]
  BY <1>0 DEF ReleaseCall, CallsInv, CallsTypeOK, State, ThreadState
<1>3. /\ thread'[p][s] = "stopped"
      /\ \A q \in Proc : \A r \in Res : ~ (q = p /\ r = s) =>
           /\ state'[q][r] = state[q][r] /\ thread'[q][r] = thread[q][r]
           /\ beat'[q][r] = beat[q][r]
  BY <1>0 DEF ReleaseCall, CallsInv, CallsTypeOK
<1>4. CallsTypeOK'
  <2>1. Beacons(p, {s}, "RELEASED") \subseteq Datagram
    BY <1>0, ConstantsAssumption DEF Beacons, State, Datagram
  <2>2. net' \subseteq Datagram
    BY <2>1 DEF ReleaseCall, CallsInv, CallsTypeOK
  <2>3. ASSUME NEW q \in Proc
        PROVE  holds'[q] \subseteq Uses[q] /\ (Acquiring(q)' => called'[q] \in Uses[q])
    BY <1>1 DEF Acquiring, CallsInv, CallsTypeOK
  <2>4. pc' \in [Proc -> PC \cup QueryPC] /\ timer' \in [Proc -> Nat]
    BY <1>1 DEF CallsInv, CallsTypeOK
  <2> QED BY <1>1, <1>2, <2>2, <2>3, <2>4 DEF CallsTypeOK
<1>5. ASSUME NEW q \in Proc, NEW r \in Uses[q] PROVE Sound(q, r)'
  <2>0. r \in Res /\ Sound(q, r)
    BY ConstantsAssumption DEF CallsInv
  <2>1. CASE q = p
    <3>1. pc'[p] \notin {"starting", "listen", "arming", "collide"} /\ ~ Acquiring(p)'
      BY <1>1 DEF Acquiring, QueryPC
    <3>2. CASE r = s
      BY <1>1, <1>3, <2>1, <3>1, <3>2 DEF Sound, Announced
    <3>3. CASE r # s
      BY <1>1, <1>3, <2>0, <2>1, <3>1, <3>3 DEF Sound, Announced
    <3> QED BY <3>2, <3>3
  <2>2. CASE q # p
    BY <1>1, <1>3, <2>0, <2>2 DEF Sound, Announced, Acquiring
  <2> QED BY <2>1, <2>2
<1> QED BY <1>4, <1>5 DEF CallsInv

(* The other steps of a caller: waits begin, calls end.                    *)
LEMMA WaitStep ==
  ASSUME CallsInv, Prompt, NEW p \in Proc,
         \/ GiveUpOne(p) \/ QueryReturns(p)
         \/ (Listen(p) \/ Arm(p) \/ Defer(p)) /\ UNCHANGED calls
  PROVE  CallsInv'
<1>0. /\ net \subseteq Datagram /\ 0 \in Nat
      /\ {"idle", "listen", "collide", "backoff"} \subseteq PC \cup QueryPC
  BY DEF CallsInv, CallsTypeOK, PC, TimedPC
<1>1. CASE GiveUpOne(p) \/ QueryReturns(p)
  <2>1. GoTo(p, "idle", 0) /\ UNCHANGED <<state, thread, beat, called, holds, net>>
    BY <1>1 DEF GiveUpOne, QueryReturns, calls
  <2> QED BY <1>0, <2>1, MoveStep
<1>2. CASE Listen(p) /\ UNCHANGED calls
  <2>1. PICK t \in ListenTimes : GoTo(p, "listen", t)
    BY <1>2 DEF Listen
  <2>2. pc[p] = "starting" /\ Acquiring(p) /\ UNCHANGED <<state, thread, beat, called, holds, net>>
    BY <1>2 DEF Listen, calls, Acquiring, QueryPC
  <2>3. t \in Nat /\ t > MaxLag
    BY ListensLong
  <2> QED BY <1>0, <2>1, <2>2, <2>3, MoveStep
<1>3. CASE Arm(p) /\ UNCHANGED calls
  <2>1. PICK t \in Nat : GoTo(p, "collide", t)
    BY <1>3, CallTimes DEF Arm
  <2>2. pc[p] = "arming" /\ Acquiring(p) /\ UNCHANGED <<state, thread, beat, called, holds, net>>
    BY <1>3 DEF Arm, calls, Acquiring, QueryPC
  <2> QED BY <1>0, <2>1, <2>2, MoveStep
<1>4. CASE Defer(p) /\ UNCHANGED calls
  <2>1. PICK t \in Nat : GoTo(p, "backoff", t)
    BY <1>4, CallTimes DEF Defer
  <2>2. Acquiring(p) /\ UNCHANGED <<state, thread, beat, called, holds, net>>
    BY <1>4 DEF Defer, calls, Acquiring, QueryPC
  <2> QED BY <1>0, <2>1, <2>2, MoveStep
<1> QED BY <1>1, <1>2, <1>3, <1>4

(* A turn of a thread: it beacons, or finds its resource idle, which is    *)
(* then neither held nor announced, nor listened for.                      *)
LEMMA BeaconStep ==
  ASSUME CallsInv, NEW p \in Proc, NEW s \in Uses[p], Beacon(p, s), UNCHANGED calls
  PROVE  CallsInv'
<1>0. s \in Res /\ state[p][s] \in State \cup {"QUERYING"} /\ thread[p][s] = "beaconing"
  <2>1. s \in Res
    BY ConstantsAssumption
  <2>2. state[p][s] \in State \cup {"QUERYING"}
    BY <2>1 DEF CallsInv, CallsTypeOK
  <2> QED BY <2>1, <2>2 DEF Beacon
<1>1. /\ UNCHANGED <<timer, state, called, holds>>
      /\ pc' \in [Proc -> PC \cup QueryPC]
      /\ \A q \in Proc : pc'[q] # pc[q] => pc[q] = "ready" /\ pc'[q] = "readied"
  <2>1. pc \in [Proc -> PC \cup QueryPC] /\ "readied" \in PC
    BY DEF CallsInv, CallsTypeOK, PC, ReadyPC
  <2>2. pc' = pc \/ (pc[p] = "ready" /\ pc' = [pc EXCEPT ![p] = "readied"])
    BY <2>1 DEF Beacon
  <2>3. UNCHANGED <<timer, state, called, holds>>
    BY DEF Beacon, calls
  <2> QED BY <2>1, <2>2, <2>3
<1>2. net' \subseteq Datagram
  <2>1. Beacons(p, {s}, state[p][s]) \subseteq Datagram
    BY <1>0, ConstantsAssumption DEF Beacons, Datagram
  <2> QED BY <2>1 DEF Beacon, CallsInv, CallsTypeOK
<1>3. /\ thread' \in [Proc -> [Res -> ThreadState]] /\ beat' \in [Proc -> [Res -> Nat]]
      /\ \A q \in Proc : \A r \in Res : ~ (q = p /\ r = s) =>
           thread'[q][r] = thread[q][r] /\ beat'[q][r] = beat[q][r]
      /\ \/ thread'[p][s] = "beaconing" /\ state[p][s] # "IDLE"
         \/ thread'[p][s] = "parking" /\ state[p][s] = "IDLE" /\ beat'[p][s] <= MaxLag
  <2>1. thread \in [Proc -> [Res -> ThreadState]] /\ beat \in [Proc -> [Res -> Nat]]
    BY DEF CallsInv, CallsTypeOK
  <2>2. CASE state[p][s] = "IDLE"
    <3>1. PICK b \in 0 .. MaxLag : beat' = [beat EXCEPT ![p][s] = b]
      BY <2>2 DEF Beacon
    <3>2. b \in Nat /\ b <= MaxLag /\ "parking" \in ThreadState
      BY ConstantsAssumption DEF ThreadState
    <3>3. thread' = [thread EXCEPT ![p][s] = "parking"]
      BY <2>2 DEF Beacon
    <3> QED BY <1>0, <2>1, <2>2, <3>1, <3>2, <3>3
  <2>3. CASE state[p][s] # "IDLE"
    <3>1. PICK b \in Nat : beat' = [beat EXCEPT ![p][s] = b]
      BY <2>3, CallTimes, ConstantsAssumption DEF Beacon
    <3> QED BY <1>0, <2>1, <2>3, <3>1 DEF Beacon
  <2> QED BY <2>2, <2>3
<1>4. \A q \in Proc : Acquiring(q)' => Acquiring(q)
  BY <1>1 DEF Acquiring, QueryPC
<1>5. CallsTypeOK'
  BY <1>1, <1>2, <1>3, <1>4 DEF CallsInv, CallsTypeOK
<1>6. ASSUME NEW q \in Proc, NEW r \in Uses[q] PROVE Sound(q, r)'
  <2>0. r \in Res /\ Sound(q, r)
    BY ConstantsAssumption DEF CallsInv
  <2>1. /\ Announced(q, r)' => Announced(q, r)
        /\ pc'[q] \in {"starting", "listen"} => pc'[q] = pc[q]
    BY <1>1 DEF Announced
  <2>2. CASE q = p /\ r = s /\ state[p][s] = "IDLE"
    <3>1. /\ r \notin holds[q] /\ ~ Announced(q, r)'
          /\ ~ (pc'[q] \in {"starting", "listen"} /\ called[q] = r)
      BY <2>0, <2>1, <2>2 DEF Sound
    <3> QED BY <1>1, <1>3, <1>4, <2>0, <2>2, <3>1 DEF Sound
  <2>3. CASE q = p /\ r = s /\ state[p][s] # "IDLE"
    BY <1>0, <1>1, <1>3, <1>4, <2>0, <2>1, <2>3 DEF Sound
  <2>4. CASE ~ (q = p /\ r = s)
    BY <1>1, <1>3, <1>4, <2>0, <2>1, <2>4 DEF Sound
  <2> QED BY <2>2, <2>3, <2>4
<1> QED BY <1>5, <1>6 DEF CallsInv

LEMMA ParkStep ==
  ASSUME CallsInv, NEW p \in Proc, NEW s \in Uses[p], Park(p, s), UNCHANGED calls
  PROVE  CallsInv'
<1>1. s \in Res /\ thread[p][s] = "parking" /\ thread' = [thread EXCEPT ![p][s] = "parked"]
  BY ConstantsAssumption DEF Park
<1>2. /\ thread \in [Proc -> [Res -> ThreadState]]
      /\ thread' \in [Proc -> [Res -> ThreadState]]
  BY <1>1 DEF CallsInv, CallsTypeOK, ThreadState
<1>3. UNCHANGED <<pc, timer, state, beat, called, holds, net>>
  BY DEF Park, calls
<1>4. ASSUME NEW q \in Proc, NEW r \in Uses[q]
      PROVE  /\ thread[q][r] = "beaconing" => thread'[q][r] = "beaconing"
             /\ thread'[q][r] \in {"stopped", "parking"} => thread'[q][r] = thread[q][r]
             /\ thread[q][r] = "parking" =>
                  /\ beat[q][r] <= MaxLag
                  /\ pc[q] = "listen" /\ called[q] = r => beat[q][r] < timer[q]
  <2>1. r \in Res /\ Sound(q, r)
    BY ConstantsAssumption DEF CallsInv
  <2>2. thread'[q][r] = IF q = p /\ r = s THEN "parked" ELSE thread[q][r]
    BY <1>1, <1>2, <2>1
  <2> QED BY <1>1, <2>1, <2>2 DEF Sound
<1>5. /\ net' \subseteq Datagram /\ timer' \in [Proc -> Nat]
      /\ beat' \in [Proc -> [Res -> Nat]]
  BY <1>3 DEF CallsInv, CallsTypeOK
<1> QED BY <1>2, <1>3, <1>4, <1>5, ThreadStep

LEMMA HandleStep == ASSUME CallsInv, NEW m \in net, Handle(m) PROVE CallsInv'
<1>1. m.dst \in Proc /\ net' \subseteq Datagram /\ 0 \in Nat /\ LongListenTime \in Nat
  BY CallTimes DEF Handle, CallsInv, CallsTypeOK, Datagram
<1>2. UNCHANGED <<state, thread, beat, called, holds>>
  BY DEF Handle, calls
<1>3. CASE Interrupts(m)
  <2>1. Acquiring(m.dst)
    BY <1>3 DEF Interrupts, Acquiring, QueryPC
  <2> DEFINE l == IF pc[m.dst] = "listen" THEN "heard" ELSE "collided"
  <2>2. GoTo(m.dst, l, 0)
    BY <1>3 DEF Handle
  <2>3. l \in {"heard", "collided"} /\ l \in PC \cup QueryPC
    BY DEF PC, ReadyPC
  <2> HIDE DEF l
  <2> QED BY <1>1, <1>2, <2>1, <2>2, <2>3, MoveStep
<1>4. CASE ~ Interrupts(m) /\ pc[m.dst] = "short"
  <2>1. GoTo(m.dst, "long", LongListenTime) /\ "long" \in QueryPC
    BY <1>4 DEF Handle, QueryPC
  <2> QED BY <1>1, <1>2, <2>1, MoveStep
<1>5. CASE UNCHANGED <<pc, timer>>
  <2>1. /\ timer' \in [Proc -> Nat]
        /\ thread' \in [Proc -> [Res -> ThreadState]] /\ beat' \in [Proc -> [Res -> Nat]]
    BY <1>2, <1>5 DEF CallsInv, CallsTypeOK
  <2>2. \A q \in Proc : \A r \in Uses[q] : Sound(q, r)
    BY DEF CallsInv
  <2> QED BY <1>1, <1>2, <1>5, <2>1, <2>2, ThreadStep DEF Sound
<1> QED BY <1>3, <1>4, <1>5 DEF Handle

(* The beats of threads that have a step to come run down with the waits.  *)
LEMMA TickStep == ASSUME CallsInv, Tick, UNCHANGED calls PROVE CallsInv'
<1>1. net' \subseteq Datagram
  <2>1. ASSUME NEW m \in Datagram PROVE [m EXCEPT !.ttl = @ - 1] \in Datagram
    BY DEF Datagram
  <2> QED BY <2>1 DEF Tick, CallsInv, CallsTypeOK
<1>2. UNCHANGED <<pc, state, thread, called, holds>>
  BY DEF Tick, calls
<1>3. \A n \in Nat : Minus1(n) \in Nat /\ Minus1(n) <= n /\ (n > 0 => Minus1(n) = n - 1)
  BY DEF Minus1
<1>4. /\ timer' \in [Proc -> Nat] /\ beat' \in [Proc -> [Res -> Nat]]
      /\ \A q \in Proc : timer'[q] = Minus1(timer[q]) /\ timer[q] \in Nat
      /\ \A q \in Proc : \A r \in Res : beat'[q][r] = Minus1(beat[q][r]) /\ beat[q][r] \in Nat
  BY <1>3 DEF Tick, CallsInv, CallsTypeOK
<1>5. ASSUME NEW q \in Proc, NEW r \in Uses[q], thread[q][r] = "parking"
      PROVE  /\ beat'[q][r] <= MaxLag
             /\ pc[q] = "listen" /\ called[q] = r => beat'[q][r] < timer'[q]
  <2>1. r \in Res /\ Sound(q, r) /\ MaxLag \in Nat
    BY ConstantsAssumption DEF CallsInv
  <2>2. beat[q][r] > 0 /\ (pc[q] = "listen" => timer[q] > 0)
    BY <1>5 DEF Tick, Quiet, Threads, TimedPC
  <2>3. /\ beat[q][r] <= MaxLag
        /\ pc[q] = "listen" /\ called[q] = r => beat[q][r] < timer[q]
    BY <1>5, <2>1 DEF Sound
  <2>4. beat'[q][r] = beat[q][r] - 1 /\ (timer[q] > 0 => timer'[q] = timer[q] - 1)
    BY <1>3, <1>4, <2>1, <2>2
  <2> QED BY <1>4, <2>1, <2>2, <2>3, <2>4
<1>6. thread' \in [Proc -> [Res -> ThreadState]]
  BY <1>2 DEF CallsInv, CallsTypeOK
<1> QED BY <1>1, <1>2, <1>4, <1>5, <1>6, ThreadStep

LEMMA CallsInvStep ==
  ASSUME CallsInv, ~ AsksHeld, ~ Reuse, Prompt, [CallsNext]_lockVars
  PROVE  CallsInv'
<1>1. CASE UNCHANGED lockVars
  BY <1>1 DEF lockVars, vars, calls, CallsInv, CallsTypeOK, Sound, Announced, Acquiring
<1>2. ASSUME NEW p \in Proc, NEW r \in Uses[p], Beacon(p, r) \/ Park(p, r), UNCHANGED calls
      PROVE  CallsInv'
  BY <1>2, BeaconStep, ParkStep
<1>3. CASE CallsNext
  BY <1>2, <1>3, CallStep, ReleaseStep, WaitStep, HandleStep, TickStep DEF CallsNext
<1> QED BY <1>1, <1>3

-----------------------------------------------------------------------------
(* An object that does not ask again for what it holds or has released     *)
(* goes on beaconing all that it holds, whatever it calls for, and fails   *)
(* at, meanwhile: if no thread is late for its wait by the shortest time   *)
(* to listen, however late packets are.                                    *)
THEOREM HeldCorrect ==
  ASSUME ~ AsksHeld, ~ Reuse, Prompt
  PROVE  CallsSpec => []HeldBeacons
<1>1. CallsInv /\ [CallsNext]_lockVars => CallsInv'
  BY CallsInvStep
<1> QED BY InitCallsInv, HeldBeaconsIs, <1>1, PTL DEF CallsSpec

-----------------------------------------------------------------------------
(* What exclusion rests on: a beacon is handled, whatever the delays,      *)
(* before the one that should follow the next one.                         *)
InTime == MaxDelay + MaxLag < 2 * BeaconTime

(* The ranges of what is counted down or looked up, and whose resources    *)
(* are called for and held.                                                *)
Ranges ==
  /\ timer \in [Proc -> Nat]
  /\ beat \in [Proc -> [Res -> 0 .. BeaconTime + MaxLag]]
  /\ members \in [Proc -> [Res -> [Proc -> State \cup {"QUERYING", "NONE"}]]]
  /\ \A m \in net : m.ttl \in 0 .. MaxDelay
  /\ \A p \in Proc : holds[p] \subseteq Uses[p]
  /\ \A p \in Proc : Acquiring(p) => called[p] \in Uses[p]

(* What p said of r before it announced r is handled before it holds r.    *)
OneExpires ==
  \A m \in net :
    m.st \notin {"ACQUIRING", "ACQUIRED"} =>
      /\ Announced(m.src, m.res) => m.ttl < Left(m.src)
      /\ m.res \notin holds[m.src]

(* q will have heard of p's claim to r when its wait is over.              *)
HearsOne(q, p, r) ==
  \/ \E m \in net :
       /\ m.src = p /\ m.dst = q /\ m.res = r
       /\ m.st \in IF r \in holds[p] THEN {"ACQUIRING", "ACQUIRED"} ELSE {"ACQUIRING"}
       /\ m.ttl < Left(q)
  \/ beat[p][r] + MaxDelay < Left(q)
  \/ r \in holds[p] /\ members[q][r][p] = "ACQUIRED"

(* Of two objects that claim r, one that has announced it hears the holder *)
(* or, if neither holds it, at least one hears the other.                  *)
OneOrder ==
  \A q \in Proc : \A p \in Proc \ {q} : \A r \in Shared(p, q) : Announced(q, r) =>
    /\ r \in holds[p] => HearsOne(q, p, r)
    /\ Announced(p, r) => HearsOne(q, p, r) \/ HearsOne(p, q, r)

ExclusionInv ==
  CallsInv /\ Ranges /\ OneExpires /\ OneOrder /\ HoldersWithinCount

-----------------------------------------------------------------------------
LEMMA InTimeIsPrompt == InTime => Prompt
BY CallTimes, ConstantsAssumption DEF InTime, Prompt

LEMMA BeaconsFrom ==
  ASSUME NEW p \in Proc, NEW s \in Res, NEW st \in State \cup {"QUERYING"}
  PROVE  \A m \in Beacons(p, {s}, st) :
           m.src = p /\ m.res = s /\ m.st = st /\ m.ttl = MaxDelay
BY DEF Beacons

(* setState says the state at once.                                        *)
LEMMA SetStateSays ==
  ASSUME NEW p \in Proc, NEW s \in Res, NEW st \in State \cup {"QUERYING"},
         SetState(p, {s}, st)
  PROVE  /\ net \subseteq net'
         /\ \A m \in net' \ net : m.src = p /\ m.res = s /\ m.st = st /\ m.ttl = MaxDelay
<1>1. net' = net \cup Beacons(p, {s}, st)
  BY DEF SetState
<1> QED BY <1>1, BeaconsFrom

(* It changes the next beacon of a thread that sleeps, and of no other.    *)
LEMMA SetStateBeats ==
  ASSUME Ranges, NEW p \in Proc, NEW s \in Res,
         NEW st \in State \cup {"QUERYING"}, SetState(p, {s}, st)
  PROVE  /\ beat' \in [Proc -> [Res -> 0 .. BeaconTime + MaxLag]]
         /\ \A q \in Proc \ {p} : beat'[q] = beat[q]
         /\ \A r \in Res : r # s => beat'[p][r] = beat[p][r]
         /\ thread[p][s] # "parked" => beat'[p][s] = beat[p][s]
<1>1. PICK b \in [Res -> Late(BeaconTime)] :
        beat' = [beat EXCEPT ![p] = [r \in Res |-> IF r \in {s} /\ thread[p][r] = "parked"
                                                   THEN b[r] ELSE beat[p][r]]]
  BY DEF SetState
<1>2. b \in [Res -> 0 .. BeaconTime + MaxLag]
  BY CallTimes
<1>3. beat \in [Proc -> [Res -> 0 .. BeaconTime + MaxLag]]
  BY DEF Ranges
<1>4. beat' \in [Proc -> [Res -> 0 .. BeaconTime + MaxLag]]
  BY <1>1, <1>2, <1>3
<1>5. \A q \in Proc \ {p} : beat'[q] = beat[q]
  BY <1>1, <1>3
<1>6. /\ \A r \in Res : r # s => beat'[p][r] = beat[p][r]
      /\ thread[p][s] # "parked" => beat'[p][s] = beat[p][s]
  BY <1>1, <1>3
<1> QED BY <1>4, <1>5, <1>6

(* A beacon is due before the wait that follows an announcement is over.   *)
LEMMA BeatsInTime ==
  ASSUME Ranges, InTime, NEW p \in Proc, NEW r \in Res
  PROVE  beat[p][r] \in Nat /\ beat[p][r] + MaxDelay < AcquiringTime
<1>1. beat[p][r] \in 0 .. BeaconTime + MaxLag
  BY DEF Ranges
<1> QED BY <1>1, CallTimes, ConstantsAssumption DEF InTime

LEMMA LeftIs ==
  ASSUME Ranges, NEW p \in Proc
  PROVE  Left(p) \in Nat
BY CallTimes DEF Ranges, Left

-----------------------------------------------------------------------------
(* The ranges are kept.                                                    *)
LEMMA RangesSet ==
  ASSUME CallsInv, Ranges, NEW p \in Proc, NEW s \in Uses[p],
         NEW st \in State \cup {"QUERYING"}, SetState(p, {s}, st),
         NEW l, NEW t \in Nat, GoTo(p, l, t),
         members' = members \/ members' = [members EXCEPT ![p][s] = NoMembers[s]],
         called' = [called EXCEPT ![p] = s],
         holds' = holds \/ holds' = [holds EXCEPT ![p] = @ \cup {s}]
  PROVE  Ranges'
<1>1. s \in Res
  BY ConstantsAssumption
<1>2. timer' \in [Proc -> Nat]
  BY DEF GoTo, Ranges
<1>3. beat' \in [Proc -> [Res -> 0 .. BeaconTime + MaxLag]]
  BY <1>1, SetStateBeats
<1>4. members' \in [Proc -> [Res -> [Proc -> State \cup {"QUERYING", "NONE"}]]]
  <2> DEFINE Table == [Proc -> State \cup {"QUERYING", "NONE"}]
  <2>1. NoMembers[s] \in Table
    BY <1>1 DEF NoMembers
  <2>2. members \in [Proc -> [Res -> Table]]
    BY DEF Ranges
  <2> HIDE DEF Table
  <2>3. members' \in [Proc -> [Res -> Table]]
    BY <1>1, <2>1, <2>2
  <2> QED BY <2>3 DEF Table
<1>5. \A m \in net' : m.ttl \in 0 .. MaxDelay
  <2>1. MaxDelay \in 0 .. MaxDelay
    BY ConstantsAssumption
  <2>2. \A m \in net' \ net : m.ttl = MaxDelay
    BY <1>1, SetStateSays
  <2> QED BY <2>1, <2>2 DEF Ranges
<1>6. \A q \in Proc : holds'[q] \subseteq Uses[q]
  <2>1. /\ holds \in [Proc -> SUBSET Res]
        /\ \A q \in Proc : holds[q] \subseteq Uses[q]
    BY DEF Ranges, CallsInv, CallsTypeOK
  <2> QED BY <2>1
<1>7. \A q \in Proc : Acquiring(q)' => called'[q] \in Uses[q]
  <2> TAKE q \in Proc
  <2>1. CASE q = p
    BY <2>1 DEF CallsInv, CallsTypeOK
  <2>2. CASE q # p
    BY <2>2 DEF Ranges, CallsInv, CallsTypeOK, Acquiring, GoTo
  <2> QED BY <2>1, <2>2
<1> QED BY <1>2, <1>3, <1>4, <1>5, <1>6, <1>7 DEF Ranges

(* ... when the caller only moves on.                                      *)
LEMMA RangesMove ==
  ASSUME CallsInv, Ranges, NEW p \in Proc, NEW l, NEW t \in Nat, GoTo(p, l, t),
         Acquiring(p) \/ l \in {"idle"} \cup QueryPC,
         UNCHANGED <<beat, members, net, called, holds>>
  PROVE  Ranges'
<1>1. timer' \in [Proc -> Nat]
  BY DEF GoTo, Ranges
<1>2. \A q \in Proc : Acquiring(q)' => Acquiring(q)
  BY DEF GoTo, Acquiring, CallsInv, CallsTypeOK
<1> QED BY <1>1, <1>2 DEF Ranges

LEMMA RangesStep ==
  ASSUME CallsInv, Ranges, [CallsNext]_lockVars
  PROVE  Ranges'
<1> USE DEF calls
<1>0. /\ \A p \in Proc : Uses[p] \subseteq Res
      /\ \A p \in Proc : [called EXCEPT ![p] = called[p]] = called
      /\ \A p \in Proc : Acquiring(p) => called[p] \in Uses[p]
      /\ {"IDLE", "STARTING", "ACQUIRING", "ACQUIRED", "RELEASED"} \subseteq State
      /\ 0 \in Nat
  BY ConstantsAssumption DEF CallsInv, CallsTypeOK, Ranges, State
<1>1. ASSUME NEW p \in Proc, NEW r \in Uses[p], AcquireCall(p, r) PROVE Ranges'
  BY <1>0, <1>1, RangesSet DEF AcquireCall, StartFor
<1>2. ASSUME NEW p \in Proc, NEW r \in Uses[p], QueryCall(p, r) PROVE Ranges'
  BY <1>0, <1>2, CallTimes, RangesSet DEF QueryCall
<1>3. ASSUME NEW p \in Proc, TryAgain(p) PROVE Ranges'
  <2>1. called[p] \in Uses[p]
    BY <1>0, <1>3 DEF TryAgain, Acquiring, QueryPC
  <2> QED BY <1>0, <1>3, <2>1, RangesSet DEF TryAgain, StartFor
<1>4. ASSUME NEW p \in Proc, AnnounceOne(p) PROVE Ranges'
  <2>1. called[p] \in Uses[p]
    BY <1>0, <1>4 DEF AnnounceOne, Acquiring, QueryPC
  <2> QED BY <1>0, <1>4, <2>1, RangesSet DEF AnnounceOne
<1>5. ASSUME NEW p \in Proc, AcquireOne(p) PROVE Ranges'
  <2>1. called[p] \in Uses[p]
    BY <1>0, <1>5 DEF AcquireOne, Acquiring, QueryPC
  <2> QED BY <1>0, <1>5, <2>1, RangesSet DEF AcquireOne
<1>6. ASSUME NEW p \in Proc, ResetOne(p) PROVE Ranges'
  <2>1. called[p] \in Uses[p]
    BY <1>0, <1>6 DEF ResetOne, Fails, Acquiring, QueryPC
  <2>2. PICK t \in BackoffTimes : GoTo(p, "backoff", t)
    BY <1>6 DEF ResetOne
  <2> QED BY <1>0, <1>6, <2>1, <2>2, CallTimes, RangesSet DEF ResetOne
<1>7. ASSUME NEW p \in Proc, GiveUpOne(p) \/ QueryReturns(p) PROVE Ranges'
  BY <1>0, <1>7, RangesMove DEF GiveUpOne, QueryReturns
<1>8. ASSUME NEW p \in Proc, Listen(p) \/ Arm(p) \/ Defer(p), UNCHANGED calls PROVE Ranges'
  <2>1. Acquiring(p)
    BY <1>8 DEF Listen, Arm, Defer, Acquiring, QueryPC
  <2>2. PICK l \in {"listen", "collide", "backoff"}, t \in Nat : GoTo(p, l, t)
    BY <1>8, CallTimes DEF Listen, Arm, Defer
  <2> QED BY <1>8, <2>1, <2>2, RangesMove DEF Listen, Arm, Defer
<1>9. ASSUME NEW p \in Proc, NEW s \in Uses[p], ReleaseCall(p, s) PROVE Ranges'
  <2>1. beat' \in [Proc -> [Res -> 0 .. BeaconTime + MaxLag]]
    BY <1>0, <1>9, ConstantsAssumption DEF ReleaseCall, Ranges
  <2>2. \A m \in net' : m.ttl \in 0 .. MaxDelay
    <3>1. MaxDelay \in 0 .. MaxDelay /\ s \in Res
      BY <1>0, ConstantsAssumption
    <3>2. \A m \in Beacons(p, {s}, "RELEASED") : m.ttl = MaxDelay
      BY <1>0, <3>1, BeaconsFrom
    <3> QED BY <1>9, <3>1, <3>2 DEF ReleaseCall, Ranges
  <2>3. \A q \in Proc : holds'[q] \subseteq Uses[q]
    BY <1>9 DEF ReleaseCall, Ranges, CallsInv, CallsTypeOK
  <2>4. \A q \in Proc : Acquiring(q)' => Acquiring(q) /\ called'[q] = called[q]
    BY <1>9 DEF ReleaseCall, Acquiring, CallsInv, CallsTypeOK
  <2> QED BY <1>9, <2>1, <2>2, <2>3, <2>4 DEF ReleaseCall, Ranges
<1>10. ASSUME NEW p \in Proc, NEW s \in Uses[p], Beacon(p, s), UNCHANGED calls PROVE Ranges'
  <2>1. beat' \in [Proc -> [Res -> 0 .. BeaconTime + MaxLag]]
    <3>1. beat' = beat
            \/ \E b \in 0 .. BeaconTime + MaxLag : beat' = [beat EXCEPT ![p][s] = b]
      BY <1>10, CallTimes DEF Beacon
    <3>2. beat \in [Proc -> [Res -> 0 .. BeaconTime + MaxLag]]
      BY DEF Ranges
    <3> QED BY <3>1, <3>2
  <2>2. \A m \in net' : m.ttl \in 0 .. MaxDelay
    <3>1. MaxDelay \in 0 .. MaxDelay /\ s \in Res /\ state[p][s] \in State \cup {"QUERYING"}
      BY <1>0, ConstantsAssumption DEF CallsInv, CallsTypeOK
    <3>2. \A m \in Beacons(p, {s}, state[p][s]) : m.ttl = MaxDelay
      BY <3>1, BeaconsFrom
    <3> QED BY <1>10, <3>1, <3>2 DEF Beacon, Ranges
  <2>3. \A q \in Proc : Acquiring(q)' => Acquiring(q)
    BY <1>10 DEF Beacon, CallsInv, CallsTypeOK, Acquiring, QueryPC
  <2> QED BY <1>10, <2>1, <2>2, <2>3 DEF Beacon, Ranges
<1>11. ASSUME NEW m \in net, Handle(m) PROVE Ranges'
  <2>1. m.src \in Proc /\ m.dst \in Proc /\ m.res \in Res /\ m.st \in State \cup {"QUERYING"}
    BY DEF CallsInv, CallsTypeOK, Datagram
  <2>2. members' \in [Proc -> [Res -> [Proc -> State \cup {"QUERYING", "NONE"}]]]
    BY <1>11, <2>1 DEF Handle, UpdatedByAny, Ranges
  <2>3. timer' \in [Proc -> Nat] /\ \A q \in Proc : Acquiring(q)' => Acquiring(q)
    <3>1. CASE Interrupts(m)
      <4>1. Acquiring(m.dst)
        BY <3>1 DEF Interrupts, Acquiring, QueryPC
      <4>2. /\ timer' = [timer EXCEPT ![m.dst] = 0]
            /\ \A q \in Proc : q # m.dst => pc'[q] = pc[q]
        BY <1>11, <3>1 DEF Handle, GoTo, CallsInv, CallsTypeOK
      <4> QED BY <1>0, <4>1, <4>2 DEF Ranges, Acquiring
    <3>2. CASE ~ Interrupts(m) /\ pc[m.dst] = "short"
      <4>1. GoTo(m.dst, "long", LongListenTime)
        BY <1>11, <3>2 DEF Handle
      <4> QED BY <2>1, <4>1, CallTimes DEF GoTo, Ranges, Acquiring, QueryPC, CallsInv, CallsTypeOK
    <3>3. CASE UNCHANGED <<pc, timer>>
      BY <3>3 DEF Ranges, Acquiring
    <3> QED BY <1>11, <3>1, <3>2, <3>3 DEF Handle
  <2> QED BY <1>11, <2>2, <2>3 DEF Handle, Ranges
<1>12. CASE Tick /\ UNCHANGED calls
  <2>1. \A n \in Nat : Minus1(n) \in Nat /\ Minus1(n) <= n
    BY DEF Minus1
  <2>2. timer' \in [Proc -> Nat]
    BY <1>12, <2>1 DEF Tick, Ranges
  <2>3. beat' \in [Proc -> [Res -> 0 .. BeaconTime + MaxLag]]
    <3>1. \A p \in Proc : \A r \in Res : Minus1(beat[p][r]) \in 0 .. BeaconTime + MaxLag
      BY <2>1, ConstantsAssumption DEF Ranges
    <3> QED BY <1>12, <3>1 DEF Tick
  <2>4. \A m \in net' : m.ttl \in 0 .. MaxDelay
    <3>1. ASSUME NEW m \in net PROVE [m EXCEPT !.ttl = @ - 1].ttl \in 0 .. MaxDelay
      <4>1. m \in Datagram /\ m.ttl > 0 /\ m.ttl \in 0 .. MaxDelay
        BY <1>12 DEF Tick, Quiet, CallsInv, CallsTypeOK, Ranges
      <4> QED BY <4>1, ConstantsAssumption DEF Datagram
    <3> QED BY <1>12, <3>1 DEF Tick
  <2> QED BY <1>12, <2>2, <2>3, <2>4 DEF Tick, Ranges, Acquiring
<1>13. CASE UNCHANGED lockVars \/ (UNCHANGED calls /\ \E p \in Proc : \E r \in Res : Park(p, r))
  BY <1>13 DEF lockVars, vars, Park, Ranges, Acquiring
<1>14. ASSUME NEW p \in Proc,
              \/ TryAgain(p) \/ AnnounceOne(p) \/ AcquireOne(p) \/ ResetOne(p)
              \/ GiveUpOne(p) \/ QueryReturns(p)
              \/ (Listen(p) \/ Arm(p) \/ Defer(p)) /\ UNCHANGED calls
       PROVE  Ranges'
  BY <1>3, <1>4, <1>5, <1>6, <1>7, <1>8, <1>14
<1>15. ASSUME NEW p \in Proc, NEW r \in Uses[p],
              \/ AcquireCall(p, r) \/ ReleaseCall(p, r) \/ QueryCall(p, r)
              \/ (Beacon(p, r) \/ Park(p, r)) /\ UNCHANGED calls
       PROVE  Ranges'
  BY <1>0, <1>1, <1>2, <1>9, <1>10, <1>13, <1>15
<1> QED BY <1>11, <1>12, <1>13, <1>14, <1>15 DEF CallsNext

-----------------------------------------------------------------------------
(* p holds r, or has announced it.                                         *)
ClaimsOne(p, r) == Announced(p, r) \/ r \in holds[p]

(* A claim is beaconed as what it is.                                      *)
LEMMA ClaimIsBeaconed ==
  ASSUME CallsInv, NEW p \in Proc, NEW r \in Res
  PROVE  /\ Announced(p, r) => r \notin holds[p]
         /\ ClaimsOne(p, r) =>
              /\ thread[p][r] = "beaconing"
              /\ state[p][r] = IF r \in holds[p] THEN "ACQUIRED" ELSE "ACQUIRING"
<1>1. Announced(p, r) =>
        r \notin holds[p] /\ state[p][r] = "ACQUIRING" /\ thread[p][r] = "beaconing"
  BY AnnouncedIs
<1>2. r \in holds[p] => state[p][r] = "ACQUIRED" /\ thread[p][r] = "beaconing"
  BY HeldBeaconsIs DEF HeldBeacons
<1> QED BY <1>1, <1>2 DEF ClaimsOne

(* What makes q hear p outlasts the steps that leave it as it is.          *)
LEMMA HearsOneKept ==
  ASSUME Ranges, Ranges', NEW p \in Proc, NEW q \in Proc, NEW r \in Res,
         HearsOne(q, p, r),
         Left(q)' >= Left(q),
         \A m \in net : m.src = p /\ m.dst = q /\ m.res = r => m \in net',
         beat'[p][r] = beat[p][r],
         members'[q][r][p] = members[q][r][p],
         r \in holds[p] => r \in holds'[p]
  PROVE  HearsOne(q, p, r)'
<1>1. Left(q) \in Nat /\ Left(q)' \in Nat
  BY LeftIs, CallTimes DEF Ranges, Left
<1>2. ASSUME NEW m \in net, m.src = p, m.dst = q, m.res = r,
             m.st \in IF r \in holds[p] THEN {"ACQUIRING", "ACQUIRED"} ELSE {"ACQUIRING"},
             m.ttl < Left(q)
      PROVE  HearsOne(q, p, r)'
  <2>1. m.ttl \in Nat
    BY ConstantsAssumption DEF Ranges
  <2>2. m \in net' /\ m.ttl < Left(q)'
    BY <1>1, <1>2, <2>1
  <2>3. m.st \in IF r \in holds'[p] THEN {"ACQUIRING", "ACQUIRED"} ELSE {"ACQUIRING"}
    BY <1>2
  <2> QED BY <1>2, <2>2, <2>3 DEF HearsOne
<1>3. CASE beat[p][r] + MaxDelay < Left(q)
  <2>1. beat[p][r] \in Nat
    BY ConstantsAssumption DEF Ranges
  <2> QED BY <1>1, <1>3, <2>1, ConstantsAssumption DEF HearsOne
<1>4. CASE r \in holds[p] /\ members[q][r][p] = "ACQUIRED"
  BY <1>4 DEF HearsOne
<1> QED BY <1>2, <1>3, <1>4 DEF HearsOne

(* When its wait is over, an object that hears another knows it holds.     *)
LEMMA HeardAtLast ==
  ASSUME Ranges, NEW p \in Proc, NEW q \in Proc, NEW r \in Res,
         HearsOne(q, p, r), Left(q) = 0
  PROVE  r \in holds[p] /\ members[q][r][p] = "ACQUIRED"
<1>1. beat[p][r] + MaxDelay \in Nat /\ \A m \in net : m.ttl \in Nat
  BY ConstantsAssumption DEF Ranges
<1> QED BY <1>1 DEF HearsOne

-----------------------------------------------------------------------------
(* Fewer holders are still within the count.                               *)
HoldersOf(r, c) == {q \in Proc : r \in holds[q] /\ Count[q][r] = c}

LEMMA HoldersAre ==
  HoldersWithinCount <=>
    \A p \in Proc : \A r \in holds[p] : Cardinality(HoldersOf(r, Count[p][r])) <= Count[p][r]
BY DEF HoldersWithinCount, HoldersOf

LEMMA FewerHolders ==
  ASSUME Ranges, HoldersWithinCount, \A p \in Proc : holds'[p] \subseteq holds[p]
  PROVE  HoldersWithinCount'
<1> SUFFICES ASSUME NEW p \in Proc, NEW r \in holds'[p]
             PROVE  Cardinality(HoldersOf(r, Count[p][r])') <= Count[p][r]
  BY DEF HoldersWithinCount, HoldersOf
<1> DEFINE Old == HoldersOf(r, Count[p][r])
           New == HoldersOf(r, Count[p][r])'
<1>1. r \in holds[p] /\ r \in Res /\ Count[p][r] \in Nat
  <2>1. r \in holds[p] /\ r \in Uses[p]
    BY DEF Ranges
  <2> QED BY <2>1, ConstantsAssumption
<1>2. New \subseteq Old /\ Old \subseteq Proc
  BY DEF HoldersOf
<1>3. IsFiniteSet(Old)
  BY <1>2, ConstantsAssumption, FS_Subset
<1>4. Cardinality(New) <= Cardinality(Old) /\ Cardinality(Old) \in Nat /\ Cardinality(New) \in Nat
  BY <1>2, <1>3, FS_Subset, FS_CardinalityType
<1>5. Cardinality(Old) <= Count[p][r]
  BY <1>1, HoldersAre
<1> HIDE DEF Old, New
<1>6. Cardinality(New) <= Count[p][r]
  BY <1>1, <1>4, <1>5
<1> QED BY <1>6 DEF New

(* One more holder, when those that hold are known and there is room.      *)
LEMMA OneMoreHolder ==
  ASSUME Ranges, HoldersWithinCount, NEW x \in Proc, NEW s \in Uses[x],
         s \notin holds[x],
         \A p \in Proc : holds'[p] = IF p = x THEN holds[p] \cup {s} ELSE holds[p],
         \A p \in HoldersOf(s, Count[x][s]) : members[x][s][p] = "ACQUIRED",
         Acquirable(x, s)
  PROVE  HoldersWithinCount'
<1> DEFINE c == Count[x][s]
           Known == {q \in Proc : members[x][s][q] = "ACQUIRED"}
           Old == HoldersOf(s, c)
<1>1. s \in Res /\ c \in Nat
  BY ConstantsAssumption
<1>2. IsFiniteSet(Known) /\ IsFiniteSet(Old) /\ Old \subseteq Known
  <2>1. Known \subseteq Proc /\ Old \subseteq Known /\ Old \subseteq Proc
    BY DEF HoldersOf
  <2> QED BY <2>1, ConstantsAssumption, FS_Subset
<1>3. Cardinality(Old) < c
  <2>1. Cardinality(Known) < c
    BY DEF Acquirable
  <2>2. /\ Cardinality(Old) <= Cardinality(Known)
        /\ Cardinality(Old) \in Nat /\ Cardinality(Known) \in Nat
    BY <1>2, FS_Subset, FS_CardinalityType
  <2> HIDE DEF Known, Old, c
  <2> QED BY <1>1, <2>1, <2>2
<1>4. HoldersOf(s, c)' = Old \cup {x} /\ x \notin Old
  BY DEF HoldersOf
<1>5. Cardinality(HoldersOf(s, c)') <= c
  <2>1. Cardinality(Old \cup {x}) = Cardinality(Old) + 1 /\ Cardinality(Old) \in Nat
    BY <1>2, <1>4, FS_AddElement, FS_CardinalityType
  <2> HIDE DEF Old, c
  <2> QED BY <1>1, <1>3, <1>4, <2>1
<1>6. ASSUME NEW p \in Proc, NEW r \in holds'[p]
      PROVE  Cardinality(HoldersOf(r, Count[p][r])') <= Count[p][r]
  <2>1. CASE r = s /\ Count[p][r] = c
    BY <1>5, <2>1
  <2>2. CASE ~ (r = s /\ Count[p][r] = c)
    <3>1. r \in holds[p]
      BY <2>2
    <3>2. HoldersOf(r, Count[p][r])' = HoldersOf(r, Count[p][r])
      BY <2>2 DEF HoldersOf
    <3> QED BY <3>1, <3>2, HoldersAre
  <2> QED BY <2>1, <2>2
<1> QED BY <1>6 DEF HoldersWithinCount, HoldersOf

-----------------------------------------------------------------------------
(* The steps of the caller of x after which it has announced nothing.      *)
LEMMA UnclaimStep ==
  ASSUME CallsInv, Ranges, Ranges', OneExpires, OneOrder,
         HoldersWithinCount, NEW x \in Proc,
         pc'[x] \notin {"arming", "collide"},
         \A z \in Proc \ {x} :
           /\ pc'[z] = pc[z] /\ timer'[z] = timer[z] /\ called'[z] = called[z]
           /\ holds'[z] = holds[z] /\ state'[z] = state[z] /\ thread'[z] = thread[z]
           /\ beat'[z] = beat[z] /\ members'[z] = members[z],
         holds'[x] \subseteq holds[x],
         \A r \in holds'[x] : beat'[x][r] = beat[x][r],
         net \subseteq net',
         \A m \in net' : m \in net \/ (m.src = x /\ m.res \notin holds'[x])
  PROVE  OneExpires' /\ OneOrder' /\ HoldersWithinCount'
<1>1. \A z \in Proc : \A r : Announced(z, r)' => z # x /\ Announced(z, r)
  BY DEF Announced
<1>2. \A z \in Proc \ {x} : Left(z)' = Left(z)
  BY DEF Left
<1>4. \A m \in net : m.src \in Proc /\ m.res \in Res
  BY DEF CallsInv, CallsTypeOK, Datagram
<1>5. OneExpires'
  <2> SUFFICES ASSUME NEW m \in net', m.st \notin {"ACQUIRING", "ACQUIRED"}
               PROVE  /\ Announced(m.src, m.res)' => m.ttl < Left(m.src)'
                      /\ m.res \notin holds'[m.src]
    BY DEF OneExpires
  <2>1. CASE m.src = x /\ m.res \notin holds'[x]
    BY <1>1, <2>1
  <2>2. CASE m \in net
    <3>1. m.src \in Proc /\ holds'[m.src] \subseteq holds[m.src]
      BY <1>4, <2>2
    <3> QED BY <1>1, <1>2, <2>2, <3>1 DEF OneExpires
  <2> QED BY <2>1, <2>2
<1>6. OneOrder'
  <2> SUFFICES ASSUME NEW q \in Proc, NEW p \in Proc \ {q}, NEW r \in Shared(p, q),
                      Announced(q, r)'
               PROVE  /\ r \in holds'[p] => HearsOne(q, p, r)'
                      /\ Announced(p, r)' => HearsOne(q, p, r)' \/ HearsOne(p, q, r)'
    BY DEF OneOrder, Shared
  <2>1. q # x /\ Announced(q, r) /\ r \in Res
    BY <1>1, ConstantsAssumption DEF Shared
  <2>2. ASSUME HearsOne(q, p, r), r \in holds'[p] \/ p # x PROVE HearsOne(q, p, r)'
    <3>1. beat'[p][r] = beat[p][r] /\ (r \in holds[p] => r \in holds'[p])
      BY <2>2
    <3>2. Left(q)' >= Left(q) /\ members'[q][r][p] = members[q][r][p]
      BY <1>2, <2>1, LeftIs
    <3> QED BY <2>1, <2>2, <3>1, <3>2, HearsOneKept
  <2>3. r \in holds'[p] => HearsOne(q, p, r)'
    <3>1. r \in holds'[p] => r \in holds[p]
      BY <2>1
    <3> QED BY <2>1, <2>2, <3>1 DEF OneOrder
  <2>4. ASSUME Announced(p, r)' PROVE HearsOne(q, p, r)' \/ HearsOne(p, q, r)'
    <3>1. p # x /\ Announced(p, r)
      BY <1>1, <2>4
    <3>2. CASE HearsOne(q, p, r)
      BY <2>2, <3>1, <3>2
    <3>3. CASE HearsOne(p, q, r)
      <4>1. Left(p)' >= Left(p) /\ members'[p][r][q] = members[p][r][q]
        BY <1>2, <3>1, LeftIs
      <4>2. beat'[q][r] = beat[q][r] /\ holds'[q] = holds[q]
        BY <2>1
      <4>3. HearsOne(p, q, r)'
        BY <2>1, <3>3, <4>1, <4>2, HearsOneKept
      <4> QED BY <4>3
    <3> QED BY <2>1, <3>1, <3>2, <3>3 DEF OneOrder
  <2> QED BY <2>3, <2>4
<1>7. HoldersWithinCount'
  <2>1. \A p \in Proc : holds'[p] \subseteq holds[p]
    OBVIOUS
  <2> QED BY <2>1, FewerHolders
<1> QED BY <1>5, <1>6, <1>7

(* setState on one resource leaves the others, and other objects, alone.   *)
LEMMA OnlyOne ==
  ASSUME CallsInv, Ranges, NEW x \in Proc, NEW s \in Res,
         NEW st \in State \cup {"QUERYING"}, SetState(x, {s}, st)
  PROVE  /\ \A z \in Proc \ {x} :
              state'[z] = state[z] /\ thread'[z] = thread[z] /\ beat'[z] = beat[z]
         /\ \A r \in Res \ {s} :
              /\ state'[x][r] = state[x][r] /\ thread'[x][r] = thread[x][r]
              /\ beat'[x][r] = beat[x][r]
<1>1. \A z \in Proc \ {x} : state'[z] = state[z] /\ thread'[z] = thread[z]
  BY DEF SetState, CallsInv, CallsTypeOK
<1>2. \A z \in Proc \ {x} : beat'[z] = beat[z]
  BY SetStateBeats
<1>3. \A r \in Res \ {s} : beat'[x][r] = beat[x][r]
  BY SetStateBeats
<1>4. \A r \in Res \ {s} : state'[x][r] = state[x][r] /\ thread'[x][r] = thread[x][r]
  BY DEF SetState, CallsInv, CallsTypeOK
<1> QED BY <1>1, <1>2, <1>3, <1>4

(* A call begins, tries again, or fails: its resource is not held.         *)
LEMMA UnclaimBySet ==
  ASSUME CallsInv, Ranges, Ranges', OneExpires, OneOrder,
         HoldersWithinCount, NEW x \in Proc, NEW s \in Uses[x], s \notin holds[x],
         NEW st \in State \cup {"QUERYING"}, SetState(x, {s}, st),
         NEW l \in PC \cup QueryPC, l \notin {"arming", "collide"}, NEW t, GoTo(x, l, t),
         members' = members \/ members' = [members EXCEPT ![x][s] = NoMembers[s]],
         called' = [called EXCEPT ![x] = s], holds' = holds
  PROVE  OneExpires' /\ OneOrder' /\ HoldersWithinCount'
<1>0. s \in Res
  BY ConstantsAssumption
<1>1. pc'[x] = l
  BY DEF GoTo, CallsInv, CallsTypeOK
<1>2. \A z \in Proc \ {x} :
        /\ pc'[z] = pc[z] /\ timer'[z] = timer[z] /\ called'[z] = called[z]
        /\ holds'[z] = holds[z] /\ members'[z] = members[z]
  <2>1. \A z \in Proc \ {x} : pc'[z] = pc[z] /\ timer'[z] = timer[z] /\ called'[z] = called[z]
    BY DEF GoTo, Ranges, CallsInv, CallsTypeOK
  <2>2. \A z \in Proc \ {x} : members'[z] = members[z]
    BY DEF Ranges
  <2> QED BY <2>1, <2>2
<1>3. /\ \A z \in Proc \ {x} :
           state'[z] = state[z] /\ thread'[z] = thread[z] /\ beat'[z] = beat[z]
      /\ \A r \in Res \ {s} : beat'[x][r] = beat[x][r]
  BY <1>0, OnlyOne
<1>4. net \subseteq net' /\ \A m \in net' \ net : m.src = x /\ m.res = s
  BY <1>0, SetStateSays
<1>5. \A r \in holds'[x] : beat'[x][r] = beat[x][r]
  BY <1>3 DEF CallsInv, CallsTypeOK
<1>6. \A m \in net' : m \in net \/ (m.src = x /\ m.res \notin holds'[x])
  BY <1>4
<1> QED BY <1>1, <1>2, <1>3, <1>4, <1>5, <1>6, UnclaimStep

(* A step of the caller that only moves it away from a claim.              *)
LEMMA UnclaimByMove ==
  ASSUME CallsInv, Ranges, Ranges', OneExpires, OneOrder,
         HoldersWithinCount, NEW x \in Proc,
         NEW l \in PC \cup QueryPC, l \notin {"arming", "collide"}, NEW t, GoTo(x, l, t),
         UNCHANGED <<state, thread, beat, members, net, called, holds>>
  PROVE  OneExpires' /\ OneOrder' /\ HoldersWithinCount'
<1>1. pc'[x] = l
  BY DEF GoTo, CallsInv, CallsTypeOK
<1>2. \A z \in Proc \ {x} : pc'[z] = pc[z] /\ timer'[z] = timer[z]
  BY DEF GoTo, Ranges, CallsInv, CallsTypeOK
<1> QED BY <1>1, <1>2, UnclaimStep

LEMMA UnclaimByRelease ==
  ASSUME CallsInv, Ranges, Ranges', OneExpires, OneOrder,
         HoldersWithinCount, NEW x \in Proc, NEW s \in Uses[x], ReleaseCall(x, s)
  PROVE  OneExpires' /\ OneOrder' /\ HoldersWithinCount'
<1>0. s \in Res
  BY ConstantsAssumption
<1>1. pc'[x] \notin {"arming", "collide"}
  BY DEF ReleaseCall
<1>2. holds'[x] = holds[x] \ {s}
  BY DEF ReleaseCall, CallsInv, CallsTypeOK
<1>3. \A z \in Proc \ {x} :
        /\ pc'[z] = pc[z] /\ timer'[z] = timer[z] /\ called'[z] = called[z]
        /\ holds'[z] = holds[z] /\ state'[z] = state[z] /\ thread'[z] = thread[z]
        /\ beat'[z] = beat[z] /\ members'[z] = members[z]
  <2>1. \A z \in Proc \ {x} : /\ called'[z] = called[z] /\ holds'[z] = holds[z]
                              /\ state'[z] = state[z] /\ thread'[z] = thread[z]
    BY DEF ReleaseCall, CallsInv, CallsTypeOK
  <2>2. \A z \in Proc \ {x} : beat'[z] = beat[z]
    BY DEF ReleaseCall, Ranges
  <2> QED BY <2>1, <2>2 DEF ReleaseCall
<1>4. \A r \in holds'[x] : beat'[x][r] = beat[x][r]
  <2>1. holds[x] \subseteq Res
    BY DEF CallsInv, CallsTypeOK
  <2> QED BY <1>2, <2>1 DEF ReleaseCall, Ranges
<1>5. net \subseteq net' /\ \A m \in net' : m \in net \/ (m.src = x /\ m.res = s)
  <2>0. "RELEASED" \in State \cup {"QUERYING"}
    BY DEF State
  <2>1. \A m \in Beacons(x, {s}, "RELEASED") : m.src = x /\ m.res = s
    BY <1>0, <2>0, BeaconsFrom
  <2> QED BY <2>1 DEF ReleaseCall
<1>6. \A m \in net' : m \in net \/ (m.src = x /\ m.res \notin holds'[x])
  BY <1>2, <1>5
<1> QED BY <1>1, <1>2, <1>3, <1>4, <1>5, <1>6, UnclaimStep

-----------------------------------------------------------------------------
(* The object announces: from now on it hears whoever claims the resource, *)
(* because all of them beacon before its wait is over.                     *)
LEMMA AnnounceKeeps ==
  ASSUME CallsInv, Ranges, Ranges', OneExpires, OneOrder, InTime,
         HoldersWithinCount, NEW x \in Proc, AnnounceOne(x)
  PROVE  OneExpires' /\ OneOrder' /\ HoldersWithinCount'
<1> DEFINE s == called[x]
<1>1. /\ s \in Res /\ s \notin holds[x]
      /\ pc[x] = "listen" /\ SetState(x, {s}, "ACQUIRING")
      /\ UNCHANGED <<members, called, holds>>
  BY CalledIs DEF AnnounceOne, Acquiring, QueryPC, calls
<1>2. pc' = [pc EXCEPT ![x] = "arming"] /\ timer' = [timer EXCEPT ![x] = 0]
  BY DEF AnnounceOne, GoTo
<1>3. called'[x] = s
  BY <1>1
<1> HIDE DEF s
<1>4. "ACQUIRING" \in State \cup {"QUERYING"}
  BY DEF State
<1>5. /\ \A z \in Proc \ {x} :
           state'[z] = state[z] /\ thread'[z] = thread[z] /\ beat'[z] = beat[z]
      /\ \A r \in Res \ {s} : beat'[x][r] = beat[x][r]
  BY <1>1, <1>4, OnlyOne
<1>6. net \subseteq net' /\ \A m \in net' \ net : m.st = "ACQUIRING"
  BY <1>1, <1>4, SetStateSays
<1>8. /\ \A z \in Proc \ {x} : pc'[z] = pc[z] /\ timer'[z] = timer[z]
      /\ pc'[x] = "arming"
  BY <1>2 DEF Ranges, CallsInv, CallsTypeOK
<1>9. /\ \A r : Announced(x, r)' <=> r = s
      /\ \A z \in Proc \ {x} : Left(z)' = Left(z) /\ \A r : Announced(z, r)' <=> Announced(z, r)
      /\ Left(x)' = AcquiringTime
  BY <1>1, <1>3, <1>8 DEF Announced, Left
<1>11. OneExpires'
  <2> SUFFICES ASSUME NEW m \in net', m.st \notin {"ACQUIRING", "ACQUIRED"}
               PROVE  /\ Announced(m.src, m.res)' => m.ttl < Left(m.src)'
                      /\ m.res \notin holds'[m.src]
    BY DEF OneExpires
  <2>1. m \in net /\ m.src \in Proc /\ m.ttl \in 0 .. MaxDelay
    BY <1>6 DEF CallsInv, CallsTypeOK, Datagram, Ranges
  <2>2. MaxDelay < AcquiringTime
    BY CallTimes, ConstantsAssumption DEF InTime
  <2>3. CASE m.src = x
    BY <1>1, <1>9, <2>1, <2>2, <2>3, CallTimes, ConstantsAssumption DEF OneExpires
  <2>4. CASE m.src # x
    BY <1>1, <1>9, <2>1, <2>4 DEF OneExpires
  <2> QED BY <2>3, <2>4
<1>12. OneOrder'
  <2> SUFFICES ASSUME NEW q \in Proc, NEW p \in Proc \ {q}, NEW r \in Shared(p, q),
                      Announced(q, r)'
               PROVE  /\ r \in holds'[p] => HearsOne(q, p, r)'
                      /\ Announced(p, r)' => HearsOne(q, p, r)' \/ HearsOne(p, q, r)'
    BY DEF OneOrder, Shared
  <2>0. r \in Res
    BY ConstantsAssumption DEF Shared
  <2>1. ASSUME NEW y \in Proc, y # x PROVE HearsOne(x, y, r)'
    <3>1. beat'[y][r] + MaxDelay < Left(x)'
      BY <1>5, <1>9, <2>0, <2>1, BeatsInTime
    <3> QED BY <3>1 DEF HearsOne
  <2>2. CASE q = x
    BY <2>1, <2>2
  <2>3. CASE p = x /\ r = s
    BY <1>1, <2>1, <2>3
  <2>4. CASE q # x /\ ~ (p = x /\ r = s)
    <3>1. Announced(q, r) /\ (Announced(p, r)' => p # x /\ Announced(p, r))
      BY <1>9, <2>4
    <3>2. beat'[p][r] = beat[p][r] /\ beat'[q][r] = beat[q][r]
      BY <1>5, <2>0, <2>4
    <3>3. ASSUME HearsOne(q, p, r) PROVE HearsOne(q, p, r)'
      <4>1. Left(q)' >= Left(q) /\ members' = members /\ holds' = holds
        BY <1>1, <1>9, <2>4, LeftIs
      <4> QED BY <1>6, <2>0, <3>2, <3>3, <4>1, HearsOneKept
    <3>4. ASSUME HearsOne(p, q, r), p # x PROVE HearsOne(p, q, r)'
      <4>1. Left(p)' >= Left(p) /\ members' = members /\ holds' = holds
        BY <1>1, <1>9, <3>4, LeftIs
      <4> QED BY <1>6, <2>0, <3>2, <3>4, <4>1, HearsOneKept
    <3> QED BY <1>1, <3>1, <3>3, <3>4 DEF OneOrder
  <2> QED BY <2>2, <2>3, <2>4
<1>13. HoldersWithinCount'
  BY <1>1 DEF HoldersWithinCount
<1> QED BY <1>11, <1>12, <1>13

(* The wait for collisions begins: nothing it hears is missed.             *)
LEMMA ArmKeeps ==
  ASSUME CallsInv, Ranges, Ranges', OneExpires, OneOrder,
         HoldersWithinCount, NEW x \in Proc, Arm(x), UNCHANGED calls
  PROVE  OneExpires' /\ OneOrder' /\ HoldersWithinCount'
<1>1. /\ UNCHANGED <<state, thread, beat, members, net, called, holds>>
      /\ pc[x] = "arming"
  BY DEF Arm, calls
<1>2. PICK t \in Late(AcquiringTime) :
        pc' = [pc EXCEPT ![x] = "collide"] /\ timer' = [timer EXCEPT ![x] = t]
  BY DEF Arm, GoTo
<1>3. t \in Nat /\ t >= AcquiringTime
  BY CallTimes
<1>4. /\ \A z \in Proc : \A r : Announced(z, r)' <=> Announced(z, r)
      /\ \A z \in Proc : Left(z)' >= Left(z)
  <2>1. /\ \A z \in Proc \ {x} : pc'[z] = pc[z] /\ timer'[z] = timer[z]
        /\ pc'[x] = "collide" /\ timer'[x] = t
    BY <1>2 DEF Ranges, CallsInv, CallsTypeOK
  <2>2. \A z \in Proc \ {x} : Left(z)' = Left(z) /\ Left(z) \in Nat
    BY <2>1, LeftIs DEF Left
  <2>3. Left(x) = AcquiringTime /\ Left(x)' = t
    BY <1>1, <2>1 DEF Left
  <2> QED BY <1>1, <1>3, <2>1, <2>2, <2>3, CallTimes DEF Announced
<1>5. ASSUME NEW q \in Proc, NEW p \in Proc, NEW r \in Res, HearsOne(q, p, r)
      PROVE  HearsOne(q, p, r)'
  BY <1>1, <1>4, <1>5, HearsOneKept
<1>6. OneOrder'
  <2>1. \A p, q \in Proc : Shared(p, q) \subseteq Res
    BY ConstantsAssumption DEF Shared
  <2> SUFFICES ASSUME NEW q \in Proc, NEW p \in Proc \ {q}, NEW r \in Shared(p, q),
                      Announced(q, r)'
               PROVE  /\ r \in holds'[p] => HearsOne(q, p, r)'
                      /\ Announced(p, r)' => HearsOne(q, p, r)' \/ HearsOne(p, q, r)'
    BY DEF OneOrder, Shared
  <2>2. /\ r \in holds[p] => HearsOne(q, p, r)
        /\ Announced(p, r) => HearsOne(q, p, r) \/ HearsOne(p, q, r)
    BY <1>4 DEF OneOrder
  <2> QED BY <1>1, <1>4, <1>5, <2>1, <2>2
<1>7. OneExpires'
  <2> SUFFICES ASSUME NEW m \in net, m.st \notin {"ACQUIRING", "ACQUIRED"}
               PROVE  /\ Announced(m.src, m.res) => m.ttl < Left(m.src)'
                      /\ m.res \notin holds[m.src]
    <3>1. \A m \in net : m.src \in Proc
      BY DEF CallsInv, CallsTypeOK, Datagram
    <3> QED BY <1>1, <1>4, <3>1 DEF OneExpires
  <2>1. m.src \in Proc /\ m.ttl \in Nat
    BY ConstantsAssumption DEF CallsInv, CallsTypeOK, Datagram, Ranges
  <2>2. Left(m.src) \in Nat /\ Left(m.src)' \in Nat /\ Left(m.src)' >= Left(m.src)
    BY <1>4, <2>1, LeftIs, CallTimes DEF Left, Ranges
  <2> QED BY <2>1, <2>2 DEF OneExpires
<1>8. HoldersWithinCount'
  BY <1>1 DEF HoldersWithinCount
<1> QED BY <1>6, <1>7, <1>8

(* The object acquires: it knows every holder, and there is room; whoever  *)
(* announced meanwhile and was not heard has heard of it.                  *)
LEMMA AcquireKeeps ==
  ASSUME CallsInv, Ranges, Ranges', OneExpires, OneOrder,
         HoldersWithinCount, NEW x \in Proc, AcquireOne(x)
  PROVE  OneExpires' /\ OneOrder' /\ HoldersWithinCount'
<1> DEFINE s == called[x]
<1>1. /\ s \in Uses[x] /\ s \in Res /\ s \notin holds[x]
      /\ SetState(x, {s}, "ACQUIRED") /\ Acquirable(x, s)
      /\ UNCHANGED <<members, called>>
      /\ holds' = [holds EXCEPT ![x] = @ \cup {s}]
  BY CalledIs DEF AcquireOne, Acquiring, QueryPC
<1>2. /\ pc' = [pc EXCEPT ![x] = "idle"] /\ timer' = [timer EXCEPT ![x] = 0]
      /\ Announced(x, s) /\ Left(x) = 0
  BY DEF AcquireOne, GoTo, Announced, Left
<1> HIDE DEF s
<1>3. "ACQUIRED" \in State \cup {"QUERYING"}
  BY DEF State
<1>4. thread[x][s] = "beaconing"
  BY <1>1, <1>2, AnnouncedIs
<1>5. /\ \A z \in Proc \ {x} :
           state'[z] = state[z] /\ thread'[z] = thread[z] /\ beat'[z] = beat[z]
      /\ \A r \in Res : beat'[x][r] = beat[x][r]
  <2>1. \A r \in Res : beat'[x][r] = beat[x][r]
    BY <1>1, <1>3, <1>4, SetStateBeats
  <2> QED BY <1>1, <1>3, <2>1, OnlyOne
<1>6. net \subseteq net' /\ \A m \in net' \ net : m.st = "ACQUIRED"
  BY <1>1, <1>3, SetStateSays
<1>7. /\ \A z \in Proc \ {x} : pc'[z] = pc[z] /\ timer'[z] = timer[z] /\ holds'[z] = holds[z]
      /\ pc'[x] = "idle" /\ holds'[x] = holds[x] \cup {s}
  BY <1>1, <1>2 DEF Ranges, CallsInv, CallsTypeOK
<1>8. /\ \A r : ~ Announced(x, r)'
      /\ \A z \in Proc \ {x} : Left(z)' = Left(z) /\ \A r : Announced(z, r)' <=> Announced(z, r)
  BY <1>1, <1>7 DEF Announced, Left
<1>10. OneExpires'
  <2> SUFFICES ASSUME NEW m \in net', m.st \notin {"ACQUIRING", "ACQUIRED"}
               PROVE  /\ Announced(m.src, m.res)' => m.ttl < Left(m.src)'
                      /\ m.res \notin holds'[m.src]
    BY DEF OneExpires
  <2>1. m \in net /\ m.src \in Proc /\ m.ttl \in Nat
    BY <1>6, ConstantsAssumption DEF CallsInv, CallsTypeOK, Datagram, Ranges
  <2>2. CASE m.src = x
    <3>1. m.res # s
      BY <1>2, <2>1, <2>2 DEF OneExpires
    <3> QED BY <1>7, <1>8, <2>1, <2>2, <3>1 DEF OneExpires
  <2>3. CASE m.src # x
    BY <1>7, <1>8, <2>1, <2>3 DEF OneExpires
  <2> QED BY <2>2, <2>3
<1>11. OneOrder'
  <2> SUFFICES ASSUME NEW q \in Proc, NEW p \in Proc \ {q}, NEW r \in Shared(p, q),
                      Announced(q, r)'
               PROVE  /\ r \in holds'[p] => HearsOne(q, p, r)'
                      /\ Announced(p, r)' => HearsOne(q, p, r)' \/ HearsOne(p, q, r)'
    BY DEF OneOrder, Shared
  <2>0. r \in Res /\ q # x /\ Announced(q, r) /\ r \in Shared(q, p)
    BY <1>8, ConstantsAssumption DEF Shared
  <2>1. \A z \in Proc : beat'[z][r] = beat[z][r] /\ holds[z] \subseteq holds'[z]
    BY <1>5, <1>7, <2>0
  <2>2. ASSUME NEW y \in Proc, NEW z \in Proc \ {x}, HearsOne(z, y, r)
        PROVE  HearsOne(z, y, r)'
    <3>1. Left(z)' >= Left(z)
      BY <1>8, LeftIs
    <3> QED BY <1>1, <1>6, <2>0, <2>1, <2>2, <3>1, HearsOneKept
  <2>3. CASE r \in holds[p]
    <3>1. HearsOne(q, p, r)
      BY <2>0, <2>3 DEF OneOrder
    <3> QED BY <2>0, <2>2, <3>1
  <2>4. CASE p = x /\ r = s
    <3>1. HearsOne(q, x, s) \/ HearsOne(x, q, s)
      BY <1>2, <2>0, <2>4 DEF OneOrder
    <3>2. r \notin holds[q]
      BY <2>0, ClaimIsBeaconed
    <3>3. ~ HearsOne(x, q, s)
      BY <1>2, <2>0, <2>4, <3>2, HeardAtLast
    <3>4. HearsOne(q, p, r)'
      BY <2>0, <2>2, <2>4, <3>1, <3>3
    <3> QED BY <3>4
  <2>5. CASE r \notin holds[p] /\ ~ (p = x /\ r = s)
    <3>1. r \notin holds'[p]
      BY <1>7, <2>5
    <3>2. ASSUME Announced(p, r)' PROVE HearsOne(q, p, r)' \/ HearsOne(p, q, r)'
      <4>1. p # x /\ Announced(p, r)
        BY <1>8, <3>2
      <4>2. HearsOne(q, p, r) \/ HearsOne(p, q, r)
        BY <2>0, <4>1 DEF OneOrder
      <4> QED BY <2>0, <2>2, <4>1, <4>2
    <3> QED BY <3>1, <3>2
  <2> QED BY <2>3, <2>4, <2>5
<1>12. HoldersWithinCount'
  <2>1. ASSUME NEW p \in HoldersOf(s, Count[x][s]) PROVE members[x][s][p] = "ACQUIRED"
    <3>1. p \in Proc /\ s \in holds[p] /\ p # x /\ Count[p][s] = Count[x][s]
      BY <1>1 DEF HoldersOf
    <3>2. s \in Shared(p, x)
      BY <1>1, <3>1 DEF Shared, Ranges
    <3>3. HearsOne(x, p, s)
      BY <1>2, <3>1, <3>2 DEF OneOrder
    <3> QED BY <1>1, <1>2, <3>1, <3>3, HeardAtLast
  <2>2. \A p \in Proc : holds'[p] = IF p = x THEN holds[p] \cup {s} ELSE holds[p]
    BY <1>7
  <2> QED BY <1>1, <2>1, <2>2, OneMoreHolder
<1> QED BY <1>10, <1>11, <1>12

-----------------------------------------------------------------------------
(* The steps of the other threads leave every claim as it is, or drop it.  *)
(* Such a step keeps the order if it keeps what each object hears.         *)
LEMMA OrderKept ==
  ASSUME OneOrder, UNCHANGED holds,
         \A z \in Proc : \A r \in Res : Announced(z, r)' => Announced(z, r),
         \A q \in Proc : \A p \in Proc \ {q} : \A r \in Shared(p, q) :
           Announced(q, r)' /\ (r \in holds[p] \/ Announced(p, r)') /\ HearsOne(q, p, r)
             => HearsOne(q, p, r)'
  PROVE  OneOrder'
<1> SUFFICES ASSUME NEW q \in Proc, NEW p \in Proc \ {q}, NEW r \in Shared(p, q),
                    Announced(q, r)'
             PROVE  /\ r \in holds'[p] => HearsOne(q, p, r)'
                    /\ Announced(p, r)' => HearsOne(q, p, r)' \/ HearsOne(p, q, r)'
  BY DEF OneOrder, Shared
<1>1. r \in Res /\ r \in Shared(q, p)
  BY ConstantsAssumption DEF Shared
<1>2. r \in holds'[p] => HearsOne(q, p, r)'
  BY <1>1 DEF OneOrder
<1>3. ASSUME Announced(p, r)' PROVE HearsOne(q, p, r)' \/ HearsOne(p, q, r)'
  <2>1. HearsOne(q, p, r) \/ HearsOne(p, q, r)
    BY <1>1, <1>3 DEF OneOrder
  <2>2. HearsOne(q, p, r) => HearsOne(q, p, r)'
    BY <1>3
  <2>3. HearsOne(p, q, r) => HearsOne(p, q, r)'
    BY <1>1, <1>3
  <2> QED BY <2>1, <2>2, <2>3
<1> QED BY <1>2, <1>3

(* A thread beacons: what is due goes out, and is heard in time.           *)
LEMMA BeaconKeeps ==
  ASSUME CallsInv, Ranges, Ranges', OneExpires, OneOrder,
         HoldersWithinCount, NEW x \in Proc, NEW s \in Uses[x], Beacon(x, s),
         UNCHANGED calls
  PROVE  OneExpires' /\ OneOrder' /\ HoldersWithinCount'
<1>0. s \in Res /\ state[x][s] \in State \cup {"QUERYING"}
  BY ConstantsAssumption DEF CallsInv, CallsTypeOK
<1>1. /\ UNCHANGED <<timer, state, members, called, holds>>
      /\ beat[x][s] = 0 /\ net \subseteq net'
      /\ \A m \in net' \ net : m.src = x /\ m.res = s /\ m.st = state[x][s]
  BY <1>0, BeaconsFrom DEF Beacon, calls
<1>2. /\ \A z \in Proc : \A r : Announced(z, r)' <=> Announced(z, r)
      /\ \A z \in Proc : \A r : Announced(z, r) => pc'[z] = pc[z]
  BY <1>1 DEF Beacon, Announced, CallsInv, CallsTypeOK
<1>3. \A z \in Proc : \A r \in Res : Announced(z, r) => Left(z)' = Left(z)
  BY <1>1, <1>2 DEF Left
<1>5. OneExpires'
  <2> SUFFICES ASSUME NEW m \in net', m.st \notin {"ACQUIRING", "ACQUIRED"}
               PROVE  /\ Announced(m.src, m.res)' => m.ttl < Left(m.src)'
                      /\ m.res \notin holds[m.src]
    BY <1>1 DEF OneExpires
  <2>1. CASE m \in net
    <3>1. m.src \in Proc /\ m.res \in Res
      BY <2>1 DEF CallsInv, CallsTypeOK, Datagram
    <3> QED BY <1>2, <1>3, <2>1, <3>1 DEF OneExpires
  <2>2. CASE m \notin net
    <3>1. m.src = x /\ m.res = s /\ state[x][s] \notin {"ACQUIRING", "ACQUIRED"}
      BY <1>1, <2>2
    <3>2. ~ ClaimsOne(x, s)
      BY <1>0, <3>1, ClaimIsBeaconed
    <3> QED BY <1>2, <3>1, <3>2 DEF ClaimsOne
  <2> QED BY <2>1, <2>2
<1>6. ASSUME NEW q \in Proc, NEW p \in Proc \ {q}, NEW r \in Shared(p, q),
             Announced(q, r)', r \in holds[p] \/ Announced(p, r)', HearsOne(q, p, r)
      PROVE  HearsOne(q, p, r)'
  <2>0. /\ r \in Res /\ r \in Uses[q] /\ Left(q)' = Left(q) /\ Left(q) \in Nat
        /\ ClaimsOne(p, r) /\ pc[q] \in {"arming", "collide"}
    BY <1>2, <1>3, <1>6, ConstantsAssumption, LeftIs DEF Shared, ClaimsOne, Announced
  <2>1. CASE x = p /\ s = r
    <3> DEFINE m == [src |-> p, dst |-> q, res |-> r, st |-> state[p][r], ttl |-> MaxDelay]
    <3>1. state[p][r] = IF r \in holds[p] THEN "ACQUIRED" ELSE "ACQUIRING"
      BY <2>0, ClaimIsBeaconed
    <3>2. m \in net'
      <4>1. m \in Beacons(p, {r}, state[p][r])
        BY <2>0 DEF Beacons, Up
      <4> QED BY <2>1, <3>1, <4>1 DEF Beacon
    <3>3. m.src = p /\ m.dst = q /\ m.res = r /\ m.st = state[p][r] /\ m.ttl = MaxDelay
      OBVIOUS
    <3> HIDE DEF m
    <3>4. CASE MaxDelay < Left(q)
      BY <1>1, <2>0, <3>1, <3>2, <3>3, <3>4 DEF HearsOne
    <3>5. CASE ~ (MaxDelay < Left(q))
      <4>1. ~ (beat[p][r] + MaxDelay < Left(q))
        BY <1>1, <2>1, <3>5, ConstantsAssumption
      <4> QED BY <1>1, <1>6, <2>0, <4>1 DEF HearsOne
    <3> QED BY <3>4, <3>5
  <2>2. CASE ~ (x = p /\ s = r)
    <3>1. beat'[p][r] = beat[p][r]
      <4>1. beat' = beat \/ \E b : beat' = [beat EXCEPT ![x][s] = b]
        BY DEF Beacon
      <4>2. beat \in [Proc -> [Res -> 0 .. BeaconTime + MaxLag]]
        BY DEF Ranges
      <4> QED BY <2>0, <2>2, <4>1, <4>2
    <3>2. Left(q)' >= Left(q)
      BY <2>0
    <3> QED BY <1>1, <1>6, <2>0, <3>1, <3>2, HearsOneKept
  <2> QED BY <2>1, <2>2
<1>7. OneOrder'
  BY <1>1, <1>2, <1>6, OrderKept
<1>8. HoldersWithinCount'
  BY <1>1 DEF HoldersWithinCount
<1> QED BY <1>5, <1>7, <1>8

(* A packet is handled: it interrupts a claim, or enters its sender.       *)
LEMMA HandleKeeps ==
  ASSUME CallsInv, Ranges, Ranges', OneExpires, OneOrder, InTime,
         HoldersWithinCount, NEW n \in net, Handle(n)
  PROVE  OneExpires' /\ OneOrder' /\ HoldersWithinCount'
<1>0. n.src \in Proc /\ n.dst \in Proc /\ n.res \in Res /\ n.st \in State \cup {"QUERYING"}
  BY DEF CallsInv, CallsTypeOK, Datagram
<1>1. UNCHANGED <<state, thread, beat, called, holds>> /\ net' = net \ {n}
  BY DEF Handle, calls
<1>2. /\ \A z \in Proc : z # n.dst => pc'[z] = pc[z] /\ timer'[z] = timer[z]
      /\ \A r : Announced(n.dst, r)' =>
           ~ Interrupts(n) /\ pc'[n.dst] = pc[n.dst] /\ timer'[n.dst] = timer[n.dst]
  <2>1. CASE Interrupts(n)
    BY <1>0, <2>1 DEF Handle, GoTo, Announced, Ranges, CallsInv, CallsTypeOK
  <2>2. CASE ~ Interrupts(n) /\ pc[n.dst] = "short"
    BY <1>0, <2>2 DEF Handle, GoTo, Announced, Ranges, CallsInv, CallsTypeOK
  <2>3. CASE ~ Interrupts(n) /\ pc[n.dst] # "short"
    BY <2>3 DEF Handle
  <2> QED BY <2>1, <2>2, <2>3
<1>3. \A z \in Proc : \A r :
        Announced(z, r)' => Announced(z, r) /\ Left(z)' = Left(z)
  <2>1. \A z \in Proc : \A r :
          Announced(z, r)' => pc'[z] = pc[z] /\ timer'[z] = timer[z]
    BY <1>2
  <2> QED BY <1>1, <2>1 DEF Announced, Left
<1>4. HoldersWithinCount'
  BY <1>1 DEF HoldersWithinCount
<1>5. OneExpires'
  <2>1. \A m \in net' : m \in net /\ m.src \in Proc
    BY <1>1 DEF CallsInv, CallsTypeOK, Datagram
  <2> QED BY <1>1, <1>3, <2>1 DEF OneExpires
<1>6. ASSUME NEW q \in Proc, NEW p \in Proc \ {q}, NEW r \in Shared(p, q),
             Announced(q, r)', r \in holds[p] \/ Announced(p, r)', HearsOne(q, p, r)
      PROVE  HearsOne(q, p, r)'
  <2>0. /\ r \in Res /\ Count[p][r] = Count[q][r] /\ Announced(q, r) /\ Left(q)' = Left(q)
        /\ state[q][r] = "ACQUIRING"
    <3>1. r \in Res /\ Count[p][r] = Count[q][r]
      BY ConstantsAssumption DEF Shared
    <3>2. Announced(q, r) /\ Left(q)' = Left(q)
      BY <1>3, <1>6
    <3> QED BY <3>1, <3>2, AnnouncedIs
  <2>1. CASE pc[q] = "arming"
    <3>1. beat[p][r] + MaxDelay < Left(q)
      BY <2>0, <2>1, BeatsInTime DEF Left
    <3> QED BY <1>1, <2>0, <3>1 DEF HearsOne
  <2>2. CASE pc[q] = "collide" /\ n.src = p /\ n.dst = q /\ n.res = r
    <3>1. n.st # "ACQUIRING"
      BY <1>2, <1>6, <2>0, <2>2 DEF Interrupts
    <3>2. members'[q][r][p] = n.st
      <4>1. members' = [members EXCEPT ![q][r][p] = n.st]
        BY <2>0, <2>2 DEF Handle, UpdatedByAny
      <4>2. members \in [Proc -> [Res -> [Proc -> State \cup {"QUERYING", "NONE"}]]]
        BY DEF Ranges
      <4> QED BY <2>0, <4>1, <4>2
    <3>3. CASE r \in holds[p]
      <4>1. n.st = "ACQUIRED"
        BY <2>2, <3>1, <3>3 DEF OneExpires
      <4> QED BY <1>1, <3>2, <3>3, <4>1 DEF HearsOne
    <3>4. CASE r \notin holds[p]
      BY <1>1, <1>6, <2>0, <3>1, <3>4 DEF HearsOne
    <3> QED BY <3>3, <3>4
  <2>3. CASE ~ (n.src = p /\ n.dst = q /\ n.res = r)
    <3>1. members'[q][r][p] = members[q][r][p]
      <4>1. \/ members' = members
            \/ members' = [members EXCEPT ![n.dst][n.res][n.src] = n.st]
        BY DEF Handle, UpdatedByAny
      <4>2. members \in [Proc -> [Res -> [Proc -> State \cup {"QUERYING", "NONE"}]]]
        BY DEF Ranges
      <4>3. CASE n.dst # q
        BY <1>0, <2>0, <4>1, <4>2, <4>3
      <4>4. CASE n.dst = q /\ n.res # r
        BY <1>0, <2>0, <4>1, <4>2, <4>4
      <4>5. CASE n.dst = q /\ n.res = r /\ n.src # p
        BY <1>0, <2>0, <4>1, <4>2, <4>5
      <4> QED BY <2>3, <4>3, <4>4, <4>5
    <3>2. \A m \in net : m.src = p /\ m.dst = q /\ m.res = r => m \in net'
      BY <1>1, <2>3
    <3>3. Left(q)' >= Left(q)
      BY <2>0, LeftIs
    <3> QED BY <1>1, <1>6, <2>0, <3>1, <3>2, <3>3, HearsOneKept
  <2> QED BY <2>0, <2>1, <2>2, <2>3 DEF Announced
<1>7. OneOrder'
  BY <1>1, <1>3, <1>6, OrderKept
<1> QED BY <1>4, <1>5, <1>7

(* A tick: packet, beat and wait run down together.                        *)
LEMMA TickKeeps ==
  ASSUME CallsInv, Ranges, Ranges', OneExpires, OneOrder,
         HoldersWithinCount, Tick, UNCHANGED calls
  PROVE  OneExpires' /\ OneOrder' /\ HoldersWithinCount'
<1>1. UNCHANGED <<pc, state, thread, members, called, holds>>
  BY DEF Tick, calls
<1>2. \A z \in Proc : \A r : Announced(z, r)' <=> Announced(z, r)
  BY <1>1 DEF Announced
<1>3. \A z \in Proc : \A r : Announced(z, r) =>
        Left(z) > 0 /\ Left(z) \in Nat /\ Left(z)' = Left(z) - 1
  <2> SUFFICES ASSUME NEW z \in Proc, NEW r, Announced(z, r)
               PROVE  Left(z) > 0 /\ Left(z) \in Nat /\ Left(z)' = Left(z) - 1
    OBVIOUS
  <2>1. pc[z] = "collide" /\ timer[z] > 0 /\ timer[z] \in Nat
    BY DEF Tick, Quiet, Announced, ReadyPC, TimedPC, Ranges
  <2>2. timer'[z] = timer[z] - 1
    BY <2>1 DEF Tick, Minus1
  <2> QED BY <1>1, <2>1, <2>2 DEF Left
<1>4. ASSUME NEW m \in net
      PROVE  /\ m.ttl \in Nat /\ m.src \in Proc
             /\ [m EXCEPT !.ttl = @ - 1] \in net'
             /\ [m EXCEPT !.ttl = @ - 1].src = m.src /\ [m EXCEPT !.ttl = @ - 1].dst = m.dst
             /\ [m EXCEPT !.ttl = @ - 1].res = m.res /\ [m EXCEPT !.ttl = @ - 1].st = m.st
             /\ [m EXCEPT !.ttl = @ - 1].ttl = m.ttl - 1
  <2>1. m \in Datagram /\ m.ttl \in Nat
    BY ConstantsAssumption DEF CallsInv, CallsTypeOK, Ranges
  <2>2. [m EXCEPT !.ttl = @ - 1] \in net'
    BY DEF Tick
  <2> QED BY <2>1, <2>2 DEF Datagram
<1>5. HoldersWithinCount'
  BY <1>1 DEF HoldersWithinCount
<1>6. OneExpires'
  <2> SUFFICES ASSUME NEW k \in net', k.st \notin {"ACQUIRING", "ACQUIRED"}
               PROVE  /\ Announced(k.src, k.res) => k.ttl < Left(k.src)'
                      /\ k.res \notin holds[k.src]
    <3>1. \A k \in net' : k.src \in Proc
      BY <1>4 DEF Tick
    <3> QED BY <1>1, <1>2, <3>1 DEF OneExpires
  <2>1. PICK m \in net : k = [m EXCEPT !.ttl = @ - 1]
    BY DEF Tick
  <2>2. /\ k.src = m.src /\ k.res = m.res /\ k.st = m.st /\ k.ttl = m.ttl - 1
        /\ m.ttl \in Nat /\ m.src \in Proc
    BY <1>4, <2>1
  <2>3. m.res \notin holds[m.src] /\ (Announced(m.src, m.res) => m.ttl < Left(m.src))
    BY <2>2 DEF OneExpires
  <2> QED BY <1>3, <2>2, <2>3
<1>7. ASSUME NEW q \in Proc, NEW p \in Proc \ {q}, NEW r \in Shared(p, q),
             Announced(q, r)', r \in holds[p] \/ Announced(p, r)', HearsOne(q, p, r)
      PROVE  HearsOne(q, p, r)'
  <2>0. /\ r \in Res /\ r \in Uses[p] /\ ClaimsOne(p, r) /\ Announced(q, r)
        /\ Left(q) > 0 /\ Left(q) \in Nat /\ Left(q)' = Left(q) - 1
    BY <1>2, <1>3, <1>7, ConstantsAssumption DEF Shared, ClaimsOne
  <2>1. ASSUME NEW m \in net, m.src = p, m.dst = q, m.res = r,
               m.st \in IF r \in holds[p] THEN {"ACQUIRING", "ACQUIRED"} ELSE {"ACQUIRING"},
               m.ttl < Left(q)
        PROVE  HearsOne(q, p, r)'
    <3> DEFINE k == [m EXCEPT !.ttl = @ - 1]
    <3>1. /\ k \in net' /\ k.src = p /\ k.dst = q /\ k.res = r /\ k.st = m.st
          /\ k.ttl = m.ttl - 1 /\ m.ttl \in Nat
      BY <1>4, <2>1
    <3> HIDE DEF k
    <3>2. k.ttl < Left(q)'
      BY <2>0, <2>1, <3>1
    <3> QED BY <1>1, <2>1, <3>1, <3>2 DEF HearsOne
  <2>2. CASE beat[p][r] + MaxDelay < Left(q)
    <3>1. thread[p][r] = "beaconing"
      BY <2>0, ClaimIsBeaconed
    <3>2. beat[p][r] > 0 /\ beat[p][r] \in Nat
      BY <2>0, <3>1, ConstantsAssumption DEF Tick, Quiet, Threads, Ranges
    <3>3. beat'[p][r] = beat[p][r] - 1
      BY <2>0, <3>2 DEF Tick, Minus1
    <3> QED BY <2>0, <2>2, <3>2, <3>3, ConstantsAssumption DEF HearsOne
  <2>3. CASE r \in holds[p] /\ members[q][r][p] = "ACQUIRED"
    BY <1>1, <2>3 DEF HearsOne
  <2> QED BY <1>7, <2>1, <2>2, <2>3 DEF HearsOne
<1>8. OneOrder'
  BY <1>1, <1>2, <1>7, OrderKept
<1> QED BY <1>5, <1>6, <1>8

-----------------------------------------------------------------------------
LEMMA ExclusionStep ==
  ASSUME ExclusionInv, ~ AsksHeld, ~ Reuse, InTime, [CallsNext]_lockVars
  PROVE  ExclusionInv'
<1> DEFINE Kept == OneExpires' /\ OneOrder' /\ HoldersWithinCount'
<1> USE DEF ExclusionInv, calls
<1>0. CallsInv' /\ Ranges'
  BY CallsInvStep, RangesStep, InTimeIsPrompt
<1>1. /\ \A p \in Proc : [called EXCEPT ![p] = called[p]] = called
      /\ \A p \in Proc : Acquiring(p) => called[p] \in Uses[p] /\ called[p] \notin holds[p]
      /\ {"IDLE", "STARTING"} \subseteq State
      /\ {"idle", "starting", "listen", "backoff"} \cup QueryPC \subseteq (PC \cup QueryPC)
      /\ ({"idle", "starting", "listen", "backoff"} \cup QueryPC) \cap {"arming", "collide"} = {}
  <2>1. \A p \in Proc : Acquiring(p) => called[p] \in Uses[p] /\ called[p] \notin holds[p]
    BY CalledIs
  <2> QED BY <2>1 DEF CallsInv, CallsTypeOK, State, PC, TimedPC, ReadyPC, QueryPC
<1>2. ASSUME NEW p \in Proc, NEW r \in Uses[p], AcquireCall(p, r) PROVE Kept
  <2>1. r \notin holds[p]
    BY <1>2 DEF AcquireCall, MayAsk
  <2> QED BY <1>0, <1>1, <1>2, <2>1, UnclaimBySet DEF AcquireCall, StartFor
<1>3. ASSUME NEW p \in Proc, NEW r \in Uses[p], QueryCall(p, r) PROVE Kept
  <2>1. r \notin holds[p]
    BY <1>3 DEF QueryCall, MayAsk
  <2> QED BY <1>0, <1>1, <1>3, <2>1, UnclaimBySet DEF QueryCall, QueryPC
<1>4. ASSUME NEW p \in Proc, TryAgain(p) PROVE Kept
  <2>1. called[p] \in Uses[p] /\ called[p] \notin holds[p]
    BY <1>1, <1>4 DEF TryAgain, Acquiring, QueryPC
  <2> QED BY <1>0, <1>1, <1>4, <2>1, UnclaimBySet DEF TryAgain, StartFor
<1>5. ASSUME NEW p \in Proc, ResetOne(p) PROVE Kept
  <2>1. PICK t \in BackoffTimes : GoTo(p, "backoff", t)
    BY <1>5 DEF ResetOne
  <2>2. called[p] \in Uses[p] /\ called[p] \notin holds[p]
    BY <1>1, <1>5 DEF ResetOne, Fails, Acquiring, QueryPC
  <2> QED BY <1>0, <1>1, <1>5, <2>1, <2>2, UnclaimBySet DEF ResetOne
<1>6. ASSUME NEW p \in Proc, GiveUpOne(p) \/ QueryReturns(p) PROVE Kept
  BY <1>0, <1>1, <1>6, UnclaimByMove DEF GiveUpOne, QueryReturns
<1>7. ASSUME NEW p \in Proc, Listen(p) \/ Defer(p), UNCHANGED calls PROVE Kept
  <2>1. PICK l \in {"listen", "backoff"}, t \in Nat : GoTo(p, l, t)
    BY <1>7, CallTimes DEF Listen, Defer
  <2> QED BY <1>0, <1>1, <1>7, <2>1, UnclaimByMove DEF Listen, Defer
<1>8. ASSUME NEW p \in Proc,
             \/ TryAgain(p) \/ AnnounceOne(p) \/ AcquireOne(p) \/ ResetOne(p)
             \/ GiveUpOne(p) \/ QueryReturns(p)
             \/ (Listen(p) \/ Arm(p) \/ Defer(p)) /\ UNCHANGED calls
      PROVE  Kept
  BY <1>0, <1>4, <1>5, <1>6, <1>7, <1>8, AnnounceKeeps, AcquireKeeps, ArmKeeps
<1>9. ASSUME NEW p \in Proc, NEW r \in Uses[p],
             \/ AcquireCall(p, r) \/ ReleaseCall(p, r) \/ QueryCall(p, r)
             \/ Beacon(p, r) /\ UNCHANGED calls
      PROVE  Kept
  BY <1>0, <1>2, <1>3, <1>9, UnclaimByRelease, BeaconKeeps
<1>10. ASSUME NEW m \in net, Handle(m) PROVE Kept
  BY <1>0, <1>10, HandleKeeps
<1>11. ASSUME Tick, UNCHANGED calls PROVE Kept
  BY <1>0, <1>11, TickKeeps
<1>12. ASSUME \/ UNCHANGED lockVars
              \/ UNCHANGED calls /\ \E p \in Proc : \E r \in Uses[p] : Park(p, r)
       PROVE  Kept
  <2>1. /\ UNCHANGED <<pc, timer, state, beat, members, net, called, holds>>
        /\ \A z \in Proc : \A r : Announced(z, r)' <=> Announced(z, r)
    BY <1>12 DEF lockVars, vars, Park, Announced
  <2>2. OneExpires' /\ HoldersWithinCount'
    BY <2>1 DEF OneExpires, Announced, Left, HoldersWithinCount
  <2>3. \A q \in Proc : \A p \in Proc : \A r \in Shared(p, q) :
          HearsOne(q, p, r) => HearsOne(q, p, r)'
    BY <2>1 DEF HearsOne, Left
  <2>4. OneOrder'
    BY <2>1, <2>3, OrderKept
  <2> QED BY <2>2, <2>4
<1> HIDE DEF Kept
<1>13. Kept
  BY <1>8, <1>9, <1>10, <1>11, <1>12 DEF CallsNext
<1> QED BY <1>0, <1>13 DEF Kept

LEMMA InitExclusion == CallsInit => ExclusionInv
<1> SUFFICES ASSUME CallsInit PROVE ExclusionInv
  OBVIOUS
<1>1. /\ pc = [p \in Proc |-> "idle"] /\ holds = [p \in Proc |-> {}] /\ net = {}
      /\ timer = [p \in Proc |-> 0] /\ beat \in [Proc -> [Res -> 0 .. MaxLag]]
      /\ members = [p \in Proc |-> NoMembers]
  BY DEF CallsInit, Init
<1>2. \A p \in Proc : ~ Acquiring(p) /\ \A r : ~ Announced(p, r)
  BY <1>1 DEF Acquiring, Announced
<1>3. Ranges
  <2>1. members \in [Proc -> [Res -> [Proc -> State \cup {"QUERYING", "NONE"}]]]
    BY <1>1 DEF NoMembers
  <2>2. beat \in [Proc -> [Res -> 0 .. BeaconTime + MaxLag]]
    BY <1>1, CallTimes
  <2> QED BY <1>1, <1>2, <2>1, <2>2 DEF Ranges
<1>4. OneExpires /\ OneOrder /\ HoldersWithinCount
  BY <1>1, <1>2 DEF OneExpires, OneOrder, HoldersWithinCount
<1> QED BY <1>3, <1>4, InitCallsInv DEF ExclusionInv

(* Objects that acquire one resource after another, in any order, and      *)
(* query the others meanwhile: when a beacon is handled before the one     *)
(* after the next is due, no resource has more holders of the same count   *)
(* than that count, however many objects and resources there are.          *)
THEOREM CallsExclusive ==
  ASSUME ~ AsksHeld, ~ Reuse, InTime
  PROVE  CallsSpec => []HoldersWithinCount
<1>1. ExclusionInv /\ [CallsNext]_lockVars => ExclusionInv'
  BY ExclusionStep
<1>2. ExclusionInv => HoldersWithinCount
  BY DEF ExclusionInv
<1> QED BY InitExclusion, <1>1, <1>2, PTL DEF CallsSpec

=============================================================================
