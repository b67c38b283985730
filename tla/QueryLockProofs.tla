-------------------------- MODULE QueryLockProofs --------------------------
(***************************************************************************)
(* Theorems about QueryLock, for any number of peers: the arithmetic of    *)
(* the remaining time stays in range; whoever a query takes for a holder   *)
(* has held, or is one of two exceptions that are spelt out; and a holder  *)
(* is seen where datagrams and threads are not too late.                   *)
(***************************************************************************)
EXTENDS QueryLock, TLAPS

BeaconTicks == BeaconTime * MsTicks

(* What the short wait leaves for a beacon and two deliveries.             *)
Timely == 2 * MaxDelay + MaxLag < 3 * BeaconTicks

(* The steps of the query, of the receiving thread, and of a peer.         *)
Asks == Ask \/ ShortListen \/ Hear \/ LongListen \/ Measure \/ Copy

Steps(p) ==
  \/ Start(p) \/ Announce(p) \/ Acquire(p) \/ AcquirePart(p)
  \/ Reset(p) \/ Query(p) \/ Exit(p) \/ BeaconAgain(p)

-----------------------------------------------------------------------------
(* The arithmetic of the clocks.                                           *)
LEMMA ClockTypes ==
  /\ BeaconTicks \in Nat \ {0} /\ MsTicks \in Nat \ {0}
  /\ MaxDelay \in Nat /\ MaxLag \in Nat
  /\ AcquiringTime \in Nat /\ LongListenTime \in Nat /\ ShortListenTime \in Nat
BY QueryAssumption
   DEF BeaconTicks, AcquiringTime, ShortListenTime, LongListenTime, SenseBeacons, MaxBackoff

LEMMA ClockTimes ==
  /\ ShortListenTime * MsTicks = 4 * BeaconTicks
  /\ LongListenTime * MsTicks = 12 * BeaconTicks
BY QueryAssumption
   DEF BeaconTicks, ShortListenTime, LongListenTime, SenseBeacons, MaxBackoff

LEMMA Truncated ==
  ASSUME NEW e \in Nat, NEW n \in Nat \ {0}
  PROVE  e \div n \in Nat /\ (e \div n) * n <= e
OBVIOUS

(* Truncation to milliseconds is to the query's favour.                    *)
LEMMA RemainingIsEnough ==
  ASSUME NEW t \in Int, left \in Nat, left <= LongListenTime, t <= left * MsTicks,
         NEW l \in Remaining(left * MsTicks - t)
  PROVE  l \in Wrapped .. LongListenTime /\ t <= l * MsTicks
<1> DEFINE e == left * MsTicks - t
           d == e \div MsTicks
<1>1. left * MsTicks \in Nat /\ e \in Nat /\ MsTicks \in Nat \ {0}
  BY ClockTypes
<1>2. d \in Nat /\ d * MsTicks <= e /\ d * MsTicks \in Nat
  BY <1>1, Truncated
<1>3. l \in (IF d > left THEN {0, Wrapped} ELSE {left - d})
  BY DEF Remaining
<1> HIDE DEF d
<1>4. CASE d > left
  <2>1. d >= left + 1
    BY <1>2, <1>4
  <2>2. d * MsTicks >= (left + 1) * MsTicks
    BY <1>1, <1>2, <2>1
  <2>3. (left + 1) * MsTicks = left * MsTicks + MsTicks
    BY <1>1
  <2>4. t <= - MsTicks
    BY <1>1, <1>2, <2>2, <2>3
  <2> QED BY <1>1, <1>3, <1>4, <2>4, ClockTypes DEF Wrapped
<1>5. CASE ~ (d > left)
  <2>1. l = left - d
    BY <1>3, <1>5
  <2>2. (left - d) * MsTicks = left * MsTicks - d * MsTicks
    BY <1>1, <1>2
  <2> QED BY <1>1, <1>2, <1>5, <2>1, <2>2, ClockTypes DEF Wrapped
<1> QED BY <1>4, <1>5

-----------------------------------------------------------------------------
(* What is left of the long wait is counted from what it was before: the   *)
(* timer of a wait has never more on it.                                   *)
LeftInv ==
  /\ pc \in {"idle", "opening", "short", "heard"} => left = LongListenTime
  /\ pc \in {"short", "heard"} => timer <= ShortListenTime * MsTicks
  /\ pc = "woken" => left # Wrapped
  /\ pc \in {"long", "woken"} /\ left # Wrapped => timer <= left * MsTicks

(* The types, in the parts that the threads keep.                          *)
QueryTypes ==
  /\ pc \in {"idle", "opening", "short", "heard", "loop", "long", "woken", "done"}
  /\ timer \in Int /\ timer <= LongListenTime * MsTicks
  /\ lag \in 0 .. MaxLag
  /\ left \in Wrapped .. LongListenTime
  /\ members \in [Peer -> State \cup {"NONE"}]
  /\ answer \in [Peer -> State \cup {"NONE"}]

PeerTypes ==
  /\ peer \in [Peer -> PeerState]
  /\ beat \in [Peer -> 0 .. BeaconTime * MsTicks + MaxLag]
  /\ rest \in [Peer -> Nat]
  /\ net \subseteq [src : Peer, st : State, ttl : 0 .. MaxDelay]

HistoryTypes == heldAll \subseteq heldEver /\ heldEver \subseteq Peer /\ doubtful \subseteq Peer

LEMMA TypeIsParts == TypeOK <=> QueryTypes /\ PeerTypes /\ HistoryTypes
BY DEF TypeOK, QueryTypes, PeerTypes, HistoryTypes

LEMMA InitTypes == Init => TypeOK /\ LeftInv
BY QueryAssumption, ClockTypes DEF Init, TypeOK, LeftInv, Wrapped, PeerState

LEMMA AsksTypes ==
  ASSUME QueryTypes, LeftInv, Asks
  PROVE  QueryTypes' /\ LeftInv'
<1> USE ClockTypes DEF LeftInv, GoTo
<1>1. CASE Ask
  <2>1. 0 <= LongListenTime * MsTicks /\ LongListenTime \in Wrapped .. LongListenTime
    BY DEF Wrapped
  <2> QED BY <1>1, <2>1 DEF Ask, QueryTypes
<1>2. CASE ShortListen
  <2>1. timer' = ShortListenTime * MsTicks /\ timer' \in Int /\ timer' <= LongListenTime * MsTicks
    BY <1>2, ClockTimes DEF ShortListen
  <2> QED BY <1>2, <2>1 DEF ShortListen, QueryTypes
<1>3. CASE Hear
  BY <1>3 DEF Hear, QueryTypes
<1>4. CASE LongListen
  <2>1. left \in Nat \/ left = Wrapped
    BY DEF QueryTypes, Wrapped
  <2>2. left # Wrapped => left * MsTicks \in Nat /\ left * MsTicks <= LongListenTime * MsTicks
    BY <2>1 DEF QueryTypes
  <2> QED BY <1>4, <2>1, <2>2 DEF LongListen, QueryTypes
<1>5. CASE Measure
  <2>1. left \in Nat /\ left <= LongListenTime /\ timer \in Int /\ timer <= left * MsTicks
    BY <1>5 DEF Measure, QueryTypes, Wrapped
  <2>2. left' \in Wrapped .. LongListenTime
    BY <1>5, <2>1, RemainingIsEnough DEF Measure
  <2> QED BY <1>5, <2>2 DEF Measure, QueryTypes
<1>6. CASE Copy
  <2>1. 0 <= LongListenTime * MsTicks /\ 0 \in Wrapped .. LongListenTime
    BY DEF Wrapped
  <2> QED BY <1>6, <2>1 DEF Copy, QueryTypes
<1> QED BY <1>1, <1>2, <1>3, <1>4, <1>5, <1>6 DEF Asks

LEMMA ReceiveTypes ==
  ASSUME QueryTypes, PeerTypes, LeftInv, NEW m \in net, Receive(m)
  PROVE  QueryTypes' /\ PeerTypes' /\ LeftInv'
<1>1. PeerTypes'
  BY DEF PeerTypes, Receive, peers
<1>2. members' \in [Peer -> State \cup {"NONE"}]
  BY DEF QueryTypes, PeerTypes, Account, Receive
<1>3. UNCHANGED <<timer, left, answer>>
  BY DEF Receive
<1>4. pc = "short" => left # Wrapped
  BY ClockTypes DEF LeftInv, Wrapped
<1>5. \/ UNCHANGED <<pc, lag>>
      \/ pc = "short" /\ pc' = "heard" /\ lag' = MaxLag
      \/ pc = "long" /\ left # Wrapped /\ pc' = "woken" /\ lag' = MaxLag
  BY DEF Receive, GoTo, Listening
<1>6. QueryTypes'
  BY <1>2, <1>3, <1>5, ClockTypes DEF QueryTypes
<1>7. LeftInv'
  BY <1>3, <1>4, <1>5 DEF LeftInv
<1> QED BY <1>1, <1>6, <1>7

LEMMA BeatTypes == Beats \subseteq 0 .. BeaconTime * MsTicks + MaxLag
BY ClockTypes DEF Beats, BeaconTicks

LEMMA SetStateTypes ==
  ASSUME PeerTypes, HistoryTypes,
         NEW p \in Peer, NEW st \in State \cup {"PART"}, NEW t \in Nat, SetState(p, st, t)
  PROVE  PeerTypes' /\ HistoryTypes'
<1> USE ClockTypes, BeatTypes DEF SetState, PeerTypes
<1>1. peer' \in [Peer -> PeerState] /\ rest' \in [Peer -> Nat]
  BY DEF PeerState
<1>2. beat' \in [Peer -> 0 .. BeaconTime * MsTicks + MaxLag]
  OBVIOUS
<1>3. net' \subseteq [src : Peer, st : State, ttl : 0 .. MaxDelay]
  BY DEF Beacon, Said, State
<1>4. HistoryTypes'
  BY DEF HistoryTypes
<1> QED BY <1>1, <1>2, <1>3, <1>4

LEMMA StepsTypes ==
  ASSUME PeerTypes, HistoryTypes, NEW p \in Peer, Steps(p)
  PROVE  PeerTypes' /\ HistoryTypes' /\ UNCHANGED query
<1>1. UNCHANGED query
  BY DEF Steps, Start, Announce, Acquire, AcquirePart, Reset, Query, Exit, BeaconAgain, SetState
<1>2. CASE Exit(p)
  BY <1>2 DEF Exit, PeerTypes, HistoryTypes, PeerState
<1>3. CASE BeaconAgain(p)
  <2>1. Said(peer[p]) \in State
    BY <1>3 DEF BeaconAgain, Silent, PeerTypes, PeerState, Said, State
  <2> QED BY <1>3, <2>1, ClockTypes, BeatTypes DEF BeaconAgain, PeerTypes, HistoryTypes, Beacon, history
<1>4. CASE ~ Exit(p) /\ ~ BeaconAgain(p)
  <2>1. \A t \in BackoffTimes : t \in Nat
    BY QueryAssumption, ClockTypes
  <2>2. \E st \in State \cup {"PART"}, t \in Nat : SetState(p, st, t)
    BY <1>4, <2>1, ClockTypes DEF Steps, Start, Announce, Acquire, AcquirePart, Reset, Query, State
  <2> QED BY <1>1, <2>2, SetStateTypes
<1> QED BY <1>1, <1>2, <1>3, <1>4

LEMMA TickTypes ==
  ASSUME QueryTypes, PeerTypes, LeftInv, Tick
  PROVE  QueryTypes' /\ PeerTypes' /\ LeftInv'
<1>1. /\ UNCHANGED <<pc, left, members, answer, peer, history>>
      /\ timer' \in {timer, timer - 1}
      /\ lag' = lag \/ (lag > 0 /\ lag' = lag - 1)
  BY DEF Tick, Quiet
<1>2. timer' \in Int /\ timer' <= timer
  BY <1>1 DEF QueryTypes
<1>3. QueryTypes'
  <2>1. timer' <= LongListenTime * MsTicks
    BY <1>2, ClockTypes DEF QueryTypes
  <2>2. lag' \in 0 .. MaxLag
    BY <1>1, ClockTypes DEF QueryTypes
  <2> QED BY <1>1, <1>2, <2>1, <2>2 DEF QueryTypes
<1>4. LeftInv'
  <2>1. left * MsTicks \in Int /\ ShortListenTime * MsTicks \in Int /\ timer \in Int
    BY ClockTypes DEF QueryTypes, Wrapped
  <2> QED BY <1>1, <1>2, <2>1 DEF LeftInv
<1>5. beat' \in [Peer -> 0 .. BeaconTime * MsTicks + MaxLag] /\ rest' \in [Peer -> Nat]
  <2>1. \A p \in Peer : Minus1(beat[p]) \in 0 .. BeaconTime * MsTicks + MaxLag
    BY ClockTypes DEF PeerTypes, Minus1, BeaconTicks
  <2>2. \A p \in Peer : Minus1(rest[p]) \in Nat
    BY DEF PeerTypes, Minus1
  <2> QED BY <2>1, <2>2 DEF Tick
<1>6. net' \subseteq [src : Peer, st : State, ttl : 0 .. MaxDelay]
  <2> SUFFICES ASSUME NEW n \in net
               PROVE  [n EXCEPT !.ttl = @ - 1] \in [src : Peer, st : State, ttl : 0 .. MaxDelay]
    BY DEF Tick
  <2>1. n.ttl > 0 /\ n \in [src : Peer, st : State, ttl : 0 .. MaxDelay]
    BY DEF PeerTypes, Tick, Quiet
  <2> QED BY <2>1, ClockTypes
<1> QED BY <1>1, <1>3, <1>4, <1>5, <1>6 DEF PeerTypes

(* Datagrams age.                                                          *)
LEMMA TickAges ==
  ASSUME PeerTypes, Tick, NEW m \in net'
  PROVE  \E n \in net : m.src = n.src /\ m.st = n.st /\ m.ttl = n.ttl - 1
<1>1. PICK n \in net : m = [n EXCEPT !.ttl = @ - 1]
  BY DEF Tick
<1>2. n \in [src : Peer, st : State, ttl : 0 .. MaxDelay]
  BY DEF PeerTypes
<1> QED BY <1>1, <1>2

LEMMA NextCases ==
  Next => Asks \/ (\E m \in net : Receive(m)) \/ (\E p \in Peer : Steps(p)) \/ Tick
BY DEF Next, Asks, Steps

LEMMA TypeStep == TypeOK /\ LeftInv /\ [Next]_vars => TypeOK' /\ LeftInv'
<1> SUFFICES ASSUME TypeOK, LeftInv, [Next]_vars PROVE TypeOK' /\ LeftInv'
  OBVIOUS
<1>1. QueryTypes /\ PeerTypes /\ HistoryTypes
  BY TypeIsParts
<1>2. LeftInv' /\ QueryTypes' /\ PeerTypes' /\ HistoryTypes'
  <2>1. CASE UNCHANGED vars
    BY <1>1, <2>1 DEF vars, query, peers, history, QueryTypes, PeerTypes, HistoryTypes, LeftInv
  <2>2. CASE Asks
    <3>1. PeerTypes' /\ HistoryTypes'
      BY <1>1, <2>2 DEF Asks, Ask, ShortListen, Hear, LongListen, Measure, Copy, PeerTypes,
         HistoryTypes, peers, history
    <3> QED BY <1>1, <2>2, <3>1, AsksTypes
  <2>3. ASSUME NEW m \in net, Receive(m) PROVE LeftInv' /\ QueryTypes' /\ PeerTypes' /\ HistoryTypes'
    BY <1>1, <2>3, ReceiveTypes DEF Receive, history, HistoryTypes
  <2>4. ASSUME NEW p \in Peer, Steps(p) PROVE LeftInv' /\ QueryTypes' /\ PeerTypes' /\ HistoryTypes'
    BY <1>1, <2>4, StepsTypes DEF query, QueryTypes, LeftInv
  <2>5. CASE Tick
    BY <1>1, <2>5, TickTypes DEF Tick, history, HistoryTypes
  <2> QED BY <2>1, <2>2, <2>3, <2>4, <2>5, NextCases
<1>3. (TypeOK <=> QueryTypes /\ PeerTypes /\ HistoryTypes)'
  BY TypeIsParts, PTL
<1> QED BY <1>2, <1>3

(* Each variable has a value of its kind: what is left of the long wait    *)
(* never exceeds what it was, although it is computed without a sign.      *)
THEOREM TypeCorrect == Spec => []TypeOK
<1>1. Init => TypeOK /\ LeftInv
  BY InitTypes
<1>2. TypeOK /\ LeftInv /\ [Next]_vars => TypeOK' /\ LeftInv'
  BY TypeStep
<1> QED BY <1>1, <1>2, PTL DEF Spec

-----------------------------------------------------------------------------
(* Who is known to hold, from the table, the answer or a datagram, has     *)
(* held, or is one of those a query is deceived by.                        *)
Known == heldEver \cup doubtful

HeldInv ==
  pc # "idle" =>
    /\ \A p \in Peer : /\ peer[p] = "ACQUIRED" => p \in heldEver
                       /\ peer[p] = "PART" => p \in doubtful
                       /\ members[p] = "ACQUIRED" => p \in Known
                       /\ pc = "done" /\ answer[p] = "ACQUIRED" => p \in Known
    /\ \A m \in net : m.st = "ACQUIRED" => m.src \in Known

LEMMA InitHeld == Init => HeldInv
BY DEF Init, HeldInv

LEMMA StepsHeld ==
  ASSUME PeerTypes, HeldInv, NEW p \in Peer, Steps(p)
  PROVE  HeldInv'
<1> USE DEF PeerTypes, HeldInv, Known, query
<1>1. CASE Exit(p)
  BY <1>1 DEF Exit
<1>2. CASE BeaconAgain(p)
  BY <1>2 DEF BeaconAgain, Beacon, Said, history
<1>3. ASSUME NEW st \in State \cup {"PART"}, NEW t \in Nat, SetState(p, st, t)
      PROVE  HeldInv'
  BY <1>3 DEF SetState, Beacon, Said, State
<1>4. CASE ~ Exit(p) /\ ~ BeaconAgain(p)
  <2>1. \A t \in BackoffTimes : t \in Nat
    BY QueryAssumption, ClockTypes
  <2>2. \E st \in State \cup {"PART"}, t \in Nat : SetState(p, st, t)
    BY <1>4, <2>1, ClockTypes DEF Steps, Start, Announce, Acquire, AcquirePart, Reset, Query, State
  <2> QED BY <1>3, <2>2
<1> QED BY <1>1, <1>2, <1>4

LEMMA ReceiveHeld ==
  ASSUME QueryTypes, PeerTypes, HeldInv, NEW m \in net, Receive(m)
  PROVE  HeldInv'
<1>1. UNCHANGED <<peer, answer, heldEver, doubtful>> /\ net' \subseteq net
  BY DEF Receive, peers, history
<1>2. (pc = "idle" <=> pc' = "idle") /\ (pc = "done" <=> pc' = "done")
  BY DEF Receive, GoTo, Listening
<1>3. pc # "idle" => members' = [members EXCEPT ![m.src] = m.st]
  BY DEF Receive, Account
<1>4. m.src \in Peer /\ members \in [Peer -> State \cup {"NONE"}]
  BY DEF PeerTypes, QueryTypes
<1> QED BY <1>1, <1>2, <1>3, <1>4 DEF HeldInv, Known

LEMMA HeldStep == TypeOK /\ HeldInv /\ [Next]_vars => HeldInv'
<1> SUFFICES ASSUME TypeOK, HeldInv, [Next]_vars PROVE HeldInv'
  OBVIOUS
<1>1. QueryTypes /\ PeerTypes
  BY TypeIsParts
<1>2. CASE UNCHANGED vars
  BY <1>2 DEF vars, query, peers, history, HeldInv, Known
<1>3. CASE Ask
  BY <1>1, <1>3 DEF Ask, GoTo, peers, HeldInv, Known, PeerTypes
<1>4. CASE ShortListen \/ Hear \/ LongListen \/ Measure
  BY <1>4 DEF ShortListen, Hear, LongListen, Measure, GoTo, peers, history, HeldInv, Known
<1>5. CASE Copy
  BY <1>5 DEF Copy, GoTo, Listening, Notified, peers, history, HeldInv, Known
<1>6. ASSUME NEW m \in net, Receive(m) PROVE HeldInv'
  BY <1>1, <1>6, ReceiveHeld
<1>7. ASSUME NEW p \in Peer, Steps(p) PROVE HeldInv'
  BY <1>1, <1>7, StepsHeld
<1>8. CASE Tick
  <2>1. UNCHANGED <<pc, peer, members, answer, heldEver, doubtful>>
    BY <1>8 DEF Tick, history
  <2>2. \A m \in net' : \E n \in net : m.st = n.st /\ m.src = n.src
    BY <1>1, <1>8, TickAges
  <2> QED BY <2>1, <2>2 DEF HeldInv, Known
<1> QED BY <1>2, <1>3, <1>4, <1>5, <1>6, <1>7, <1>8, NextCases DEF Asks

(* Whoever a query takes for a holder has held while it listened, or had   *)
(* just left; or an earlier query left it in the table, or it announced    *)
(* the resource before it found another one full.                          *)
THEOREM FoundAlwaysHeld == Spec => []FoundHaveHeld
<1>1. Init => TypeOK /\ LeftInv /\ HeldInv
  BY InitTypes, InitHeld
<1>2. TypeOK /\ LeftInv /\ HeldInv /\ [Next]_vars => TypeOK' /\ LeftInv' /\ HeldInv'
  BY TypeStep, HeldStep
<1>3. HeldInv => FoundHaveHeld
  BY DEF HeldInv, Known, FoundHaveHeld, Found
<1> QED BY <1>1, <1>2, <1>3, PTL DEF Spec

(* Nothing deceives the only query of an object among peers that acquire   *)
(* one resource each.                                                      *)
Clear ==
  /\ doubtful = {}
  /\ \A p \in Peer : peer[p] # "PART" /\ (pc = "idle" => members[p] # "ACQUIRED")

LEMMA InitClear == Init => Clear
BY DEF Init, Clear

LEMMA ClearStep ==
  ASSUME Several = {}, ~ Again, TypeOK, Clear, [Next]_vars
  PROVE  Clear'
<1>1. QueryTypes /\ PeerTypes
  BY TypeIsParts
<1>2. CASE UNCHANGED vars
  BY <1>2 DEF vars, query, peers, history, Clear
<1>3. CASE Next /\ Ask
  <2>1. pc = "idle"
    BY <1>3 DEF Next, Ask
  <2> QED BY <1>3, <2>1 DEF Ask, GoTo, peers, Clear
<1>4. CASE ShortListen \/ Hear \/ LongListen \/ Measure \/ Copy
  BY <1>4 DEF ShortListen, Hear, LongListen, Measure, Copy, GoTo, Listening, Notified, peers,
     history, Clear
<1>5. ASSUME NEW m \in net, Receive(m) PROVE Clear'
  <2>1. (pc' = "idle" => pc = "idle") /\ (pc = "idle" => members' = members)
    BY <1>5 DEF Receive, GoTo, Listening, Account
  <2> QED BY <1>5, <2>1 DEF Receive, peers, history, Clear
<1>6. ASSUME NEW p \in Peer, Steps(p) PROVE Clear'
  <2>1. UNCHANGED <<pc, members, doubtful>>
    BY <1>6 DEF Steps, Start, Announce, Acquire, AcquirePart, Reset, Query, Exit, BeaconAgain,
       SetState, query, history
  <2>2. \A q \in Peer : peer'[q] # "PART"
    BY <1>1, <1>6 DEF Steps, Start, Announce, Acquire, AcquirePart, Reset, Query, Exit,
       BeaconAgain, SetState, PeerTypes, Clear
  <2> QED BY <2>1, <2>2 DEF Clear
<1>7. CASE Tick
  BY <1>7 DEF Tick, history, Clear
<1> QED BY <1>2, <1>3, <1>4, <1>5, <1>6, <1>7, NextCases DEF Asks

(* So what it says is what the tool's help promises, whatever is late: a   *)
(* resource that it calls busy has had a holder, or one that just left.    *)
THEOREM BusyMeansItWasHeld == Several = {} /\ ~ Again => (Spec => []BusyMeansHeld)
<1> SUFFICES ASSUME Several = {}, ~ Again PROVE Spec => []BusyMeansHeld
  OBVIOUS
<1>1. Init => TypeOK /\ LeftInv /\ HeldInv /\ Clear
  BY InitTypes, InitHeld, InitClear
<1>2. TypeOK /\ LeftInv /\ HeldInv /\ Clear /\ [Next]_vars => TypeOK' /\ LeftInv' /\ HeldInv' /\ Clear'
  BY TypeStep, HeldStep, ClearStep
<1>3. HeldInv /\ Clear => BusyMeansHeld
  BY DEF HeldInv, Known, Clear, BusyMeansHeld, IsBusy, Found
<1> QED BY <1>1, <1>2, <1>3, PTL DEF Spec

-----------------------------------------------------------------------------
(* How long the query is to listen yet, at least.                          *)
ToListen ==
  IF pc = "opening" THEN ShortListenTime * MsTicks
  ELSE IF pc = "loop" THEN left * MsTicks
  ELSE timer

(* What p sent before it held is in flight no longer than p takes to       *)
(* beacon again; from then on the table, a datagram, or the next beacon    *)
(* says that it holds.                                                     *)
Stale(p) == {m \in net : m.src = p /\ m.st # "ACQUIRED"}

Seen(p) ==
  /\ peer[p] = "ACQUIRED"
  /\ \A m \in Stale(p) : m.ttl + BeaconTicks + MaxLag + MaxDelay < ToListen
  /\ Stale(p) = {} =>
       \/ members[p] = "ACQUIRED"
       \/ \E m \in net : m.src = p /\ m.ttl < ToListen
       \/ beat[p] + MaxDelay < ToListen

SeenInv ==
  /\ pc = "idle" => heldAll = {}
  /\ pc = "done" => \A p \in heldAll : answer[p] = "ACQUIRED"
  /\ pc \notin {"idle", "done"} => \A p \in heldAll : Seen(p)

Listens == pc \notin {"idle", "done"}

LEMMA ToListenType ==
  /\ QueryTypes => ToListen \in Int
  /\ QueryTypes' => ToListen' \in Int
BY ClockTypes DEF QueryTypes, ToListen, Wrapped

(* The query's own steps leave it as long to listen, or longer; it answers *)
(* when nothing is left, and a tick takes a tick.                          *)
LEMMA QueryListens ==
  ASSUME QueryTypes, LeftInv, Listens, ShortListen \/ Hear \/ LongListen \/ Measure
  PROVE  ToListen' >= ToListen
<1> USE ClockTypes DEF QueryTypes, GoTo, ToListen
<1>1. CASE ShortListen
  <2>1. ToListen = ShortListenTime * MsTicks /\ ToListen' = timer'
    BY <1>1 DEF ShortListen
  <2>2. ShortListenTime * MsTicks \in Int
    OBVIOUS
  <2> QED BY <1>1, <2>1, <2>2 DEF ShortListen
<1>2. CASE Hear
  <2>1. ToListen = timer /\ timer <= ShortListenTime * MsTicks /\ timer \in Int
    BY <1>2 DEF Hear, LeftInv
  <2>2. ToListen' = LongListenTime * MsTicks
    BY <1>2 DEF Hear, LeftInv
  <2> QED BY <2>1, <2>2, ClockTimes
<1>3. CASE LongListen
  <2>1. ToListen = left * MsTicks /\ ToListen' = timer'
    BY <1>3 DEF LongListen
  <2>2. left * MsTicks \in Int /\ (left = Wrapped => left * MsTicks = - MsTicks)
    BY DEF Wrapped
  <2> QED BY <1>3, <2>1, <2>2 DEF LongListen
<1>4. CASE Measure
  <2>1. left \in Nat /\ left <= LongListenTime /\ timer \in Int /\ timer <= left * MsTicks
    BY <1>4 DEF Measure, Wrapped, LeftInv
  <2>2. timer <= left' * MsTicks /\ left' \in Int
    BY <1>4, <2>1, RemainingIsEnough DEF Measure, Wrapped
  <2>3. ToListen = timer /\ ToListen' = left' * MsTicks
    BY <1>4 DEF Measure
  <2> QED BY <2>1, <2>2, <2>3
<1> QED BY <1>1, <1>2, <1>3, <1>4

LEMMA CopyListens ==
  ASSUME QueryTypes, Copy
  PROVE  ToListen <= 0
<1>1. CASE pc \in Listening \cup Notified /\ timer <= 0
  BY <1>1 DEF ToListen, Listening, Notified
<1>2. CASE pc = "loop" /\ left = 0
  BY <1>2, ClockTypes DEF ToListen
<1> QED BY <1>1, <1>2 DEF Copy

LEMMA ReceiveListens ==
  ASSUME QueryTypes, LeftInv, Listens, NEW m, Receive(m)
  PROVE  ToListen' = ToListen /\ Listens'
BY DEF QueryTypes, Listens, Receive, GoTo, Listening, ToListen

LEMMA TickListens ==
  ASSUME QueryTypes, Tick
  PROVE  ToListen' >= ToListen - 1
<1>1. left' = left /\ pc' = pc /\ timer' \in {timer, timer - 1} /\ timer \in Int
  BY DEF Tick, QueryTypes
<1>2. left * MsTicks \in Int /\ ShortListenTime * MsTicks \in Int
  BY ClockTypes DEF QueryTypes, Wrapped
<1> QED BY <1>1, <1>2 DEF ToListen

-----------------------------------------------------------------------------
(* A holder is seen.                                                       *)
LEMMA SeenLonger ==
  ASSUME QueryTypes, QueryTypes', PeerTypes, NEW p \in Peer, Seen(p),
         UNCHANGED <<peer, beat, net, members>>, ToListen' >= ToListen
  PROVE  Seen(p)'
<1>1. ToListen \in Int /\ ToListen' \in Int
  BY ToListenType
<1>2. /\ \A m \in net : m.ttl \in Int
      /\ beat[p] \in Int
  BY ClockTypes DEF PeerTypes, BeaconTicks
<1>3. Stale(p)' = Stale(p)
  BY DEF Stale
<1>4. \A m \in Stale(p) : m.ttl + BeaconTicks + MaxLag + MaxDelay < ToListen'
  BY <1>1, <1>2, ClockTypes DEF Seen, Stale
<1>5. (\E m \in net : m.src = p /\ m.ttl < ToListen) => \E m \in net : m.src = p /\ m.ttl < ToListen'
  BY <1>1, <1>2
<1>6. beat[p] + MaxDelay < ToListen => beat[p] + MaxDelay < ToListen'
  BY <1>1, <1>2, ClockTypes
<1> QED BY <1>3, <1>4, <1>5, <1>6 DEF Seen

(* When the query begins.                                                  *)
LEMMA AskSees ==
  ASSUME Timely, QueryTypes, PeerTypes, Ask, NEW p \in Peer, peer[p] = "ACQUIRED"
  PROVE  Seen(p)'
<1>1. ToListen' = 4 * BeaconTicks
  BY ClockTimes DEF Ask, GoTo, ToListen
<1>2. UNCHANGED <<peer, beat, net>> /\ Stale(p)' = Stale(p)
  BY DEF Ask, peers, Stale
<1>3. beat[p] \in Nat /\ beat[p] <= BeaconTicks + MaxLag
  BY ClockTypes DEF PeerTypes, BeaconTicks
<1>4. \A m \in net : m.ttl \in Nat /\ m.ttl <= MaxDelay
  BY ClockTypes DEF PeerTypes
<1>5. \A m \in Stale(p) : m.ttl + BeaconTicks + MaxLag + MaxDelay < 4 * BeaconTicks
  BY <1>4, ClockTypes DEF Stale, Timely
<1>6. beat[p] + MaxDelay < 4 * BeaconTicks
  BY <1>3, ClockTypes DEF Timely
<1> QED BY <1>1, <1>2, <1>5, <1>6 DEF Seen

(* When a datagram is handled.                                             *)
LEMMA ReceiveSees ==
  ASSUME QueryTypes, PeerTypes, LeftInv, Listens, NEW p \in Peer, Seen(p),
         NEW m \in net, Receive(m)
  PROVE  Seen(p)'
<1>1. ToListen' = ToListen /\ ToListen \in Int
  BY ReceiveListens, ToListenType
<1>2. UNCHANGED <<peer, beat>> /\ net' = net \ {m} /\ members' = [members EXCEPT ![m.src] = m.st]
  BY DEF Receive, peers, Account, Listens
<1>3. Stale(p)' = Stale(p) \ {m}
  BY <1>2 DEF Stale
<1>4. \A n \in Stale(p)' : n.ttl + BeaconTicks + MaxLag + MaxDelay < ToListen'
  BY <1>1, <1>3 DEF Seen
<1>5. m \in [src : Peer, st : State, ttl : 0 .. MaxDelay] /\ members \in [Peer -> State \cup {"NONE"}]
  BY DEF PeerTypes, QueryTypes
<1>6. CASE m \in Stale(p)
  <2>1. beat[p] \in Nat /\ beat[p] <= BeaconTicks + MaxLag
    BY ClockTypes DEF PeerTypes, BeaconTicks
  <2>2. m.ttl \in Nat /\ m.ttl + BeaconTicks + MaxLag + MaxDelay < ToListen
    BY <1>5, <1>6, ClockTypes DEF Seen
  <2>3. beat[p] + MaxDelay < ToListen
    BY <1>1, <2>1, <2>2, ClockTypes
  <2> QED BY <1>1, <1>2, <1>4, <2>3 DEF Seen
<1>7. CASE m.src = p /\ m.st = "ACQUIRED"
  <2>1. members'[p] = "ACQUIRED"
    BY <1>2, <1>5, <1>7
  <2> QED BY <1>2, <1>4, <2>1 DEF Seen
<1>8. CASE m.src # p
  <2>1. members'[p] = members[p] /\ Stale(p)' = Stale(p)
    BY <1>2, <1>3, <1>5, <1>8 DEF Stale
  <2> QED BY <1>1, <1>2, <1>4, <1>8, <2>1 DEF Seen
<1> QED BY <1>6, <1>7, <1>8 DEF Stale

(* When p beacons, and when another peer does anything.                    *)
LEMMA BeaconSees ==
  ASSUME QueryTypes, PeerTypes, NEW p \in Peer, Seen(p), BeaconAgain(p)
  PROVE  Seen(p)'
<1>1. ToListen' = ToListen /\ ToListen \in Int
  BY ToListenType DEF BeaconAgain, query, ToListen
<1>2. UNCHANGED <<peer, members>> /\ net' = net \cup {Beacon(p, "ACQUIRED")} /\ beat[p] = 0
  BY DEF BeaconAgain, query, Seen
<1>3. Stale(p)' = Stale(p)
  BY <1>2 DEF Stale, Beacon, Said
<1>4. CASE members[p] = "ACQUIRED" \/ Stale(p) # {}
  BY <1>1, <1>2, <1>3, <1>4 DEF Seen
<1>5. CASE \E m \in net : m.src = p /\ m.ttl < ToListen
  BY <1>1, <1>2, <1>3, <1>5 DEF Seen
<1>6. CASE beat[p] + MaxDelay < ToListen
  <2>1. Beacon(p, "ACQUIRED").src = p /\ Beacon(p, "ACQUIRED").ttl < ToListen'
    BY <1>1, <1>2, <1>6, ClockTypes DEF Beacon
  <2> QED BY <1>1, <1>2, <1>3, <2>1 DEF Seen
<1> QED BY <1>4, <1>5, <1>6 DEF Seen

LEMMA OtherSees ==
  ASSUME QueryTypes, PeerTypes, NEW p \in Peer, Seen(p), NEW q \in Peer, q # p, Steps(q)
  PROVE  Seen(p)'
<1>1. UNCHANGED query
  BY DEF Steps, Start, Announce, Acquire, AcquirePart, Reset, Query, Exit, BeaconAgain, SetState
<1>2. ToListen' = ToListen /\ members' = members
  BY <1>1 DEF query, ToListen
<1>3. peer'[p] = peer[p] /\ beat'[p] = beat[p]
  BY DEF Steps, Start, Announce, Acquire, AcquirePart, Reset, Query, Exit, BeaconAgain, SetState, PeerTypes
<1>4. net' = net \/ \E st \in State \cup {"PART", peer[q]} : net' = net \cup {Beacon(q, st)}
  BY DEF Steps, Start, Announce, Acquire, AcquirePart, Reset, Query, Exit, BeaconAgain, SetState, State
<1>5. net \subseteq net' /\ Stale(p)' = Stale(p)
  BY <1>4 DEF Stale, Beacon
<1> QED BY <1>2, <1>3, <1>5 DEF Seen

(* When time passes.                                                       *)
LEMMA TickSees ==
  ASSUME QueryTypes, QueryTypes', PeerTypes, NEW p \in Peer, Seen(p), Tick
  PROVE  Seen(p)'
<1>1. ToListen' >= ToListen - 1 /\ ToListen \in Int /\ ToListen' \in Int
  BY TickListens, ToListenType
<1>2. UNCHANGED <<peer, members>> /\ beat'[p] = beat[p] - 1 /\ beat[p] \in Nat
  BY ClockTypes DEF Tick, Quiet, Silent, Seen, Minus1, PeerTypes, BeaconTicks
<1>3. \A m \in net : m.ttl \in Nat
  BY ClockTypes DEF PeerTypes
<1>4. \A m \in net : [m EXCEPT !.ttl = @ - 1] \in net'
  BY DEF Tick
<1>5. \A m \in Stale(p)' : m.ttl + BeaconTicks + MaxLag + MaxDelay < ToListen'
  <2> SUFFICES ASSUME NEW m \in net', m.src = p, m.st # "ACQUIRED"
               PROVE  m.ttl + BeaconTicks + MaxLag + MaxDelay < ToListen'
    BY DEF Stale
  <2>1. PICK n \in net : m.src = n.src /\ m.st = n.st /\ m.ttl = n.ttl - 1
    BY TickAges
  <2>2. n.ttl + BeaconTicks + MaxLag + MaxDelay < ToListen
    BY <2>1 DEF Seen, Stale
  <2> QED BY <1>1, <1>3, <2>1, <2>2, ClockTypes
<1>6. ASSUME NEW m \in net
      PROVE  LET n == [m EXCEPT !.ttl = @ - 1]
             IN  n \in net' /\ n.src = m.src /\ n.st = m.st /\ n.ttl = m.ttl - 1
  <2>1. m \in [src : Peer, st : State, ttl : 0 .. MaxDelay]
    BY DEF PeerTypes
  <2> QED BY <1>4, <2>1
<1>7. Stale(p)' = {} => Stale(p) = {}
  BY <1>6 DEF Stale
<1>8. CASE members[p] = "ACQUIRED" \/ Stale(p) # {}
  BY <1>2, <1>5, <1>7, <1>8 DEF Seen
<1>9. CASE \E m \in net : m.src = p /\ m.ttl < ToListen
  <2>1. PICK m \in net : m.src = p /\ m.ttl < ToListen
    BY <1>9
  <2>2. PICK n \in net' : n.src = m.src /\ n.ttl = m.ttl - 1
    BY <1>6
  <2>3. n.src = p /\ n.ttl < ToListen'
    BY <1>1, <1>3, <2>1, <2>2
  <2> QED BY <1>2, <1>5, <2>3 DEF Seen
<1>10. CASE beat[p] + MaxDelay < ToListen
  <2>1. beat'[p] + MaxDelay < ToListen'
    BY <1>1, <1>2, <1>10, ClockTypes
  <2> QED BY <1>2, <1>5, <2>1 DEF Seen
<1> QED BY <1>8, <1>9, <1>10 DEF Seen

LEMMA InitSeen == Init => SeenInv
BY DEF Init, SeenInv

LEMMA SeenStep == Timely /\ TypeOK /\ TypeOK' /\ LeftInv /\ SeenInv /\ [Next]_vars => SeenInv'
<1> SUFFICES ASSUME Timely, TypeOK, TypeOK', LeftInv, SeenInv, [Next]_vars PROVE SeenInv'
  OBVIOUS
<1>1. QueryTypes /\ PeerTypes /\ QueryTypes' /\ heldAll \in SUBSET Peer
  BY DEF TypeOK, QueryTypes, PeerTypes
<1>2. CASE UNCHANGED vars
  BY <1>2 DEF vars, query, peers, history, SeenInv, Seen, Stale, ToListen
<1>3. CASE Ask
  <2>1. heldAll' = {p \in Peer : peer[p] = "ACQUIRED"} /\ pc' = "opening"
    BY <1>3 DEF Ask, GoTo
  <2> QED BY <1>1, <1>3, <2>1, AskSees DEF SeenInv
<1>4. CASE ShortListen \/ Hear \/ LongListen \/ Measure
  <2>1. Listens /\ Listens' /\ UNCHANGED <<peer, beat, net, members, heldAll>>
    BY <1>4 DEF ShortListen, Hear, LongListen, Measure, GoTo, peers, history, Listens
  <2> QED BY <1>1, <1>4, <2>1, QueryListens, SeenLonger DEF SeenInv, Listens
<1>5. CASE Copy
  <2>1. Listens /\ pc' = "done" /\ answer' = members /\ heldAll' = heldAll
    BY <1>5 DEF Copy, GoTo, history, Listening, Notified, Listens
  <2>2. ToListen <= 0 /\ ToListen \in Int
    BY <1>1, <1>5, CopyListens, ToListenType
  <2>3. ASSUME NEW p \in heldAll PROVE members[p] = "ACQUIRED"
    <3>1. Seen(p) /\ p \in Peer
      BY <1>1, <2>1 DEF SeenInv, Listens
    <3>2. \A m \in net : m.ttl \in Nat
      BY <1>1, ClockTypes DEF PeerTypes
    <3>3. beat[p] \in Nat
      BY <1>1, <3>1, ClockTypes DEF PeerTypes, BeaconTicks
    <3>4. Stale(p) = {}
      BY <2>2, <3>1, <3>2, ClockTypes DEF Seen, Stale
    <3> QED BY <2>2, <3>1, <3>2, <3>3, <3>4, ClockTypes DEF Seen
  <2> QED BY <2>1, <2>3 DEF SeenInv
<1>6. ASSUME NEW m \in net, Receive(m), ~ Listens PROVE SeenInv'
  BY <1>6 DEF Receive, GoTo, Listening, Listens, history, SeenInv
<1>7. ASSUME NEW m \in net, Receive(m), Listens PROVE SeenInv'
  <2>1. Listens' /\ heldAll' = heldAll
    BY <1>1, <1>7, ReceiveListens DEF Receive, history
  <2> QED BY <1>1, <1>7, <2>1, ReceiveSees DEF SeenInv, Listens
<1>8. ASSUME NEW q \in Peer, Steps(q) PROVE SeenInv'
  <2>1. UNCHANGED <<pc, answer>> /\ heldAll' \subseteq heldAll
    BY <1>8 DEF Steps, Start, Announce, Acquire, AcquirePart, Reset, Query, Exit, BeaconAgain, SetState,
       query, history
  <2>2. ASSUME Listens, NEW p \in heldAll' PROVE Seen(p)'
    <3>1. Seen(p) /\ p \in Peer
      BY <1>1, <2>1, <2>2 DEF SeenInv, Listens
    <3>2. CASE p # q
      BY <1>1, <1>8, <3>1, <3>2, OtherSees
    <3>3. CASE p = q
      <4>1. BeaconAgain(p)
        BY <1>8, <2>2, <3>1, <3>3 DEF Seen, Steps, Start, Announce, Acquire, AcquirePart, Reset, Query, Exit
      <4> QED BY <1>1, <3>1, <4>1, BeaconSees
    <3> QED BY <3>2, <3>3
  <2> QED BY <2>1, <2>2 DEF SeenInv, Listens
<1>9. CASE Tick
  <2>1. UNCHANGED <<pc, answer, heldAll>>
    BY <1>9 DEF Tick, history
  <2> QED BY <1>1, <1>9, <2>1, TickSees DEF SeenInv
<1> QED BY <1>2, <1>3, <1>4, <1>5, <1>6, <1>7, <1>8, <1>9, NextCases DEF Asks

(* A query during which a process held the resource all the time says so,  *)
(* whatever its count, however its own waits are cut short by packets and  *)
(* however late its thread wakes, where a beacon and two deliveries fit    *)
(* into the short wait.                                                    *)
THEOREM BusyIsAlwaysSeen == Timely => (Spec => []BusyIsSeen)
<1> SUFFICES ASSUME Timely PROVE Spec => []BusyIsSeen
  OBVIOUS
<1>1. Init => TypeOK /\ LeftInv /\ SeenInv
  BY InitTypes, InitSeen
<1>2. TypeOK /\ LeftInv /\ SeenInv /\ [Next]_vars => TypeOK' /\ LeftInv' /\ SeenInv'
  BY TypeStep, SeenStep
<1>3. TypeOK /\ SeenInv => BusyIsSeen
  BY DEF SeenInv, BusyIsSeen, IsBusy, Found, TypeOK
<1> QED BY <1>1, <1>2, <1>3, PTL DEF Spec

=============================================================================
