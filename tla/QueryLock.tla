----------------------------- MODULE QueryLock -----------------------------
(***************************************************************************)
(* isBusy (query_lock): a process listens to what the others beacon about  *)
(* a resource and then copies its table of members, which isBusy searches  *)
(* for a holder (and isAny and isWaiting for members in other states).     *)
(*                                                                         *)
(* It listens for SENSE_BEACONS + 1 beacons; if it hears anything, for     *)
(* 2 * MAX_BACKOFF beacons more, less the time it has listened.  That time *)
(* is measured from packet to packet and truncated to milliseconds, so the *)
(* clock here is finer: a millisecond is MsTicks ticks.  A thread that may *)
(* go on does so within MaxLag ticks.                                      *)
(*                                                                         *)
(* The peers are processes of DistributedLock (or other queries), cut down *)
(* to what they beacon and to how soon they may go on.  They answer        *)
(* nothing, and what a query beacons makes no difference to them.          *)
(*                                                                         *)
(* The table is cleared neither before nor after a query, and the resource *)
(* stays in QUERYING: between two queries of the object, packets are       *)
(* entered as in one.                                                      *)
(***************************************************************************)
EXTENDS Integers

CONSTANTS
  Peer,           \* the other processes
  PeerCount,      \* PeerCount[p]: the count p gives to the resource
  Several,        \* the peers that acquire it together with others
  Asking,         \* the peers that do not acquire it, but may query
  Again,          \* TRUE: the object may query again
  MsTicks,        \* ticks in a millisecond
  BeaconTime,     \* milliseconds between two beacons
  BackoffTimes,   \* sampled values of the peers' backoff, in milliseconds
  MaxDelay,       \* ticks a datagram may take to be handled
  MaxLag          \* ticks by which a thread may be late

SenseBeacons == 3
MaxBackoff == 6

AcquiringTime == BeaconTime * SenseBeacons
ShortListenTime == BeaconTime * (SenseBeacons + 1)
LongListenTime == BeaconTime * 2 * MaxBackoff

ASSUME QueryAssumption ==
  /\ PeerCount \in [Peer -> Nat \ {0}]
  /\ Several \subseteq Peer /\ Asking \subseteq Peer
  /\ Again \in BOOLEAN
  /\ MsTicks \in Nat \ {0} /\ BeaconTime \in Nat \ {0}
  /\ BackoffTimes \subseteq 2 * AcquiringTime .. 4 * AcquiringTime - 1
  /\ MaxDelay \in Nat /\ MaxLag \in Nat

VARIABLES
  pc,        \* where the query is
  timer,     \* ticks left of its timed wait, below zero if it has gone over
  lag,       \* ticks left until it goes on, where it may
  left,      \* long_listen_time, Wrapped if it has gone below zero
  members,   \* members[p]: state of p in the table, "NONE" if not there
  answer,    \* the copy of the table that query_lock returns
  peer,      \* peer[p]: the state of p's resource, or "NEW" or "GONE"
  beat,      \* beat[p]: ticks left until p beacons again
  rest,      \* rest[p]: ticks left until p may go on
  net,       \* datagrams in flight
  heldEver,  \* history: peers that have held since the query began
  heldAll,   \* history: peers that have held all the time since
  doubtful   \* history: peers that it may take for holders all the same

query == <<pc, timer, lag, left, members, answer>>
peers == <<peer, beat, rest>>
history == <<heldEver, heldAll, doubtful>>
vars == <<query, peers, net, history>>

State == {"IDLE", "STARTING", "ACQUIRING", "ACQUIRED", "QUERYING"}

(* A peer is not there yet or any more, or its resource has a state.  With *)
(* "PART" it has set the resource to ACQUIRED, and finds another one full. *)
PeerState == State \cup {"NEW", "GONE", "PART"}

Said(st) == IF st = "PART" THEN "ACQUIRED" ELSE st

(* A negative double converted to unsigned long: 2^64 minus a little, which *)
(* milliseconds() takes for a negative duration, or 0.                     *)
Wrapped == -1

(* Inside a timed wait: not notified yet, or notified but not awake.       *)
Listening == {"short", "long"}
Notified == {"heard", "woken"}

GoTo(l) == pc' = l /\ lag' = MaxLag

-----------------------------------------------------------------------------
(* setState(QUERYING): until the first query the table is empty and stays  *)
(* so; another one begins with what the last has left in it.               *)
Ask ==
  /\ pc \in {"idle", "done"}
  /\ GoTo("opening")
  /\ timer' = 0 /\ left' = LongListenTime
  /\ heldAll' = {p \in Peer : peer[p] = "ACQUIRED"}
  /\ heldEver' = heldAll' \cup {m.src : m \in {n \in net : n.st = "ACQUIRED"}}
  /\ doubtful' = {p \in Peer : peer[p] = "PART" \/ members[p] = "ACQUIRED"}
  /\ answer' = [p \in Peer |-> "NONE"]
  /\ UNCHANGED <<members, peers, net>>

ShortListen ==
  /\ pc = "opening"
  /\ GoTo("short")
  /\ timer' = ShortListenTime * MsTicks
  /\ UNCHANGED <<left, members, answer, peers, net, history>>

(* The short wait was interrupted.                                         *)
Hear ==
  /\ pc = "heard"
  /\ GoTo("loop")
  /\ timer' = 0
  /\ UNCHANGED <<left, members, answer, peers, net, history>>

(* listenForAnyPacket again, for what is left.                             *)
LongListen ==
  /\ pc = "loop" /\ left # 0
  /\ GoTo("long")
  /\ timer' = IF left = Wrapped THEN 0 ELSE left * MsTicks
  /\ UNCHANGED <<left, members, answer, peers, net, history>>

(* Mutant of Remaining: the time is added.                                 *)
RemainingGrows(e) == {left + e \div MsTicks}

(* What is left after e ticks of the long wait.                            *)
Remaining(e) ==
  LET elapsed == e \div MsTicks
  IN  IF elapsed > left THEN {0, Wrapped} ELSE {left - elapsed}

(* The long wait was interrupted: how long it has taken is known only when *)
(* the thread goes on.                                                     *)
Measure ==
  /\ pc = "woken"
  /\ GoTo("loop")
  /\ left' \in Remaining(left * MsTicks - timer)
  /\ timer' = 0
  /\ UNCHANGED <<members, answer, peers, net, history>>

(* The answer is read when a wait has timed out, or nothing is left.       *)
Copy ==
  /\ \/ pc \in Listening \cup Notified /\ timer <= 0
     \/ pc = "loop" /\ left = 0
  /\ GoTo("done")
  /\ answer' = members
  /\ timer' = 0 /\ left' = 0
  /\ UNCHANGED <<members, peers, net, history>>

(* Mutant of Account: updateMember as for an acquirer, which leaves out a  *)
(* member that reports another count.                                      *)
AccountOwnCount(m) ==
  IF pc = "idle" \/ PeerCount[m.src] # 1 THEN members
  ELSE [members EXCEPT ![m.src] = m.st]

(* updateMember: whatever the count; an idle resource ignores packets.     *)
Account(m) ==
  IF pc = "idle" THEN members ELSE [members EXCEPT ![m.src] = m.st]

(* actionPerformed: enter the member, and notify any_cv.                   *)
Receive(m) ==
  /\ net' = net \ {m}
  /\ members' = Account(m)
  /\ IF pc \in Listening /\ left # Wrapped
     THEN GoTo(IF pc = "short" THEN "heard" ELSE "woken")
     ELSE UNCHANGED <<pc, lag>>
  /\ UNCHANGED <<timer, left, answer, peers, history>>

-----------------------------------------------------------------------------
(* The peers.                                                              *)
Beacon(p, st) == [src |-> p, st |-> Said(st), ttl |-> MaxDelay]

(* A beacon is BeaconTime after the last one, or a little later.           *)
Beats == BeaconTime * MsTicks .. BeaconTime * MsTicks + MaxLag

Silent(p) == peer[p] \in {"NEW", "IDLE", "GONE"}

(* p's setState, and how long until its next one at the earliest.          *)
SetState(p, st, t) ==
  /\ peer' = [peer EXCEPT ![p] = st]
  /\ rest' = [rest EXCEPT ![p] = t * MsTicks]
  /\ net' = net \cup {Beacon(p, st)}
  /\ IF Silent(p) THEN \E b \in Beats : beat' = [beat EXCEPT ![p] = b] ELSE UNCHANGED beat
  /\ heldEver' = IF st = "ACQUIRED" THEN heldEver \cup {p} ELSE heldEver
  /\ doubtful' = IF st = "PART" THEN doubtful \cup {p} ELSE doubtful
  /\ UNCHANGED <<query, heldAll>>

(* A first round, or another one after a backoff.                          *)
Start(p) ==
  /\ p \notin Asking
  /\ peer[p] \in {"NEW", "IDLE", "STARTING"} /\ rest[p] = 0
  /\ SetState(p, "STARTING", AcquiringTime)

Announce(p) ==
  /\ peer[p] = "STARTING" /\ rest[p] = 0
  /\ SetState(p, "ACQUIRING", AcquiringTime)

Acquire(p) ==
  /\ peer[p] = "ACQUIRING" /\ rest[p] = 0
  /\ SetState(p, "ACQUIRED", 0)

(* Of several resources, those before a full one are set to ACQUIRED.      *)
AcquirePart(p) ==
  /\ p \in Several
  /\ peer[p] = "ACQUIRING" /\ rest[p] = 0
  /\ SetState(p, "PART", 0)

(* A collision, at any time, or a full resource at the end of the wait.    *)
Reset(p) ==
  /\ peer[p] \in {"ACQUIRING", "PART"}
  /\ \E t \in BackoffTimes : SetState(p, "IDLE", t)

Query(p) == peer[p] = "NEW" /\ SetState(p, "QUERYING", 0)

(* It ends, or is killed, without a word.                                  *)
Exit(p) ==
  /\ peer[p] \notin {"NEW", "GONE"}
  /\ peer' = [peer EXCEPT ![p] = "GONE"]
  /\ rest' = [rest EXCEPT ![p] = 0]
  /\ heldAll' = heldAll \ {p}
  /\ UNCHANGED <<query, beat, net, heldEver, doubtful>>

(* Resource::run                                                           *)
BeaconAgain(p) ==
  /\ ~ Silent(p) /\ beat[p] = 0
  /\ net' = net \cup {Beacon(p, peer[p])}
  /\ \E b \in Beats : beat' = [beat EXCEPT ![p] = b]
  /\ UNCHANGED <<query, peer, rest, history>>

-----------------------------------------------------------------------------
(* The query's thread may go on.                                           *)
Runnable ==
  \/ pc \in {"opening", "loop"} \cup Notified
  \/ pc \in Listening /\ timer <= 0

(* Time passes when nothing is due.                                        *)
Quiet ==
  /\ Runnable => lag > 0
  /\ \A m \in net : m.ttl > 0
  /\ \A p \in Peer : /\ peer[p] \in {"IDLE", "ACQUIRING", "PART"} => rest[p] > 0
                     /\ Silent(p) \/ beat[p] > 0

Minus1(n) == IF n > 0 THEN n - 1 ELSE 0

Tick ==
  /\ Quiet
  /\ timer' = IF pc \in Listening \cup Notified THEN timer - 1 ELSE timer
  /\ lag' = IF Runnable THEN lag - 1 ELSE lag
  /\ beat' = [p \in Peer |-> Minus1(beat[p])]
  /\ rest' = [p \in Peer |-> Minus1(rest[p])]
  /\ net' = {[m EXCEPT !.ttl = @ - 1] : m \in net}
  /\ UNCHANGED <<pc, left, members, answer, peer, history>>

Init ==
  /\ pc = "idle" /\ timer = 0 /\ lag = MaxLag /\ left = LongListenTime
  /\ members = [p \in Peer |-> "NONE"]
  /\ answer = members
  /\ peer = [p \in Peer |-> "NEW"]
  /\ beat = [p \in Peer |-> 0] /\ rest = [p \in Peer |-> 0]
  /\ net = {}
  /\ heldEver = {} /\ heldAll = {} /\ doubtful = {}

(* Nothing is of interest after the last answer.                           *)
Next ==
  /\ pc = "done" => Again
  /\ \/ Ask \/ ShortListen \/ Hear \/ LongListen \/ Measure \/ Copy
     \/ \E m \in net : Receive(m)
     \/ \E p \in Peer : \/ Start(p) \/ Announce(p) \/ Acquire(p) \/ AcquirePart(p)
                        \/ Reset(p) \/ Query(p) \/ Exit(p) \/ BeaconAgain(p)
     \/ Tick

Spec == Init /\ [][Next]_vars

-----------------------------------------------------------------------------
(* Each variable has a value of its kind; what is left never exceeds what  *)
(* the query began with.                                                   *)
TypeOK ==
  /\ pc \in {"idle", "opening", "short", "heard", "loop", "long", "woken", "done"}
  /\ timer \in Int /\ timer <= LongListenTime * MsTicks
  /\ lag \in 0 .. MaxLag
  /\ left \in Wrapped .. LongListenTime
  /\ members \in [Peer -> State \cup {"NONE"}]
  /\ answer \in [Peer -> State \cup {"NONE"}]
  /\ peer \in [Peer -> PeerState]
  /\ beat \in [Peer -> 0 .. BeaconTime * MsTicks + MaxLag]
  /\ rest \in [Peer -> Nat]
  /\ net \subseteq [src : Peer, st : State, ttl : 0 .. MaxDelay]
  /\ heldAll \subseteq heldEver /\ heldEver \subseteq Peer /\ doubtful \subseteq Peer

(* Mutant of Found: a member that is about to acquire is taken for one.    *)
FoundTooSoon == {p \in Peer : answer[p] \in {"ACQUIRED", "ACQUIRING"}}

(* The holders among the members that query_lock returns.                  *)
Found == {p \in Peer : answer[p] = "ACQUIRED"}

IsBusy == Found # {}

(* -q "returns 1 when the resource is acquired": a query during which a    *)
(* process held the resource all the time says so, whatever its count.     *)
BusyIsSeen == pc = "done" /\ heldAll # {} => IsBusy

(* Whoever a query takes for a holder has held since the query began, or   *)
(* had just left; or it was left over in the table from an earlier query,  *)
(* or has set the resource to ACQUIRED and then found another one full.    *)
FoundHaveHeld == pc = "done" => Found \subseteq heldEver \cup doubtful

(* "Otherwise, it returns 0" (the tool's help, of -q): a query that says   *)
(* busy has had a holder, or heard of one that had just left.  That is so  *)
(* of an object's first query, where no peer acquires several resources.   *)
BusyMeansHeld == pc = "done" /\ IsBusy => heldEver # {}

=============================================================================
