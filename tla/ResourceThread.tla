--------------------------- MODULE ResourceThread ---------------------------
(***************************************************************************)
(* One Resource and the two threads that share it: its beaconing thread    *)
(* (Resource::run) and the caller's thread, one statement at a time.       *)
(*                                                                         *)
(* The condition variables are waited for without a predicate and notified *)
(* without their mutex, so a notification counts only when the other       *)
(* thread waits already; and a wait may end with no notification at all.   *)
(* Packets are not modelled, only when one is sent and what it says.       *)
(***************************************************************************)
EXTENDS Integers

CONSTANT MaxOps      \* bound: setState calls before the release

ASSUME OpsAssumption == MaxOps \in Nat

VARIABLES
  state,      \* Resource::state
  running,    \* Resource::running
  tpc,        \* where the beaconing thread is
  read,       \* the state it read for its next packet
  cpc,        \* where the caller's thread is
  target,     \* the state it is setting
  after,      \* where it goes from setState
  ops         \* setState calls left

vars == <<state, running, tpc, read, cpc, target, after, ops>>

State == {"IDLE", "STARTING", "ACQUIRING", "ACQUIRED", "RELEASED", "QUERYING"}

(* The states it may be in when the caller calls.                          *)
Between == {"IDLE", "ACQUIRED", "QUERYING"}

(* The steps within adquire_lock: what it may set next.                    *)
NextStates(s) ==
  CASE s = "IDLE"      -> {"STARTING"}
    [] s = "STARTING"  -> {"STARTING", "ACQUIRING"}
    [] s = "ACQUIRING" -> {"ACQUIRED", "IDLE"}
    [] s = "ACQUIRED"  -> {"IDLE"}
    [] OTHER           -> {}

-----------------------------------------------------------------------------
(* Resource::run.  "sleep" waits on beacon_cv, "pause" on cv for           *)
(* beacon_time.                                                            *)

(* while (running), and started_cv.notify_all.                             *)
TurnWake(c) == IF c = "ready" THEN "free" ELSE c

(* Mutant of Turn: the loop does not look at running.                      *)
TurnForever ==
  /\ tpc = "loop"
  /\ tpc' = "look" /\ cpc' = TurnWake(cpc)
  /\ UNCHANGED <<state, running, read, target, after, ops>>

(* A turn: the caller that waits to be ready is woken, or the loop ends.    *)
Turn ==
  /\ tpc = "loop"
  /\ IF running
     THEN tpc' = "look" /\ cpc' = TurnWake(cpc)
     ELSE tpc' = "done" /\ UNCHANGED cpc
  /\ UNCHANGED <<state, running, read, target, after, ops>>

(* Whether there is something to say, read without a lock.                 *)
Look ==
  /\ tpc = "look"
  /\ tpc' = IF state = "IDLE" THEN "parking" ELSE "compose"
  /\ UNCHANGED <<state, running, read, cpc, target, after, ops>>

(* beacon_cv.wait: only from here on can setState wake the thread.         *)
Park ==
  /\ tpc = "parking"
  /\ tpc' = "sleep"
  /\ UNCHANGED <<state, running, read, cpc, target, after, ops>>

(* sendBeacon reads the state, then sends.                                 *)
Compose ==
  /\ tpc = "compose"
  /\ read' = state
  /\ tpc' = "send"
  /\ UNCHANGED <<state, running, cpc, target, after, ops>>

Send ==
  /\ tpc = "send"
  /\ tpc' = "pausing"
  /\ UNCHANGED <<state, running, read, cpc, target, after, ops>>

Pause ==
  /\ tpc = "pausing"
  /\ tpc' = "pause"
  /\ UNCHANGED <<state, running, read, cpc, target, after, ops>>

(* Mutant of Timeout: it waits on, without another beacon.                 *)
TimeoutWaitsOn ==
  /\ tpc = "pause"
  /\ tpc' = "pausing"
  /\ UNCHANGED <<state, running, read, cpc, target, after, ops>>

(* wait_for timed out: the next turn.                                      *)
Timeout ==
  /\ tpc = "pause"
  /\ tpc' = "loop"
  /\ UNCHANGED <<state, running, read, cpc, target, after, ops>>

-----------------------------------------------------------------------------
(* The caller.  setState stores the state, sends a packet, and notifies    *)
(* beacon_cv.                                                              *)
Call(s, l) ==
  /\ target' = s /\ after' = l
  /\ cpc' = "store"

(* adquire_lock begins: STARTING, then waitForReady if it is for all the   *)
(* resources at once.                                                      *)
Acquire ==
  /\ cpc = "free" /\ state \in Between /\ ops > 0
  /\ ops' = ops - 1
  /\ \E l \in {"free", "unready"} : Call("STARTING", l)
  /\ UNCHANGED <<state, running, tpc, read>>

(* A round of adquire_lock.                                                *)
Set ==
  /\ cpc = "free" /\ ops > 0
  /\ ops' = ops - 1
  /\ \E s \in NextStates(state) : Call(s, "free")
  /\ UNCHANGED <<state, running, tpc, read>>

(* query_lock, also of a resource that is held.                            *)
Query ==
  /\ cpc = "free" /\ state \in Between /\ ops > 0
  /\ ops' = ops - 1
  /\ Call("QUERYING", "free")
  /\ UNCHANGED <<state, running, tpc, read>>

(* Mutant of Release: the state is reset and not set to RELEASED.          *)
ReleaseToIdle ==
  /\ cpc = "free" /\ state \in Between
  /\ Call("IDLE", "stop")
  /\ UNCHANGED <<state, running, tpc, read, ops>>

(* release_lock, or the destructor.                                        *)
Release ==
  /\ cpc = "free" /\ state \in Between
  /\ Call("RELEASED", "stop")
  /\ UNCHANGED <<state, running, tpc, read, ops>>

Store ==
  /\ cpc = "store"
  /\ state' = target
  /\ cpc' = "tell"
  /\ UNCHANGED <<running, tpc, read, target, after, ops>>

Tell ==
  /\ cpc = "tell"
  /\ cpc' = "notify"
  /\ UNCHANGED <<state, running, tpc, read, target, after, ops>>

Notify ==
  /\ cpc = "notify"
  /\ tpc' = IF tpc = "sleep" THEN "pausing" ELSE tpc
  /\ cpc' = after
  /\ UNCHANGED <<state, running, read, target, after, ops>>

(* waitForReady: from here on started_cv can wake the caller.              *)
WaitForReady ==
  /\ cpc = "unready"
  /\ cpc' = "ready"
  /\ UNCHANGED <<state, running, tpc, read, target, after, ops>>

(* Resource::stop: running is cleared, cv notified, and the thread joined. *)
Stop ==
  /\ cpc = "stop"
  /\ running' = FALSE
  /\ cpc' = "kick"
  /\ UNCHANGED <<state, tpc, read, target, after, ops>>

Kick ==
  /\ cpc = "kick"
  /\ tpc' = IF tpc = "pause" THEN "done" ELSE tpc
  /\ cpc' = "join"
  /\ UNCHANGED <<state, running, read, target, after, ops>>

Join ==
  /\ cpc = "join" /\ tpc = "done"
  /\ cpc' = "end"
  /\ UNCHANGED <<state, running, tpc, read, target, after, ops>>

(* A wait ends by itself: beacon_cv's or started_cv's as if notified, and  *)
(* that on cv, which has not timed out, with the end of the loop.          *)
Spurious ==
  /\ \/ tpc = "sleep" /\ tpc' = "pausing" /\ UNCHANGED cpc
     \/ tpc = "pause" /\ tpc' = "done" /\ UNCHANGED cpc
     \/ cpc = "ready" /\ cpc' = "free" /\ UNCHANGED tpc
  /\ UNCHANGED <<state, running, read, target, after, ops>>

-----------------------------------------------------------------------------
Init ==
  /\ state = "IDLE" /\ running = TRUE
  /\ tpc = "loop" /\ read = "IDLE"
  /\ cpc = "free" /\ target = "IDLE" /\ after = "free"
  /\ ops = MaxOps

Thread == Turn \/ Look \/ Park \/ Compose \/ Send \/ Pause \/ Timeout

Caller == Acquire \/ Set \/ Query \/ Release
            \/ Store \/ Tell \/ Notify \/ WaitForReady \/ Stop \/ Kick \/ Join

Next == Thread \/ Caller \/ Spurious

Spec == Init /\ [][Next]_vars

(* The threads are scheduled fairly; what to call next is up to the        *)
(* program.                                                                *)
FairSpec ==
  /\ Spec
  /\ WF_vars(Thread)
  /\ WF_vars(Store \/ Tell \/ Notify \/ WaitForReady \/ Stop \/ Kick \/ Join)

-----------------------------------------------------------------------------
(* Each variable has a value of its kind; a thread is told to stop only    *)
(* when its resource is RELEASED.                                          *)
TypeOK ==
  /\ state \in State /\ read \in State /\ target \in State
  /\ running \in BOOLEAN
  /\ tpc \in {"loop", "look", "parking", "sleep", "compose", "send", "pausing",
              "pause", "done"}
  /\ cpc \in {"free", "store", "tell", "notify", "unready", "ready", "stop", "kick",
              "join", "end"}
  /\ after \in {"free", "unready", "stop"}
  /\ ops \in 0 .. MaxOps
  /\ cpc \in {"stop", "kick", "join", "end"} => state = "RELEASED"

(* "wait for resources to start beaconing": the caller that waits for the  *)
(* thread to be ready gets on.                                             *)
ReadyReturns == (cpc = "ready") ~> (cpc # "ready")

(* stop joins the thread: release and the destructor return.               *)
StopReturns == (cpc = "join") ~> (cpc = "end")

(* A notification is missed: the thread sleeps although there is something *)
(* to say, and setState is past its notify_all.                            *)
Missed == tpc = "sleep" /\ state # "IDLE" /\ cpc \notin {"tell", "notify"}

(* The thread has left its loop although nobody has told it to.            *)
Quit == tpc = "done" /\ running

(* Nothing else can make acquire wait for ever for the thread of a         *)
(* resource that has not been released, nor release or the destructor.     *)
OnlyMissedHangs == [](~ Missed /\ ~ Quit) => ReadyReturns /\ StopReturns

(* Nothing else can silence a holder: a state of ACQUIRED that lasts is    *)
(* beaconed again and again, which is all the others know of it.           *)
OnlyMissedMutes ==
  [](~ Missed /\ ~ Quit) =>
    []<>(state # "ACQUIRED" \/ cpc # "free" \/ (tpc = "send" /\ read = "ACQUIRED"))

=============================================================================
