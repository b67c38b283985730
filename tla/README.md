# A verification development of dist_lock

dist_lock lets processes on a network share named resources.  Each resource has
a *count*, and no more than that many processes are to hold it at a time.  There is
no server: every process broadcasts UDP beacons that say what it does with each
resource, listens to the beacons of the others, and draws its conclusions from
what it hears, and from silence.  This directory holds TLA+ models of the library
and of its command line tool, the TLC runs that check them, and proofs checked by
TLAPS.  Paths such as `DistributedLock.cc:471` are relative to `src/` of the
repository, `README.md` is the repository's own when a line is given.

* [Inventory](#inventory): the parts of the system
* [Modules](#modules): which module models what, and how
* [Runs](#runs): what TLC checks, within which bounds
* [Proofs](#proofs): what holds for all constants, and why
* [Disagreements](#disagreements): where the code does not do what is said of it
* [Limits](#limits) and [plan](#plan)

## Inventory

| part | state it keeps | operations | talks to |
|---|---|---|---|
| **Acquisition protocol**: `DistributedLock::adquire_lock` in its two forms, `actionPerformed`, `releaseAll`, `Resource::{setState, reset, isAcquirable, updateMember}` | per resource: state, count, table of members; per call: number of tries, the wait it is in | acquire all, acquire one, release, receive a packet | beaconing threads, the handler, other processes by packets |
| **Beaconing thread**: `Resource::run`, `waitForReady`, `stop` | `running`, the condition variables `cv`, `beacon_cv`, `started_cv` | run, wait for ready, stop and join | the caller's thread, `CommHandler::send` |
| **Queries**: `query_lock`, `isBusy`, `isAny`, `isWaiting` | the state QUERYING, the time left to listen, a copy of the table | the three queries | packets of others |
| **Shared communication handler**: `CommHandler`, `Observable`, `Thread`, `getCommHandlerInstance`, constructor and destructor of `DistributedLock` | `s_ch`, `s_ch_count`, `al_list`, `running` | create, attach, dispatch, detach, stop, delete | every object of the process |
| **Packets**: `DLPacket`, `UDPDatagram`, `Packet`, `UDPSocket` | a byte buffer and an iterator | build, send, receive, parse | the network |
| **Command line tool**: `dist_lock.cc` | the child's pid, `acquired`, statuses | fork, lock in the child, run the command, detach, query, ^C | library, signals, `waitpid` |
| **Tables of members**: `Resource::members` under `members_m`, `DistributedLock::update_m` | the map, its entries, who holds which mutex | find, add, update (receiving thread); count, copy, reset, delete (caller) | the acquisition protocol, queries |
| **Command line and environment**: `main` before the fork, `StringTokenizer`, `register_env` | flags, `resource`, `res_map`, `env_list`, `env_array` | getopt, the tokens of a resource, the checks before acquiring, the environment of the command | the tool |
| Debug, exceptions, addresses, build, tests | – | – | – |

How the first parts interact.  A process that acquires sets its resources to
STARTING and listens for a random 3 to 6 beacon times.  An ACQUIRING packet of
somebody else makes it back off for 6 to 12 beacon times.  If it hears none it
sets ACQUIRING and waits 3 beacon times for a *collision*, another ACQUIRING
packet.  If there is one, or a resource has as many known holders as its count,
it resets (IDLE, empty tables, one more try) and backs off; otherwise it sets
ACQUIRED and returns.  Three kinds of thread take part: the caller's, one beaconing
thread per resource, and the receiving thread of the handler, which enters what it
hears in the tables and notifies condition variables, all of which are waited for
without a predicate.

What is hard, and what makes each part correct:

* **Protocol** (concurrency, stale state, loss, delay, death): no more holders
  than the count; all resources of a process are granted or none; a process alone
  gets on whatever its dead rivals left behind; with a limit of tries, acquire
  returns.
* **Beaconing thread** (lost notifications, waits that end by themselves): acquire,
  release and the destructor return; a holder is never silent.
* **Queries** (stale state, arithmetic of the time left, a table nobody clears):
  what is held is busy, what is busy was held, who waits is seen.
* **Handler** (life of shared memory, races of creation and deletion): no use of
  freed memory, everybody is served, creation and deletion return.
* **Tables** (mutexes that cover parts of an access): no thread uses an entry that
  the other one deletes or moves; a reset forgets the round before.
* **Packets** (limits): reads stay within the datagram, and give what was written.
* **Tool** (signals that race with a wait, processes that fail): the status the
  user sees is the right one, and it comes; two commands do not run at once.
* **Command line** (a string edited while it is searched, options that undo each
  other, an array copied from a map that changes): what is locked, asked and run is
  what was typed; the command gets its variables.

`PROJECT.json` lists the hazards one by one, at their lines, with the properties
that would catch each of them.

## Modules

| module | models | abstract specification |
|---|---|---|
| `CountingLock` | what the library promises: one atomic grant of all resources | – |
| `DistributedLock` | the acquisition protocol, with clocks and packets | implements `CountingLock` |
| `MCDistributedLock` | TLC instances of it | |
| `DistributedLockProofs` | theorems about it | |
| `LockCalls`, `MCLockCalls`, `LockCallsProofs` | calls about one resource at a time, on top of `DistributedLock`; theorems | |
| `ResourceThread` | one resource, its beaconing thread and the caller, statement by statement | |
| `MemberTable`, `MemberTableProofs` | the table of a resource, its mutexes and its two threads; theorems | |
| `QueryLock`, `MCQueryLock`, `QueryLockProofs` | the queries of an object among processes that acquire; theorems | |
| `CommHandler`, `CommHandlerProofs` | the handler shared by the objects of a process; theorems | |
| `Packets`, `MCPackets`, `PacketsProofs` | the bytes of a beacon; theorems | |
| `DistLockCli` | the command line tool: parent, child, command | |
| `LockedCommands`, `LockedCommandsProofs` | two such tools that want the same resource; theorems about one and about both | uses `CountingLock` as the lock |
| `StringTokenizer`, `CommandEnvironment`, `Arguments`, `MCArguments`, `ArgumentsProofs` | the command line, up to what the child does, and the environment of the command; theorems | |

An operator whose comment begins with "Mutant of" is a broken version of the
operator that follows.  No specification uses it; each shows that some property
notices the bug.

### DistributedLock

`pc[p]` is where the caller's thread of `p` is in `adquire_lock`:

| value | place in the code |
|---|---|
| `idle` | before the call |
| `unready`, `ready`, `readied` | before the wait of `waitForReady`, in it, and notified (only the form without a resource, `WaitReady`) |
| `starting` | STARTING has been sent, `listen_cv.wait_for` not yet reached |
| `listen`, `heard` | in `listenForPacket`, and interrupted |
| `arming` | ACQUIRING has been sent, `cv.wait_for` not yet reached |
| `collide`, `collided` | in `cv.wait_for`, and interrupted or refused by `isAcquirable` |
| `backoff` | in the sleep at the end of the loop |
| `held`, `released`, `failed`, `dead` | acquired; after `releaseAll`; out of tries; the process is gone |

Actions are named for what the code does there.  `SetState` is
`Resource::setState` (store, send, notify) and part of every action that calls it.
`Receive` is the whole of `actionPerformed` with `updateMember`.  A notification
that finds its waiter between two waits is lost, as in the code: that is why
`unready`, `starting` and `arming` are places of their own.  `Exit` is the tool's
way to stop holding: it returns the command's status and never reaches
`releaseAll`.

`thread[p][r]` is where the beaconing thread of a resource is.  It tests IDLE
(`Beacon`) and waits on `beacon_cv` (`Park`) in two steps, `parking` between them,
and is not `parked` when it has just been started (`Init`): `setState` takes no
mutex, and wakes only a thread that is parked.  A thread that parks after it has
been notified sleeps through the state, until the next `setState` of its resource.
The caller may then wait for ever in `waitForReady` (`Hangs`), or listen with a
silent resource.

*Time* is counted in ticks.  Every timed wait is a countdown; `Tick` is disabled while
a thread can run or a datagram is due.  What schedulers and networks add is in two
constants: a wait lasts up to `MaxLag` ticks too long, and as long may a beaconing
thread take to its first turn and from its test to its wait; a datagram is handled at
most `MaxDelay` ticks after its beacon read the state.  Within those bounds datagrams
arrive in any order.  `MaxLosses` bounds the datagrams lost, `Mortal` names the
processes that may die at any moment.

`Beacon` treats reading the state and sending as one step.  `ResourceThread`
splits it.

### LockCalls

`DistributedLock` acquires everything at once, as the tool does.  `LockCalls` is
the other form, `acquire(res)`, `release(res)` and the queries, called in any order
by an object that may hold some of its resources meanwhile.  Beaconing, time, and
the waits are those of `DistributedLock`; `pc[p]` is now the place of the one call
that is going on, `called[p]` its resource, `holds[p]` what earlier calls have
acquired.  The condition variables belong to the object: a packet about any
resource interrupts the call (`Interrupts`), and any packet at all prolongs a
query (`Handle`).  Nothing in the code refuses a call about a resource that the
object holds, or has released; `MayAsk` says what programs do: `AsksHeld` is
whether they query, or acquire again, what they hold, and `Reuse` whether they
acquire or query what they have released.

### ResourceThread

Two program counters, one step per statement that touches shared memory, between
the creation of a resource and its destruction.  The caller acquires in either form
(`Acquire`, with and without `waitForReady`), goes through the rounds (`Set`),
queries, also what it holds (`Query`), and releases.  `MaxOps` bounds the number of
`setState` calls before the release.  What the code leaves to chance, whether a
`notify_all` finds its waiter, is a matter of interleaving here; and each wait may
end by itself (`Spurious`), which for the pause between two beacons means the end
of the loop (`DistributedLock.cc:67`).

### MemberTable

A thread is *at* an access of the map for as long as it takes, so that two threads
can be at accesses of the same map at once (`Conflict`); a mutex is part of the
places.  The receiving thread tests the state, locks `members_m`, finds or inserts,
unlocks, and stores through the pointer it got; the caller iterates
(`isAcquirable`, the copy of `query_lock`) without a mutex, clears under
`members_m` (`reset`), and deletes the object under `update_m`.  What the members
say is left to `DistributedLock`.  After an undefined access nothing is claimed.

### QueryLock

The queries of one object, and peers that are processes of `DistributedLock` cut
down to what they beacon and when they may go on.  Those of `Several` acquire this
resource together with others: they may set it to ACQUIRED, and beacon it, and then
find another one full and take it back (`AcquirePart`, `DistributedLock.cc:503-523`).
Those of `Asking` do not acquire it, but may query it: their packets cut the waits
short and say nothing of a holder. The table is cleared neither before nor after a
query, so that with `Again` a query begins with what earlier ones, and the packets
between them, have left in it. The time left of the long wait is computed as in
`DistributedLock.cc:376-379`: measured around each wait, truncated to milliseconds,
subtracted from an unsigned number, so that it may pass below zero (`Wrapped`). A
millisecond is `MsTicks` ticks. Lateness is real time here: from the moment it may
go on, the thread of the query takes up to `MaxLag` ticks, during which the peers
and the packets go on too. A notified wait (`heard`, `woken`) is measured only when
the thread has awoken (`Measure`), so that its lag counts as time listened, and may
make the time left wrap. The variables `heldEver`, `heldAll` and `doubtful` are
histories: who has held since the query began, who all the time, and whom it may
take for a holder for one of the two reasons above. Without `Again` the model ends
where the first query returns; what the table is used for in an acquisition is
`LockCalls`' affair.

### CommHandler

Objects are created and deleted by threads of their own, as in `test/main.cc`.  A step
is one access to what the threads share: `s_ch` is tested, made and assigned in
different steps (`Look`, `Open`, `Bind`, `Build`, `Wait`, `Resolve`, `Assign`), the
count is changed and tested in different steps (`Leave`, `Test`), and a dispatch
(`Dispatch`, `Call`, `Return`) takes one listener at a time. `Undefined` says that
freed memory is in use; nothing is claimed of what follows.  Opening or binding the
socket may fail; and so may `Resolve`, the look-up of the broadcast address
(`CommHandler.h:52-56`), which comes when the handler's thread runs already: the
exception frees the handler and does not stop the thread.

### Packets

`Build` gives the bytes of a packet, `ReadHead` and `ReadName` read them back, one
byte of the name per step because the reader decides there whether to go on.
`ResBuff` is `RES_BUFF`; words are 32-bit, which the assumption on `Words` says
without naming a number TLC cannot hold.

### DistLockCli and LockedCommands

The parent, the child and the command, every combination of `-d`, `-n` and a query,
and the ways the child can fail before it locks.  `Interruptible` is ^C, which the
handler of the parent passes on; `Killable` is a signal to the child alone, which
leaves the command running. Under `Ignored` the tool was started with SIGCHLD
ignored, where `waitpid` fails once the process has ended: the child then returns
the 0 that its `status` began with, the parent `EXIT_FAILURE`. Acquiring is one step
with an unspecified result: how it comes about is `DistributedLock`'s affair.

`LockedCommands` puts two of them side by side, the second as an instance on
variables of its own, with `CountingLock` between the children: a step that makes a
child hold must be a `Grant`.  This is where the abstract lock is used for what it
was stated for.

### The command line

`Arguments` follows `main` from `argv` to what the child does.  A word is a
sequence of symbols, of which only those the code looks for matter.  `getopt` is
that of the GNU C library, which moves the words that are not options to the end:
the program finds its command by looking at the word *before* `optind`
(`before`).  An action for each option takes its argument, `-B` and its address
included.  `Atoi` reads the digits a word begins with; the blanks, the sign and the
range of the C library's are not modelled, and the command lines of the run have no
such words.  `StringTokenizer` is the constructor of that class, one erasure per
step, and `nextToken`; `CommandEnvironment` is `register_env`, which makes
`env_array` anew after each variable and deletes the lines of the old one by the
number of variables there are now, so that `wild` records a deletion outside it.

## Runs

Ten runs pass and two show a disagreement.  Sizes are TLC's distinct states.

| run | asks | bounds and why they do | states |
|---|---|---|---|
| `lock_timed` | `MutualExclusion` and the invariant of the proofs | two processes, one resource, beacon of 2 ticks, delay 2 and lag 1: the largest for which `Timely` holds, so that beacons overtake each other and waits are late | 353 thousand |
| `lock_refines` | `ImplementsCountingLock`, `AloneAcquires`, `AcquireReturns` | p1 wants both resources and tries for ever, p2 wants the second and tries once; both may die at any moment, one datagram is lost, and one may be a beacon late; a thread may sleep through its first notification | 289 thousand |
| `calls_apart` | `HoldersWithinCount`, `HeldBeacons` | p1 calls for two resources in any order, p2 for the second; a datagram may be a beacon late | 2.5 million |
| `thread_hangs` | `OnlyMissedHangs`, `OnlyMissedMutes` | six `setState` calls: a full round, a collision and another one, with queries before and after | 7 thousand |
| `member_table` | `OnlyScansRace`, `AtMostOneLeft` | three members, one with another count: one that the caller reads, one that is added and one that is not | 3 thousand |
| `queries` | `BusyIsSeen`, `FoundHaveHeld` | any number of queries; one peer with another count that acquires this and other resources, one that queries it, both of which come and go; a beacon time is one millisecond of two ticks, so that the time left is truncated and wraps; lag and delay of one tick | 9.0 million |
| `comm_shared` | `AloneSafe`, `KeptHears`, `CreationReturns`, `DeletionReturns` | two objects: enough for two handlers and for every race over one, and a constructor that fails at each place it can | 37 thousand |
| `packet_bytes` | `InBounds`, `Received` | names up to one byte more than `ResBuff` = 3, words at the borders of their bytes | 9 thousand |
| `cli_status` | `StatusIsCommands`, `DetachedHasLock`, `OnlyOrphansOverlap`, `ParentFollows`, `OnlyMissedWaits` | two tools, all options of each, and SIGCHLD ignored in one of them; the code 5 of the command, which is also the tool's own | 263 thousand |
| `command_line` | `KeepsFields`, `DefinedAsAsked`, `SomethingIsDone`, `AsksLast`, `CommandIsGiven`, `PassesOn`, `Ends` | every command line of up to 4 of 14 words, of which two queries or resources and a command need four; every resource of up to 6 symbols, enough for runs of delimiters at both ends and between two tokens; every environment of up to 3 of 6 entries, those that an outer `dist_lock` sets included | 219 thousand |
| `lock_reuse` | `MutualExclusion` | violated, see below | |
| `cli_failure` | `FailureReported` | violated | |

The random waits are sampled at their ends (`ListenExtremes`, `BackoffExtremes`),
or at the shorter end alone where only its length relative to a beacon matters
(`ListenShortest`, `BackoffShortest`).  That is a bound of the runs, not an
argument: the proofs cover every wait `dist(rng)` can draw.  Symmetry is used where
no property is a liveness property and the constants treat all processes alike.
Deadlock is checked in the runs of the lock, the calls, the packets and the repeated
queries.  It is not in those of the thread, the table, the single query, the
handler, the tool and the command line, which end.

What the properties mean, beyond their comments:

* `ImplementsCountingLock` maps `held` to *held* and everything between to
  *waiting*.  With two resources it says that the ACQUIRED a process sets on the
  first resource before it finds the second one full (`FindBusy`) is never a grant.
* `AloneAcquires` and `AcquireReturns` have one exception each, `Hangs`: the caller is
  in `waitForReady` and the thread it waits for sleeps, having missed the
  notification.  No wait ends by itself in `DistributedLock`, so that this one never
  does.  The other form, `acquire(res)`, does not wait; there a thread that sleeps
  while its caller listens is woken by the notification of ACQUIRING
  (`BeaconsGoOut`), if it gets to its wait before that (`Prompt`).
* `LaterHearsEarlier` is the algorithm.  Of two processes that both announced one
  hears the other before it acquires, and every one that announced hears every
  holder.
* `OnlyMissedHangs` and `OnlyMissedMutes` say that the flaws of the beaconing thread
  are two.  `run` may read IDLE, then `setState` store and notify `beacon_cv`, then
  `run` wait: the notification is lost (`Missed`).  Then `waitForReady` and `join`
  may never return, and the thread may never beacon.  Or the pause between two
  beacons ends by itself and the loop with it (`Quit`).  In runs where neither
  happens nothing else makes them wait, and a holder beacons for ever.
* `BusyIsSeen` holds of every query.  That a busy resource was held is true of a
  first query among peers of one resource each (`BusyMeansHeld`); `FoundHaveHeld`
  says what is true of all of them: whoever is taken for a holder has held since
  the query began, or had just left, or is one of the `doubtful`.
* `AloneSafe` is why the tool is safe: the destructor joins the handler's
  thread before the only object is freed, as long as the address that `-B` gives is
  one that resolves.  Two objects are not (`NeverUndefined`,
  which no run checks, does not hold).
* `HeldBeacons` says that one object can use its resources independently, although
  they share condition variables and the table is reset at each failure.
* `OnlyScansRace` says which accesses the mutexes leave unprotected: those of
  `isAcquirable` and of a query, and no others.  `AtMostOneLeft` is why a reset is
  worth anything: only the one packet that is being handled survives it.
* `OnlyOrphansOverlap` is exclusion as the user of the tool sees it.  It excepts a
  command whose child was killed: it goes on without the lock.
* `PassesOn` ends with `DeletesOwn`: whatever the number of variables is by then,
  no line is deleted that the array does not have.  One is leaked each time.
* `NeverUndefined`, `NeverFreed` and `OnlySameCount` are stated in
  their modules because a reader may expect them.  They do not hold, and no run
  claims them; the reasons are under [disagreements](#disagreements).

**Fairness.**  `DistributedLock` assumes only that something happens while
something can (`WF_vars(Next)`): time then passes, and a due wait ends because
`Tick` is disabled until it has.  `ResourceThread` and `CommHandler`
assume each thread is scheduled, which an operating system does; creating,
releasing and deleting are up to the program and get none.  `DistLockCli` assumes
that both processes are scheduled and signals delivered, but not that the command
ends; `LockedCommands` assumes the same of each tool, except that a child may wait
for the lock for as long as the other one holds it, so that only *this* child's
steps that the lock allows, and both parents', are fair.  `Arguments` is a
sequential program: `WF_vars(Next)`.

## Proofs

### The lock (`DistributedLockProofs`)

For any number of processes and resources, any counts, and any times:

* `TypeCorrect`: `Spec => []TypeOK`, whatever is lost and whoever dies.
* `BeaconingCorrect`: `BeaconsGoOut`, with any losses, deaths and delays of
  datagrams, as long as no released object is used again (`~ Reuse`; with it, see
  `lock_reuse`) and a thread that has found IDLE is less late for its wait than the
  shortest time to listen (`Prompt`).  Without that bound it is false: a thread that
  stalls between `DistributedLock.cc:61` and `:63` until ACQUIRED has been notified
  leaves a silent holder.  Of the time before the announcement it claims only that
  the state is STARTING: the thread may sleep then.
* `TruthfulTables`: `NoFalseHolder` if each process uses one resource.  With
  several it is false: ACQUIRED is announced for those before a full one.
* `InvCorrect`: `Timely /\ Spec => []Inv`, and from it `ExpiryCorrect`
  (`StaleExpires`) and `HearingCorrect` (`LaterHearsEarlier`).
* `Exclusive`: under `Timely`, `MutualExclusion`.
* `Implements`: under `Timely`, every step is a step of `CountingLock` or a
  stutter, and the initial states are initial states.

`Timely` says that no datagram is lost, that a released object is not used again, and
that `MaxDelay + MaxLag < 2 * BeaconTime`: a beacon is handled before the one after
the next is due.  It implies a positive beacon time, which the module does not assume
because the tool does not check it.  `MutualExclusion` alone is not inductive: it says
nothing of those about to acquire.  `Inv` adds to `TypeOK`

* `BeaconsGoOut`: whoever claims a resource has a thread that beacons it;
* `ParksInTime`, on which it rests: a thread on its way to its wait has less left to
  go than its caller has to listen, and so sleeps, if it does, before ACQUIRING
  wakes it;
* `StaleExpires`: what a process said before it announced is gone before it
  acquires, so that no late STARTING overwrites its ACQUIRED in a table.  This
  is where the bound on delays comes from;
* `LaterHearsEarlier`: a process that announced has in flight, in its table, or
  due within its wait, the word of every earlier claimant.

When a wait for collisions ends, `LaterHearsEarlier` leaves only the table: every
holder is entered there, so `isAcquirable` counts them all, and another process
that announced would have to hear of this one.  The proof has a lemma for each kind
of step (`CallerKeepsOrder`, `BeaconKeepsHears`, `ReceiveKeepsHears`,
`TickKeepsHears`).  Assumptions are those of the module: finitely many processes,
positive counts, and random times within the ranges the code draws from.

### Calls about one resource (`LockCallsProofs`)

For any objects, resources, counts, times and delays of datagrams, if objects query
and acquire again only what they do not hold (`~ AsksHeld`) and what they have not
released (`~ Reuse`):

* `HeldCorrect`: under `Prompt`, `CallsSpec => []HeldBeacons`;
* `CallsExclusive`: under `InTime`, `CallsSpec => []HoldersWithinCount`.

`HeldBeacons` does not say that the call going on is about something else.  That
is `CallsApart`: the resource of an acquisition is not held, and its thread has not
ended.  So `setState` and `reset` of the call (`RoundStep`) touch nothing that is
held, and a thread parks (`BeaconStep`) only when its own resource is IDLE.

`InTime` is the part of `Timely` that is about times: `MaxDelay + MaxLag < 2 *
BeaconTime`.  In `LockCalls` nothing is lost and nobody dies.  Exclusion needs
`ExclusionInv`, in which the parts of the lock's `Inv` are said per resource: an
object that holds some resources goes on announcing, failing and releasing others,
so that what was an order of processes is now one of claims.  `AnnouncedBeacons`:
what is announced is beaconed.  `OneExpires`: what was said before an announcement
is handled before the acquisition.  `OneOrder`: of two claims to a resource, one
that is announced will have heard of the other by the end of its wait
(`HearsOne`).  The step that acquires (`AcquireKeeps`) finds by `HeardAtLast` all
holders in the table; each step that gives up a claim, by a `reset`, a release or
a query, goes through one lemma (`UnclaimStep`), as it disturbs nothing but that
claim.

### The tables (`MemberTableProofs`)

For any set of members and any part of it with the same count:

* `TypeCorrect`: `Spec => []TypeOK`;
* `OnlyScansRaceCorrect`: from `Apart`, which says what the two mutexes exclude;
* `AtMostOneLeftCorrect`: from `Left`, which says that once the table has been
  cleared it contains at most the member of the packet being handled, and that the
  receiving thread, whose next test finds IDLE, adds no second one.

### The queries (`QueryLockProofs`)

For any number of peers, any counts of theirs, any times, and any number of ticks
to a millisecond:

* `TypeCorrect`: `Spec => []TypeOK`, of which the part about `left` is the one that
  matters: what is left never exceeds what there was.  `LeftInv` adds that a wait
  has no more on its timer than is left, and `RemainingIsEnough` that truncation
  to milliseconds never takes off more than has passed.
* `FoundAlwaysHeld`: `FoundHaveHeld`, with any delay and lag, of any number of
  queries.  `HeldInv`: whoever is known to hold, in a table, an answer or a datagram,
  has held since the query began, or is `doubtful`.
* `BusyMeansItWasHeld`: `BusyMeansHeld`, of an object's first query (`~ Again`) among
  peers of one resource each (`Several = {}`): then nobody is doubtful (`Clear`).
* `BusyIsAlwaysSeen`: `BusyIsSeen`, if `2 * MaxDelay + MaxLag` is less than three
  beacon times (`Timely`).  The short wait is four beacon times; one of them passes
  until the next beacon, and what is older may still arrive and be entered over it.
  `SeenInv` follows a holder (`Seen`): as long as something it sent before it held
  is in flight, there is time to listen for a beacon after that; from then on the
  table says that it holds, or a datagram or the next beacon will in the time left
  (`ToListen`), which no interruption shortens by more than has passed.

### The handler (`CommHandlerProofs`)

For any set of objects:

* `TypeCorrect`: `Spec => []TypeOK`.  The counter is the number of objects that have
  counted themselves and not left, although it is tested in other steps than it is
  changed in.
* `AloneIsAlwaysSafe`: `AloneSafe`, of an object whose address resolves.  `OneObject`
  says for each place of the one object where its handler is: running from before the
  constructor goes on until `stop`, and at its end before it is freed.
* `KeptAlwaysHears`: `KeptHears`, also when some constructors fail.  While nothing is
  deleted a handler that runs goes on (`RunsOn`), a listener stays in its list
  (`AllListen`), which only grows at the end, so that who is still to be called is
  further on in it (`DueLater`).

### The tool (`LockedCommandsProofs`)

For any exit statuses of the command, with or without faults, ^C, kills and a
`waitpid` that fails:

* `TypeCorrect`, `StatusCorrect` (`StatusIsCommands`), `DetachCorrect`
  (`DetachedHasLock`), all from `InvCorrect`.  The invariant says how far the child
  is (`ChildProgress`), that its status is its command's or one of its own
  (`CodeIsCommands`), that the parent passes it on (`ParentPassesOn`), and that
  USR1 is sent only after the lock was there (`ToldOnlyOfLock`).
* `CommandsExclusive`: in `LockedCommands` two commands run at once only if a child
  was killed.  A command runs in the care of its child or is an orphan (`InCare`),
  and the lock has one place (`OneHeld`).
* `StatusBeside`: the first two properties hold beside the other tool, because each
  step of the composition is a step of the tool or leaves it alone.

### The command line (`ArgumentsProofs`)

For any command lines and environments, which need only be sequences, of words
that are sequences (`InputsAssumption`), any delimiter and any digits
(`DigitAssumption`), every invariant that `command_line` checks:

* `ErasuresKeepFields`: `KeepsFields`.  The constructor of the tokenizer edits the
  string it searches.  `TokenizerInv` says what it has done at each place: up to
  `cur` no delimiter follows another (`Single`), then none anywhere, then none at
  the beginning either (`Clean`), which is why `nextToken` returns no empty token
  before the string is.  It needs what an erasure does to the fields of *any*
  string: two strings that go on in the same way, each from its beginning or from
  a delimiter, add the same fields to those before (`SameEnding`), from which
  `EraseSecond`, `EraseFirst`, `EraseLast` and `FirstField` follow.
* `DefinedWhatWasAsked`: `DefinedAsAsked`.  `MapInv` says that the map has the names
  of the options so far, each with the count it was given last (`Maps`), less the
  one whose argument is being taken apart (`Done`).  That the two tokens of that
  argument are its first two fields (`TokensAreFields`) comes from `KeepsFields`,
  and that a count is positive from `Atoi` being a natural number (`AtoiType`).
* `SuccessOfSomething`: `SomethingIsDone`.  The branch of the child that ends with
  0 and does nothing is for two flags at once, and there are never two (`OneFlag`).
* `LastQueryIsAsked`: `AsksLast`.  `AskedInv` says that flag and name are those of
  the last query option, unless there is a `-r`.
* `CommandFollowsDashes`: `CommandIsGiven`.  `CommandInv` says what `before = "--"`
  means at each word: some `--` has been passed, as the end of the options or as
  an argument, and the words after it are the last of the operands (`EndWith`).
* `EnvironmentIsWhole`: the first and the last part of `PassesOn`, each variable
  once (`EachOnce`) and no deletion outside the array (`DeletesOwn`).  `EnvInv` says
  which names have been entered at each place, and that the array has a line for
  each (`OfList`), hence at most one less than the map before it is made anew.
* `CommandKnowsItsLock`: all of `PassesOn`.  `ListInv` says that what has been read
  of the environment is in the map with its last value (`Newest`), and that the
  array is of the map.  The list of resources is written with a recursion of its
  own; `ResourcesListed` shows that its fields are the resources with their counts.
  Two hypotheses: no name of a resource has a comma in it (`NoCommaInNames`: the
  code does not forbid one, and the list is then ambiguous; no input of the run has
  one either), and no number is written as a comma, which has to be said because
  `ToString` of the module `TLC` is any function at all to the prover.

All of these come from one inductive invariant, `ArgumentsInv`.  What a recursive
function computes (`Runs`, the number in `Atoi`, the text in `ResourceList`) is
proved by induction over the numbers all the same, without an operator for what
is to hold: `NumbersIn` takes a *set* of numbers, and follows from the pigeonhole
principle of `FiniteSetTheorems`; `Recursion` shows that the function exists.

### The packets (`PacketsProofs`)

For any names of non-zero bytes, any 32-bit words and any `RES_BUFF` above 0:

* `StaysInBounds`: no read passes the end of a datagram;
* `ReceivedAsSent`: all fields arrive as sent, and a name too long arrives cut.

The invariant says that what has been read so far is a prefix of what was written.
`WordBytesAre` shows that four bytes make their word.

### Only model-checked

* Liveness (`AloneAcquires`, `AcquireReturns`, `OnlyMissedHangs`,
  `OnlyMissedMutes`, `CreationReturns`, `DeletionReturns`, `ParentFollows`,
  `OnlyMissedWaits`, `Ends`), which is out of the prover's reach.
* The lock with losses, for which `Timely` does not hold.
* `ResourceThread`, which has two fixed threads that TLC explores completely; its
  `TypeOK` is proved nowhere, and its other properties are liveness properties.

Every other invariant of a run that is to pass is stated by a theorem.

## Disagreements

Each of these two is a run that TLC must find violated.

* **An object cannot be used twice** (`lock_reuse`).  `release_lock` stops the
  beaconing thread and keeps the resource; a second `acquire(res)` succeeds and
  beacons nothing while it holds, so that another process acquires too.
* **Under `-d` an error hangs the tool** (`cli_failure`).  A child that fails
  before it locks sends no signal, and the parent waits for one.

Found on the way, without a run of their own.  In the protocol:

* Silence is taken for a free resource, so losses break exclusion: in the setting
  of `lock_refines` without delay, three lost datagrams do no harm, and four, all
  those one process sends another during its two waits, give two holders.
* A beacon time of 0 makes every wait 0, and two processes hold.  `-b` takes any
  text, for 0 if it is no number (`dist_lock.cc:245`).
* An attempt that is interrupted while it listens is not counted
  (`DistributedLock.cc:473-485`): `-n` does not bound the attempts.
* A second `acquire()` without a resource waits for ever in `waitForReady`: the
  thread that would notify it has ended.
* The first one may wait there for ever too, when the thread of a resource sleeps
  through the notification of its start (`Hangs`); `acquire(res)` may listen with
  such a thread, and, if it stalls long enough, hold.
* A holder that queries its own resource says QUERYING from then on
  (`DistributedLock.cc:358`), and others acquire: with `AsksHeld` set to TRUE,
  `HoldersWithinCount` is violated.
* A query accounts members with another count, and leaves them in the table for the
  next `acquire` of the object, which counts them as holders (`OnlySameCount`,
  `DistributedLock.cc:385`).  The next query of the object answers with them as well,
  however long they have gone (`FoundHaveHeld`).
* A query may call a resource busy that nobody has.  `acquire()` with several
  resources sets each to ACQUIRED, and beacons it, before it looks at the next one;
  when that is full they are taken back.  The help of `-q` says that it returns 1
  when the resource is acquired, and 0 otherwise (`dist_lock.cc:84-85`): with a peer
  in `Several`, `BusyMeansHeld` is violated.
* `-W` misses a process in its backoff, which is silent for 6 to 12 beacon times
  while a query that hears nothing gives up after 4.
* A query whose every wait is cut short within a millisecond never ends: the
  elapsed time is truncated to 0.

In the threads of a process:

* The pointer that `getMember` returned is used after `members_m` was dropped:
  `reset` may have deleted the member (`NeverFreed`, `DistributedLock.cc:91`).
* Two objects in a process are not safe to delete, although the tests do it: a
  dispatch calls an object another thread has just deleted; and the handler,
  once deleted, stays in `s_ch` (`NeverUndefined`).
* The constructor of `CommHandler` throws when its thread runs already, if the
  broadcast address does not resolve (`CommHandler.h:52-56`): the handler is freed
  and its thread goes on (`AloneSafe` excepts it).
* Even a lone object attaches itself to `al_list` while the thread of its handler
  already reads it.

In the tool:

* The signal of a child that comes before its parent waits is lost, and
  the parent of a detached child waits for ever (`Missed` in `DistLockCli`).
* If the child alone is killed its command goes on without the lock, and another one
  starts beside it (`OnlyOrphansOverlap` excepts it).
* Where SIGCHLD is ignored, `waitpid` fails and the tool always ends with 1, whatever
  the command did (`StatusIsCommands` says so).
* Under `-d`, ^C kills the child, and a parent that still waits for its signal stays.
* A name longer than 64 bytes is cut in every packet and then matches no
  resource: processes that use it do not hear each other.
* The last of `-q` and `-r` names what is queried: `-q a -r b` asks about b.  The
  word of `-q` is not tokenised: `-q a:2` asks about a resource of that name.
* Numbers are read with `atoi`: a count of `2x` is 2, `-n x` sets no limit, and
  `-n -1` wraps to the largest one.
* `-r -- cmd` takes `--` for the resource.
* An entry of the environment without `=` reaches the command as `NAME=NAME`.

## Limits

* Data races inside `std::map` and `std::vector` are below the level of the
  models.  For the tables, `MemberTable` says which accesses may meet; what such a
  race does is not modelled.
* Spurious wakeups of condition variables are modelled in `ResourceThread` only.
* Random ids are taken to be distinct.
* Resources that are defined while others are in use are, to the protocol, idle
  until then; how the map of resources grows is not modelled.
* Of the command line, the wording of messages, several letters in one word
  (`-dn3`), blanks, signs and overflow in `atoi`, and the methods of
  `StringTokenizer` that nothing calls are left out.
* A beacon time of 0 is outside the bounds of the runs and of `Timely`: no property
  covers it.  Counts above one are covered by `Exclusive`, `Implements` and
  `CallsExclusive`, not by a run.
* **Not modelled**: socket options, how an address is resolved, debugging output and
  exceptions, which are I/O or values; the tests and the build.
* Processes of one resource may give it different counts, and then exclusion is
  promised only among those with the same count; this is what the code does
  (`updateMember`), and how the promise is stated.

## Plan

*Done*: the protocol with `CountingLock` and its proofs; the calls about one
resource and their proofs; the beaconing thread; the tables of members, the
queries, the shared handler, the packets, the tool, two of them together, and the
command line and the environment, with their proofs.

*Left*, most important first:

1. `DistributedLock` as a special case of `LockCalls`, and losses and deaths in the
   latter.
2. A run with three processes and a count of two, which the theorems `Exclusive`
   and `CallsExclusive` cover and TLC does not reach in minutes.
3. The safety part of `ResourceThread` as a theorem: in `join` or waiting to be
   ready, a sleeping thread is one that has missed a notification.
