---------------------------- MODULE CommHandler ----------------------------
(***************************************************************************)
(* The CommHandler that the DistributedLock objects of one process share:  *)
(* its creation by the first object (getCommHandlerInstance), its thread   *)
(* (CommHandler::run), the dispatch of packets to the listeners            *)
(* (Observable), and its deletion with the last object.                    *)
(*                                                                         *)
(* Every object belongs to a thread of its own, as in src/test/main.cc.    *)
(* One step is one access to what the threads share: al_list is read and   *)
(* changed in one step, and a race within std::vector is not modelled.  A  *)
(* handler is named after the object that creates it.  Once memory is used *)
(* after it has been freed the program is undefined, and nothing follows.  *)
(***************************************************************************)
EXTENDS Integers, FiniteSets, SequencesExt

CONSTANTS Lock, NoLock     \* the objects, and the null pointer

ASSUME CommAssumption == IsFiniteSet(Lock) /\ NoLock \notin Lock

VARIABLES
  sch,        \* s_ch: the handler shared by the objects, or NoLock
  count,      \* s_ch_count
  pc,         \* pc[o]: where the constructor or destructor of o is
  ch,         \* ch[o]: the handler o uses
  hpc,        \* hpc[h]: where the thread of handler h is
  running,    \* running[h]: CommHandler::running
  listeners,  \* listeners[h]: al_list
  index,      \* index[h]: the position of the dispatch in al_list
  al,         \* al[h]: the listener that is called
  freed,      \* the handlers that have been deleted
  due         \* history: due[h], listeners the last dispatch has not called

object == <<sch, count, ch>>
thread == <<hpc, index, al>>
vars == <<object, pc, thread, running, listeners, freed, due>>

Move(o, from, to) == pc[o] = from /\ pc' = [pc EXCEPT ![o] = to]

HandlerMove(h, from, to) == hpc[h] = from /\ hpc' = [hpc EXCEPT ![h] = to]

-----------------------------------------------------------------------------
(* The constructor of o.                                                   *)
Look(o) ==
  /\ Move(o, "new", IF sch = NoLock THEN "create" ELSE "count")
  /\ UNCHANGED <<object, thread, running, listeners, freed, due>>

(* new CommHandler: create_socket and bind.  Where one fails the exception *)
(* leaves the constructor of o: there is neither a handler nor an object.  *)
Open(o) ==
  /\ \E next \in {"bind", "failed"} : Move(o, "create", next)
  /\ UNCHANGED <<object, thread, running, listeners, freed, due>>

Bind(o) ==
  /\ \E next \in {"build", "failed"} : Move(o, "bind", next)
  /\ UNCHANGED <<object, thread, running, listeners, freed, due>>

(* The thread of the handler starts.                                       *)
Build(o) ==
  /\ Move(o, "build", "started")
  /\ hpc' = [hpc EXCEPT ![o] = "begin"]
  /\ UNCHANGED <<object, index, al, running, listeners, freed, due>>

(* Thread::wait: from here on a notification of the thread is seen.        *)
Wait(o) ==
  /\ Move(o, "started", "waiting")
  /\ UNCHANGED <<object, thread, running, listeners, freed, due>>

(* The broadcast address is looked up.  Where that fails the exception has *)
(* the handler freed, with the socket closed but the thread not joined.    *)
Resolve(o) ==
  /\ \/ Move(o, "woken", "made") /\ UNCHANGED freed
     \/ Move(o, "woken", "unresolved") /\ freed' = freed \cup {o}
  /\ UNCHANGED <<object, thread, running, listeners, due>>

Assign(o) ==
  /\ Move(o, "made", "count")
  /\ sch' = o
  /\ UNCHANGED <<count, ch, thread, running, listeners, freed, due>>

(* Mutant of Enter: only the object that creates the handler is counted.   *)
EnterCreator(o) ==
  /\ Move(o, "count", "take")
  /\ count' = IF sch = o THEN count + 1 ELSE count
  /\ UNCHANGED <<sch, ch, thread, running, listeners, freed, due>>

Enter(o) ==
  /\ Move(o, "count", "take")
  /\ count' = count + 1
  /\ UNCHANGED <<sch, ch, thread, running, listeners, freed, due>>

(* The handler that is shared by then, which another object may have made. *)
Take(o) ==
  /\ Move(o, "take", "attach")
  /\ ch' = [ch EXCEPT ![o] = sch]
  /\ UNCHANGED <<sch, count, thread, running, listeners, freed, due>>

(* addActionListener                                                       *)
Attach(o) ==
  /\ Move(o, "attach", "live")
  /\ listeners' = [listeners EXCEPT ![ch[o]] = Append(@, o)]
  /\ UNCHANGED <<object, thread, running, freed, due>>

-----------------------------------------------------------------------------
(* The destructor of o: releaseAll, then removeActionListener.             *)
Detach(o) ==
  /\ Move(o, "live", "detached")
  /\ listeners' = [listeners EXCEPT ![ch[o]] = RemoveFirst(@, o)]
  /\ due' = [due EXCEPT ![ch[o]] = @ \ {o}]
  /\ UNCHANGED <<object, thread, running, freed>>

(* The resources are deleted under update_m, which actionPerformed holds   *)
(* while it looks at them.                                                 *)
Clear(o) ==
  /\ Move(o, "detached", "cleared")
  /\ \A h \in Lock : hpc[h] = "acting" => al[h] # o
  /\ UNCHANGED <<object, thread, running, listeners, freed, due>>

Leave(o) ==
  /\ Move(o, "cleared", "test")
  /\ count' = count - 1
  /\ UNCHANGED <<sch, ch, thread, running, listeners, freed, due>>

Test(o) ==
  /\ Move(o, "test", IF count = 0 THEN "stop" ELSE "freed")
  /\ UNCHANGED <<object, thread, running, listeners, freed, due>>

(* Mutant of Stop: running is not cleared.                                 *)
StopRunning(o) ==
  /\ Move(o, "stop", "join")
  /\ listeners' = [listeners EXCEPT ![ch[o]] = <<>>]
  /\ UNCHANGED <<object, thread, running, freed, due>>

(* ~CommHandler: stop, unless another destructor has.                      *)
Stop(o) ==
  /\ Move(o, "stop", IF running[ch[o]] THEN "join" ELSE "delete")
  /\ running' = [running EXCEPT ![ch[o]] = FALSE]
  /\ listeners' =
       [listeners EXCEPT ![ch[o]] = IF running[ch[o]] THEN <<>> ELSE @]
  /\ UNCHANGED <<object, thread, freed, due>>

(* Mutant of Join: the thread is not waited for.                           *)
JoinAtOnce(o) ==
  /\ Move(o, "join", "delete")
  /\ UNCHANGED <<object, thread, running, listeners, freed, due>>

Join(o) ==
  /\ Move(o, "join", "delete")
  /\ hpc[ch[o]] = "ended"
  /\ UNCHANGED <<object, thread, running, listeners, freed, due>>

(* The handler is freed, and then o itself; s_ch still points to it.       *)
Delete(o) ==
  /\ Move(o, "delete", "freed")
  /\ freed' = freed \cup {ch[o]}
  /\ UNCHANGED <<object, thread, running, listeners, due>>

-----------------------------------------------------------------------------
(* The thread of handler h.                                                *)
Begin(h) ==
  /\ HandlerMove(h, "begin", "loop")
  /\ running' = [running EXCEPT ![h] = TRUE]
  /\ UNCHANGED <<object, pc, index, al, listeners, freed, due>>

(* Mutant of Loop: nothing is notified.                                    *)
LoopSilently(h) ==
  /\ HandlerMove(h, "loop", IF running[h] THEN "receive" ELSE "ended")
  /\ UNCHANGED <<object, pc, index, al, running, listeners, freed, due>>

(* The head of the loop notifies the constructor, each time around.        *)
Loop(h) ==
  /\ HandlerMove(h, "loop", IF running[h] THEN "receive" ELSE "ended")
  /\ pc' = IF running[h] /\ pc[h] = "waiting" THEN [pc EXCEPT ![h] = "woken"] ELSE pc
  /\ UNCHANGED <<object, index, al, running, listeners, freed, due>>

(* receive returns NULL at its timeout, or when the socket is closed.      *)
Timeout(h) ==
  /\ HandlerMove(h, "receive", "loop")
  /\ UNCHANGED <<object, pc, index, al, running, listeners, freed, due>>

(* Mutant of Packet: the dispatch starts with the second listener.         *)
PacketForOthers(h) ==
  /\ HandlerMove(h, "receive", IF running[h] THEN "dispatch" ELSE "loop")
  /\ index' = [index EXCEPT ![h] = 2]
  /\ due' = [due EXCEPT ![h] = {listeners[h][i] : i \in 1 .. Len(listeners[h])}]
  /\ UNCHANGED <<object, pc, al, running, listeners, freed>>

(* A packet: it is dispatched, unless the handler has been stopped.        *)
Packet(h) ==
  /\ HandlerMove(h, "receive", IF running[h] THEN "dispatch" ELSE "loop")
  /\ index' = [index EXCEPT ![h] = 1]
  /\ due' = [due EXCEPT ![h] = {listeners[h][i] : i \in 1 .. Len(listeners[h])}]
  /\ UNCHANGED <<object, pc, al, running, listeners, freed>>

(* _actionPerformed reads the next listener of al_list, or has called all. *)
Dispatch(h) ==
  LET more == index[h] <= Len(listeners[h])
  IN  /\ HandlerMove(h, "dispatch", IF more THEN "call" ELSE "loop")
      /\ al' = IF more THEN [al EXCEPT ![h] = listeners[h][index[h]]] ELSE al
      /\ UNCHANGED <<object, pc, index, running, listeners, freed, due>>

(* DistributedLock::actionPerformed locks update_m, and returns.           *)
Call(h) ==
  /\ HandlerMove(h, "call", "acting")
  /\ due' = [due EXCEPT ![h] = @ \ {al[h]}]
  /\ UNCHANGED <<object, pc, index, al, running, listeners, freed>>

Return(h) ==
  /\ HandlerMove(h, "acting", "dispatch")
  /\ index' = [index EXCEPT ![h] = @ + 1]
  /\ UNCHANGED <<object, pc, al, running, listeners, freed, due>>

-----------------------------------------------------------------------------
(* Memory is used that has been freed: the handler by an object, an object *)
(* by a dispatch, or the handler by its own thread.                        *)
Undefined ==
  \/ \E o \in Lock : /\ pc[o] \in {"attach", "live", "stop", "join", "delete"}
                     /\ ch[o] \in freed
  \/ \E h \in Lock : hpc[h] \in {"call", "acting"} /\ pc[al[h]] = "freed"
  \/ \E h \in freed : hpc[h] # "ended"

Init ==
  /\ sch = NoLock /\ count = 0
  /\ pc = [o \in Lock |-> "new"]
  /\ ch = [o \in Lock |-> NoLock]
  /\ hpc = [h \in Lock |-> "none"]
  /\ running = [h \in Lock |-> FALSE]
  /\ listeners = [h \in Lock |-> <<>>]
  /\ index = [h \in Lock |-> 1]
  /\ al = [h \in Lock |-> NoLock]
  /\ freed = {}
  /\ due = [h \in Lock |-> {}]

(* The steps that follow once o is created, or deleted.                    *)
Object(o) ==
  /\ ~ Undefined
  /\ \/ Open(o) \/ Bind(o) \/ Build(o) \/ Wait(o) \/ Resolve(o) \/ Assign(o) \/ Enter(o)
     \/ Take(o) \/ Attach(o) \/ Clear(o) \/ Leave(o) \/ Test(o) \/ Stop(o) \/ Join(o) \/ Delete(o)

Handler(h) ==
  /\ ~ Undefined
  /\ \/ Begin(h) \/ Loop(h) \/ Timeout(h) \/ Packet(h)
     \/ Dispatch(h) \/ Call(h) \/ Return(h)

Next ==
  \/ \E o \in Lock : Object(o) \/ (~ Undefined /\ (Look(o) \/ Detach(o)))
  \/ \E h \in Lock : Handler(h)

Spec == Init /\ [][Next]_vars

(* The threads are scheduled fairly; creating and deleting is up to the    *)
(* program.                                                                *)
FairSpec ==
  Spec /\ \A o \in Lock : WF_vars(Object(o)) /\ WF_vars(Handler(o))

-----------------------------------------------------------------------------
(* Each variable has a value of its kind; the count is that of the objects *)
(* that have entered and not left.                                         *)
TypeOK ==
  /\ sch \in Lock \cup {NoLock}
  /\ pc \in [Lock -> {"new", "create", "bind", "build", "failed", "started",
                      "waiting", "woken", "unresolved", "made", "count", "take",
                      "attach", "live", "detached", "cleared", "test", "stop", "join",
                      "delete", "freed"}]
  /\ count = Cardinality({o \in Lock : pc[o] \in {"take", "attach", "live", "detached", "cleared"}})
  /\ ch \in [Lock -> Lock \cup {NoLock}]
  /\ hpc \in [Lock -> {"none", "begin", "loop", "receive", "dispatch", "call",
                       "acting", "ended"}]
  /\ running \in [Lock -> BOOLEAN]
  /\ DOMAIN listeners = Lock
  /\ \A h \in Lock : listeners[h] \in Seq(Lock)
  /\ index \in [Lock -> Nat \ {0}]
  /\ al \in [Lock -> Lock \cup {NoLock}]
  /\ freed \subseteq Lock
  /\ due \in [Lock -> SUBSET Lock]

Alone == \A o, p \in Lock : pc[o] # "new" /\ pc[p] # "new" => o = p

(* A process that makes one object only, as the command line tool does,    *)
(* may delete it at any time: ~DistributedLock joins the thread of the     *)
(* handler, which may be calling the object, before the object is freed.   *)
(* It may not give the constructor an address that does not resolve.       *)
AloneSafe == Alone /\ (\A o \in Lock : pc[o] # "unresolved") => ~ Undefined

Kept == \A o \in Lock : pc[o] \in {"new", "create", "bind", "build", "failed", "started",
                                   "waiting", "woken", "unresolved", "made", "count",
                                   "take", "attach", "live"}

(* Objects that are never deleted may be made at the same time: although   *)
(* two of them may then make a handler each, every object hears from one   *)
(* that runs, and no dispatch leaves a listener out.                       *)
KeptHears ==
  Kept =>
    /\ \A o \in Lock : pc[o] = "live" =>
         running[ch[o]] /\ \E i \in 1 .. Len(listeners[ch[o]]) : listeners[ch[o]][i] = o
    /\ \A h \in Lock : hpc[h] = "loop" => due[h] = {}

(* The constructor returns, or throws: it waits for a notification without *)
(* a predicate, but the thread notifies each time around its loop.         *)
CreationReturns ==
  \A o \in Lock : (pc[o] = "create") ~> (pc[o] \in {"live", "failed"} \/ Undefined)

(* The destructor returns: no dispatch keeps it from update_m, and the     *)
(* thread it joins ends.                                                   *)
DeletionReturns ==
  \A o \in Lock : (pc[o] = "detached") ~> (pc[o] = "freed" \/ Undefined)

(* src/test/main.cc, where every job makes an object, deletes it, and says *)
(* that it ends.  It does not hold with two objects, only with one         *)
(* (AloneSafe).                                                            *)
NeverUndefined == ~ Undefined

=============================================================================
