------------------------- MODULE CommHandlerProofs -------------------------
(***************************************************************************)
(* Theorems about CommHandler, for any number of objects: the count of     *)
(* objects is right, a process with one object may delete it at any time,  *)
(* and objects that are kept are all served.                               *)
(***************************************************************************)
EXTENDS CommHandler, FiniteSetTheorems, TLAPS

(* The steps of Next: those of an object, and of the thread of a handler.  *)
Creates(o) ==
  \/ Look(o) \/ Open(o) \/ Bind(o) \/ Build(o) \/ Wait(o) \/ Resolve(o) \/ Assign(o)
  \/ Enter(o) \/ Take(o)
Deletes(o) ==
  Clear(o) \/ Leave(o) \/ Test(o) \/ Stop(o) \/ Join(o) \/ Delete(o)
Runs(h) ==
  Begin(h) \/ Loop(h) \/ Timeout(h) \/ Packet(h) \/ Dispatch(h) \/ Call(h) \/ Return(h)

-----------------------------------------------------------------------------
(* Who uses a handler has one: s_ch is set before it is read, and never    *)
(* reset.                                                                  *)
Attached == {"attach", "live", "detached", "cleared", "test", "stop", "join", "delete"}

HasHandler ==
  /\ \A o \in Lock : pc[o] \in {"count", "take"} => sch # NoLock
  /\ \A o \in Lock : pc[o] \in Attached => ch[o] # NoLock

(* removeActionListener: al_list without the first entry of o.             *)
LEMMA LeastExists ==
  ASSUME NEW S \in SUBSET Nat, S # {}
  PROVE  \E m \in S : \A n \in S : m <= n
<1> DEFINE R == {ss \in Nat \X Nat : ss[1] < ss[2]}
<1>1. IsWellFoundedOn(R, Nat)
  BY NatLessThanWellFounded DEF OpToRel
<1> HIDE DEF R
<1>2. PICK m \in S : \A n \in S : ~ (<<n, m>> \in R)
  BY <1>1, WFMin
<1>3. \A n \in S : ~ (n < m)
  BY <1>2 DEF R
<1> QED BY <1>3

LEMMA RemovedType ==
  ASSUME NEW s \in Seq(Lock), NEW o \in Lock
  PROVE  RemoveFirst(s, o) \in Seq(Lock)
<1> DEFINE I == {i \in 1 .. Len(s) : s[i] = o}
<1>1. CASE I = {}
  BY <1>1 DEF RemoveFirst
<1>2. CASE I # {}
  <2>1. Min(I) \in I
    <3>1. I \in SUBSET Nat
      OBVIOUS
    <3> HIDE DEF I
    <3> QED BY <1>2, <3>1, LeastExists DEF Min
  <2>2. RemoveFirst(s, o) = RemoveAt(s, Min(I))
    <3>1. SelectInSeq(s, LAMBDA v : v = o) = Min(I)
      BY <1>2 DEF SelectInSeq
    <3> QED BY <1>2, <3>1, Zenon DEF RemoveFirst
  <2>3. \A i \in 1 .. Len(s) : RemoveAt(s, i) \in Seq(Lock)
    BY DEF RemoveAt
  <2> QED BY <2>1, <2>2, <2>3
<1> QED BY <1>1, <1>2

(* The objects that are counted, and what holds of the other variables.    *)
Inside == {o \in Lock : pc[o] \in {"take", "attach", "live", "detached", "cleared"}}

PcValues == {"new", "create", "bind", "build", "failed", "started", "waiting", "woken",
             "unresolved", "made", "count", "take", "attach", "live", "detached", "cleared",
             "test", "stop", "join", "delete", "freed"}

HpcValues == {"none", "begin", "loop", "receive", "dispatch", "call", "acting", "ended"}

Values ==
  /\ sch \in Lock \cup {NoLock}
  /\ pc \in [Lock -> PcValues]
  /\ ch \in [Lock -> Lock \cup {NoLock}]
  /\ hpc \in [Lock -> HpcValues]
  /\ running \in [Lock -> BOOLEAN]
  /\ DOMAIN listeners = Lock
  /\ \A h \in Lock : listeners[h] \in Seq(Lock)
  /\ index \in [Lock -> Nat \ {0}]
  /\ al \in [Lock -> Lock \cup {NoLock}]
  /\ freed \subseteq Lock
  /\ due \in [Lock -> SUBSET Lock]

LEMMA TypeIsValues == TypeOK <=> Values /\ count = Cardinality(Inside)
BY DEF TypeOK, Values, PcValues, HpcValues, Inside

LEMMA InsideFinite == IsFiniteSet(Inside)
BY CommAssumption, FS_Subset DEF Inside

LEMMA InitType == Init => TypeOK /\ HasHandler
<1> SUFFICES ASSUME Init PROVE TypeOK /\ HasHandler
  OBVIOUS
<1>1. Inside = {}
  BY DEF Init, Inside
<1>2. count = Cardinality(Inside)
  BY <1>1, FS_EmptySet DEF Init
<1>3. Values
  BY DEF Init, Values, PcValues, HpcValues
<1> QED BY <1>2, <1>3, TypeIsValues DEF Init, HasHandler, Attached

LEMMA CreatesValues ==
  ASSUME Values, HasHandler, NEW o \in Lock, Creates(o) \/ Attach(o)
  PROVE  Values' /\ HasHandler'
<1> USE CommAssumption DEF Values, PcValues, HasHandler, Attached, Move, object, thread
<1>1. CASE Look(o)
  BY <1>1 DEF Look
<1>2. CASE Open(o) \/ Bind(o)
  <2>1. \E next \in PcValues \ (Attached \cup {"count", "take"}) : pc' = [pc EXCEPT ![o] = next]
    BY <1>2 DEF Open, Bind
  <2> QED BY <1>2, <2>1 DEF Open, Bind
<1>3. CASE Build(o)
  BY <1>3 DEF Build, HpcValues
<1>4. CASE Wait(o)
  BY <1>4 DEF Wait
<1>5. CASE Resolve(o) \/ Assign(o)
  BY <1>5 DEF Resolve, Assign
<1>6. CASE Enter(o)
  BY <1>6 DEF Enter
<1>7. CASE Take(o)
  BY <1>7 DEF Take
<1>8. CASE Attach(o)
  <2>1. ch[o] \in Lock
    BY <1>8 DEF Attach
  <2> QED BY <1>8, <2>1 DEF Attach
<1> QED
  BY <1>1, <1>2, <1>3, <1>4, <1>5, <1>6, <1>7, <1>8 DEF Creates

LEMMA DeletesValues ==
  ASSUME Values, HasHandler, NEW o \in Lock, Deletes(o) \/ Detach(o)
  PROVE  Values' /\ HasHandler'
<1> USE CommAssumption DEF Values, PcValues, HasHandler, Attached, Move, object, thread
<1>1. CASE Detach(o)
  <2>1. ch[o] \in Lock
    BY <1>1 DEF Detach
  <2>2. RemoveFirst(listeners[ch[o]], o) \in Seq(Lock)
    BY <2>1, RemovedType
  <2> QED BY <1>1, <2>1, <2>2 DEF Detach
<1>2. ASSUME /\ \E next \in PcValues \ {"count", "take", "attach"} : pc' = [pc EXCEPT ![o] = next]
             /\ pc[o] \in Attached
             /\ UNCHANGED <<sch, ch, hpc, index, al, due>>
      PROVE  /\ pc' \in [Lock -> PcValues]
             /\ HasHandler'
             /\ ch[o] \in Lock
  BY <1>2
<1> HIDE DEF PcValues, HasHandler
<1>3. CASE Clear(o) \/ Leave(o) \/ Test(o) \/ Join(o)
  <2>1. \E next \in PcValues \ {"count", "take", "attach"} : pc' = [pc EXCEPT ![o] = next]
    BY <1>3 DEF Clear, Leave, Test, Join, PcValues
  <2>2. pc[o] \in Attached
    BY <1>3 DEF Clear, Leave, Test, Join
  <2>3. UNCHANGED <<sch, ch, hpc, index, al, due, listeners, running, freed>>
    BY <1>3 DEF Clear, Leave, Test, Join
  <2> QED BY <1>2, <2>1, <2>2, <2>3
<1>4. CASE Stop(o)
  <2>1. \E next \in PcValues \ {"count", "take", "attach"} : pc' = [pc EXCEPT ![o] = next]
    BY <1>4 DEF Stop, PcValues
  <2>2. pc[o] \in Attached /\ UNCHANGED <<sch, ch, hpc, index, al, due>>
    BY <1>4 DEF Stop
  <2>3. pc' \in [Lock -> PcValues] /\ HasHandler' /\ ch[o] \in Lock
    BY <1>2, <2>1, <2>2
  <2> QED BY <1>4, <2>2, <2>3 DEF Stop
<1>5. CASE Delete(o)
  BY <1>2, <1>5 DEF Delete, PcValues
<1> QED BY <1>1, <1>3, <1>4, <1>5 DEF Deletes

LEMMA RunsValues ==
  ASSUME Values, HasHandler, NEW h \in Lock, Runs(h)
  PROVE  Values' /\ HasHandler'
<1> USE CommAssumption DEF Values, HpcValues, HasHandler, Attached, HandlerMove, object
<1>1. CASE Begin(h) \/ Timeout(h)
  BY <1>1 DEF Begin, Timeout
<1>2. CASE Loop(h)
  BY <1>2 DEF Loop, PcValues
<1>3. CASE Packet(h)
  BY <1>3 DEF Packet
<1>4. CASE Dispatch(h)
  BY <1>4 DEF Dispatch
<1>5. CASE Call(h)
  BY <1>5 DEF Call
<1>6. CASE Return(h)
  <2>1. index' \in [Lock -> Nat \ {0}]
    BY <1>6 DEF Return
  <2> QED BY <1>6, <2>1 DEF Return
<1> QED BY <1>1, <1>2, <1>3, <1>4, <1>5, <1>6 DEF Runs

(* The count follows the objects.                                          *)
LEMMA CountFollows ==
  ASSUME TypeOK, NEW o \in Lock, Creates(o) \/ Attach(o) \/ Deletes(o) \/ Detach(o)
  PROVE  count' = Cardinality(Inside')
<1> USE DEF Inside, Move, object
<1>1. pc \in [Lock -> PcValues] /\ count = Cardinality(Inside)
  BY TypeIsValues DEF Values
<1>2. count \in Int
  BY <1>1, InsideFinite, FS_CardinalityType
<1>3. CASE Enter(o)
  <2>1. Inside' = Inside \cup {o} /\ o \notin Inside
    BY <1>1, <1>3 DEF Enter
  <2> HIDE DEF Inside
  <2>2. Cardinality(Inside') = Cardinality(Inside) + 1
    BY <2>1, InsideFinite, FS_AddElement
  <2> QED BY <1>1, <1>3, <2>2 DEF Enter
<1>4. CASE Leave(o)
  <2>1. Inside' = Inside \ {o} /\ o \in Inside
    BY <1>1, <1>4 DEF Leave
  <2> HIDE DEF Inside
  <2>2. Cardinality(Inside') = Cardinality(Inside) - 1
    BY <2>1, InsideFinite, FS_RemoveElement
  <2> QED BY <1>1, <1>4, <2>2 DEF Leave
<1>5. ASSUME Inside' = Inside /\ count' = count PROVE count' = Cardinality(Inside')
  BY <1>1, <1>5
<1>6. CASE Look(o) \/ Open(o) \/ Bind(o) \/ Build(o) \/ Wait(o) \/ Resolve(o) \/ Assign(o)
  BY <1>1, <1>5, <1>6 DEF Look, Open, Bind, Build, Wait, Resolve, Assign
<1>7. CASE Take(o) \/ Attach(o) \/ Clear(o) \/ Detach(o)
  BY <1>1, <1>5, <1>7 DEF Take, Attach, Clear, Detach
<1>8. CASE Test(o) \/ Stop(o) \/ Join(o) \/ Delete(o)
  BY <1>1, <1>5, <1>8 DEF Test, Stop, Join, Delete
<1> QED BY <1>3, <1>4, <1>6, <1>7, <1>8 DEF Creates, Deletes

LEMMA CountStays ==
  ASSUME TypeOK, NEW h \in Lock, Runs(h)
  PROVE  count' = Cardinality(Inside')
<1>1. pc \in [Lock -> PcValues] /\ count = Cardinality(Inside)
  BY TypeIsValues DEF Values
<1>2. count' = count
  BY DEF Runs, Begin, Loop, Timeout, Packet, Dispatch, Call, Return, object
<1>3. Inside' = Inside
  BY <1>1 DEF Runs, Begin, Loop, Timeout, Packet, Dispatch, Call, Return, Inside
<1> QED BY <1>1, <1>2, <1>3

LEMMA NextCases ==
  Next => \/ \E o \in Lock : /\ ~ Undefined
                             /\ Creates(o) \/ Attach(o) \/ Deletes(o) \/ Detach(o)
          \/ \E h \in Lock : ~ Undefined /\ Runs(h)
BY DEF Next, Object, Handler, Creates, Deletes, Runs

LEMMA TypeStep == TypeOK /\ HasHandler /\ [Next]_vars => TypeOK' /\ HasHandler'
<1> SUFFICES ASSUME TypeOK, HasHandler, [Next]_vars PROVE TypeOK' /\ HasHandler'
  OBVIOUS
<1>1. CASE UNCHANGED vars
  BY <1>1 DEF vars, object, thread, TypeOK, HasHandler
<1>2. CASE Next
  <2>1. Values
    BY TypeIsValues
  <2>2. Values' /\ HasHandler'
    BY <1>2, <2>1, NextCases, CreatesValues, DeletesValues, RunsValues
  <2>3. count' = Cardinality(Inside')
    BY <1>2, NextCases, CountFollows, CountStays
  <2>4. (TypeOK <=> Values /\ count = Cardinality(Inside))'
    BY TypeIsValues, PTL
  <2> QED BY <2>2, <2>3, <2>4
<1> QED BY <1>1, <1>2

(* Each variable has a value of its kind, and s_ch_count is the number of  *)
(* the objects whose constructor has counted them and whose destructor has *)
(* not: the count is atomic, although the tests of it are apart from it.   *)
THEOREM TypeCorrect == Spec => []TypeOK
<1>1. Init => TypeOK /\ HasHandler
  BY InitType
<1>2. TypeOK /\ HasHandler /\ [Next]_vars => TypeOK' /\ HasHandler'
  BY TypeStep
<1> QED BY <1>1, <1>2, PTL DEF Spec

-----------------------------------------------------------------------------
(* A process with one object.                                              *)
Before == {"create", "bind", "build", "failed"}
Served == {"woken", "made", "count", "take", "attach", "live", "detached", "cleared", "test", "stop"}

(* Nothing has been made before the object; only its own handler is used;  *)
(* the handler runs until it is stopped, and has ended before it is freed. *)
OneObject(o) ==
  IF pc[o] = "new"
  THEN hpc[o] = "none" /\ ~ running[o] /\ sch # o /\ o \notin freed
  ELSE /\ sch = (IF pc[o] \in Before \cup {"started", "waiting", "woken", "made"} THEN NoLock ELSE o)
       /\ pc[o] \in Attached => ch[o] = o
       /\ pc[o] \in Before => hpc[o] = "none" /\ ~ running[o]
       /\ pc[o] \in {"started", "waiting"} => running[o] = (hpc[o] # "begin")
       /\ pc[o] \in {"started", "waiting"} \cup Served => hpc[o] \notin {"none", "ended"}
       /\ pc[o] \in Served => running[o] /\ hpc[o] # "begin"
       /\ pc[o] \in {"delete", "freed"} => hpc[o] = "ended"
       /\ pc[o] # "freed" => o \notin freed

Resolved == \A o \in Lock : pc[o] # "unresolved"

AloneInv ==
  Alone /\ Resolved =>
    /\ \A o \in Lock : OneObject(o)
    /\ \A h \in Lock : hpc[h] \in {"call", "acting"} => al[h] \in Lock

LEMMA InitAlone == Init => AloneInv
BY CommAssumption DEF Init, AloneInv, OneObject

(* Whoever has begun has begun: a lone object was alone before.            *)
LEMMA BegunStays ==
  ASSUME Values, NEW o \in Lock,
         Creates(o) \/ Attach(o) \/ Deletes(o) \/ Detach(o)
  PROVE  /\ pc'[o] # "new" /\ pc[o] # "unresolved"
         /\ \A q \in Lock \ {o} : pc'[q] = pc[q]
<1> USE DEF Values, Move
<1>1. CASE Look(o) \/ Open(o) \/ Bind(o) \/ Build(o) \/ Wait(o) \/ Resolve(o) \/ Assign(o)
  BY <1>1 DEF Look, Open, Bind, Build, Wait, Resolve, Assign
<1>2. CASE Enter(o) \/ Take(o) \/ Attach(o) \/ Clear(o) \/ Detach(o)
  BY <1>2 DEF Enter, Take, Attach, Clear, Detach
<1>3. CASE Leave(o) \/ Test(o) \/ Stop(o) \/ Join(o) \/ Delete(o)
  BY <1>3 DEF Leave, Test, Stop, Join, Delete
<1> QED BY <1>1, <1>2, <1>3 DEF Creates, Deletes

LEMMA AloneObject ==
  ASSUME TypeOK, AloneInv, NEW o \in Lock,
         Creates(o) \/ Attach(o) \/ Deletes(o) \/ Detach(o)
  PROVE  AloneInv'
<1> SUFFICES ASSUME Alone', Resolved'
             PROVE  /\ \A q \in Lock : OneObject(q)'
                    /\ \A h \in Lock : hpc'[h] \in {"call", "acting"} => al'[h] \in Lock
  BY DEF AloneInv
<1>1. Values /\ count = Cardinality(Inside)
  BY TypeIsValues
<1>2. /\ pc'[o] # "new" /\ pc[o] # "unresolved"
      /\ \A q \in Lock \ {o} : pc'[q] = pc[q]
  BY <1>1, BegunStays
<1>3. \A q \in Lock \ {o} : pc[q] = "new" /\ pc'[q] = "new"
  BY <1>2 DEF Alone
<1>4. Alone /\ Resolved
  BY <1>2, <1>3 DEF Alone, Resolved
<1>5. OneObject(o)
  BY <1>4 DEF AloneInv
<1>6. \A q \in Lock \ {o} : hpc[q] = "none" /\ ~ running[q] /\ sch # q /\ q \notin freed
  BY <1>3, <1>4 DEF AloneInv, OneObject
<1>7. \A h \in Lock : hpc[h] \in {"call", "acting"} => al[h] \in Lock
  BY <1>4 DEF AloneInv
<1> USE CommAssumption DEF Values, Move, object, thread
<1>8. CASE Look(o)
  <2>1. sch = NoLock
    BY <1>1, <1>5, <1>6, <1>8 DEF Look, OneObject
  <2> QED BY <1>1, <1>3, <1>5, <1>6, <1>7, <1>8, <2>1 DEF Look, OneObject, Before, Served, Attached
<1>9. ASSUME /\ OneObject(o)'
             /\ sch' \in {sch, o}
             /\ freed' \subseteq freed \cup {o}
             /\ \A h \in Lock \ {o} : hpc'[h] = hpc[h] /\ running'[h] = running[h]
             /\ \A h \in Lock : hpc'[h] \in {"call", "acting"} => hpc[h] = hpc'[h]
             /\ al' = al
      PROVE  /\ \A q \in Lock : OneObject(q)'
             /\ \A h \in Lock : hpc'[h] \in {"call", "acting"} => al'[h] \in Lock
  BY <1>3, <1>6, <1>7, <1>9 DEF OneObject
<1> USE DEF OneObject, Before, Served, Attached
<1>10. CASE Open(o) \/ Bind(o)
  BY <1>1, <1>5, <1>9, <1>10 DEF Open, Bind
<1>11. CASE Build(o)
  BY <1>1, <1>5, <1>9, <1>11 DEF Build
<1>12. CASE Wait(o) \/ Enter(o)
  BY <1>1, <1>5, <1>9, <1>12 DEF Wait, Enter
<1>13. CASE Resolve(o) \/ Assign(o)
  BY <1>1, <1>5, <1>9, <1>13 DEF Resolve, Assign, Resolved
<1>14. CASE Take(o) \/ Attach(o)
  BY <1>1, <1>5, <1>9, <1>14 DEF Take, Attach
<1>15. CASE Detach(o) \/ Clear(o) \/ Leave(o)
  BY <1>1, <1>5, <1>9, <1>15 DEF Detach, Clear, Leave
<1>16. CASE Test(o)
  <2>1. Inside = {}
    BY <1>1, <1>3, <1>16 DEF Test, Inside
  <2>2. count = 0
    BY <1>1, <2>1, FS_EmptySet
  <2> QED BY <1>1, <1>5, <1>9, <1>16, <2>2 DEF Test
<1>17. CASE Stop(o) \/ Join(o)
  BY <1>1, <1>5, <1>9, <1>17 DEF Stop, Join
<1>18. CASE Delete(o)
  BY <1>1, <1>5, <1>9, <1>18 DEF Delete
<1> QED
  BY <1>8, <1>10, <1>11, <1>12, <1>13, <1>14, <1>15, <1>16, <1>17, <1>18
     DEF Creates, Deletes

LEMMA AloneHandler ==
  ASSUME TypeOK, AloneInv, ~ Undefined, NEW h \in Lock, Runs(h)
  PROVE  AloneInv'
<1> SUFFICES ASSUME Alone', Resolved'
             PROVE  /\ \A q \in Lock : OneObject(q)'
                    /\ \A q \in Lock : hpc'[q] \in {"call", "acting"} => al'[q] \in Lock
  BY DEF AloneInv
<1>1. Values
  BY TypeIsValues
<1>2. pc' = pc \/ (pc[h] = "waiting" /\ running[h] /\ pc' = [pc EXCEPT ![h] = "woken"])
  BY DEF Runs, Begin, Loop, Timeout, Packet, Dispatch, Call, Return
<1>3. Alone /\ Resolved
  BY <1>1, <1>2 DEF Alone, Resolved, Values
<1>4. pc[h] # "new" /\ hpc[h] # "none"
  BY <1>1, <1>3 DEF AloneInv, OneObject, Runs, HandlerMove, Begin, Loop, Timeout, Packet,
     Dispatch, Call, Return
<1>5. \A q \in Lock \ {h} : pc[q] = "new" /\ pc'[q] = "new"
  BY <1>1, <1>2, <1>3, <1>4 DEF Alone, Values
<1>6. \A q \in Lock \ {h} : hpc[q] = "none" /\ ~ running[q] /\ sch # q /\ q \notin freed
  BY <1>3, <1>5 DEF AloneInv, OneObject
<1>7. OneObject(h) /\ (hpc[h] \in {"call", "acting"} => al[h] \in Lock)
  BY <1>3 DEF AloneInv
<1>8. ASSUME /\ OneObject(h)'
             /\ sch' = sch /\ freed' = freed
             /\ hpc'[h] \in {"call", "acting"} => al'[h] \in Lock
             /\ \A q \in Lock \ {h} : hpc'[q] = hpc[q] /\ running'[q] = running[q]
      PROVE  /\ \A q \in Lock : OneObject(q)'
             /\ \A q \in Lock : hpc'[q] \in {"call", "acting"} => al'[q] \in Lock
  BY <1>5, <1>6, <1>8 DEF OneObject
<1> USE CommAssumption DEF Values, HandlerMove, object, OneObject, Before, Served, Attached
<1>9. CASE Begin(h)
  BY <1>1, <1>4, <1>7, <1>8, <1>9 DEF Begin
<1>10. CASE Loop(h)
  BY <1>1, <1>4, <1>7, <1>8, <1>10 DEF Loop
<1>11. CASE Timeout(h) \/ Packet(h)
  BY <1>1, <1>4, <1>7, <1>8, <1>11 DEF Timeout, Packet
<1>12. CASE Dispatch(h)
  BY <1>1, <1>4, <1>7, <1>8, <1>12 DEF Dispatch
<1>13. CASE Call(h) \/ Return(h)
  BY <1>1, <1>4, <1>7, <1>8, <1>13 DEF Call, Return
<1> QED BY <1>9, <1>10, <1>11, <1>12, <1>13 DEF Runs

LEMMA AloneStep == TypeOK /\ AloneInv /\ [Next]_vars => AloneInv'
<1>1. AloneInv /\ UNCHANGED vars => AloneInv'
  BY DEF AloneInv, Alone, Resolved, OneObject, vars, object, thread
<1> QED BY <1>1, NextCases, AloneObject, AloneHandler

LEMMA AloneIsSafe == TypeOK /\ AloneInv => AloneSafe
<1> SUFFICES ASSUME TypeOK, AloneInv, Alone, Resolved PROVE ~ Undefined
  BY DEF AloneSafe, Resolved
<1>1. \A o \in Lock : OneObject(o)
  BY DEF AloneInv
<1>2. \A o \in Lock : pc[o] \in Attached => ch[o] = o /\ o \notin freed
  BY <1>1 DEF OneObject, Attached, Before, Served
<1>3. \A h \in Lock : hpc[h] \in {"call", "acting"} => al[h] \in Lock /\ pc[al[h]] # "freed"
  BY <1>1 DEF AloneInv, OneObject, Alone
<1>4. \A h \in freed : hpc[h] = "ended"
  BY <1>1 DEF OneObject, TypeOK
<1> QED BY <1>2, <1>3, <1>4 DEF Undefined, Attached

(* A process with one object may delete it at any time: ~DistributedLock   *)
(* takes it out of al_list, finds the count at zero, and joins the thread  *)
(* of the handler, which may be calling it, before either is freed.  It    *)
(* does so wherever the constructor's look-up of its address has not       *)
(* failed: then the handler is freed under its thread.                     *)
THEOREM AloneIsAlwaysSafe == Spec => []AloneSafe
<1>1. Init => TypeOK /\ HasHandler /\ AloneInv
  BY InitType, InitAlone
<1>2. TypeOK /\ HasHandler /\ AloneInv /\ [Next]_vars => TypeOK' /\ HasHandler' /\ AloneInv'
  BY TypeStep, AloneStep
<1>3. TypeOK /\ AloneInv => AloneSafe
  BY AloneIsSafe
<1> QED BY <1>1, <1>2, <1>3, PTL DEF Spec

-----------------------------------------------------------------------------
(* Objects that are kept.                                                  *)
Listens(h, from) == {listeners[h][i] : i \in from .. Len(listeners[h])}

(* Who is still to be called by the dispatch of h comes later in al_list.  *)
DueLater(h) ==
  /\ hpc[h] \in {"dispatch", "call"} => due[h] \subseteq Listens(h, index[h])
  /\ hpc[h] = "call" => index[h] \in 1 .. Len(listeners[h]) /\ al[h] = listeners[h][index[h]]
  /\ hpc[h] = "acting" => due[h] \subseteq Listens(h, index[h] + 1)
  /\ hpc[h] \notin {"dispatch", "call", "acting"} => due[h] = {}

(* While no object is deleted a handler that runs goes on running.         *)
RunsOn ==
  /\ \A h \in Lock : running[h] <=> hpc[h] \notin {"none", "begin"}
  /\ \A h \in Lock : hpc[h] # "ended"
  /\ \A o \in Lock : pc[o] \in {"new", "create", "bind", "build"} => hpc[o] = "none"
  /\ \A o \in Lock : pc[o] \in {"woken", "made"} => running[o]
  /\ sch # NoLock => running[sch]
  /\ \A o \in Lock : pc[o] \in {"attach", "live"} => running[ch[o]]

AllListen == \A o \in Lock : pc[o] = "live" => o \in Listens(ch[o], 1)

KeptInv == Kept => RunsOn /\ AllListen /\ \A h \in Lock : DueLater(h)

(* Who is kept has been kept.                                              *)
LEMMA KeptStays == Values /\ Next /\ Kept' => Kept
<1> SUFFICES ASSUME Values, Next, Kept', NEW q \in Lock,
                    pc[q] \notin {"new", "create", "bind", "build", "failed", "started",
                                  "waiting", "woken", "unresolved", "made", "count", "take",
                                  "attach", "live"}
             PROVE  FALSE
  BY DEF Kept
<1> USE DEF Values, Move, Kept
<1>1. ASSUME NEW o \in Lock, Creates(o) \/ Attach(o) PROVE FALSE
  <2>1. q # o
    BY <1>1 DEF Creates, Look, Open, Bind, Build, Wait, Resolve, Assign, Enter, Take, Attach
  <2>2. pc'[q] = pc[q]
    BY <1>1, <2>1, BegunStays
  <2> QED BY <2>2
<1>2. ASSUME NEW o \in Lock, Deletes(o) \/ Detach(o) PROVE FALSE
  <2>1. pc'[o] \in {"detached", "cleared", "test", "stop", "join", "delete", "freed"}
    BY <1>2 DEF Deletes, Clear, Leave, Test, Stop, Join, Delete, Detach
  <2> QED BY <2>1
<1>3. ASSUME NEW h \in Lock, Runs(h) PROVE FALSE
  <2>1. pc'[q] = pc[q]
    BY <1>3 DEF Runs, Begin, Loop, Timeout, Packet, Dispatch, Call, Return
  <2> QED BY <2>1
<1> QED BY <1>1, <1>2, <1>3, NextCases

LEMMA InitKept == Init => KeptInv
BY CommAssumption DEF Init, KeptInv, RunsOn, AllListen, DueLater

LEMMA RunsOnCreates ==
  ASSUME Values, HasHandler, RunsOn, NEW o \in Lock, Creates(o) \/ Attach(o)
  PROVE  RunsOn'
<1> USE CommAssumption DEF Values, HasHandler, RunsOn, Move, object, thread
<1>1. CASE Look(o) \/ Open(o) \/ Bind(o) \/ Wait(o) \/ Enter(o)
  BY <1>1 DEF Look, Open, Bind, Wait, Enter
<1>2. CASE Build(o)
  BY <1>2 DEF Build
<1>3. CASE Resolve(o) \/ Assign(o)
  BY <1>3 DEF Resolve, Assign
<1>4. CASE Take(o)
  BY <1>4 DEF Take
<1>5. CASE Attach(o)
  BY <1>5 DEF Attach
<1> QED BY <1>1, <1>2, <1>3, <1>4, <1>5 DEF Creates

LEMMA RunsOnRuns ==
  ASSUME Values, HasHandler, RunsOn, NEW h \in Lock, Runs(h)
  PROVE  RunsOn'
<1> USE CommAssumption DEF Values, HasHandler, Attached, RunsOn, HandlerMove, object
<1>1. CASE Begin(h)
  BY <1>1 DEF Begin
<1>2. CASE Loop(h)
  BY <1>2 DEF Loop
<1>3. CASE Timeout(h) \/ Packet(h) \/ Dispatch(h) \/ Call(h) \/ Return(h)
  <2>1. UNCHANGED <<sch, ch, pc, running>>
    BY <1>3 DEF Timeout, Packet, Dispatch, Call, Return
  <2>2. \E next \in {"loop", "dispatch", "call", "acting", "receive"} :
          hpc' = [hpc EXCEPT ![h] = next]
    BY <1>3 DEF Timeout, Packet, Dispatch, Call, Return
  <2>3. hpc[h] \in {"receive", "dispatch", "call", "acting"}
    BY <1>3 DEF Timeout, Packet, Dispatch, Call, Return
  <2> QED BY <2>1, <2>2, <2>3
<1> QED BY <1>1, <1>2, <1>3 DEF Runs

(* al_list grows at its end, behind whoever is called.                     *)
LEMMA GrowsAtEnd ==
  ASSUME Values, HasHandler, NEW o \in Lock, Attach(o)
  PROVE  /\ \A h \in Lock : \A i \in 1 .. Len(listeners[h]) :
              i \in 1 .. Len(listeners'[h]) /\ listeners'[h][i] = listeners[h][i]
         /\ ch[o] \in Lock
         /\ o \in Listens(ch[o], 1)'
<1> USE DEF Values, Move
<1>1. ch[o] \in Lock
  BY DEF Attach, HasHandler, Attached
<1>2. listeners' = [listeners EXCEPT ![ch[o]] = Append(@, o)]
  BY DEF Attach
<1>3. /\ listeners'[ch[o]] = Append(listeners[ch[o]], o)
      /\ \A h \in Lock \ {ch[o]} : listeners'[h] = listeners[h]
  BY <1>1, <1>2
<1>4. /\ Len(listeners'[ch[o]]) = Len(listeners[ch[o]]) + 1
      /\ listeners'[ch[o]][Len(listeners[ch[o]]) + 1] = o
      /\ \A i \in 1 .. Len(listeners[ch[o]]) : listeners'[ch[o]][i] = listeners[ch[o]][i]
  BY <1>1, <1>3
<1>5. ch' = ch
  BY DEF Attach, object
<1>6. o \in Listens(ch[o], 1)'
  <2>1. Len(listeners[ch[o]]) + 1 \in 1 .. Len(listeners'[ch[o]])
    BY <1>1, <1>4
  <2> QED BY <1>4, <1>5, <2>1 DEF Listens
<1>7. ASSUME NEW h \in Lock, NEW i \in 1 .. Len(listeners[h])
      PROVE  i \in 1 .. Len(listeners'[h]) /\ listeners'[h][i] = listeners[h][i]
  <2>1. CASE h = ch[o]
    BY <1>1, <1>4, <2>1
  <2>2. CASE h # ch[o]
    BY <1>3, <2>2
  <2> QED BY <2>1, <2>2
<1> QED BY <1>1, <1>6, <1>7

LEMMA DueCreates ==
  ASSUME Values, HasHandler, RunsOn, AllListen, NEW o \in Lock, Creates(o) \/ Attach(o),
         NEW h \in Lock, DueLater(h)
  PROVE  DueLater(h)'
<1>1. CASE Attach(o)
  <2>1. UNCHANGED <<hpc, due, index, al>>
    BY <1>1 DEF Attach, thread
  <2>2. \A i \in 1 .. Len(listeners[h]) :
          i \in 1 .. Len(listeners'[h]) /\ listeners'[h][i] = listeners[h][i]
    BY <1>1, GrowsAtEnd
  <2>3. ASSUME NEW n \in Nat \ {0} PROVE Listens(h, n) \subseteq Listens(h, n)'
    <3>1. ASSUME NEW i \in n .. Len(listeners[h])
          PROVE  i \in n .. Len(listeners'[h]) /\ listeners'[h][i] = listeners[h][i]
      BY <2>2
    <3> QED BY <3>1 DEF Listens
  <2>4. index[h] \in Nat \ {0} /\ index[h] + 1 \in Nat \ {0}
    BY DEF Values
  <2>5. /\ Listens(h, index[h]) \subseteq Listens(h, index[h])'
        /\ Listens(h, index[h] + 1) \subseteq Listens(h, index[h] + 1)'
    BY <2>1, <2>3, <2>4
  <2> QED BY <2>1, <2>2, <2>5 DEF DueLater
<1>2. CASE Build(o)
  <2>1. due[h] = due'[h] /\ listeners' = listeners /\ index' = index /\ al' = al
    BY <1>2 DEF Build
  <2>2. hpc'[h] = hpc[h] \/ (hpc[h] = "none" /\ hpc'[h] = "begin")
    BY <1>2 DEF Build, Move, RunsOn, Values
  <2> QED BY <2>1, <2>2 DEF DueLater, Listens
<1>3. CASE Creates(o) /\ ~ Build(o)
  BY <1>3 DEF Creates, Look, Open, Bind, Wait, Resolve, Assign, Enter, Take, object, thread, DueLater, Listens
<1> QED BY <1>1, <1>2, <1>3

LEMMA ListenCreates ==
  ASSUME Values, HasHandler, AllListen, NEW o \in Lock, Creates(o) \/ Attach(o)
  PROVE  AllListen'
<1> SUFFICES ASSUME NEW q \in Lock, pc'[q] = "live" PROVE (q \in Listens(ch[q], 1))'
  BY DEF AllListen
<1> USE DEF Values, Move
<1>1. CASE Attach(o)
  <2>1. ch' = ch
    BY <1>1 DEF Attach, object
  <2>2. CASE q = o
    BY <1>1, <2>2, GrowsAtEnd
  <2>3. CASE q # o
    <3>1. q \in Listens(ch[q], 1) /\ ch[q] \in Lock
      BY <1>1, <2>3, CommAssumption DEF Attach, AllListen, HasHandler, Attached
    <3>2. PICK i \in 1 .. Len(listeners[ch[q]]) : q = listeners[ch[q]][i]
      BY <3>1 DEF Listens
    <3>3. i \in 1 .. Len(listeners'[ch[q]]) /\ listeners'[ch[q]][i] = q
      BY <1>1, <3>1, <3>2, GrowsAtEnd
    <3> QED BY <2>1, <3>3 DEF Listens
  <2> QED BY <2>2, <2>3
<1>2. CASE Creates(o)
  <2>1. listeners' = listeners
    BY <1>2 DEF Creates, Look, Open, Bind, Build, Wait, Resolve, Assign, Enter, Take
  <2>2. q # o
    BY <1>2 DEF Creates, Look, Open, Bind, Build, Wait, Resolve, Assign, Enter, Take
  <2>3. pc[q] = "live"
    BY <1>2, <2>2, BegunStays
  <2>4. ch'[q] = ch[q]
    <3>1. CASE Take(o)
      BY <2>2, <3>1 DEF Take
    <3>2. CASE Look(o) \/ Open(o) \/ Bind(o) \/ Build(o) \/ Wait(o) \/ Resolve(o) \/ Assign(o) \/ Enter(o)
      BY <3>2 DEF Look, Open, Bind, Build, Wait, Resolve, Assign, Enter, object
    <3> QED BY <1>2, <3>1, <3>2 DEF Creates
  <2>5. Listens(ch[q], 1)' = Listens(ch[q], 1)
    BY <2>1, <2>4 DEF Listens
  <2> QED BY <2>3, <2>5 DEF AllListen
<1> QED BY <1>1, <1>2

LEMMA ListenRuns ==
  ASSUME Values, AllListen, NEW h \in Lock, Runs(h)
  PROVE  AllListen'
<1>1. UNCHANGED <<ch, listeners>>
  BY DEF Runs, Begin, Loop, Timeout, Packet, Dispatch, Call, Return, object
<1>2. \A o \in Lock : pc'[o] = "live" => pc[o] = "live"
  BY DEF Runs, Begin, Loop, Timeout, Packet, Dispatch, Call, Return, Values
<1> QED BY <1>1, <1>2 DEF AllListen, Listens

(* A dispatch goes through al_list from the first listener to the last.    *)
LEMMA DueRuns ==
  ASSUME Values, RunsOn, NEW h \in Lock, Runs(h), \A q \in Lock : DueLater(q)
  PROVE  \A q \in Lock : DueLater(q)'
<1>1. listeners' = listeners
  BY DEF Runs, Begin, Loop, Timeout, Packet, Dispatch, Call, Return
<1>2. \A q \in Lock \ {h} : UNCHANGED <<hpc[q], due[q], index[q], al[q]>>
  BY DEF Runs, Begin, Loop, Timeout, Packet, Dispatch, Call, Return, HandlerMove, Values
<1>3. \A q \in Lock \ {h} : DueLater(q)'
  BY <1>1, <1>2 DEF DueLater, Listens
<1>4. index[h] \in Nat \ {0} /\ Len(listeners[h]) \in Nat
  BY DEF Values
<1>5. DueLater(h)
  OBVIOUS
<1>6. DueLater(h)'
  <2> USE DEF HandlerMove, Values
  <2>1. CASE Begin(h) \/ Loop(h) \/ Timeout(h)
    BY <1>5, <2>1 DEF Begin, Loop, Timeout, DueLater
  <2>2. CASE Packet(h)
    <3>1. hpc'[h] = "dispatch" /\ index'[h] = 1
      BY <2>2 DEF Packet, RunsOn
    <3>2. due'[h] = Listens(h, 1)
      BY <2>2 DEF Packet, Listens
    <3> QED BY <1>1, <3>1, <3>2 DEF DueLater, Listens
  <2>3. CASE Dispatch(h)
    <3>1. due' = due /\ index' = index
      BY <2>3 DEF Dispatch
    <3>2. CASE index[h] <= Len(listeners[h])
      <4>1. hpc'[h] = "call" /\ al'[h] = listeners[h][index[h]]
        BY <2>3, <3>2 DEF Dispatch
      <4>2. index[h] \in 1 .. Len(listeners[h])
        BY <1>4, <3>2
      <4> QED BY <1>1, <1>5, <2>3, <3>1, <4>1, <4>2 DEF DueLater, Listens, Dispatch
    <3>3. CASE ~ (index[h] <= Len(listeners[h]))
      <4>1. hpc'[h] = "loop"
        BY <2>3, <3>3 DEF Dispatch
      <4>2. Listens(h, index[h]) = {}
        BY <1>4, <3>3 DEF Listens
      <4> QED BY <1>5, <2>3, <3>1, <4>1, <4>2 DEF DueLater, Dispatch
    <3> QED BY <3>2, <3>3
  <2>4. CASE Call(h)
    <3>1. hpc'[h] = "acting" /\ index'[h] = index[h] /\ due'[h] = due[h] \ {al[h]}
      BY <2>4 DEF Call
    <3>2. due[h] \subseteq Listens(h, index[h]) /\ al[h] = listeners[h][index[h]]
      BY <1>5, <2>4 DEF DueLater, Call
    <3>3. Listens(h, index[h]) \ {al[h]} \subseteq Listens(h, index[h] + 1)
      BY <1>4, <3>2 DEF Listens
    <3>4. Listens(h, index[h] + 1)' = Listens(h, index[h] + 1)
      BY <1>1, <3>1 DEF Listens
    <3> QED BY <3>1, <3>2, <3>3, <3>4 DEF DueLater
  <2>5. CASE Return(h)
    <3>1. hpc'[h] = "dispatch" /\ index'[h] = index[h] + 1 /\ due'[h] = due[h]
      BY <2>5 DEF Return
    <3>2. due[h] \subseteq Listens(h, index[h] + 1)
      BY <1>5, <2>5 DEF DueLater, Return
    <3> QED BY <1>1, <3>1, <3>2 DEF DueLater, Listens
  <2> QED BY <2>1, <2>2, <2>3, <2>4, <2>5 DEF Runs
<1> QED BY <1>3, <1>6

LEMMA KeptStep == TypeOK /\ HasHandler /\ KeptInv /\ [Next]_vars => KeptInv'
<1> SUFFICES ASSUME TypeOK, HasHandler, KeptInv, [Next]_vars PROVE KeptInv'
  OBVIOUS
<1>1. CASE UNCHANGED vars
  BY <1>1 DEF KeptInv, Kept, RunsOn, AllListen, DueLater, Listens, vars, object, thread
<1>2. CASE Next
  <2> SUFFICES ASSUME Kept' PROVE (RunsOn /\ AllListen /\ \A q \in Lock : DueLater(q))'
    BY DEF KeptInv
  <2>1. Values
    BY TypeIsValues
  <2>2. Kept
    BY <1>2, <2>1, KeptStays
  <2>3. RunsOn /\ AllListen /\ \A q \in Lock : DueLater(q)
    BY <2>2 DEF KeptInv
  <2>4. ASSUME NEW o \in Lock, Creates(o) \/ Attach(o)
        PROVE  (RunsOn /\ AllListen /\ \A q \in Lock : DueLater(q))'
    BY <2>1, <2>3, <2>4, RunsOnCreates, ListenCreates, DueCreates
  <2>5. ASSUME NEW o \in Lock, Deletes(o) \/ Detach(o) PROVE FALSE
    <3>1. pc[o] \in {"live", "detached", "cleared", "test", "stop", "join", "delete"}
      BY <2>5 DEF Deletes, Detach, Clear, Leave, Test, Stop, Join, Delete, Move
    <3>2. pc'[o] \in {"detached", "cleared", "test", "stop", "join", "delete", "freed"}
      BY <2>1, <2>5 DEF Deletes, Detach, Clear, Leave, Test, Stop, Join, Delete, Move, Values
    <3> QED BY <3>2 DEF Kept
  <2>6. ASSUME NEW h \in Lock, Runs(h)
        PROVE  (RunsOn /\ AllListen /\ \A q \in Lock : DueLater(q))'
    BY <2>1, <2>3, <2>6, RunsOnRuns, ListenRuns, DueRuns
  <2> QED BY <1>2, <2>4, <2>5, <2>6, NextCases
<1> QED BY <1>1, <1>2

LEMMA KeptIsHeard == KeptInv => KeptHears
<1> SUFFICES ASSUME KeptInv, Kept
             PROVE  /\ \A o \in Lock : pc[o] = "live" =>
                         /\ running[ch[o]]
                         /\ \E i \in 1 .. Len(listeners[ch[o]]) : listeners[ch[o]][i] = o
                    /\ \A h \in Lock : hpc[h] = "loop" => due[h] = {}
  BY DEF KeptHears
<1>1. RunsOn /\ AllListen /\ \A h \in Lock : DueLater(h)
  BY DEF KeptInv
<1> QED BY <1>1 DEF RunsOn, AllListen, DueLater, Listens

(* Objects that are never deleted are all served: although two of them may *)
(* make a handler each, every object is in the al_list of one that runs,   *)
(* and by the end of a dispatch all who were in al_list have been called.  *)
THEOREM KeptAlwaysHears == Spec => []KeptHears
<1>1. Init => TypeOK /\ HasHandler /\ KeptInv
  BY InitType, InitKept
<1>2. TypeOK /\ HasHandler /\ KeptInv /\ [Next]_vars => TypeOK' /\ HasHandler' /\ KeptInv'
  BY TypeStep, KeptStep
<1>3. KeptInv => KeptHears
  BY KeptIsHeard
<1> QED BY <1>1, <1>2, <1>3, PTL DEF Spec

=============================================================================
