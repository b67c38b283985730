------------------------ MODULE LockedCommandsProofs ------------------------
(***************************************************************************)
(* Theorems about one tool (DistLockCli) and about two (LockedCommands).   *)
(* For any statuses of the command, with or without failures, ^C and a     *)
(* killed child, the status that the user gets is the right one, beside    *)
(* another tool as well; and two commands never run at once unless one of  *)
(* them is an orphan.                                                      *)
(***************************************************************************)
EXTENDS LockedCommands, FiniteSetTheorems, TLAPS

(* What may happen: the actions of Next, in which the options stay.        *)
Acts == Child \/ ChildKilled \/ CommandEnds \/ Parent \/ Interrupt

-----------------------------------------------------------------------------
(* How far the child is: when there is a command, and a status.            *)
Early == {"forked", "init", "acquire"}

ChildProgress ==
  /\ cpc \in Early \cup {"locked"} => command = NotRun
  /\ cpc = "reap" => command # NotRun
  /\ cpc # "dead" => code = 0

LEMMA InitProgress == Init => ChildProgress
BY DEF Init, ChildProgress, Early

LEMMA ProgressStep == TypeOK /\ ChildProgress /\ Acts => ChildProgress'
<1> SUFFICES ASSUME TypeOK, ChildProgress, Acts PROVE ChildProgress'
  OBVIOUS
<1> USE CliAssumption
    DEF ChildProgress, TypeOK, Early, End, Tell, NotRun, Running, Killed
<1>1. CASE Child
  <2>1. CASE ChildStart \/ ChildFail \/ ChildStarted \/ ChildAcquires \/ ChildGivesUp
    BY <2>1 DEF ChildStart, ChildFail, ChildStarted, ChildAcquires, ChildGivesUp
  <2>2. CASE ChildRuns \/ ChildReaps \/ ChildQueries
    BY <2>2 DEF ChildRuns, ChildReaps, ChildQueries
  <2> QED BY <1>1, <2>1, <2>2 DEF Child
<1>2. CASE ChildKilled \/ Interrupt
  BY <1>2 DEF ChildKilled, Interrupt
<1>3. CASE CommandEnds
  BY <1>3 DEF CommandEnds
<1>4. CASE Parent
  BY <1>4 DEF Parent, ParentWaits, ParentWakes, ParentReaps, Handle
<1> QED BY <1>1, <1>2, <1>3, <1>4 DEF Acts

-----------------------------------------------------------------------------
(* The types.                                                              *)
LEMMA Statuses ==  {0, 1, 2, 3, 4, 5} \subseteq 0 .. 255
OBVIOUS

LEMMA InitTypeOK == Init => TypeOK
<1> SUFFICES ASSUME Init PROVE TypeOK
  OBVIOUS
<1>1. status \in 0 .. 255 /\ code \in (0 .. 255) \cup {Killed}
  BY DEF Init
<1> QED BY <1>1 DEF Init, TypeOK

(* What the child does to the parent: it signals, no more.                 *)
Signals ==
  /\ pending' \subseteq {"USR1", "USR2"} /\ told' \in BOOLEAN
  /\ UNCHANGED <<options, ppc, acquired, status>>

LEMMA ChildSignals == TypeOK /\ options' = options /\ Child => Signals
<1> SUFFICES ASSUME TypeOK, options' = options, Child PROVE Signals
  OBVIOUS
<1>1. pending \subseteq {"USR1", "USR2"} /\ told \in BOOLEAN
  BY DEF TypeOK
<1>2. \/ UNCHANGED <<pending, told>>
      \/ Tell("USR1") \/ Tell("USR2")
  BY DEF Child, ChildStart, ChildFail, ChildStarted, ChildAcquires, ChildGivesUp,
         ChildRuns, ChildReaps, ChildQueries
<1>3. pending' \subseteq {"USR1", "USR2"} /\ told' \in BOOLEAN
  BY <1>1, <1>2 DEF Tell
<1>4. UNCHANGED <<ppc, acquired, status>>
  BY DEF Child, ChildStart, ChildFail, ChildStarted, ChildAcquires, ChildGivesUp,
         ChildRuns, ChildReaps, ChildQueries
<1> QED BY <1>3, <1>4 DEF Signals

(* It ends with a status of its own, or that of the command; or it goes on *)
(* to another place.                                                       *)
LEMMA EndTypeOK ==
  ASSUME TypeOK, Signals, NEW c \in 0 .. 255, End(c), UNCHANGED command
  PROVE  TypeOK'
BY DEF TypeOK, Signals, End

LEMMA MoveTypeOK ==
  ASSUME TypeOK, Signals, cpc' \in {"init", "acquire", "locked", "reap"},
         UNCHANGED code, command' = command \/ command' = Running
  PROVE  TypeOK'
BY DEF TypeOK, Signals

LEMMA ChildTypeOK ==
  TypeOK /\ ChildProgress /\ options' = options /\ Child => TypeOK'
<1> SUFFICES ASSUME TypeOK, ChildProgress, options' = options, Child PROVE TypeOK'
  OBVIOUS
<1>0. Signals
  BY ChildSignals
<1>1. CASE ChildStart \/ ChildStarted \/ ChildAcquires
  BY <1>0, <1>1, MoveTypeOK DEF ChildStart, ChildStarted, ChildAcquires
<1>2. CASE ChildFail \/ ChildGivesUp \/ ChildQueries
  <2>1. UNCHANGED command /\ \E c \in {0, 1, 2, 3, 4, 5} : End(c)
    BY <1>2 DEF ChildFail, ChildGivesUp, ChildQueries
  <2>2. PICK c \in 0 .. 255 : End(c)
    BY <2>1, Statuses
  <2> QED BY <1>0, <2>1, <2>2, EndTypeOK
<1>3. CASE ChildRuns
  <2>1. CASE End(4) /\ UNCHANGED command
    <3>1. 4 \in 0 .. 255
      OBVIOUS
    <3> QED BY <1>0, <2>1, <3>1, EndTypeOK
  <2>2. CASE UNCHANGED code /\ cpc' = "reap" /\ command' = Running
    BY <1>0, <2>2, MoveTypeOK
  <2> QED BY <1>3, <2>1, <2>2 DEF ChildRuns
<1>4. CASE ChildReaps
  <2> DEFINE c == IF Ignored THEN 0 ELSE IF command = Killed THEN ExitFailure ELSE command
  <2>1. End(c) /\ command \in CommandCodes \cup {Killed} /\ UNCHANGED command
    BY <1>4 DEF ChildReaps, ChildProgress, TypeOK
  <2>2. c \in 0 .. 255
    BY <2>1, CliAssumption DEF ExitFailure
  <2> HIDE DEF c
  <2> QED BY <1>0, <2>1, <2>2, EndTypeOK
<1> QED BY <1>1, <1>2, <1>3, <1>4 DEF Child

LEMMA ParentTypeOK == TypeOK /\ options' = options /\ Parent => TypeOK'
<1> SUFFICES ASSUME TypeOK, options' = options, Parent PROVE TypeOK'
  OBVIOUS
<1> USE DEF TypeOK, Killed, Running, NotRun, ExitFailure
<1>1. CASE ParentWaits
  BY <1>1 DEF ParentWaits
<1>2. CASE ParentWakes
  BY <1>2 DEF ParentWakes
<1>3. CASE ParentReaps
  BY <1>3 DEF ParentReaps
<1>4. ASSUME NEW sig \in pending, Handle(sig) PROVE TypeOK'
  BY <1>4 DEF Handle
<1> QED BY <1>1, <1>2, <1>3, <1>4 DEF Parent

LEMMA TypeAndProgress == Spec => [](TypeOK /\ ChildProgress)
<1>1. TypeOK /\ ChildProgress /\ [Next]_vars => (TypeOK /\ ChildProgress)'
  <2> SUFFICES ASSUME TypeOK, ChildProgress, [Next]_vars
               PROVE  TypeOK' /\ ChildProgress'
    OBVIOUS
  <2>1. CASE ChildKilled /\ options' = options
    <3>1. TypeOK'
      BY <2>1 DEF ChildKilled, End, TypeOK
    <3> QED BY <2>1, <3>1, ProgressStep DEF Acts
  <2>2. CASE CommandEnds /\ options' = options
    <3>1. TypeOK'
      BY <2>2 DEF CommandEnds, TypeOK
    <3> QED BY <2>2, <3>1, ProgressStep DEF Acts
  <2>3. CASE Interrupt /\ options' = options
    <3>1. ppc' \in {ppc, "killed"} /\ code' = Killed /\ cpc' = "dead"
      BY <2>3 DEF Interrupt, End
    <3>2. command' \in {command, Killed}
      BY <2>3 DEF Interrupt
    <3>3. TypeOK'
      BY <2>3, <3>1, <3>2 DEF Interrupt, TypeOK
    <3> QED BY <2>3, <3>3, ProgressStep DEF Acts
  <2>4. CASE UNCHANGED vars
    BY <2>4 DEF vars, TypeOK, ChildProgress
  <2>5. CASE (Child \/ Parent) /\ options' = options
    BY <2>5, ChildTypeOK, ParentTypeOK, ProgressStep DEF Acts
  <2> QED BY <2>1, <2>2, <2>3, <2>4, <2>5 DEF Next
<1> QED BY InitTypeOK, InitProgress, <1>1, PTL DEF Spec

(* Each variable has a value of its kind; the status is one byte, and the  *)
(* child never returns one of a command that it has not run.               *)
THEOREM TypeCorrect == Spec => []TypeOK
BY TypeAndProgress, PTL

-----------------------------------------------------------------------------
(* The status with which it ended, if it was not killed.                   *)
CodeIsCommands ==
  cpc = "dead" /\ code # Killed /\ ~ Querying =>
    IF command = NotRun THEN code \in {1, 2, 3, 4, 5}
    ELSE /\ command # Running
         /\ code = IF Ignored THEN 0 ELSE IF command = Killed THEN ExitFailure ELSE command

(* Without -d the parent passes it on.                                     *)
ParentPassesOn ==
  ~ Detach =>
    /\ ppc \notin {"waiting", "woken"}
    /\ ppc = "exited" =>
         cpc = "dead" /\ status = IF code = Killed \/ Ignored THEN ExitFailure ELSE code

(* Under -d -n it has been told, when it is told at all, that the child    *)
(* has the lock.                                                           *)
Got == cpc \notin Early /\ (command = NotRun => code # 5)

ToldOnlyOfLock ==
  Detach /\ Limited /\ ~ Querying =>
    ("USR1" \in pending \/ acquired \/ (ppc = "exited" /\ status = 0) => Got)

CliInv == CodeIsCommands /\ ParentPassesOn /\ ToldOnlyOfLock

-----------------------------------------------------------------------------
LEMMA InitCliInv == Init => CliInv
BY DEF Init, CliInv, CodeIsCommands, ParentPassesOn, ToldOnlyOfLock,
       Early, NotRun, Killed

LEMMA CodeStep ==
  TypeOK /\ ChildProgress /\ CodeIsCommands /\ Acts /\ options' = options
    => CodeIsCommands'
<1> SUFFICES ASSUME TypeOK, ChildProgress, CodeIsCommands, Acts, options' = options
             PROVE  CodeIsCommands'
  OBVIOUS
<1> USE CliAssumption
    DEF ChildProgress, CodeIsCommands, TypeOK, Early, End, Tell, Querying, Ignored,
        NotRun, Running, Killed, ExitFailure
<1>1. CASE Child
  <2>1. CASE ChildStart \/ ChildStarted \/ ChildAcquires
    BY <2>1 DEF ChildStart, ChildStarted, ChildAcquires
  <2>2. CASE ChildFail \/ ChildGivesUp \/ ChildQueries
    BY <2>2 DEF ChildFail, ChildGivesUp, ChildQueries
  <2>3. CASE ChildRuns
    BY <2>3 DEF ChildRuns
  <2>4. CASE ChildReaps
    BY <2>4 DEF ChildReaps
  <2> QED BY <1>1, <2>1, <2>2, <2>3, <2>4 DEF Child
<1>2. CASE ChildKilled \/ Interrupt
  BY <1>2 DEF ChildKilled, Interrupt
<1>3. CASE CommandEnds
  BY <1>3 DEF CommandEnds
<1>4. CASE Parent
  BY <1>4 DEF Parent, ParentWaits, ParentWakes, ParentReaps, Handle
<1> QED BY <1>1, <1>2, <1>3, <1>4 DEF Acts

LEMMA PassesOnStep ==
  ParentPassesOn /\ Acts /\ options' = options => ParentPassesOn'
<1> SUFFICES ASSUME ParentPassesOn, Acts, options' = options PROVE ParentPassesOn'
  OBVIOUS
<1> USE DEF ParentPassesOn, Detach, Ignored, End, ParentGone
<1>1. CASE Child
  <2>1. CASE ChildStart \/ ChildFail \/ ChildStarted \/ ChildAcquires \/ ChildGivesUp
    BY <2>1 DEF ChildStart, ChildFail, ChildStarted, ChildAcquires, ChildGivesUp
  <2>2. CASE ChildRuns \/ ChildReaps \/ ChildQueries
    BY <2>2 DEF ChildRuns, ChildReaps, ChildQueries
  <2> QED BY <1>1, <2>1, <2>2 DEF Child
<1>2. CASE ChildKilled \/ CommandEnds \/ Interrupt
  BY <1>2 DEF ChildKilled, CommandEnds, Interrupt
<1>3. CASE Parent
  BY <1>3 DEF Parent, ParentWaits, ParentWakes, ParentReaps, Handle
<1> QED BY <1>1, <1>2, <1>3 DEF Acts

(* What the child has got stays with it.                                   *)
LEMMA GotStays == TypeOK /\ ChildProgress /\ Got /\ Acts => Got'
<1> SUFFICES ASSUME TypeOK, ChildProgress, Got, Acts PROVE Got'
  OBVIOUS
<1> USE CliAssumption
    DEF ChildProgress, Got, TypeOK, Early, End, Tell, NotRun, Running, Killed
<1>1. CASE Child
  <2>1. CASE ChildStart \/ ChildFail \/ ChildStarted \/ ChildAcquires \/ ChildGivesUp
    BY <2>1 DEF ChildStart, ChildFail, ChildStarted, ChildAcquires, ChildGivesUp
  <2>2. CASE ChildRuns \/ ChildReaps \/ ChildQueries
    BY <2>2 DEF ChildRuns, ChildReaps, ChildQueries
  <2> QED BY <1>1, <2>1, <2>2 DEF Child
<1>2. CASE ChildKilled \/ CommandEnds \/ Interrupt
  BY <1>2 DEF ChildKilled, CommandEnds, Interrupt
<1>3. CASE Parent
  BY <1>3 DEF Parent, ParentWaits, ParentWakes, ParentReaps, Handle
<1> QED BY <1>1, <1>2, <1>3 DEF Acts

LEMMA ToldStep ==
  TypeOK /\ ChildProgress /\ ToldOnlyOfLock /\ Acts /\ options' = options
    => ToldOnlyOfLock'
<1> SUFFICES ASSUME TypeOK, ChildProgress, ToldOnlyOfLock, Acts, options' = options,
                    Detach, Limited, ~ Querying
             PROVE  "USR1" \in pending' \/ acquired' \/ (ppc' = "exited" /\ status' = 0)
                      => Got'
  BY DEF ToldOnlyOfLock, Detach, Limited, Querying
<1>1. "USR1" \in pending \/ acquired \/ (ppc = "exited" /\ status = 0) => Got'
  BY GotStays DEF ToldOnlyOfLock
<1>2. CASE Child
  <2>1. CASE ChildStart \/ ChildFail \/ ChildStarted
    BY <1>1, <2>1 DEF ChildStart, ChildFail, ChildStarted
  <2>2. CASE ChildAcquires
    BY <2>2 DEF ChildAcquires, Got, Early, ChildProgress
  <2>3. CASE ChildGivesUp \/ ChildQueries
    BY <1>1, <2>3 DEF ChildGivesUp, ChildQueries, Tell
  <2>4. CASE ChildRuns \/ ChildReaps
    BY <1>1, <2>4 DEF ChildRuns, ChildReaps
  <2> QED BY <1>2, <2>1, <2>2, <2>3, <2>4 DEF Child
<1>3. CASE ChildKilled \/ CommandEnds
  BY <1>1, <1>3 DEF ChildKilled, CommandEnds
<1>4. CASE Interrupt
  BY <1>1, <1>4 DEF Interrupt, ParentGone
<1>5. CASE Parent
  <2>1. CASE ParentWaits \/ ParentWakes
    BY <1>1, <2>1 DEF ParentWaits, ParentWakes
  <2>2. CASE ParentReaps
    BY <1>1, <2>2 DEF ParentReaps, Got, Early, ExitFailure
  <2>3. ASSUME NEW sig \in pending, Handle(sig)
        PROVE  "USR1" \in pending' \/ acquired' \/ (ppc' = "exited" /\ status' = 0) => Got'
    BY <1>1, <2>3 DEF Handle, ParentGone
  <2> QED BY <1>5, <2>1, <2>2, <2>3 DEF Parent
<1> QED BY <1>2, <1>3, <1>4, <1>5 DEF Acts

(* The invariant that the two theorems rest on.                            *)
THEOREM InvCorrect == Spec => [](TypeOK /\ CliInv)
<1>1. TypeOK /\ ChildProgress /\ CliInv /\ [Next]_vars => CliInv'
  <2> SUFFICES ASSUME TypeOK, ChildProgress, CliInv, [Next]_vars PROVE CliInv'
    OBVIOUS
  <2>1. CASE Acts /\ options' = options
    BY <2>1, CodeStep, PassesOnStep, ToldStep DEF CliInv
  <2>2. CASE UNCHANGED vars
    BY <2>2 DEF vars, CliInv, CodeIsCommands, ParentPassesOn, ToldOnlyOfLock, Got,
                Detach, Limited, Querying, Ignored
  <2> QED BY <2>1, <2>2 DEF Next, Acts
<1> QED BY InitCliInv, <1>1, TypeAndProgress, PTL DEF Spec

-----------------------------------------------------------------------------
(* Without -d the user gets the status of the command that ran, and a      *)
(* failure of the tool's own if none did.                                  *)
THEOREM StatusCorrect == Spec => []StatusIsCommands
<1>1. TypeOK /\ CliInv => StatusIsCommands
  BY DEF CliInv, CodeIsCommands, ParentPassesOn, StatusIsCommands
<1> QED BY <1>1, InvCorrect, PTL

(* Under -d -n success is reported only of a child that has got the lock.  *)
THEOREM DetachCorrect == Spec => []DetachedHasLock
<1>1. TypeOK /\ CliInv => DetachedHasLock
  BY DEF CliInv, ToldOnlyOfLock, Got, Early, DetachedHasLock
<1> QED BY <1>1, InvCorrect, PTL

-----------------------------------------------------------------------------
(* A command runs in the care of its child, or of nobody.                  *)
InCare == command = Running => cpc = "reap" \/ (cpc = "dead" /\ code = Killed)

InCareToo == command2 = Running => cpc2 = "reap" \/ (cpc2 = "dead" /\ code2 = Killed)

LEMMA InCareStep == InCare /\ [Next]_vars => InCare'
<1> SUFFICES ASSUME InCare, [Next]_vars PROVE InCare'
  OBVIOUS
<1> USE DEF InCare, End, Killed, Running
<1>1. CASE Child
  BY <1>1 DEF Child, ChildStart, ChildFail, ChildStarted, ChildAcquires, ChildGivesUp,
              ChildRuns, ChildReaps, ChildQueries
<1>2. CASE ChildKilled \/ CommandEnds \/ Interrupt
  BY <1>2, CliAssumption DEF ChildKilled, CommandEnds, Interrupt
<1>3. CASE Parent
  BY <1>3 DEF Parent, ParentWaits, ParentWakes, ParentReaps, Handle
<1>4. CASE UNCHANGED vars
  BY <1>4 DEF vars
<1> QED BY <1>1, <1>2, <1>3, <1>4 DEF Next

LEMMA InCareTooStep == InCareToo /\ [Other!Next]_tool2 => InCareToo'
<1> SUFFICES ASSUME InCareToo, [Other!Next]_tool2 PROVE InCareToo'
  OBVIOUS
<1> USE DEF InCareToo, Other!End, Other!Killed, Other!Running, Killed, Running
<1>1. CASE Other!Child
  BY <1>1 DEF Other!Child, Other!ChildStart, Other!ChildFail, Other!ChildStarted,
              Other!ChildAcquires, Other!ChildGivesUp, Other!ChildRuns,
              Other!ChildReaps, Other!ChildQueries
<1>2. CASE Other!ChildKilled \/ Other!CommandEnds \/ Other!Interrupt
  BY <1>2, CliAssumption DEF Other!ChildKilled, Other!CommandEnds, Other!Interrupt
<1>3. CASE Other!Parent
  BY <1>3 DEF Other!Parent, Other!ParentWaits, Other!ParentWakes, Other!ParentReaps,
              Other!Handle
<1>4. CASE UNCHANGED tool2
  BY <1>4 DEF tool2
<1> QED BY <1>1, <1>2, <1>3, <1>4 DEF Other!Next

-----------------------------------------------------------------------------
(* The lock has one place.                                                 *)
OneHeld == ~ (Phase[1] = "held" /\ Phase[2] = "held")

LEMMA SameCardinality == ASSUME NEW S PROVE Lock!Cardinality(S) = Cardinality(S)
BY DEF Lock!Cardinality, Cardinality, Lock!IsFiniteSet, IsFiniteSet

LEMMA GrantNeedsRoom ==
  ASSUME NEW p \in {1, 2}, NEW q \in {1, 2} \ {p}, Lock!Grant(p)
  PROVE  Phase[q] # "held"
<1>1. Cardinality(Lock!Peers(p, 1)) < 1
  <2>1. Lock!Cardinality(Lock!Peers(p, 1)) < 1
    BY DEF Lock!Grant
  <2> QED BY <2>1, SameCardinality
<1>2. IsFiniteSet({1} \cup {2})
  BY FS_Singleton, FS_AddElement
<1>3. IsFiniteSet(Lock!Peers(p, 1))
  BY <1>2, FS_Subset DEF Lock!Peers
<1>4. Lock!Peers(p, 1) = {}
  BY <1>1, <1>3, FS_CardinalityType, FS_EmptySet
<1> QED BY <1>4 DEF Lock!Peers, Lock!Holds

LEMMA OneHeldStep == OneHeld /\ [Lock!Next]_Phase => OneHeld'
<1> SUFFICES ASSUME OneHeld, [Lock!Next]_Phase PROVE OneHeld'
  OBVIOUS
<1>1. CASE UNCHANGED Phase
  BY <1>1 DEF OneHeld
<1>2. ASSUME NEW p \in {1, 2}, Lock!Request(p) \/ Lock!Leave(p) PROVE OneHeld'
  BY <1>2 DEF Lock!Request, Lock!Leave, OneHeld, Phase
<1>3. ASSUME NEW p \in {1, 2}, Lock!Grant(p) PROVE OneHeld'
  <2> DEFINE q == 3 - p
  <2>1. q \in {1, 2} \ {p} /\ Phase[q] # "held"
    BY <1>3, GrantNeedsRoom
  <2>2. Phase'[q] = Phase[q]
    BY <1>3, <2>1 DEF Lock!Grant, Phase
  <2> QED BY <2>1, <2>2 DEF OneHeld
<1> QED BY <1>1, <1>2, <1>3 DEF Lock!Next

(* What the two tools preserve together.                                   *)
BothInv == InCare /\ InCareToo /\ OneHeld

LEMMA BothInvStep == BothInv /\ [BothNext]_<<vars, tool2>> => BothInv'
<1> SUFFICES ASSUME BothInv, [BothNext]_<<vars, tool2>> PROVE BothInv'
  OBVIOUS
<1>1. [Next]_vars /\ [Other!Next]_tool2
  BY DEF BothNext
<1>2. [Lock!Next]_Phase
  BY DEF BothNext, Phase, vars, tool2
<1> QED BY <1>1, <1>2, InCareStep, InCareTooStep, OneHeldStep DEF BothInv

-----------------------------------------------------------------------------
(* "each may obtain exclusive access": while two commands run one of the   *)
(* children has been killed.                                               *)
THEOREM CommandsExclusive == BothSpec => []OnlyOrphansOverlap
<1>1. BothInit => BothInv
  BY DEF BothInit, BothInv, InCare, InCareToo, OneHeld, Phase, PhaseOf, Init,
         Other!Init, Running, NotRun, Other!NotRun
<1>2. BothInv => OnlyOrphansOverlap
  BY DEF BothInv, InCare, InCareToo, OneHeld, Phase, PhaseOf, OnlyOrphansOverlap
<1> QED BY <1>1, <1>2, BothInvStep, PTL DEF BothSpec

(* Beside another tool, and waiting for it, a tool is the one of the       *)
(* theorems above.                                                         *)
LEMMA OneIsAlone == BothSpec => Spec
<1>1. BothInit => Init
  BY DEF BothInit
<1>2. [BothNext]_<<vars, tool2>> => [Next]_vars
  BY DEF BothNext
<1> QED BY <1>1, <1>2, PTL DEF BothSpec, Spec

(* The status that the user gets, and when, beside another tool.           *)
THEOREM StatusBeside == BothSpec => [](StatusIsCommands /\ DetachedHasLock)
BY OneIsAlone, StatusCorrect, DetachCorrect, PTL

=============================================================================
