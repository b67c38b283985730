--------------------------- MODULE LockedCommands ---------------------------
(***************************************************************************)
(* Two users of the tool who want the same resource, with a count of one.  *)
(* This one is DistLockCli as it is, the other one a second instance.  The *)
(* lock between them is the abstract one that DistributedLock implements:  *)
(* a child that acquires waits, it holds from then on, and it lets go when *)
(* it ends.  In the other one SIGCHLD is not ignored: that makes no        *)
(* difference but to the status it reports.                                *)
(***************************************************************************)
EXTENDS DistLockCli

VARIABLES
  options2, ppc2, acquired2, status2, pending2, cpc2, code2, command2, told2

tool2 == <<options2, ppc2, acquired2, status2, pending2, cpc2, code2, command2, told2>>

Other == INSTANCE DistLockCli WITH
           Options <- Options \ {"ignored"},
           options <- options2, ppc <- ppc2, acquired <- acquired2, status <- status2,
           pending <- pending2, cpc <- cpc2, code <- code2, command <- command2,
           told <- told2

(* What a child's place means to the lock.                                 *)
PhaseOf(place) ==
  CASE place = "acquire" -> "waiting"
    [] place \in {"locked", "reap"} -> "held"
    [] OTHER -> "out"

Phase == <<PhaseOf(cpc), PhaseOf(cpc2)>>

Lock == INSTANCE CountingLock WITH
          Proc <- {1, 2}, Res <- {1}, Uses <- [p \in {1, 2} |-> {1}],
          Count <- [p \in {1, 2} |-> [r \in {1} |-> 1]], phase <- Phase

-----------------------------------------------------------------------------
BothInit == Init /\ Other!Init

BothNext ==
  /\ \/ Next /\ UNCHANGED tool2
     \/ Other!Next /\ UNCHANGED vars
  /\ [Lock!Next]_Phase

(* Each tool's processes are scheduled, but for a child that must wait for *)
(* the lock.                                                               *)
BothSpec ==
  /\ BothInit /\ [][BothNext]_<<vars, tool2>>
  /\ WF_<<vars, tool2>>(BothNext /\ Child)
  /\ WF_<<vars, tool2>>(BothNext /\ Parent)
  /\ WF_<<vars, tool2>>(BothNext /\ Other!Parent)

-----------------------------------------------------------------------------
(* "each may obtain exclusive access to the resources it requires": two    *)
(* commands run at once only if somebody has killed one of the children    *)
(* and left its command, whichever process ends, fails, or is interrupted, *)
(* and when.                                                               *)
OnlyOrphansOverlap ==
  command = Running /\ command2 = Running => code = Killed \/ code2 = Killed

=============================================================================
