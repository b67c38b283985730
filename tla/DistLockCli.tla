---------------------------- MODULE DistLockCli ----------------------------
(***************************************************************************)
(* The command line tool (src/src/dist_lock.cc): the process the user      *)
(* started (the parent), the one that locks (the child), and the command   *)
(* it runs once it has the lock.                                           *)
(*                                                                         *)
(* Under -d the parent waits for a signal of the child instead of its end. *)
(* Its handler notifies a condition variable that is waited for without a  *)
(* predicate, so that a signal that comes before the wait is lost.         *)
(* Acquiring is one step here, with a nondeterministic result.             *)
(***************************************************************************)
EXTENDS Integers

CONSTANTS
  Faults,        \* TRUE: what the child does before it locks may fail
  Interruptible, \* TRUE: the user may press ^C
  Killable,      \* TRUE: somebody may kill the child alone
  Options,       \* what a tool may be started with, see options
  CommandCodes   \* the exit statuses of the command

ASSUME CliAssumption ==
  /\ Faults \in BOOLEAN /\ Interruptible \in BOOLEAN /\ Killable \in BOOLEAN
  /\ Options \subseteq {"detach", "limit", "query", "ignored"}
  /\ CommandCodes \subseteq 0 .. 255

VARIABLES
  options,   \* "detach" (-d), "limit" (-n, not 0), "query" (-q, -Q or -W);
             \* "ignored": whoever started the tool ignores SIGCHLD
  ppc,       \* where the parent is
  acquired,  \* what the last signal told it
  status,    \* its exit status
  pending,   \* signals sent to it and not yet handled
  cpc,       \* where the child is
  code,      \* how the child ended: a status, or Killed
  command,   \* the command: NotRun, Running, its status, or Killed
  told       \* history: the child has signalled the parent

vars == <<options, ppc, acquired, status, pending, cpc, code, command, told>>

Detach == "detach" \in options
Limited == "limit" \in options
Querying == "query" \in options
Ignored == "ignored" \in options

ExitFailure == 1

(* What is not an exit status: of a process that a signal killed, of a     *)
(* command that runs, and of one that has not been started.                *)
Killed == -1
Running == -2
NotRun == -3

ParentGone == ppc \in {"exited", "killed"}

-----------------------------------------------------------------------------
(* The child.                                                              *)
Tell(sig) ==
  /\ pending' = pending \cup {sig}
  /\ told' = TRUE

End(c) == cpc' = "dead" /\ code' = c

(* setsid, when detached.                                                  *)
ChildStart ==
  /\ cpc = "forked"
  /\ cpc' = "init"
  /\ UNCHANGED <<ppc, acquired, status, pending, code, command, told>>

(* No socket, no resource, no command, bad usage: it ends at once, and     *)
(* under -d without a signal.                                              *)
ChildFail ==
  /\ Faults
  /\ cpc = "init"
  /\ \E c \in IF Querying THEN {1, 3, 4} ELSE {1, 2, 3, 4} : End(c)
  /\ UNCHANGED <<ppc, acquired, status, pending, command, told>>

(* Mutant of ChildStarted: the parent is told whatever the limit.          *)
ChildStartedTells ==
  /\ cpc = "init" /\ ~ Querying
  /\ cpc' = "acquire"
  /\ IF Detach THEN Tell("USR1") ELSE UNCHANGED <<pending, told>>
  /\ UNCHANGED <<ppc, acquired, status, code, command>>

(* onStart, when detached without a limit: the beaconing threads run.      *)
ChildStarted ==
  /\ cpc = "init" /\ ~ Querying
  /\ cpc' = "acquire"
  /\ IF Detach /\ ~ Limited THEN Tell("USR1") ELSE UNCHANGED <<pending, told>>
  /\ UNCHANGED <<ppc, acquired, status, code, command>>

ChildAcquires ==
  /\ cpc = "acquire"
  /\ cpc' = "locked"
  /\ IF Detach /\ Limited THEN Tell("USR1") ELSE UNCHANGED <<pending, told>>
  /\ UNCHANGED <<ppc, acquired, status, code, command>>

ChildGivesUp ==
  /\ cpc = "acquire" /\ Limited
  /\ IF Detach THEN Tell("USR2") ELSE UNCHANGED <<pending, told>>
  /\ End(5)
  /\ UNCHANGED <<ppc, acquired, status, command>>

ChildRuns ==
  /\ cpc = "locked" /\ command = NotRun
  /\ \/ command' = Running /\ cpc' = "reap" /\ UNCHANGED code
     \/ Faults /\ End(4) /\ UNCHANGED command
  /\ UNCHANGED <<ppc, acquired, status, pending, told>>

(* Mutant of ChildReaps: the status is returned as waitpid gave it, with   *)
(* the exit status in its second byte.                                     *)
ChildReapsRaw ==
  /\ cpc = "reap" /\ command # Running
  /\ End(IF command = Killed THEN ExitFailure ELSE (command * 256) % 256)
  /\ UNCHANGED <<ppc, acquired, status, pending, command, told>>

(* Mutant of ChildReaps: the child does not wait for the command.          *)
ChildLeaves ==
  /\ cpc = "reap" /\ End(0)
  /\ UNCHANGED <<ppc, acquired, status, pending, command, told>>

(* It returns the status of the command, and does not reach releaseAll.    *)
(* Where SIGCHLD is ignored waitpid fails once the command has ended, and  *)
(* the status it should have set is still 0.                               *)
ChildReaps ==
  /\ cpc = "reap" /\ command # Running
  /\ End(IF Ignored THEN 0 ELSE IF command = Killed THEN ExitFailure ELSE command)
  /\ UNCHANGED <<ppc, acquired, status, pending, command, told>>

(* The answer of a query is the status; the parent is told that it may     *)
(* reap it.                                                                *)
ChildQueries ==
  /\ cpc = "init" /\ Querying
  /\ IF Detach THEN Tell("USR2") ELSE UNCHANGED <<pending, told>>
  /\ \E answer \in {0, 1} : End(answer)
  /\ UNCHANGED <<ppc, acquired, status, command>>

CommandEnds ==
  /\ command = Running
  /\ command' \in CommandCodes \cup {Killed}
  /\ UNCHANGED <<ppc, acquired, status, pending, cpc, code, told>>

(* A signal the child has no handler for: its command goes on.             *)
ChildKilled ==
  /\ Killable
  /\ cpc # "dead" /\ End(Killed)
  /\ UNCHANGED <<ppc, acquired, status, pending, command, told>>

-----------------------------------------------------------------------------
(* The parent.                                                             *)
(* Mutant of ParentWaits: it waits for a signal that comes under -d only.  *)
ParentWaitsAlways ==
  /\ ppc = "forked"
  /\ ppc' = "waiting"
  /\ UNCHANGED <<acquired, status, pending, cpc, code, command, told>>

ParentWaits ==
  /\ ppc = "forked"
  /\ ppc' = IF Detach THEN "waiting" ELSE "reap"
  /\ UNCHANGED <<acquired, status, pending, cpc, code, command, told>>

(* Mutant of Handle: SIGUSR2 is noted, and nobody notified.                *)
HandleQuietly(sig) ==
  /\ ~ ParentGone
  /\ sig \in pending
  /\ pending' = pending \ {sig}
  /\ acquired' = (sig = "USR1")
  /\ ppc' = IF ppc = "waiting" /\ sig = "USR1" THEN "woken" ELSE ppc
  /\ UNCHANGED <<status, cpc, code, command, told>>

(* signal_handler: parent_wait.notify_all wakes the parent if it waits.    *)
Handle(sig) ==
  /\ ~ ParentGone
  /\ sig \in pending
  /\ pending' = pending \ {sig}
  /\ acquired' = (sig = "USR1")
  /\ ppc' = IF ppc = "waiting" THEN "woken" ELSE ppc
  /\ UNCHANGED <<status, cpc, code, command, told>>

ParentWakes ==
  /\ ppc = "woken"
  /\ IF acquired THEN ppc' = "exited" /\ status' = 0
                 ELSE ppc' = "reap" /\ UNCHANGED status
  /\ UNCHANGED <<acquired, pending, cpc, code, command, told>>

(* Mutant of ParentReaps: the status as waitpid gives it, with the exit    *)
(* status in its second byte.                                              *)
ParentReapsRaw ==
  /\ ppc = "reap" /\ cpc = "dead"
  /\ ppc' = "exited"
  /\ status' = IF code = Killed THEN 9 ELSE code * 256
  /\ UNCHANGED <<acquired, pending, cpc, code, command, told>>

ParentReaps ==
  /\ ppc = "reap" /\ cpc = "dead"
  /\ ppc' = "exited"
  /\ status' = IF code = Killed \/ Ignored THEN ExitFailure ELSE code
  /\ UNCHANGED <<acquired, pending, cpc, code, command, told>>

(* ^C.  The handler runs in every process of the terminal's group.  The    *)
(* child's pid_d is 0: it kills the group it is in.  The parent kills the  *)
(* group of a child that has its own session.                              *)
Interrupt ==
  /\ Interruptible
  /\ ~ ParentGone /\ cpc # "dead"
  /\ ppc' = IF Detach /\ cpc # "forked" THEN ppc ELSE "killed"
  /\ End(Killed)
  /\ command' = IF command = Running THEN Killed ELSE command
  /\ UNCHANGED <<acquired, status, pending, told>>

-----------------------------------------------------------------------------
Init ==
  /\ options \in SUBSET Options
  /\ ppc = "forked" /\ acquired = FALSE /\ status = 0
  /\ pending = {}
  /\ cpc = "forked" /\ code = 0
  /\ command = NotRun
  /\ told = FALSE

Child ==
  \/ ChildStart \/ ChildFail \/ ChildStarted \/ ChildAcquires \/ ChildGivesUp
  \/ ChildRuns \/ ChildReaps \/ ChildQueries

Parent == ParentWaits \/ ParentWakes \/ ParentReaps \/ \E sig \in pending : Handle(sig)

Next ==
  /\ Child \/ ChildKilled \/ CommandEnds \/ Parent \/ Interrupt
  /\ UNCHANGED options

Spec == Init /\ [][Next]_vars

(* The processes are scheduled fairly, and signals are delivered.  The     *)
(* command may run for ever.                                               *)
FairSpec == Spec /\ WF_vars(Child /\ UNCHANGED options) /\ WF_vars(Parent /\ UNCHANGED options)

-----------------------------------------------------------------------------
(* Each variable has a value of its kind.                                  *)
TypeOK ==
  /\ options \subseteq Options
  /\ ppc \in {"forked", "waiting", "woken", "reap", "exited", "killed"}
  /\ acquired \in BOOLEAN /\ told \in BOOLEAN
  /\ status \in 0 .. 255
  /\ pending \subseteq {"USR1", "USR2"}
  /\ cpc \in {"forked", "init", "acquire", "locked", "reap", "dead"}
  /\ code \in (0 .. 255) \cup {Killed}
  /\ command \in CommandCodes \cup {NotRun, Running, Killed}

(* Without -d the user gets the status of the command that ran, and never  *)
(* that of a command that did not: 5 or another error then.  If the child  *)
(* was killed, whatever its command does, or cannot be waited for, the     *)
(* tool reports a failure.                                                 *)
StatusIsCommands ==
  ~ Detach /\ ~ Querying /\ ppc = "exited" =>
    IF code = Killed \/ Ignored THEN status = ExitFailure
    ELSE IF command = NotRun THEN status \in {1, 2, 3, 4, 5}
    ELSE status = IF command = Killed THEN ExitFailure ELSE command

(* Under -d -n, a parent that reports success leaves a child that has got  *)
(* the lock: 0 comes neither before it has it nor when it gives up.        *)
DetachedHasLock ==
  Detach /\ Limited /\ ~ Querying /\ ppc = "exited" /\ status = 0 =>
    /\ cpc \notin {"forked", "init", "acquire"}
    /\ command = NotRun => code # 5

(* Without -d the tool ends when the process that locks has, however that  *)
(* one ended.                                                              *)
ParentFollows == (~ Detach /\ cpc = "dead") ~> ParentGone

(* The one way to miss a signal: it is handled before the parent waits.    *)
Missed == ppc = "forked" /\ told /\ pending = {}

(* A parent that has not missed the signal of its child ends, or goes on   *)
(* to wait for the end of the child.                                       *)
OnlyMissedWaits == [](~ Missed) => (told ~> (ParentGone \/ ppc = "reap"))

(* A child that fails before it locks ends with a status, and the parent   *)
(* ends too: "wait the children to notify us to exit" (dist_lock.cc).      *)
FailureReported == (cpc = "dead" /\ code \in {1, 2, 3, 4}) ~> ParentGone

=============================================================================
