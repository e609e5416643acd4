-------------------------------- MODULE VmRun --------------------------------
(***************************************************************************)
(* A pipeline run on the one virtual machine                               *)
(* (scripts/runners/vm/vm-runner-common.sh and the run-*-vm.sh launchers   *)
(* built on it).  The launcher runs on the operator's computer: it starts  *)
(* the machine, deploys, launches the job detached, verifies the launch,   *)
(* polls, and stops the machine; its exit trap stops it when the launch    *)
(* failed.  The job runs on the machine and leaves its exit status in a    *)
(* file.  Every look at the machine goes through ssh and may fail.         *)
(*                                                                         *)
(* Launchers follow one another, and an operator starts one only when no   *)
(* job runs on the machine (status-dynamic-vm.sh: "Do NOT launch a new run *)
(* until this is resolved").                                               *)
(***************************************************************************)
EXTENDS Naturals

CONSTANTS
  VmFaults,       \* what may go wrong, of the kinds below
  ContactRetries, \* CONNECTION_RETRIES: lost contacts in a row until a poll gives up
  HasBudget,      \* POLL_MAX_SECONDS is set
  MaxLaunches,    \* bound: launchers started
  MaxTroubles     \* bound: faults, in all

FaultKinds ==
  {"blip",      \* an ssh call fails
   "prelaunch", \* the machine does not start, sshd does not answer, the deploy is refused
   "lost",      \* the launch session ends before the process identifier is written
   "crash",     \* the job and its wrapper die without an exit status
   "stop",      \* stopping the machine fails
   "interrupt", \* the launcher is interrupted
   "vanish"}    \* the launcher is killed, its trap does not run

ASSUME VmAssumption ==
  /\ VmFaults \subseteq FaultKinds /\ HasBudget \in BOOLEAN
  /\ ContactRetries \in Nat \ {0} /\ MaxLaunches \in Nat /\ MaxTroubles \in Nat

VARIABLES
  vm,        \* the machine: stopped or running
  vmJob,     \* the detached job: none, running, ended, or killed with the machine
  exitFile,  \* the exit status in its file, or "none"
  pidFile,   \* the file with its process identifier is there
  where,     \* the step the launcher takes next; "away" when there is none
  pid,       \* it has read a process identifier
  vmStarted, \* vm_started
  launched,  \* pipeline_launched
  leave,     \* leave_running
  lost,      \* poll_failures
  expired,   \* the poll budget is used up
  seen,      \* PIPELINE_EXIT
  rc,        \* how the last launcher ended: ok, error (1), unsure (2), or none yet
  verified,  \* its launch was verified
  launches, troubles

machine == <<vm, vmJob, exitFile, pidFile>>
flags == <<vmStarted, launched, leave>>
counters == <<launches, troubles>>
vmVars == <<machine, where, pid, flags, lost, expired, seen, rc, verified, counters>>

VmTypeOK ==
  /\ vm \in {"stopped", "running"} /\ vmJob \in {"none", "running", "ended", "killed"}
  /\ exitFile \in {"none", "0", "1"} /\ seen \in {"none", "0", "1", "unknown"}
  /\ rc \in {"none", "ok", "error", "unsure"} /\ lost \in 0..ContactRetries
  /\ launches \in 0..MaxLaunches /\ troubles \in 0..MaxTroubles

VmInit ==
  /\ vm = "stopped" /\ vmJob = "none" /\ exitFile = "none" /\ pidFile = FALSE
  /\ where = "away" /\ pid = FALSE
  /\ vmStarted = FALSE /\ launched = FALSE /\ leave = FALSE
  /\ lost = 0 /\ expired = FALSE /\ seen = "none" /\ rc = "none" /\ verified = FALSE
  /\ launches = 0 /\ troubles = 0

Fault(kind) == kind \in VmFaults /\ troubles < MaxTroubles /\ troubles' = troubles + 1
NoFault == UNCHANGED troubles
MoveTo(step) == where' = step

\* A look at the machine that does not show what is looked for, also for want
\* of contact.
NotShown(there) == (~there /\ NoFault) \/ Fault("blip")

\* exit: the launcher leaves with a status, through its trap.
Exit(status) == rc' = status /\ MoveTo("trap")
ExitUnsure == Exit("unsure") /\ leave' = TRUE

-----------------------------------------------------------------------------
(* Start, deploy, launch.                                                   *)

\* A new run has a directory of its own, so fresh files, and a fresh shell.
Launcher ==
  /\ where = "away" /\ vmJob # "running" /\ launches < MaxLaunches
  /\ launches' = launches + 1
  /\ vmJob' = "none" /\ exitFile' = "none" /\ pidFile' = FALSE
  /\ pid' = FALSE /\ launched' = FALSE /\ leave' = FALSE
  /\ lost' = 0 /\ expired' = FALSE /\ seen' = "none" /\ verified' = FALSE

StartVm ==
  /\ Launcher
  /\ vm' = "running" /\ vmStarted' = TRUE /\ rc' = "none" /\ MoveTo("prepare") /\ NoFault

\* start-vm.sh fails, perhaps after the machine runs: the trap is not set yet.
StartVmFails ==
  /\ Launcher /\ Fault("prelaunch")
  /\ vm' \in {vm, "running"} /\ vmStarted' = FALSE /\ rc' = "error" /\ MoveTo("away")

\* Wait for sshd, deploy the pinned commit, reserve the run directory.
Prepare ==
  /\ where = "prepare"
  /\ \/ MoveTo("launch") /\ NoFault /\ UNCHANGED rc
     \/ Fault("prelaunch") /\ Exit("error")
  /\ UNCHANGED <<machine, pid, flags, lost, expired, seen, verified, launches>>

\* The detached launch; a session that hangs afterwards is cut off, not the job.
\* One that ends early has not run the command, or has started the job only.
Launch ==
  /\ where = "launch"
  /\ \/ vmJob' = "running" /\ pidFile' = TRUE /\ NoFault
     \/ Fault("lost") /\ vmJob' \in {"none", "running"} /\ UNCHANGED pidFile
  /\ MoveTo("readback")
  /\ UNCHANGED <<vm, exitFile, pid, flags, lost, expired, seen, rc, verified, launches>>

\* The shell of a session that was cut off writes the identifier after all.
PidWritten ==
  /\ vm = "running" /\ vmJob \in {"running", "ended"} /\ ~pidFile /\ pidFile' = TRUE
  /\ UNCHANGED <<vm, vmJob, exitFile, where, pid, flags, lost, expired, seen, rc, verified, counters>>

Readback ==
  /\ where = "readback"
  /\ \/ pid' = pidFile /\ MoveTo("probe") /\ NoFault /\ UNCHANGED <<rc, leave>>
     \/ Fault("blip") /\ ExitUnsure /\ UNCHANGED pid
  /\ UNCHANGED <<machine, vmStarted, launched, lost, expired, seen, verified, launches>>

Verified == launched' = TRUE /\ verified' = TRUE /\ MoveTo("poll")

\* kill -0: what is not seen alive, also for want of contact, is looked for in
\* the exit status.
Probe ==
  /\ where = "probe"
  /\ \/ pid /\ vmJob = "running" /\ NoFault /\ Verified
     \/ /\ NotShown(pid /\ vmJob = "running")
        /\ MoveTo("evidence") /\ UNCHANGED <<launched, verified>>
  /\ UNCHANGED <<machine, pid, vmStarted, leave, lost, expired, seen, rc, launches>>

Evidence ==
  /\ where = "evidence"
  /\ \/ exitFile # "none" /\ NoFault /\ Verified /\ UNCHANGED rc
     \/ /\ NotShown(exitFile # "none")
        /\ Exit("error") /\ UNCHANGED <<launched, verified>>
  /\ UNCHANGED <<machine, pid, vmStarted, leave, lost, expired, seen, launches>>

-----------------------------------------------------------------------------
(* Poll for the exit status.                                                *)

\* Mutant: an ssh call that fails reads as a status, as it does in vm_finish.
PollUnknown ==
  /\ where = "poll"
  /\ \/ exitFile # "none" /\ NoFault /\ MoveTo("finish") /\ UNCHANGED <<rc, leave>>
     \/ Fault("blip") /\ MoveTo("finish") /\ UNCHANGED <<rc, leave>>
     \/ /\ exitFile = "none" /\ NoFault
        /\ IF HasBudget /\ expired THEN ExitUnsure ELSE MoveTo("alive") /\ UNCHANGED <<rc, leave>>
  /\ UNCHANGED <<machine, pid, vmStarted, launched, lost, expired, seen, verified, launches>>

\* Mutant: the budget is not looked at.
PollForever ==
  /\ where = "poll"
  /\ \/ exitFile # "none" /\ NoFault /\ MoveTo("finish")
     \/ NotShown(exitFile # "none") /\ MoveTo("alive")
  /\ UNCHANGED <<machine, pid, flags, lost, expired, seen, rc, verified, launches>>

Poll ==
  /\ where = "poll"
  /\ \/ exitFile # "none" /\ NoFault /\ MoveTo("finish") /\ UNCHANGED <<rc, leave>>
     \/ /\ NotShown(exitFile # "none")
        /\ IF HasBudget /\ expired THEN ExitUnsure ELSE MoveTo("alive") /\ UNCHANGED <<rc, leave>>
  /\ UNCHANGED <<machine, pid, vmStarted, launched, lost, expired, seen, verified, launches>>

Alive ==
  /\ where = "alive"
  /\ \/ /\ NoFault /\ lost' = 0 /\ MoveTo(IF vmJob = "running" /\ pid THEN "poll" ELSE "recheck")
        /\ UNCHANGED <<rc, leave>>
     \/ /\ Fault("blip") /\ lost' = lost + 1
        /\ IF lost + 1 = ContactRetries THEN ExitUnsure
           ELSE MoveTo("poll") /\ UNCHANGED <<rc, leave>>
  /\ UNCHANGED <<machine, pid, vmStarted, launched, expired, seen, verified, launches>>

\* Gone without an exit status: crashed, or the status is still to come.
Recheck ==
  /\ where = "recheck"
  /\ \/ exitFile # "none" /\ NoFault /\ MoveTo("finish") /\ UNCHANGED <<rc, leave>>
     \/ NotShown(exitFile # "none") /\ ExitUnsure
  /\ UNCHANGED <<machine, pid, vmStarted, launched, lost, expired, seen, verified, launches>>

-----------------------------------------------------------------------------
(* Finish, validate, stop; the exit trap.                                   *)

Finish ==
  /\ where = "finish"
  /\ \/ seen' = exitFile /\ NoFault
     \/ seen' = "unknown" /\ Fault("blip")
  /\ MoveTo("stop")
  /\ UNCHANGED <<machine, pid, flags, lost, expired, rc, verified, launches>>

\* The machine goes down with whatever runs on it.
PowerOff ==
  /\ vm' = "stopped" /\ vmJob' = IF vmJob = "running" THEN "killed" ELSE vmJob
  /\ UNCHANGED <<exitFile, pidFile>>

\* Mutant: a failed stop does not fail the launcher.
StopAnyway ==
  /\ where = "stop"
  /\ vmStarted' = FALSE /\ launched' = FALSE
  /\ \/ PowerOff /\ NoFault
     \/ Fault("stop") /\ UNCHANGED machine
  /\ \E valid \in BOOLEAN : Exit(IF seen = "0" /\ valid THEN "ok" ELSE "error")
  /\ UNCHANGED <<pid, leave, lost, expired, seen, verified, launches>>

\* An exit status of 0 is validated on the operator's computer, the machine is
\* stopped, and only then success is reported.
Stop ==
  /\ where = "stop"
  /\ vmStarted' = FALSE /\ launched' = FALSE
  /\ \/ /\ PowerOff /\ NoFault
        /\ \E valid \in BOOLEAN : Exit(IF seen = "0" /\ valid THEN "ok" ELSE "error")
     \/ Fault("stop") /\ Exit("error") /\ UNCHANGED machine
  /\ UNCHANGED <<pid, leave, lost, expired, seen, verified, launches>>

Trap ==
  /\ where = "trap"
  /\ \/ (leave \/ launched \/ ~vmStarted) /\ NoFault /\ UNCHANGED machine
     \/ ~leave /\ ~launched /\ vmStarted /\ PowerOff /\ NoFault
     \/ ~leave /\ ~launched /\ vmStarted /\ Fault("stop") /\ UNCHANGED machine
  /\ MoveTo("away")
  /\ UNCHANGED <<pid, flags, lost, expired, seen, rc, verified, launches>>

-----------------------------------------------------------------------------

Elapse ==
  /\ where \in {"poll", "alive"} /\ ~expired /\ expired' = TRUE
  /\ UNCHANGED <<machine, where, pid, flags, lost, seen, rc, verified, counters>>

Interrupt ==
  /\ where \notin {"away", "trap"} /\ Fault("interrupt") /\ Exit("error")
  /\ UNCHANGED <<machine, pid, flags, lost, expired, seen, verified, launches>>

Vanish ==
  /\ where # "away" /\ Fault("vanish")
  /\ MoveTo("away") /\ rc' = "none"
  /\ UNCHANGED <<machine, pid, flags, lost, expired, seen, verified, launches>>

\* The wrapper writes the exit status of the job when it ends.
JobEnds ==
  /\ vmJob = "running" /\ vmJob' = "ended"
  /\ \/ exitFile' \in {"0", "1"} /\ NoFault
     \/ Fault("crash") /\ UNCHANGED exitFile
  /\ UNCHANGED <<vm, pidFile, where, pid, flags, lost, expired, seen, rc, verified, launches>>

RunnerStep ==
  \/ Prepare \/ Launch \/ Readback \/ Probe \/ Evidence
  \/ Poll \/ Alive \/ Recheck \/ Finish \/ Stop \/ Trap

VmNext ==
  \/ StartVm \/ StartVmFails \/ RunnerStep
  \/ Elapse \/ Interrupt \/ Vanish \/ JobEnds \/ PidWritten

\* The launcher keeps running and its clock advances; nothing makes a job end.
VmFairness == WF_vmVars(RunnerStep) /\ WF_vmVars(Elapse)

VmSpec == VmInit /\ [][VmNext]_vmVars /\ VmFairness

-----------------------------------------------------------------------------

\* A job whose launch was verified is never stopped by its launcher, whatever
\* contact it loses and however it is interrupted.
VerifiedJobIsNeverKilled == vmJob = "killed" => ~verified

\* A launcher that reports success left the exit status 0 and a stopped machine;
\* one that is unsure left the machine running.
LauncherTellsTheTruth ==
  /\ rc = "ok" => exitFile = "0" /\ vm = "stopped"
  /\ rc = "unsure" => vm = "running"

\* With a poll budget every launcher ends, also when its job never does.
RunnerEnds == [](where # "away" => <>(where = "away"))

\* "once launched, no ambiguous exit or connection loss ever stops the VM
\* automatically": no job is stopped, whether its launch was verified or not.
LaunchedJobIsNeverKilled == vmJob # "killed"

=============================================================================
