----------------------------- MODULE VmRunProofs -----------------------------
(***************************************************************************)
(* What the launcher of the virtual machine guarantees for any kind and    *)
(* number of faults: a job whose launch was verified is never stopped by   *)
(* it, and what it reports is true.                                        *)
(*                                                                         *)
(* The argument: the machine is stopped in two places.  Before success is  *)
(* reported an exit status has been read, and a job that has left one no   *)
(* longer runs; the exit trap stops a machine only while the launch is not *)
(* verified, and no later step takes that flag back before it has also     *)
(* dropped vm_started.                                                     *)
(***************************************************************************)
EXTENDS VmRun, TLAPS

\* How far the launcher is, and what it may rely on there.
ProgressInv ==
  /\ where \notin {"away", "trap"} => rc = "none" /\ vm = "running" /\ lost < ContactRetries
  /\ where \in {"prepare", "launch"} => vmJob = "none" /\ exitFile = "none"
  /\ where \in {"finish", "stop"} => exitFile # "none"
  /\ where = "stop" /\ seen = "0" => exitFile = "0"

\* A job with an exit status has ended; one is killed only on the way out, and
\* only if its launch was not verified.
JobInv ==
  /\ exitFile # "none" => vmJob # "running"
  /\ vmJob = "killed" => where \in {"trap", "away"} /\ ~verified
  /\ verified => launched \/ ~vmStarted

\* What a report promises, with what keeps the trap from breaking it.
ReportInv ==
  /\ rc = "ok" => exitFile = "0" /\ vm = "stopped" /\ ~vmStarted /\ vmJob # "running"
  /\ rc = "unsure" => vm = "running" /\ leave

VmInv == VmTypeOK /\ ProgressInv /\ JobInv /\ ReportInv

-----------------------------------------------------------------------------

\* Before anything runs the invariant holds.
LEMMA InitialVm == VmInit => VmInv
  BY VmAssumption DEF VmInit, VmInv, VmTypeOK, ProgressInv, JobInv, ReportInv

\* Every step keeps the invariant: one case per step of the launcher, the
\* machine and the outside.
LEMMA StepKeepsVm == VmInv /\ [VmNext]_vmVars => VmInv'
<1> SUFFICES ASSUME VmInv, [VmNext]_vmVars PROVE VmInv'
  OBVIOUS
<1> USE VmAssumption DEF VmInv, VmTypeOK, ProgressInv, JobInv, ReportInv, machine, flags, counters,
        Fault, NoFault, MoveTo, NotShown, Exit, ExitUnsure
<1>1. CASE StartVm
  BY <1>1 DEF StartVm, Launcher
<1>2. CASE StartVmFails
  BY <1>2 DEF StartVmFails, Launcher
<1>3. CASE Prepare
  BY <1>3 DEF Prepare
<1>4. CASE Launch
  BY <1>4 DEF Launch
<1>5. CASE Readback
  BY <1>5 DEF Readback
<1>6. CASE Probe
  BY <1>6 DEF Probe, Verified
<1>7. CASE Evidence
  BY <1>7 DEF Evidence, Verified
<1>8. CASE Poll
  BY <1>8 DEF Poll
<1>9. CASE Alive
  BY <1>9 DEF Alive
<1>10. CASE Recheck
  BY <1>10 DEF Recheck
<1>11. CASE Finish
  BY <1>11 DEF Finish
<1>12. CASE Stop
  BY <1>12 DEF Stop, PowerOff
<1>13. CASE Trap
  BY <1>13 DEF Trap, PowerOff
<1>14. CASE Elapse
  BY <1>14 DEF Elapse
<1>15. CASE Interrupt
  BY <1>15 DEF Interrupt
<1>16. CASE Vanish
  BY <1>16 DEF Vanish
<1>17. CASE JobEnds
  BY <1>17 DEF JobEnds
<1>18. CASE PidWritten
  BY <1>18 DEF PidWritten
<1>19. CASE UNCHANGED vmVars
  BY <1>19 DEF vmVars
<1> QED
  BY <1>1, <1>2, <1>3, <1>4, <1>5, <1>6, <1>7, <1>8, <1>9, <1>10, <1>11, <1>12, <1>13, <1>14,
     <1>15, <1>16, <1>17, <1>18, <1>19 DEF VmNext, RunnerStep

\* The invariant in every behaviour of the launchers (vm-runner-common.sh).
THEOREM VmInvariant == VmSpec => []VmInv
  BY InitialVm, StepKeepsVm, PTL DEF VmSpec

\* Every variable of the launcher and of the machine keeps its type.
THEOREM VmTypes == VmSpec => []VmTypeOK
<1>1. VmInv => VmTypeOK
  BY DEF VmInv
<1> QED
  BY <1>1, VmInvariant, PTL

\* A job whose launch was verified is never stopped by a launcher, whatever
\* contact is lost and wherever the launcher is interrupted (vm_cleanup).
THEOREM VerifiedJobsSurvive == VmSpec => []VerifiedJobIsNeverKilled
<1>1. VmInv => VerifiedJobIsNeverKilled
  BY DEF VmInv, JobInv, VerifiedJobIsNeverKilled
<1> QED
  BY <1>1, VmInvariant, PTL

\* A launcher that reports success has seen the exit status 0 and stopped the
\* machine; one that is unsure has left it running (vm_poll, vm_stop).
THEOREM ReportsAreTrue == VmSpec => []LauncherTellsTheTruth
<1>1. VmInv => LauncherTellsTheTruth
  BY DEF VmInv, ReportInv, LauncherTellsTheTruth
<1> QED
  BY <1>1, VmInvariant, PTL

=============================================================================
