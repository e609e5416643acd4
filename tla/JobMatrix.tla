----------------------------- MODULE JobMatrix -----------------------------
(***************************************************************************)
(* The ablation matrix on Vertex: invocations of launch_v6_matrix.sh that  *)
(* walk the (arm, seed) pairs in a fixed order, the launcher each of them  *)
(* runs in the background, the Custom Jobs Vertex makes of the launchers'  *)
(* create requests, and the create-only objects a job leaves under the run *)
(* label of its pair: epoch curve, checkpoint, evidence.                   *)
(*                                                                         *)
(* Nothing keeps two invocations apart, and a killed invocation leaves its *)
(* launcher running.  A create request may land after its launcher has     *)
(* given up on it, or never.  Objects carry the number of the job that     *)
(* wrote them; times are reduced to what is compared with a deadline.      *)
(***************************************************************************)
EXTENDS Integers, Sequences, FiniteSets

CONSTANTS
  Invocations,      \* of the script, in the order they start: its first pair (--from)
                    \* and its last (the same for `submit'), its
                    \* V6M_SUBMIT_ATTEMPTS, and whether V6M_RESUBMIT_FAILED is set
  NumPairs,         \* pairs of the matrix, in the fixed order
  MaxJobs,          \* bound: create requests ever sent
  Faults            \* subset of {"kill", "raise", "late", "blind"}

ASSUME MatrixAssumption ==
  /\ {NumPairs, MaxJobs} \subseteq Nat \ {0}
  /\ Invocations \in Seq([from : 1..NumPairs, to : 1..NumPairs, attempts : Nat \ {0}, optIn : BOOLEAN])
  /\ \A s \in DOMAIN Invocations : Invocations[s].from <= Invocations[s].to
  /\ Faults \subseteq {"kill", "raise", "late", "blind"}

VARIABLES
  script,     \* per invocation: where it is, its pair, attempt and job
  launcher,   \* per invocation: the launcher it started last
  jobs,       \* the create requests in the order they were sent
  label       \* per pair: the objects under its run label

matrixVars == <<script, launcher, jobs, label>>

Scripts == DOMAIN Invocations
Pairs == 1..NumPairs
NoJob == 0
Objects == {"curve", "ckpt", "evidence"}

Terminal == {"succeeded", "failed", "cancelled"}
Active == {"queued", "running"}
Landed(j) == jobs[j].state \in Active \cup Terminal
JobsOf(p) == {j \in DOMAIN jobs : Landed(j) /\ jobs[j].pair = p}
InState(p, S) == {j \in JobsOf(p) : jobs[j].state \in S}

Ended == {"done", "stopped", "dead"}
At(s, where) == script[s].pc = where

-----------------------------------------------------------------------------
(* The script.                                                             *)

\* `submit-all [--from ARM SEED]' or `submit ARM SEED'.
Begin(s) ==
  /\ At(s, "off")
  /\ \A t \in 1..(s - 1) : ~ At(t, "off")
  /\ script' = [script EXCEPT ![s].pc = "lookup"]
  /\ UNCHANGED <<launcher, jobs, label>>

Goto(s, where) == script' = [script EXCEPT ![s].pc = where]

\* What is left of an ended invocation: how far it came.
End(s, where) ==
  script' = [script EXCEPT ![s] = [@ EXCEPT !.pc = where, !.attempt = 0, !.job = NoJob,
                                            !.prior = {}]]

\* do_pair returned 0: the loop goes on, or ends after the last pair.
NextPair(s) ==
  IF script[s].pair = Invocations[s].to THEN End(s, "done")
  ELSE script' = [script EXCEPT ![s] = [@ EXCEPT !.pc = "lookup",
                                                 !.pair = script[s].pair + 1,
                                                 !.attempt = 0, !.job = NoJob, !.prior = {}]]

WaitOn(s, j) == script' = [script EXCEPT ![s] = [@ EXCEPT !.pc = "poll", !.job = j]]

\* V6M_RESUBMIT_FAILED: only FAILED jobs exist.
MayResubmit(s, p) == Invocations[s].optIn /\ JobsOf(p) = InState(p, {"failed"})

\* Six failed list calls: the idempotency check is impossible.
LookupFails(s) ==
  /\ "blind" \in Faults
  /\ script[s].pc \in {"lookup", "relookup"}
  /\ End(s, "stopped")
  /\ UNCHANGED <<launcher, jobs, label>>

SkipPair(s) ==
  /\ At(s, "lookup")
  /\ InState(script[s].pair, {"succeeded"}) # {}
  /\ NextPair(s)
  /\ UNCHANGED <<launcher, jobs, label>>

\* The lookup at the top of every attempt, and what follows from it: wait on an
\* active job, stop on any other job, or start a launcher for a new one.
Attempt(s) ==
  LET p == script[s].pair IN
  /\ At(s, "lookup")
  /\ InState(p, {"succeeded"}) = {}
  /\ \/ /\ \E j \in InState(p, Active) : WaitOn(s, j)
        /\ UNCHANGED launcher
     \/ /\ InState(p, Active) = {} /\ JobsOf(p) # {} /\ ~ MayResubmit(s, p)
        /\ End(s, "stopped")
        /\ UNCHANGED launcher
     \/ /\ InState(p, Active) = {}
        /\ JobsOf(p) = {} \/ MayResubmit(s, p)
        /\ script' = [script EXCEPT ![s] = [@ EXCEPT !.pc = "watch",
                                                     !.attempt = script[s].attempt + 1,
                                                     !.prior = JobsOf(p)]]
        /\ launcher' = [launcher EXCEPT ![s] = [pc |-> "check", pair |-> p, job |-> NoJob]]
  /\ UNCHANGED <<jobs, label>>

\* The launcher printed its job id.
SeeJob(s) ==
  /\ At(s, "watch")
  /\ launcher[s].pc = "poll" \/ (launcher[s].pc = "ended" /\ launcher[s].job # NoJob)
  /\ WaitOn(s, launcher[s].job)
  /\ UNCHANGED <<launcher, jobs, label>>

LauncherEnds(s) == launcher' = [launcher EXCEPT ![s] = [@ EXCEPT !.pc = "ended", !.job = NoJob]]

\* Mutant: a launcher that shows no job is waited for.
AwaitLauncher(s) ==
  /\ At(s, "watch")
  /\ launcher[s].pc = "ended" /\ launcher[s].job = NoJob
  /\ Goto(s, "relookup")
  /\ UNCHANGED <<launcher, jobs, label>>

\* It exited without one, or showed none within V6M_CREATE_WAIT and is killed.
GiveUpLauncher(s) ==
  /\ At(s, "watch")
  /\ launcher[s].pc \in {"check", "create", "await", "ended"}
  /\ launcher[s].pc = "ended" => launcher[s].job = NoJob
  /\ LauncherEnds(s)
  /\ Goto(s, "relookup")
  /\ UNCHANGED <<jobs, label>>

NewJobs(s) == JobsOf(script[s].pair) \ script[s].prior

\* The lookup after a launcher that showed no job: adopt a job that was not there
\* before, else try again while attempts are left.
Relookup(s) ==
  /\ At(s, "relookup")
  /\ \/ \E j \in NewJobs(s) : WaitOn(s, j)
     \/ /\ NewJobs(s) = {}
        /\ IF script[s].attempt < Invocations[s].attempts THEN Goto(s, "lookup") ELSE End(s, "stopped")
  /\ UNCHANGED <<launcher, jobs, label>>

\* poll_job saw a terminal state; the launcher is stopped after its grace period.
PollTerminal(s) ==
  /\ At(s, "poll")
  /\ jobs[script[s].job].state \in Terminal
  /\ IF jobs[script[s].job].state = "succeeded" THEN NextPair(s) ELSE End(s, "stopped")
  /\ LauncherEnds(s)
  /\ UNCHANGED <<jobs, label>>

\* Not started within V6M_MAX_WAIT of creation: cancel, QUEUE_DEADLINE_MISSED.
PollOverdue(s) ==
  /\ At(s, "poll")
  /\ jobs[script[s].job].state = "queued" /\ jobs[script[s].job].queue # "ontime"
  /\ jobs' = [jobs EXCEPT ![script[s].job].queue = "cancel"]
  /\ LauncherEnds(s)
  /\ End(s, "stopped")
  /\ UNCHANGED label

\* WAIT_EXPIRED on a job that runs on and on, or STATUS_UNKNOWN.
PollGivesUp(s) ==
  /\ At(s, "poll")
  /\ jobs[script[s].job].state = "running" \/ "blind" \in Faults
  /\ LauncherEnds(s)
  /\ End(s, "stopped")
  /\ UNCHANGED <<jobs, label>>

\* The invocation is killed; its launcher is in the background and lives on.
KillScript(s) ==
  /\ "kill" \in Faults
  /\ script[s].pc \notin Ended \cup {"off"}
  /\ End(s, "dead")
  /\ UNCHANGED <<launcher, jobs, label>>

ScriptStep(s) ==
  \/ SkipPair(s) \/ Attempt(s) \/ SeeJob(s) \/ GiveUpLauncher(s) \/ Relookup(s)
  \/ PollTerminal(s) \/ PollOverdue(s) \/ PollGivesUp(s) \/ LookupFails(s)

-----------------------------------------------------------------------------
(* The launcher.                                                           *)

\* Refuse a run label whose evidence or checkpoint exists; print nothing else.
LauncherCheck(s) ==
  /\ launcher[s].pc = "check"
  /\ LET objects == label[launcher[s].pair] IN
       launcher' = [launcher EXCEPT ![s].pc =
                      IF {objects["evidence"], objects["ckpt"]} = {NoJob}
                      THEN "create" ELSE "ended"]
  /\ UNCHANGED <<script, jobs, label>>

NewRequest(p) ==
  [pair |-> p, state |-> "flight", phase |-> "fit", queue |-> "ontime"]

\* create_custom_job, one call without retries.
LauncherCreate(s) ==
  /\ launcher[s].pc = "create"
  /\ Len(jobs) < MaxJobs
  /\ jobs' = Append(jobs, NewRequest(launcher[s].pair))
  /\ launcher' = [launcher EXCEPT ![s] = [@ EXCEPT !.pc = "await", !.job = Len(jobs) + 1]]
  /\ UNCHANGED <<script, label>>

\* The response: "submitted job: ...".
LauncherSubmitted(s) ==
  /\ launcher[s].pc = "await"
  /\ Landed(launcher[s].job)
  /\ launcher' = [launcher EXCEPT ![s].pc = "poll"]
  /\ UNCHANGED <<script, jobs, label>>

\* Any other end: a refused check, a failed or timed-out call.  Before the
\* response nothing has been printed, so no job is shown.
LauncherFails(s) ==
  /\ launcher[s].pc \in {"check", "create", "await", "poll"}
  /\ "raise" \in Faults
  /\ launcher' = [launcher EXCEPT ![s] =
                    [@ EXCEPT !.pc = "ended",
                              !.job = IF launcher[s].pc = "poll" THEN launcher[s].job
                                      ELSE NoJob]]
  /\ UNCHANGED <<script, jobs, label>>

\* _poll_until_terminal: a job that did not start, or started, after the deadline
\* is cancelled once; a terminal job ends the launcher.
LauncherPoll(s) ==
  LET j == launcher[s].job IN
  /\ launcher[s].pc = "poll"
  /\ \/ /\ jobs[j].state \in Terminal
        /\ LauncherEnds(s)
        /\ UNCHANGED jobs
     \/ /\ jobs[j].state \in Active /\ jobs[j].queue = "late"
        /\ jobs' = [jobs EXCEPT ![j].queue = "cancel"]
        /\ UNCHANGED launcher
  /\ UNCHANGED <<script, label>>

LauncherStep(s) ==
  \/ LauncherCheck(s) \/ LauncherCreate(s) \/ LauncherSubmitted(s)
  \/ LauncherFails(s) \/ LauncherPoll(s)

-----------------------------------------------------------------------------
(* Vertex, and the container it runs.                                      *)

\* A request is executed, possibly long after its caller gave up, or never.
RequestLands(j) ==
  /\ jobs[j].state = "flight"
  /\ "late" \in Faults \/ \E s \in Scripts : launcher[s].pc = "await" /\ launcher[s].job = j
  /\ jobs' = [jobs EXCEPT ![j].state = "queued"]
  /\ UNCHANGED <<script, launcher, label>>

\* V6M_MAX_WAIT passes before the job starts.
QueueDeadline(j) ==
  /\ jobs[j].state = "queued" /\ jobs[j].queue = "ontime"
  /\ jobs' = [jobs EXCEPT ![j].queue = "late"]
  /\ UNCHANGED <<script, launcher, label>>

JobStarts(j) ==
  /\ jobs[j].state = "queued"
  /\ jobs' = [jobs EXCEPT ![j].state = "running"]
  /\ UNCHANGED <<script, launcher, label>>

\* A terminal job keeps its state, and nothing that anybody asks for later.
Closed(j, final) ==
  [jobs[j] EXCEPT !.state = final, !.phase = "fit", !.queue = "ontime"]

CancelLands(j) ==
  /\ jobs[j].state \in Active /\ jobs[j].queue = "cancel"
  /\ jobs' = [jobs EXCEPT ![j] = Closed(j, "cancelled")]
  /\ UNCHANGED <<script, launcher, label>>

\* Mutant: the upload overwrites.
CreateOver(j, object, next) ==
  /\ label' = [label EXCEPT ![jobs[j].pair][object] = j]
  /\ jobs' = [jobs EXCEPT ![j] = next]

\* A create-only upload, if_generation_match=0: the object must be absent.
CreateOnly(j, object, next) ==
  LET p == jobs[j].pair IN
  \/ /\ label[p][object] = NoJob
     /\ label' = [label EXCEPT ![p][object] = j]
     /\ jobs' = [jobs EXCEPT ![j] = next]
  \/ /\ label[p][object] # NoJob
     /\ jobs' = [jobs EXCEPT ![j] = Closed(j, "failed")]
     /\ UNCHANGED label

InPhase(j, phase) == jobs[j].state = "running" /\ jobs[j].phase = phase

\* run_modeling.py exits with 0.
Train(j) ==
  /\ InPhase(j, "fit")
  /\ jobs' = [jobs EXCEPT ![j].phase = "curve"]
  /\ UNCHANGED <<script, launcher, label>>

\* It fails after its first epoch: its curve is uploaded all the same.
TrainFails(j) ==
  /\ "raise" \in Faults
  /\ InPhase(j, "fit")
  /\ CreateOnly(j, "curve", Closed(j, "failed"))
  /\ UNCHANGED <<script, launcher>>

\* The container ends with an error, or is lost, wherever it is.
JobDies(j) ==
  /\ "raise" \in Faults
  /\ jobs[j].state = "running"
  /\ jobs' = [jobs EXCEPT ![j] = Closed(j, "failed")]
  /\ UNCHANGED <<script, launcher, label>>

\* Mutant: a curve that exists already does not fail the job.
UploadCurveLoosely(j) ==
  /\ InPhase(j, "curve")
  /\ LET p == jobs[j].pair IN
       label' = [label EXCEPT ![p]["curve"] = IF @ = NoJob THEN j ELSE @]
  /\ jobs' = [jobs EXCEPT ![j].phase = "ckpt"]
  /\ UNCHANGED <<script, launcher>>

\* The curve comes first, then the checkpoint the manifest refers to.
UploadCurve(j) ==
  /\ InPhase(j, "curve")
  /\ CreateOnly(j, "curve", [jobs[j] EXCEPT !.phase = "ckpt"])
  /\ UNCHANGED <<script, launcher>>

UploadCheckpoint(j) ==
  /\ InPhase(j, "ckpt")
  /\ CreateOnly(j, "ckpt", [jobs[j] EXCEPT !.phase = "evidence"])
  /\ UNCHANGED <<script, launcher>>

\* The manifest is uploaded last; the upload may land and fail all the same.
UploadEvidence(j) ==
  /\ InPhase(j, "evidence")
  /\ \/ CreateOnly(j, "evidence", Closed(j, "succeeded"))
     \/ "raise" \in Faults /\ CreateOnly(j, "evidence", Closed(j, "failed"))
  /\ UNCHANGED <<script, launcher>>

ServiceStep(j) ==
  \/ RequestLands(j) \/ QueueDeadline(j) \/ JobStarts(j)
  \/ CancelLands(j) \/ Train(j) \/ TrainFails(j) \/ JobDies(j)
  \/ UploadCurve(j) \/ UploadCheckpoint(j) \/ UploadEvidence(j)

-----------------------------------------------------------------------------
MatrixInit ==
  /\ script = [s \in Scripts |-> [pc |-> "off", pair |-> Invocations[s].from, attempt |-> 0,
                                  job |-> NoJob, prior |-> {}]]
  /\ launcher = [s \in Scripts |-> [pc |-> "off", pair |-> 1, job |-> NoJob]]
  /\ jobs = <<>>
  /\ label = [p \in Pairs |-> [o \in Objects |-> NoJob]]

MatrixNext ==
  \/ \E s \in Scripts : Begin(s) \/ ScriptStep(s) \/ KillScript(s) \/ LauncherStep(s)
  \/ \E j \in DOMAIN jobs : ServiceStep(j)

\* Some invocation that can go on goes on, and time passes.  Nothing is assumed of
\* launchers, of Vertex or of the network.
MatrixFairness ==
  /\ WF_matrixVars(\E s \in Scripts : ScriptStep(s))
  /\ WF_matrixVars(\E j \in DOMAIN jobs : QueueDeadline(j))

MatrixSpec == MatrixInit /\ [][MatrixNext]_matrixVars /\ MatrixFairness

\* An operator who starts an invocation only after the one before has ended.
OneAtATime == \A s \in Scripts, t \in Scripts :
                s < t /\ ~ At(t, "off") => script[s].pc \in Ended

SerialMatrixSpec == MatrixInit /\ [][MatrixNext /\ OneAtATime']_matrixVars

-----------------------------------------------------------------------------
Invocation == [pc : {"off", "lookup", "watch", "relookup", "poll"} \cup Ended, pair : Pairs,
               attempt : Nat, job : 0..MaxJobs, prior : SUBSET (1..MaxJobs)]
Background == [pc : {"off", "check", "create", "await", "poll", "ended"}, pair : Pairs,
               job : 0..MaxJobs]
Request == [pair : Pairs, queue : {"ontime", "late", "cancel"},
            phase : {"fit", "curve", "ckpt", "evidence"},
            state : {"flight"} \cup Active \cup Terminal]

MatrixTypeOK ==
  /\ script \in [Scripts -> Invocation]
  /\ launcher \in [Scripts -> Background]
  /\ jobs \in Seq(Request) /\ Len(jobs) <= MaxJobs
  /\ label \in [Pairs -> [Objects -> 0..MaxJobs]]

\* What is published under one run label comes from one job, however many jobs were
\* created for its pair and wherever they died: no evidence describes the checkpoint
\* or the epoch curve of another job (vertex_evidence.py:497-535).
LabelBelongsToOneJob ==
  \A p \in Pairs : Cardinality({label[p][o] : o \in Objects} \ {NoJob}) <= 1

\* "Only JOB_STATE_SUCCEEDED continues the loop" (launch_v6_matrix.sh:53), and what
\* that is for: behind an invocation every pair since its --from has the whole output
\* of one succeeded job, whoever submitted it and whoever cancelled what.
Behind(s) == Invocations[s].from..(script[s].pair - (IF At(s, "done") THEN 0 ELSE 1))

PassedPairsArePublished ==
  \A s \in Scripts : \A p \in Behind(s) :
    \E j \in InState(p, {"succeeded"}) : \A o \in Objects : label[p][o] = j

\* An invocation ends, whatever Vertex, the launcher and the network do
\* (launch_v6_matrix.sh:233-243, 295-299).
ScriptsEnd == \A s \in Scripts : ~ At(s, "off") ~> script[s].pc \in Ended

\* "... would fail create-only after burning a new paid job, so refuse the label here"
\* (launch_vertex_modeling.py:1628-1636): a label the launcher accepts is free of every
\* object its job has to create.
AcceptedLabelIsFree ==
  \A s \in Scripts : launcher[s].pc = "create" =>
    \A o \in Objects : label[launcher[s].pair][o] = NoJob

\* "... with a displayName lookup before every attempt so no duplicate is created"
\* (launch_v6_matrix.sh:38-39).
NoDuplicateIsCreated ==
  \A p \in Pairs : Cardinality(InState(p, Active \cup {"succeeded"})) <= 1
=============================================================================
