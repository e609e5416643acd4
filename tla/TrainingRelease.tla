--------------------------- MODULE TrainingRelease ---------------------------
(***************************************************************************)
(* The training-data pipeline (data/training): a run publishes one         *)
(* eligibility mask per assessable scene and, when none failed, assembles  *)
(* the release - manifest, cell index, scaler - and commits it with a      *)
(* create-only marker.  Runs over one root may overlap; a run may be       *)
(* killed; an operator removes the lock of a dead run.                     *)
(***************************************************************************)
EXTENDS Naturals

CONSTANTS
  Runs, Scenes,
  PolicyHashes, \* training policy hashes
  Empty,        \* the scenes without an eligible cell
  MaxKills,     \* bounds the kills of a behaviour
  NoRun, NoHash

ASSUME EmptyAssumption == Empty \subseteq Scenes
ASSUME KillsAssumption == MaxKills \in Nat
ASSUME SentinelAssumption == NoRun \notin Runs /\ NoHash \notin PolicyHashes

VARIABLES
  ledger,       \* the ledger file: scene -> row
  mem,          \* run -> its copy of the ledger
  mask,         \* scene -> policy of the mask and provenance there
  sceneMarker,  \* scene -> the run whose completion marker is there
  sceneLock,    \* scene -> holder of its publish lock
  table,        \* "manifest", "cells", "scaler" -> the run that wrote it last
  complete,     \* the release's completion marker: the run that wrote it
  relLock,      \* holder of .release.lock
  run,          \* run -> its local state
  kills

scenes == <<ledger, mem, mask, sceneMarker, sceneLock>>
release == <<table, complete, relLock>>
trainingVars == <<scenes, release, run, kills>>

Tables == {"manifest", "cells", "scaler"}
Absent == [status |-> "absent", policy |-> NoHash]
Exporting == [status |-> "exporting", policy |-> NoHash]
Failed == [status |-> "failed", policy |-> NoHash]
Done(p) == [status |-> "done", policy |-> p]
Row == {Absent, Exporting, Failed} \cup {Done(p) : p \in PolicyHashes}

Publishing == {"compute", "lock", "recheck", "write", "commit", "unlock"}
Releasing == {"relCheck", "relLock", "relRecheck", "relTables", "relReadback", "relCommit",
              "relVerify"}
LiveSteps == {"scenes", "record", "failing"} \cup Publishing \cup Releasing

Run == [pc : {"idle", "ok", "notOk", "crashed", "killed"} \cup LiveSteps,
        policy : PolicyHashes \cup {NoHash},
        targets : SUBSET Scenes,     \* scene_ids, or every assessable scene
        todo : SUBSET Scenes,
        scene : SUBSET Scenes,       \* the scene being published
        done : SUBSET Scenes,        \* results with status done
        failed : SUBSET Scenes]

TrainingTypeOK ==
  /\ ledger \in [Scenes -> Row] /\ mem \in [Runs -> [Scenes -> Row]]
  /\ mask \in [Scenes -> PolicyHashes \cup {NoHash}]
  /\ sceneMarker \in [Scenes -> Runs \cup {NoRun}] /\ sceneLock \in [Scenes -> Runs \cup {NoRun}]
  /\ table \in [Tables -> Runs \cup {NoRun}]
  /\ complete \in Runs \cup {NoRun} /\ relLock \in Runs \cup {NoRun}
  /\ run \in [Runs -> Run]
  /\ \A r \in Runs : \A s, t \in run[r].scene : s = t
  /\ kills \in 0 .. MaxKills

TrainingInit ==
  /\ ledger = [s \in Scenes |-> Absent]
  /\ mem = [r \in Runs |-> [s \in Scenes |-> Absent]]
  /\ mask = [s \in Scenes |-> NoHash]
  /\ sceneMarker = [s \in Scenes |-> NoRun] /\ sceneLock = [s \in Scenes |-> NoRun]
  /\ table = [t \in Tables |-> NoRun] /\ complete = NoRun /\ relLock = NoRun
  /\ run = [r \in Runs |-> [pc |-> "idle", policy |-> NoHash, targets |-> {}, todo |-> {},
                            scene |-> {}, done |-> {}, failed |-> {}]]
  /\ kills = 0

At(r, step) == run[r].pc = step
Continue(r, step) == run' = [run EXCEPT ![r].pc = step]
Working(r, s) == s \in run[r].scene

\* The result of a scene with no eligible cell counts as excluded.
Results(r) == run[r].done \ Empty

-----------------------------------------------------------------------------
(* run_training_data and _process_scene                                    *)

\* The feature release has passed its gate; the ledger is opened.
StartRun(r, policy, targets) ==
  /\ At(r, "idle")
  /\ run' = [run EXCEPT ![r] = [@ EXCEPT !.pc = "scenes", !.policy = policy,
                                         !.targets = targets, !.todo = targets]]
  /\ mem' = [mem EXCEPT ![r] = ledger]
  /\ UNCHANGED <<ledger, mask, sceneMarker, sceneLock, release, kills>>

Upsert(r, s, row) ==
  /\ mem' = [mem EXCEPT ![r][s] = row]
  /\ ledger' = [mem[r] EXCEPT ![s] = row]

\* reconcile: a done row of this policy whose mask and marker are there
ScenePublished(r, s) ==
  mem[r][s] = Done(run[r].policy) /\ mask[s] # NoHash /\ sceneMarker[s] # NoRun

\* The counts of a published scene are taken from its provenance; a provenance
\* of another policy ends the run with an exception.
SkipScene(r, s) ==
  /\ At(r, "scenes") /\ s \in run[r].todo /\ ScenePublished(r, s)
  /\ run' = [run EXCEPT ![r] =
       IF mask[s] = run[r].policy THEN [run[r] EXCEPT !.todo = run[r].todo \ {s},
                                                         !.done = run[r].done \cup {s}]
                                  ELSE [run[r] EXCEPT !.pc = "crashed"]]
  /\ UNCHANGED <<scenes, release, kills>>

ClaimScene(r, s) ==
  /\ At(r, "scenes") /\ s \in run[r].todo /\ ~ScenePublished(r, s)
  /\ run' = [run EXCEPT ![r] = [run[r] EXCEPT !.pc = "compute", !.todo = run[r].todo \ {s},
                                               !.scene = {s}]]
  /\ Upsert(r, s, Exporting)
  /\ UNCHANGED <<mask, sceneMarker, sceneLock, release, kills>>

CloseScene(r, row, ok) ==
  \E s \in run[r].scene :
    /\ Upsert(r, s, row)
    /\ run' = [run EXCEPT ![r] =
         [run[r] EXCEPT !.pc = "scenes", !.scene = {},
                        !.done = IF ok THEN run[r].done \cup {s} ELSE run[r].done,
                        !.failed = IF ok THEN run[r].failed ELSE run[r].failed \cup {s}]]
    /\ UNCHANGED <<mask, sceneMarker, sceneLock, release, kills>>

RecordDone(r) == At(r, "record") /\ CloseScene(r, Done(run[r].policy), TRUE)

RecordFailed(r) == At(r, "failing") /\ CloseScene(r, Failed, FALSE)

-----------------------------------------------------------------------------
(* publish_eligibility                                                     *)

Moves(r, step) == Continue(r, step) /\ UNCHANGED <<scenes, release, kills>>

\* compute_eligibility, then the first look at the scene's marker
Compute(r) ==
  \E s \in run[r].scene :
    At(r, "compute") /\ Moves(r, IF sceneMarker[s] = NoRun THEN "lock" ELSE "failing")

LockScene(r) ==
  \E s \in run[r].scene :
    /\ At(r, "lock")
    /\ IF sceneLock[s] = NoRun
         THEN sceneLock' = [sceneLock EXCEPT ![s] = r] /\ Continue(r, "recheck")
         ELSE UNCHANGED sceneLock /\ Continue(r, "failing")
    /\ UNCHANGED <<ledger, mem, mask, sceneMarker, release, kills>>

\* Mutant: the marker is not looked at again under the lock.
RecheckSceneBlind(r) == At(r, "recheck") /\ Moves(r, "write")

\* An exception under the lock releases it.
Unlocked(r) == [s \in Scenes |-> IF sceneLock[s] = r THEN NoRun ELSE sceneLock[s]]

RecheckScene(r) ==
  \E s \in run[r].scene :
    /\ At(r, "recheck")
    /\ IF sceneMarker[s] = NoRun THEN Continue(r, "write") /\ UNCHANGED sceneLock
                            ELSE Continue(r, "failing") /\ sceneLock' = Unlocked(r)
    /\ UNCHANGED <<ledger, mem, mask, sceneMarker, release, kills>>

\* Mask and provenance, over what an interrupted run has left.
WriteMask(r) ==
  \E s \in run[r].scene :
    /\ At(r, "write")
    /\ mask' = [mask EXCEPT ![s] = run[r].policy]
    /\ Continue(r, "commit")
    /\ UNCHANGED <<ledger, mem, sceneMarker, sceneLock, release, kills>>

\* The provenance is read back; the marker is create-only.
CommitScene(r) ==
  \E s \in run[r].scene :
    /\ At(r, "commit") /\ mask[s] = run[r].policy /\ sceneMarker[s] = NoRun
    /\ sceneMarker' = [sceneMarker EXCEPT ![s] = r]
    /\ Continue(r, "unlock")
    /\ UNCHANGED <<ledger, mem, mask, sceneLock, release, kills>>

UnlockScene(r) ==
  /\ At(r, "unlock")
  /\ sceneLock' = Unlocked(r) /\ Continue(r, "record")
  /\ UNCHANGED <<ledger, mem, mask, sceneMarker, release, kills>>

\* Any step may raise: a read, a write, a refused precondition.
SceneRaises(r) ==
  /\ run[r].pc \in Publishing
  /\ sceneLock' = Unlocked(r) /\ Continue(r, "failing")
  /\ UNCHANGED <<ledger, mem, mask, sceneMarker, release, kills>>

-----------------------------------------------------------------------------
(* publish_release                                                         *)

\* Mutant: the release is assembled from the scenes that are done.
ScenesEndAnyway(r) ==
  /\ At(r, "scenes") /\ run[r].todo = {}
  /\ Moves(r, "relCheck")

\* report.ok: no assessable scene failed; otherwise no release is assembled.
ScenesEnd(r) ==
  /\ At(r, "scenes") /\ run[r].todo = {}
  /\ Moves(r, IF run[r].failed = {} THEN "relCheck" ELSE "notOk")

\* _readback_release: every done scene has its mask and marker, every table is
\* there, and the scaler carries the policy.
ReadsBack(r) ==
  /\ \A s \in Results(r) : mask[s] # NoHash /\ sceneMarker[s] # NoRun
  /\ \A t \in Tables : table[t] # NoRun
  /\ run[table["scaler"]].policy = run[r].policy

\* A marker of the same policy is taken for a complete release: it is read
\* back, and report.ok is the outcome.  Another policy is an exception.
Verdict(r) ==
  IF run[complete].policy # run[r].policy THEN "crashed"
  ELSE IF ReadsBack(r) THEN "ok" ELSE "notOk"

CheckRelease(r) ==
  /\ At(r, "relCheck")
  /\ Moves(r, IF complete = NoRun THEN "relLock" ELSE Verdict(r))

\* Mutant: the lock object is overwritten.
LockReleaseOver(r) ==
  /\ At(r, "relLock")
  /\ relLock' = r /\ Continue(r, "relRecheck")
  /\ UNCHANGED <<scenes, table, complete, kills>>

LockRelease(r) ==
  /\ At(r, "relLock")
  /\ IF relLock = NoRun THEN relLock' = r /\ Continue(r, "relRecheck")
                        ELSE UNCHANGED relLock /\ Continue(r, "crashed")
  /\ UNCHANGED <<scenes, table, complete, kills>>

\* Mutant: the marker is not looked at again under the lock.
RecheckReleaseBlind(r) == At(r, "relRecheck") /\ Moves(r, "relTables")

RecheckRelease(r) ==
  /\ At(r, "relRecheck")
  /\ IF complete = NoRun
       THEN Continue(r, "relTables") /\ UNCHANGED relLock
       ELSE Continue(r, Verdict(r)) /\ relLock' = NoRun
  /\ UNCHANGED <<scenes, table, complete, kills>>

\* Manifest, cells and scaler, one after the other, each overwriting.
NextTable(r) ==
  LET mine(t) == table[t] = r IN
  IF ~mine("manifest") THEN "manifest" ELSE IF ~mine("cells") THEN "cells" ELSE "scaler"

WriteTable(r) ==
  /\ At(r, "relTables")
  /\ table' = [table EXCEPT ![NextTable(r)] = r]
  /\ Continue(r, IF NextTable(r) = "scaler" THEN "relReadback" ELSE "relTables")
  /\ UNCHANGED <<scenes, complete, relLock, kills>>

\* A failed readback is an exception: no marker is written.
ReadbackRelease(r) ==
  /\ At(r, "relReadback")
  /\ IF ReadsBack(r) THEN Continue(r, "relCommit") /\ UNCHANGED relLock
                     ELSE Continue(r, "crashed") /\ relLock' = NoRun
  /\ UNCHANGED <<scenes, table, complete, kills>>

\* Create-only.
CommitRelease(r) ==
  /\ At(r, "relCommit")
  /\ IF complete = NoRun
       THEN complete' = r /\ Continue(r, "relVerify") /\ UNCHANGED relLock
       ELSE UNCHANGED complete /\ Continue(r, "crashed") /\ relLock' = NoRun
  /\ UNCHANGED <<scenes, table, kills>>

\* The marker is read back once more; the lock is released on every path.
VerifyRelease(r) ==
  /\ At(r, "relVerify")
  /\ Continue(r, IF ReadsBack(r) /\ run[complete].policy = run[r].policy THEN "ok" ELSE "crashed")
  /\ relLock' = NoRun
  /\ UNCHANGED <<scenes, table, complete, kills>>

ReleaseRaises(r) ==
  /\ run[r].pc \in Releasing
  /\ Continue(r, "crashed") /\ relLock' = IF relLock = r THEN NoRun ELSE relLock
  /\ UNCHANGED <<scenes, table, complete, kills>>

-----------------------------------------------------------------------------

KillRun(r) ==
  /\ run[r].pc \in LiveSteps /\ kills < MaxKills
  /\ kills' = kills + 1 /\ Continue(r, "killed")
  /\ UNCHANGED <<scenes, release>>

\* "A stale lock after a hard kill is an explicit operator state (inspect,
\* then delete)."
OperatorClearsLocks ==
  \E r \in Runs :
    /\ At(r, "killed") /\ (relLock = r \/ sceneLock # Unlocked(r))
    /\ sceneLock' = Unlocked(r) /\ relLock' = IF relLock = r THEN NoRun ELSE relLock
    /\ UNCHANGED <<ledger, mem, mask, sceneMarker, table, complete, run, kills>>

SceneStep(r) ==
  \/ \E s \in Scenes : SkipScene(r, s) \/ ClaimScene(r, s)
  \/ Compute(r) \/ LockScene(r) \/ RecheckScene(r) \/ WriteMask(r) \/ CommitScene(r)
  \/ UnlockScene(r) \/ SceneRaises(r) \/ RecordDone(r) \/ RecordFailed(r)

ReleaseStep(r) ==
  \/ ScenesEnd(r) \/ CheckRelease(r) \/ LockRelease(r) \/ RecheckRelease(r) \/ WriteTable(r)
  \/ ReadbackRelease(r) \/ CommitRelease(r) \/ VerifyRelease(r) \/ ReleaseRaises(r)

TrainingNext ==
  \/ \E r \in Runs, p \in PolicyHashes, targets \in (SUBSET Scenes) \ {{}} : StartRun(r, p, targets)
  \/ \E r \in Runs : SceneStep(r) \/ ReleaseStep(r) \/ KillRun(r)
  \/ OperatorClearsLocks

TrainingSpec == TrainingInit /\ [][TrainingNext]_trainingVars

-----------------------------------------------------------------------------

\* A committed release is the work of one run: its three tables agree, and
\* every mask the manifest refers to is published under the release's policy.
ReleaseIsCoherent ==
  complete # NoRun =>
    /\ \A t \in Tables : table[t] = complete
    /\ \A s \in run[complete].done :
         sceneMarker[s] # NoRun /\ mask[s] = run[complete].policy

\* "the release is immutable": nothing of it changes once it is committed.
CommittedReleaseIsFrozen == [][complete # NoRun => UNCHANGED <<table, complete>>]_trainingVars

\* A scene's mask does not change once its marker is there.
CommittedMaskIsFrozen ==
  [][\A s \in Scenes : sceneMarker[s] # NoRun =>
       mask'[s] = mask[s] /\ sceneMarker'[s] = sceneMarker[s]]_trainingVars

\* A run that exits 0 leaves a committed release of its policy and all of its
\* scenes published under it; a failed scene never ends that way.
CleanRunHasRelease ==
  \A r \in Runs : run[r].pc = "ok" =>
    /\ complete # NoRun /\ run[complete].policy = run[r].policy
    /\ \A s \in run[r].targets : sceneMarker[s] # NoRun /\ mask[s] = run[r].policy

\* "the release is already complete": a run that exits 0 finds each of its
\* scenes in the release's manifest.
CleanRunIsReleased ==
  \A r \in Runs : run[r].pc = "ok" => run[r].targets \subseteq run[complete].targets

=============================================================================
