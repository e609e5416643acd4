----------------------- MODULE TrainingOutputsProofs ------------------------
(***************************************************************************)
(* What the training release and the patch index guarantee for any number  *)
(* of runs, publishers, policies and scenes, any kills and any operator    *)
(* clean-up.                                                               *)
(*                                                                         *)
(* Release. Whoever writes a mask or a table owns its lock and has seen    *)
(* under it that nothing is committed; the marker closes exactly what was  *)
(* written; and what a run counts as done stays committed.                 *)
(*                                                                         *)
(* Patch index. Whoever is past the lock owns the lock object until it     *)
(* releases it, so between its second look at the marker and its own       *)
(* marker nobody else writes; once the marker exists nobody writes at all. *)
(***************************************************************************)
EXTENDS TrainingRelease, PatchIndex, TLAPS

-----------------------------------------------------------------------------
(* The training release.                                                   *)

Untouched == {"idle", "notOk", "scenes", "record", "failing", "relCheck", "relLock", "relRecheck"}
               \cup Publishing

\* Scene s is committed with the policy of run r.
Committed(r, s) == sceneMarker[s] # NoRun /\ mask[s] = run[r].policy

\* Every scene a run has to do is to do, in work, done or failed.
PlanPart(r) ==
  /\ ~At(r, "idle") => run[r].policy \in PolicyHashes
  /\ At(r, "idle") => run[r].done = {} /\ run[r].scene = {} /\ run[r].targets = {}
  /\ At(r, "scenes") => run[r].scene = {}
  /\ run[r].targets \subseteq run[r].todo \cup run[r].scene \cup run[r].done \cup run[r].failed
  /\ run[r].pc \in Releasing \cup {"ok"} => run[r].targets \subseteq run[r].done

\* The publication of a scene.
ScenePart(r) ==
  \A s \in run[r].scene :
    /\ run[r].pc \in {"recheck", "write", "commit", "unlock"} => sceneLock[s] = r
    /\ run[r].pc \in {"write", "commit"} => sceneMarker[s] = NoRun
    /\ run[r].pc \in {"unlock", "record"} => Committed(r, s)

DonePart(r) == \A s \in run[r].done : Committed(r, s)

\* The assembly of the release.
TablePart(r) ==
  /\ run[r].pc \in {"relRecheck", "relTables", "relReadback", "relCommit", "relVerify"} => relLock = r
  /\ run[r].pc \in {"relTables", "relReadback", "relCommit"} => complete = NoRun
  /\ run[r].pc \in Untouched => \A t \in Tables : table[t] # r
  /\ At(r, "relTables") => table["scaler"] # r /\ (table["cells"] = r => table["manifest"] = r)
  /\ run[r].pc \in {"relReadback", "relCommit"} => \A t \in Tables : table[t] = r
  /\ At(r, "relVerify") => complete = r

OutcomePart(r) == At(r, "ok") => complete # NoRun /\ run[complete].policy = run[r].policy

ReleaseInv == complete # NoRun => \A t \in Tables : table[t] = complete

TrainingInv ==
  /\ TrainingTypeOK /\ ReleaseInv
  /\ \A r \in Runs : PlanPart(r)
  /\ \A r \in Runs : ScenePart(r)
  /\ \A r \in Runs : DonePart(r)
  /\ \A r \in Runs : TablePart(r)
  /\ \A r \in Runs : OutcomePart(r)

-----------------------------------------------------------------------------
(* The local state of a run.                                               *)

PublicationSteps == {"idle", "ok", "notOk", "crashed", "killed"} \cup LiveSteps

\* A run that goes on to its next step changes nothing else of its state, and
\* nothing of another's.
LEMMA ContinueIs ==
  ASSUME TrainingTypeOK, NEW r \in Runs, NEW step \in PublicationSteps, Continue(r, step)
  PROVE  /\ run' \in [Runs -> Run]
         /\ run'[r] = [run[r] EXCEPT !.pc = step]
         /\ run'[r].pc = step
         /\ run'[r].policy = run[r].policy /\ run'[r].targets = run[r].targets
         /\ run'[r].todo = run[r].todo /\ run'[r].scene = run[r].scene
         /\ run'[r].done = run[r].done /\ run'[r].failed = run[r].failed
         /\ \A q \in Runs \ {r} : run'[q] = run[q]
  BY DEF TrainingTypeOK, Continue, Run, PublicationSteps

\* A run starts with all it has to do still to do.
LEMMA StartedRun ==
  ASSUME TrainingTypeOK, NEW r \in Runs, NEW ph \in PolicyHashes, NEW targets \in SUBSET Scenes,
         StartRun(r, ph, targets)
  PROVE  /\ run' \in [Runs -> Run]
         /\ \A q \in Runs \ {r} : run'[q] = run[q]
         /\ run[r].pc = "idle" /\ run'[r].pc = "scenes" /\ run'[r].policy = ph
         /\ run'[r].targets = targets /\ run'[r].todo = targets
         /\ run'[r].scene = run[r].scene
         /\ run'[r].done = run[r].done /\ run'[r].failed = run[r].failed
<1> DEFINE new == [run[r] EXCEPT !.pc = "scenes", !.policy = ph, !.targets = targets,
                                 !.todo = targets]
<1>1. run \in [Runs -> Run]
  BY DEF TrainingTypeOK
<1>2. run[r] \in Run /\ new \in Run
  BY <1>1 DEF Run, LiveSteps
<1>3. run' = [run EXCEPT ![r] = new] /\ run[r].pc = "idle"
  BY DEF StartRun, At
<1>4. /\ new.pc = "scenes" /\ new.policy = ph /\ new.targets = targets /\ new.todo = targets
      /\ new.scene = run[r].scene /\ new.done = run[r].done /\ new.failed = run[r].failed
  BY <1>2 DEF Run
<1> HIDE DEF new
<1> QED
  BY <1>1, <1>2, <1>3, <1>4

\* A published scene of the run's policy is done, one of another ends the run.
LEMMA SkippedScene ==
  ASSUME TrainingTypeOK, NEW r \in Runs, NEW s \in Scenes, SkipScene(r, s)
  PROVE  /\ run' \in [Runs -> Run]
         /\ \A q \in Runs \ {r} : run'[q] = run[q]
         /\ run[r].pc = "scenes"
         /\ run'[r].policy = run[r].policy /\ run'[r].targets = run[r].targets
         /\ run'[r].scene = run[r].scene /\ run'[r].failed = run[r].failed
         /\ \/ /\ Committed(r, s) /\ run'[r].pc = "scenes"
               /\ run'[r].todo = run[r].todo \ {s} /\ run'[r].done = run[r].done \cup {s}
            \/ /\ run'[r].pc = "crashed"
               /\ run'[r].todo = run[r].todo /\ run'[r].done = run[r].done
<1> DEFINE new == IF mask[s] = run[r].policy
                    THEN [run[r] EXCEPT !.todo = run[r].todo \ {s}, !.done = run[r].done \cup {s}]
                    ELSE [run[r] EXCEPT !.pc = "crashed"]
<1>1. run \in [Runs -> Run] /\ run[r] \in Run
  BY DEF TrainingTypeOK
<1>2. run' = [run EXCEPT ![r] = new] /\ run[r].pc = "scenes" /\ sceneMarker[s] # NoRun
  BY DEF SkipScene, ScenePublished, At
<1>3. run[r].todo \ {s} \in SUBSET Scenes /\ run[r].done \cup {s} \in SUBSET Scenes
  BY <1>1 DEF Run
<1>4. new \in Run
  BY <1>1, <1>3 DEF Run
<1>5. /\ new.policy = run[r].policy /\ new.targets = run[r].targets
      /\ new.scene = run[r].scene /\ new.failed = run[r].failed
  BY <1>1 DEF Run
<1>6. CASE mask[s] = run[r].policy
  <2>1. new.pc = "scenes" /\ new.todo = run[r].todo \ {s} /\ new.done = run[r].done \cup {s}
    BY <1>1, <1>2, <1>6 DEF Run
  <2> HIDE DEF new
  <2> QED
    BY <1>1, <1>2, <1>4, <1>5, <1>6, <2>1 DEF Committed
<1>7. CASE mask[s] # run[r].policy
  <2>1. new.pc = "crashed" /\ new.todo = run[r].todo /\ new.done = run[r].done
    BY <1>1, <1>7 DEF Run
  <2> HIDE DEF new
  <2> QED
    BY <1>1, <1>2, <1>4, <1>5, <2>1
<1> QED
  BY <1>6, <1>7

\* Any other scene is claimed and becomes the run's work.
LEMMA ClaimedScene ==
  ASSUME TrainingTypeOK, NEW r \in Runs, NEW s \in Scenes, ClaimScene(r, s)
  PROVE  /\ run' \in [Runs -> Run]
         /\ \A q \in Runs \ {r} : run'[q] = run[q]
         /\ run[r].pc = "scenes" /\ run'[r].pc = "compute"
         /\ run'[r].policy = run[r].policy /\ run'[r].targets = run[r].targets
         /\ run'[r].todo = run[r].todo \ {s} /\ run'[r].scene = {s}
         /\ run'[r].done = run[r].done /\ run'[r].failed = run[r].failed
<1> DEFINE new == [run[r] EXCEPT !.pc = "compute", !.todo = run[r].todo \ {s}, !.scene = {s}]
<1>1. run \in [Runs -> Run] /\ run[r] \in Run
  BY DEF TrainingTypeOK
<1>2. run[r].todo \ {s} \in SUBSET Scenes
  BY <1>1 DEF Run
<1>3. new \in Run
  BY <1>1, <1>2 DEF Run, LiveSteps, Publishing
<1>4. run' = [run EXCEPT ![r] = new] /\ run[r].pc = "scenes"
  BY DEF ClaimScene, At
<1>5. /\ new.pc = "compute" /\ new.policy = run[r].policy /\ new.targets = run[r].targets
      /\ new.todo = run[r].todo \ {s} /\ new.scene = {s}
      /\ new.done = run[r].done /\ new.failed = run[r].failed
  BY <1>1 DEF Run
<1> HIDE DEF new
<1> QED
  BY <1>1, <1>3, <1>4, <1>5

\* A finished scene is done or failed, and the run turns to the next one.
LEMMA ClosedScene ==
  ASSUME TrainingTypeOK, NEW r \in Runs, RecordDone(r) \/ RecordFailed(r)
  PROVE  /\ run' \in [Runs -> Run]
         /\ \A q \in Runs \ {r} : run'[q] = run[q]
         /\ run[r].pc \in {"record", "failing"} /\ run'[r].pc = "scenes"
         /\ run'[r].policy = run[r].policy /\ run'[r].targets = run[r].targets
         /\ run'[r].todo = run[r].todo /\ run'[r].scene = {}
         /\ \E s \in run[r].scene :
              \/ /\ run[r].pc = "record"
                 /\ run'[r].done = run[r].done \cup {s} /\ run'[r].failed = run[r].failed
                 /\ ledger' = [mem[r] EXCEPT ![s] = Done(run[r].policy)]
                 /\ mem' = [mem EXCEPT ![r][s] = Done(run[r].policy)]
              \/ /\ run[r].pc = "failing"
                 /\ run'[r].done = run[r].done /\ run'[r].failed = run[r].failed \cup {s}
                 /\ ledger' = [mem[r] EXCEPT ![s] = Failed]
                 /\ mem' = [mem EXCEPT ![r][s] = Failed]
         /\ UNCHANGED <<mask, sceneMarker, sceneLock, table, complete, relLock, kills>>
<1> USE DEF TrainingTypeOK, Run, LiveSteps, At, release
<1>1. CASE RecordDone(r)
  <2>1. PICK s \in run[r].scene :
          /\ Upsert(r, s, Done(run[r].policy))
          /\ run' = [run EXCEPT ![r] = [run[r] EXCEPT !.pc = "scenes", !.scene = {},
                                                     !.done = run[r].done \cup {s},
                                                     !.failed = run[r].failed]]
          /\ UNCHANGED <<mask, sceneMarker, sceneLock, release, kills>>
    BY <1>1 DEF RecordDone, CloseScene
  <2>2. s \in Scenes /\ run[r].pc = "record"
    BY <1>1, <2>1 DEF RecordDone
  <2>3. run' \in [Runs -> Run]
    <3> DEFINE new == [run[r] EXCEPT !.pc = "scenes", !.scene = {}, !.done = run[r].done \cup {s},
                                     !.failed = run[r].failed]
    <3>1. run[r] \in Run
      OBVIOUS
    <3>2. run[r].done \cup {s} \in SUBSET Scenes
      BY <3>1, <2>2
    <3>3. new \in Run
      BY <3>1, <3>2
    <3>4. run' = [run EXCEPT ![r] = new]
      BY <2>1
    <3> HIDE DEF new
    <3> QED
      BY <3>3, <3>4
  <2>4. /\ \A q \in Runs \ {r} : run'[q] = run[q]
        /\ run'[r].pc = "scenes" /\ run'[r].policy = run[r].policy
        /\ run'[r].targets = run[r].targets /\ run'[r].todo = run[r].todo
        /\ run'[r].scene = {} /\ run'[r].done = run[r].done \cup {s}
        /\ run'[r].failed = run[r].failed
    BY <2>1, <2>2
  <2> QED
    BY <2>1, <2>2, <2>3, <2>4 DEF Upsert
<1>2. CASE RecordFailed(r)
  <2>1. PICK s \in run[r].scene :
          /\ Upsert(r, s, Failed)
          /\ run' = [run EXCEPT ![r] = [run[r] EXCEPT !.pc = "scenes", !.scene = {},
                                                     !.done = run[r].done,
                                                     !.failed = run[r].failed \cup {s}]]
          /\ UNCHANGED <<mask, sceneMarker, sceneLock, release, kills>>
    BY <1>2 DEF RecordFailed, CloseScene
  <2>2. s \in Scenes /\ run[r].pc = "failing"
    BY <1>2, <2>1 DEF RecordFailed
  <2>3. run' \in [Runs -> Run]
    <3> DEFINE new == [run[r] EXCEPT !.pc = "scenes", !.scene = {}, !.done = run[r].done,
                                     !.failed = run[r].failed \cup {s}]
    <3>1. run[r] \in Run
      OBVIOUS
    <3>2. new \in Run
      BY <3>1, <2>2
    <3>3. run' = [run EXCEPT ![r] = new]
      BY <2>1
    <3> HIDE DEF new
    <3> QED
      BY <3>2, <3>3
  <2>4. /\ \A q \in Runs \ {r} : run'[q] = run[q]
        /\ run'[r].pc = "scenes" /\ run'[r].policy = run[r].policy
        /\ run'[r].targets = run[r].targets /\ run'[r].todo = run[r].todo
        /\ run'[r].scene = {} /\ run'[r].done = run[r].done
        /\ run'[r].failed = run[r].failed \cup {s}
    BY <2>1, <2>2
  <2> QED
    BY <2>1, <2>2, <2>3, <2>4 DEF Upsert
<1> QED
  BY <1>1, <1>2

\* Before any run has started the invariant holds.
LEMMA InitialTraining == TrainingInit => TrainingInv
  BY KillsAssumption, SentinelAssumption
  DEF TrainingInit, TrainingInv, TrainingTypeOK, ReleaseInv, PlanPart, ScenePart, DonePart, TablePart,
      OutcomePart, At, Run, Row, Absent, LiveSteps, Releasing, Publishing, Untouched, Tables

-----------------------------------------------------------------------------
(* What the two halves of a run leave alone.                               *)

Ends == {"ok", "notOk", "crashed", "killed"}

\* A step on a scene leaves the release alone, and the run it is a step of has
\* not come to the release.
LEMMA SceneStepIs ==
  ASSUME TrainingTypeOK, NEW r \in Runs, SceneStep(r)
  PROVE  /\ UNCHANGED <<table, complete, relLock, kills>>
         /\ run[r].pc \in Untouched /\ run'[r].pc \in (Untouched \ {"idle"}) \cup {"crashed"}
         /\ run'[r].pc \notin Releasing \cup {"ok", "idle"}
         /\ run'[r].policy = run[r].policy
         /\ \A q \in Runs \ {r} : run'[q] = run[q]
<1> USE DEF TrainingTypeOK, Run, Continue, Moves, At, scenes, release, Untouched, Publishing, Releasing
<1>1. CASE \E s \in Scenes : SkipScene(r, s)
  BY <1>1 DEF SkipScene
<1>2. CASE \E s \in Scenes : ClaimScene(r, s)
  BY <1>2 DEF ClaimScene
<1>3. CASE Compute(r) \/ UnlockScene(r) \/ SceneRaises(r)
  BY <1>3 DEF Compute, UnlockScene, SceneRaises
<1>4. CASE LockScene(r) \/ RecheckScene(r)
  BY <1>4 DEF LockScene, RecheckScene
<1>5. CASE WriteMask(r) \/ CommitScene(r)
  BY <1>5 DEF WriteMask, CommitScene
<1>6. CASE RecordDone(r) \/ RecordFailed(r)
  BY <1>6, ClosedScene
<1> QED
  BY <1>1, <1>2, <1>3, <1>4, <1>5, <1>6 DEF SceneStep

\* A step on the release leaves the scenes alone and only moves the run on.
LEMMA ReleaseStepIs ==
  ASSUME TrainingTypeOK, NEW r \in Runs, ReleaseStep(r) \/ KillRun(r)
  PROVE  /\ UNCHANGED <<ledger, mem, mask, sceneMarker, sceneLock>>
         /\ run[r].pc # "idle"
         /\ \E step \in Releasing \cup Ends : Continue(r, step)
<1> USE DEF Moves, At, scenes, release, Releasing, Ends
<1>1. CASE ScenesEnd(r) \/ CheckRelease(r) \/ RecheckRelease(r)
  BY <1>1 DEF ScenesEnd, CheckRelease, RecheckRelease, Verdict
<1>2. CASE LockRelease(r) \/ WriteTable(r) \/ ReadbackRelease(r)
  BY <1>2 DEF LockRelease, WriteTable, ReadbackRelease
<1>3. CASE CommitRelease(r) \/ VerifyRelease(r) \/ ReleaseRaises(r)
  BY <1>3 DEF CommitRelease, VerifyRelease, ReleaseRaises
<1>4. CASE KillRun(r)
  BY <1>4 DEF KillRun, LiveSteps, Publishing
<1> QED
  BY <1>1, <1>2, <1>3, <1>4 DEF ReleaseStep

-----------------------------------------------------------------------------
(* The conjuncts, one after the other: each lemma has one case per action  *)
(* that can disturb it.                                                    *)

-----------------------------------------------------------------------------
(* A step of a scene keeps every conjunct of the invariant.                *)

\* A step of a scene keeps the types.
LEMMA SceneStepTypes ==
  ASSUME TrainingInv, NEW r \in Runs, SceneStep(r)
  PROVE  TrainingTypeOK'
<1> DEFINE Typed == /\ run' \in [Runs -> Run]
                    /\ \A q \in Runs \ {r} : run'[q] = run[q]
                    /\ \A s, t \in run'[r].scene : s = t
<1>0. /\ TrainingTypeOK /\ PlanPart(r) /\ run[r] \in Run
      /\ \A s, t \in run[r].scene : s = t
  BY DEF TrainingInv, TrainingTypeOK
<1>1. CASE \E s \in Scenes : SkipScene(r, s)
  <2>1. Typed
    BY <1>0, <1>1, SkippedScene
  <2> QED
    BY <1>0, <1>1, <2>1 DEF SkipScene, TrainingTypeOK, scenes, release
<1>2. CASE \E s \in Scenes : ClaimScene(r, s)
  <2>1. Typed
    BY <1>0, <1>2, ClaimedScene
  <2> QED
    BY <1>0, <1>2, <2>1 DEF ClaimScene, TrainingTypeOK, Upsert, Row, release
<1>3. CASE RecordDone(r) \/ RecordFailed(r)
  <2>1. Typed
    BY <1>0, <1>3, ClosedScene
  <2>2. run[r].policy \in PolicyHashes /\ run[r].scene \subseteq Scenes
    BY <1>0, <1>3, ClosedScene DEF PlanPart, At, Run
  <2>3. /\ ledger' \in [Scenes -> Row] /\ mem' \in [Runs -> [Scenes -> Row]]
        /\ UNCHANGED <<mask, sceneMarker, sceneLock, table, complete, relLock, kills>>
    <3>1. mem \in [Runs -> [Scenes -> Row]]
      BY <1>0 DEF TrainingTypeOK
    <3>2. Done(run[r].policy) \in Row /\ Failed \in Row
      BY <2>2 DEF Row
    <3>3. PICK s \in run[r].scene, row \in Row :
            ledger' = [mem[r] EXCEPT ![s] = row] /\ mem' = [mem EXCEPT ![r][s] = row]
      BY <1>0, <1>3, <3>2, ClosedScene
    <3> QED
      BY <1>0, <1>3, <2>2, <3>1, <3>3, ClosedScene
  <2> QED
    BY <1>0, <2>1, <2>3 DEF TrainingTypeOK
<1>4. ASSUME NEW step \in PublicationSteps, Continue(r, step)
      PROVE  Typed
  BY <1>0, <1>4, ContinueIs
<1>5. CASE Compute(r)
  <2>1. Typed
    BY <1>4, <1>5 DEF Compute, Moves, PublicationSteps, LiveSteps, Publishing
  <2> QED
    BY <1>0, <1>5, <2>1 DEF Compute, Moves, TrainingTypeOK, scenes, release
<1>6. CASE LockScene(r) \/ RecheckScene(r)
  <2>1. Typed
    BY <1>4, <1>6 DEF LockScene, RecheckScene, PublicationSteps, LiveSteps, Publishing
  <2>2. sceneLock' \in [Scenes -> Runs \cup {NoRun}]
    BY <1>0, <1>6 DEF LockScene, RecheckScene, Unlocked, TrainingTypeOK
  <2>3. UNCHANGED <<ledger, mem, mask, sceneMarker, table, complete, relLock, kills>>
    BY <1>6 DEF LockScene, RecheckScene, release
  <2> QED
    BY <1>0, <2>1, <2>2, <2>3 DEF TrainingTypeOK
<1>7. CASE WriteMask(r) \/ CommitScene(r)
  <2>1. Typed
    BY <1>4, <1>7 DEF WriteMask, CommitScene, PublicationSteps, LiveSteps, Publishing
  <2>2. run[r].policy \in PolicyHashes \cup {NoHash}
    BY <1>0 DEF Run
  <2>3. /\ mask' \in [Scenes -> PolicyHashes \cup {NoHash}]
        /\ sceneMarker' \in [Scenes -> Runs \cup {NoRun}]
    <3>1. CASE WriteMask(r)
      BY <1>0, <2>2, <3>1 DEF WriteMask, TrainingTypeOK
    <3>2. CASE CommitScene(r)
      <4>1. PICK s \in run[r].scene : sceneMarker' = [sceneMarker EXCEPT ![s] = r] /\ mask' = mask
        BY <3>2 DEF CommitScene
      <4> QED
        BY <1>0, <4>1 DEF TrainingTypeOK
    <3> QED
      BY <1>7, <3>1, <3>2
  <2>4. UNCHANGED <<ledger, mem, sceneLock, table, complete, relLock, kills>>
    BY <1>7 DEF WriteMask, CommitScene, release
  <2> QED
    BY <1>0, <2>1, <2>3, <2>4 DEF TrainingTypeOK
<1>8. CASE UnlockScene(r) \/ SceneRaises(r)
  <2>1. Typed
    BY <1>4, <1>8 DEF UnlockScene, SceneRaises, PublicationSteps, LiveSteps
  <2> QED
    BY <1>0, <1>8, <2>1 DEF UnlockScene, SceneRaises, Unlocked, TrainingTypeOK, release
<1> QED
  BY <1>1, <1>2, <1>3, <1>5, <1>6, <1>7, <1>8 DEF SceneStep

\* What a step of a scene may do to masks, markers and locks: a lock is taken
\* where there is none, only a run under the lock writes, and nothing that is
\* committed changes.
LEMMA SceneStepWrites ==
  ASSUME TrainingInv, NEW r \in Runs, SceneStep(r)
  PROVE  /\ \A s \in Scenes : sceneMarker[s] # NoRun =>
               mask'[s] = mask[s] /\ sceneMarker'[s] = sceneMarker[s]
         /\ \A s \in Scenes, q \in Runs \ {r} : sceneLock[s] = q =>
               sceneLock'[s] = q /\ mask'[s] = mask[s] /\ sceneMarker'[s] = sceneMarker[s]
<1> USE SentinelAssumption DEF TrainingInv, TrainingTypeOK, ScenePart
<1>1. ASSUME \E s \in Scenes : SkipScene(r, s) \/ ClaimScene(r, s)
      PROVE  UNCHANGED <<mask, sceneMarker, sceneLock>>
  BY <1>1 DEF SkipScene, ClaimScene, scenes
<1>2. ASSUME RecordDone(r) \/ RecordFailed(r) \/ Compute(r)
      PROVE  UNCHANGED <<mask, sceneMarker, sceneLock>>
  BY <1>2, ClosedScene DEF Compute, Moves, scenes
<1>3. CASE LockScene(r)
  BY <1>3 DEF LockScene
<1>4. CASE RecheckScene(r) \/ UnlockScene(r) \/ SceneRaises(r)
  BY <1>4 DEF RecheckScene, UnlockScene, SceneRaises, Unlocked
<1>5. CASE WriteMask(r)
  BY <1>5 DEF WriteMask, At
<1>6. CASE CommitScene(r)
  BY <1>6 DEF CommitScene, At
<1> QED
  BY <1>1, <1>2, <1>3, <1>4, <1>5, <1>6 DEF SceneStep

\* The other runs keep what they rely on; the run itself gets it from its step.
LEMMA SceneStepScenes ==
  ASSUME TrainingInv, NEW r \in Runs, SceneStep(r)
  PROVE  \A q \in Runs : ScenePart(q)' /\ DonePart(q)'
<1>0. /\ TrainingTypeOK /\ run[r] \in Run
      /\ \A q \in Runs : ScenePart(q) /\ DonePart(q)
  BY DEF TrainingInv, TrainingTypeOK
<1>1. ASSUME NEW q \in Runs \ {r}
      PROVE  ScenePart(q)' /\ DonePart(q)'
  <2>1. run'[q] = run[q]
    BY <1>0, SceneStepIs
  <2>2. run[q].scene \subseteq Scenes /\ run[q].done \subseteq Scenes
    BY <1>0 DEF TrainingTypeOK, Run
  <2> QED
    BY <1>0, <2>1, <2>2, SceneStepWrites DEF ScenePart, DonePart, Committed
<1>2. DonePart(r)'
  <2>1. run[r].done \subseteq Scenes /\ run[r].scene \subseteq Scenes
    BY <1>0 DEF Run
  <2>2. run'[r].policy = run[r].policy
    BY <1>0, SceneStepIs
  <2>3. \A s \in Scenes : Committed(r, s) => Committed(r, s)'
    BY <2>2, SceneStepWrites DEF Committed
  <2>4. \A s \in run'[r].done : s \in run[r].done \/ (s \in Scenes /\ Committed(r, s))
    <3>1. CASE \E s \in Scenes : SkipScene(r, s)
      BY <1>0, <3>1, SkippedScene
    <3>2. CASE \E s \in Scenes : ClaimScene(r, s)
      BY <1>0, <3>2, ClaimedScene
    <3>3. CASE RecordDone(r) \/ RecordFailed(r)
      BY <1>0, <2>1, <3>3, ClosedScene DEF ScenePart
    <3>4. ASSUME NEW step \in PublicationSteps, Continue(r, step) PROVE run'[r].done = run[r].done
      BY <1>0, <3>4, ContinueIs
    <3> QED
      BY <3>1, <3>2, <3>3, <3>4 DEF SceneStep, Compute, LockScene, RecheckScene, WriteMask, CommitScene,
         UnlockScene, SceneRaises, Moves, PublicationSteps, LiveSteps, Publishing
  <2> QED
    BY <1>0, <2>1, <2>3, <2>4 DEF DonePart
<1>3. ScenePart(r)'
  <2>1. CASE \E s \in Scenes : SkipScene(r, s)
    BY <1>0, <2>1, SkippedScene DEF ScenePart
  <2>2. CASE \E s \in Scenes : ClaimScene(r, s)
    BY <1>0, <2>2, ClaimedScene DEF ScenePart
  <2>3. CASE RecordDone(r) \/ RecordFailed(r)
    BY <1>0, <2>3, ClosedScene DEF ScenePart
  <2>4. \A s, t \in run[r].scene : s = t /\ s \in Scenes
    BY <1>0 DEF TrainingTypeOK, Run
  <2>5. /\ sceneLock \in [Scenes -> Runs \cup {NoRun}] /\ mask \in [Scenes -> PolicyHashes \cup {NoHash}]
        /\ sceneMarker \in [Scenes -> Runs \cup {NoRun}]
    BY <1>0 DEF TrainingTypeOK
  <2>6. CASE Compute(r)
    <3>1. PICK step \in {"lock", "failing"} : Continue(r, step)
      BY <2>6 DEF Compute, Moves
    <3>2. run'[r].pc = step
      BY <1>0, <3>1, ContinueIs DEF PublicationSteps, LiveSteps, Publishing
    <3> QED
      BY <3>2 DEF ScenePart
  <2>7. CASE LockScene(r)
    <3>1. PICK s \in run[r].scene :
            \/ sceneLock' = [sceneLock EXCEPT ![s] = r] /\ Continue(r, "recheck")
            \/ Continue(r, "failing")
      BY <2>7 DEF LockScene
    <3>2. run'[r].scene = run[r].scene
      BY <1>0, <3>1, ContinueIs DEF PublicationSteps, LiveSteps, Publishing
    <3>3. CASE sceneLock' = [sceneLock EXCEPT ![s] = r] /\ Continue(r, "recheck")
      <4>1. run'[r].pc = "recheck"
        BY <1>0, <3>3, ContinueIs DEF PublicationSteps, LiveSteps, Publishing
      <4> QED
        BY <2>4, <2>5, <3>2, <3>3, <4>1 DEF ScenePart
    <3>4. CASE Continue(r, "failing")
      <4>1. run'[r].pc = "failing"
        BY <1>0, <3>4, ContinueIs DEF PublicationSteps, LiveSteps
      <4> QED
        BY <4>1 DEF ScenePart
    <3> QED
      BY <3>1, <3>3, <3>4
  <2>8. CASE RecheckScene(r)
    <3>1. PICK s \in run[r].scene :
            \/ sceneMarker[s] = NoRun /\ Continue(r, "write") /\ UNCHANGED sceneLock
            \/ Continue(r, "failing")
      BY <2>8 DEF RecheckScene
    <3>2. sceneLock[s] = r /\ UNCHANGED sceneMarker
      BY <1>0, <2>8 DEF RecheckScene, ScenePart, At
    <3>3. CASE sceneMarker[s] = NoRun /\ Continue(r, "write") /\ UNCHANGED sceneLock
      <4>1. run'[r].pc = "write" /\ run'[r].scene = run[r].scene
        BY <1>0, <3>3, ContinueIs DEF PublicationSteps, LiveSteps, Publishing
      <4> QED
        BY <2>4, <3>2, <3>3, <4>1 DEF ScenePart
    <3>4. CASE Continue(r, "failing")
      <4>1. run'[r].pc = "failing"
        BY <1>0, <3>4, ContinueIs DEF PublicationSteps, LiveSteps
      <4> QED
        BY <4>1 DEF ScenePart
    <3> QED
      BY <3>1, <3>3, <3>4
  <2>9. CASE WriteMask(r)
    <3>1. Continue(r, "commit") /\ At(r, "write") /\ UNCHANGED <<sceneMarker, sceneLock>>
      BY <2>9 DEF WriteMask
    <3>2. run'[r].pc = "commit" /\ run'[r].scene = run[r].scene
      BY <1>0, <3>1, ContinueIs DEF PublicationSteps, LiveSteps, Publishing
    <3> QED
      BY <1>0, <3>1, <3>2 DEF ScenePart, At
  <2>10. CASE CommitScene(r)
    <3>1. PICK s \in run[r].scene :
            /\ At(r, "commit") /\ mask[s] = run[r].policy
            /\ sceneMarker' = [sceneMarker EXCEPT ![s] = r]
            /\ Continue(r, "unlock") /\ UNCHANGED <<mask, sceneLock>>
      BY <2>10 DEF CommitScene
    <3>2. /\ run'[r].pc = "unlock" /\ run'[r].scene = run[r].scene
          /\ run'[r].policy = run[r].policy
      BY <1>0, <3>1, ContinueIs DEF PublicationSteps, LiveSteps, Publishing
    <3>3. sceneLock[s] = r
      BY <1>0, <3>1 DEF ScenePart, At
    <3> QED
      BY <2>4, <2>5, <3>1, <3>2, <3>3, SentinelAssumption DEF ScenePart, Committed
  <2>11. CASE UnlockScene(r)
    <3>1. Continue(r, "record") /\ At(r, "unlock") /\ UNCHANGED <<mask, sceneMarker>>
      BY <2>11 DEF UnlockScene
    <3>2. /\ run'[r].pc = "record" /\ run'[r].scene = run[r].scene
          /\ run'[r].policy = run[r].policy
      BY <1>0, <3>1, ContinueIs DEF PublicationSteps, LiveSteps
    <3> QED
      BY <1>0, <3>1, <3>2 DEF ScenePart, Committed, At
  <2>12. CASE SceneRaises(r)
    <3>1. run'[r].pc = "failing"
      BY <1>0, <2>12, ContinueIs DEF SceneRaises, PublicationSteps, LiveSteps
    <3> QED
      BY <3>1 DEF ScenePart
  <2> QED
    BY <2>1, <2>2, <2>3, <2>6, <2>7, <2>8, <2>9, <2>10, <2>11, <2>12 DEF SceneStep
<1> QED
  BY <1>1, <1>2, <1>3

\* Every scene of the plan stays accounted for, and the release is out of reach.
LEMMA SceneStepRest ==
  ASSUME TrainingInv, NEW r \in Runs, SceneStep(r)
  PROVE  ReleaseInv' /\ \A q \in Runs : PlanPart(q)' /\ TablePart(q)' /\ OutcomePart(q)'
<1>0. /\ TrainingTypeOK /\ run[r] \in Run /\ ReleaseInv
      /\ \A q \in Runs : PlanPart(q) /\ TablePart(q) /\ OutcomePart(q)
  BY DEF TrainingInv, TrainingTypeOK
<1>1. /\ UNCHANGED <<table, complete, relLock>>
      /\ run[r].pc \in Untouched /\ run'[r].pc \in (Untouched \ {"idle"}) \cup {"crashed"}
      /\ run'[r].pc \notin Releasing \cup {"ok", "idle"}
      /\ run'[r].policy = run[r].policy
      /\ \A q \in Runs \ {r} : run'[q] = run[q]
  BY <1>0, SceneStepIs
<1>2. ReleaseInv'
  BY <1>0, <1>1 DEF ReleaseInv
<1>3. \A q \in Runs : run'[q].policy = run[q].policy
  BY <1>1
<1>4. \A q \in Runs : OutcomePart(q)'
  <2>1. complete \in Runs \cup {NoRun}
    BY <1>0 DEF TrainingTypeOK
  <2> QED
    BY <1>0, <1>1, <1>3, <2>1 DEF OutcomePart, At
<1>5. \A q \in Runs : TablePart(q)'
  <2>1. ASSUME NEW q \in Runs \ {r} PROVE TablePart(q)'
    BY <1>0, <1>1, <2>1 DEF TablePart, At
  <2>2. TablePart(r)'
    BY <1>0, <1>1 DEF TablePart, At, Releasing, Untouched, Publishing
  <2> QED
    BY <2>1, <2>2
<1>6. PlanPart(r)'
  <2>1. PlanPart(r)
    BY <1>0
  <2>2. run[r].pc # "idle"
    BY DEF SceneStep, SkipScene, ClaimScene, Compute, LockScene, RecheckScene, WriteMask, CommitScene,
       UnlockScene, SceneRaises, RecordDone, RecordFailed, At, Publishing
  <2>3. CASE \E s \in Scenes : SkipScene(r, s)
    BY <1>0, <1>1, <2>1, <2>2, <2>3, SkippedScene DEF PlanPart, At
  <2>4. CASE \E s \in Scenes : ClaimScene(r, s)
    BY <1>0, <1>1, <2>1, <2>2, <2>4, ClaimedScene DEF PlanPart, At
  <2>5. CASE RecordDone(r) \/ RecordFailed(r)
    <3>1. \A s, t \in run[r].scene : s = t
      BY <1>0 DEF TrainingTypeOK
    <3> QED
      BY <1>0, <1>1, <2>1, <2>2, <2>5, <3>1, ClosedScene DEF PlanPart, At
  <2>6. ASSUME NEW step \in PublicationSteps \ {"scenes"}, Continue(r, step)
        PROVE  PlanPart(r)'
    BY <1>0, <1>1, <2>1, <2>2, <2>6, ContinueIs DEF PlanPart, At
  <2> QED
    BY <2>3, <2>4, <2>5, <2>6 DEF SceneStep, Compute, LockScene, RecheckScene, WriteMask, CommitScene,
       UnlockScene, SceneRaises, Moves, PublicationSteps, LiveSteps, Publishing
<1> QED
  BY <1>0, <1>1, <1>2, <1>4, <1>5, <1>6 DEF PlanPart, At

-----------------------------------------------------------------------------
(* A step of the release.                                                  *)

\* A step of the release keeps what the runs rely on at the masks of their scenes.
LEMMA ReleaseStepScenes ==
  ASSUME TrainingInv, NEW r \in Runs, ReleaseStep(r) \/ KillRun(r)
  PROVE  \A q \in Runs : ScenePart(q)' /\ DonePart(q)'
<1>0. TrainingTypeOK /\ \A q \in Runs : ScenePart(q) /\ DonePart(q)
  BY DEF TrainingInv
<1>1. PICK step \in Releasing \cup Ends : Continue(r, step)
  BY <1>0, ReleaseStepIs
<1>2. UNCHANGED <<mask, sceneMarker, sceneLock>>
  BY <1>0, ReleaseStepIs
<1>3. step \in PublicationSteps /\ step \notin Publishing \cup {"record"}
  BY DEF Releasing, Ends, PublicationSteps, LiveSteps, Publishing
<1>4. /\ run'[r].pc = step /\ run'[r].policy = run[r].policy
      /\ run'[r].scene = run[r].scene /\ run'[r].done = run[r].done
      /\ \A q \in Runs \ {r} : run'[q] = run[q]
  BY <1>0, <1>1, <1>3, ContinueIs
<1> QED
  BY <1>0, <1>2, <1>3, <1>4 DEF ScenePart, DonePart, Committed, Publishing

\* A step of the release keeps every scene of a plan accounted for.
LEMMA ReleaseStepPlans ==
  ASSUME TrainingInv, NEW r \in Runs, ReleaseStep(r) \/ KillRun(r)
  PROVE  \A q \in Runs : PlanPart(q)'
<1>0. TrainingTypeOK /\ \A q \in Runs : PlanPart(q)
  BY DEF TrainingInv
<1>1. PICK step \in Releasing \cup Ends : Continue(r, step)
  BY <1>0, ReleaseStepIs
<1>2. step \in PublicationSteps /\ step \notin {"idle", "scenes"} /\ run[r].pc # "idle"
  BY <1>0, ReleaseStepIs DEF Releasing, Ends, PublicationSteps, LiveSteps
<1>3. /\ run'[r].pc = step /\ run'[r].policy = run[r].policy
      /\ run'[r].scene = run[r].scene /\ run'[r].done = run[r].done
      /\ run'[r].targets = run[r].targets /\ run'[r].todo = run[r].todo
      /\ run'[r].failed = run[r].failed
      /\ \A q \in Runs \ {r} : run'[q] = run[q]
  BY <1>0, <1>1, <1>2, ContinueIs
<1>4. run'[r].pc \in Releasing \cup {"ok"} =>
        \/ run[r].pc \in Releasing
        \/ run[r].pc = "scenes" /\ run[r].todo = {} /\ run[r].failed = {}
  <2>1. CASE ScenesEnd(r)
    <3>1. run'[r].pc = IF run[r].failed = {} THEN "relCheck" ELSE "notOk"
      BY <1>0, <2>1, ContinueIs DEF ScenesEnd, Moves, PublicationSteps, LiveSteps, Releasing
    <3> QED
      BY <2>1, <3>1 DEF ScenesEnd, At, Releasing
  <2>2. CASE KillRun(r)
    <3>1. run'[r].pc = "killed"
      BY <1>0, <2>2, ContinueIs DEF KillRun, PublicationSteps
    <3> QED
      BY <3>1 DEF Releasing
  <2> QED
    BY <2>1, <2>2 DEF ReleaseStep, CheckRelease, LockRelease, RecheckRelease, WriteTable,
       ReadbackRelease, CommitRelease, VerifyRelease, ReleaseRaises, At, Releasing
<1>5. PlanPart(r)'
  BY <1>0, <1>2, <1>3, <1>4 DEF PlanPart, At
<1> QED
  BY <1>0, <1>3, <1>5 DEF PlanPart, At

\* Who may write what: only a run under the release lock writes, nothing is
\* written over a committed release, and no run takes the lock of another.
LEMMA ReleaseStepWrites ==
  ASSUME TrainingInv, NEW r \in Runs, ReleaseStep(r) \/ KillRun(r)
  PROVE  /\ complete # NoRun => UNCHANGED <<table, complete>>
         /\ \A q \in Runs \ {r} : relLock = q => UNCHANGED <<table, complete, relLock>>
         /\ \A t \in Tables : table'[t] \in {table[t], r}
         /\ complete' \in {complete, r}
         /\ table' \in [Tables -> Runs \cup {NoRun}] /\ relLock' \in Runs \cup {NoRun}
         /\ kills' \in 0 .. MaxKills
<1>0. /\ table \in [Tables -> Runs \cup {NoRun}] /\ relLock \in Runs \cup {NoRun}
      /\ kills \in 0 .. MaxKills /\ TablePart(r)
  BY DEF TrainingInv, TrainingTypeOK
<1> USE SentinelAssumption DEF TablePart, At
<1>1. CASE ScenesEnd(r) \/ CheckRelease(r)
  BY <1>0, <1>1 DEF ScenesEnd, CheckRelease, Moves, release
<1>2. CASE LockRelease(r) \/ RecheckRelease(r)
  BY <1>0, <1>2 DEF LockRelease, RecheckRelease
<1>3. CASE WriteTable(r)
  BY <1>0, <1>3 DEF WriteTable, NextTable, Tables
<1>4. CASE ReadbackRelease(r) \/ CommitRelease(r)
  BY <1>0, <1>4 DEF ReadbackRelease, CommitRelease
<1>5. CASE VerifyRelease(r) \/ ReleaseRaises(r)
  BY <1>0, <1>5 DEF VerifyRelease, ReleaseRaises
<1>6. CASE KillRun(r)
  BY <1>0, <1>6, KillsAssumption DEF KillRun, release
<1> QED
  BY <1>1, <1>2, <1>3, <1>4, <1>5, <1>6 DEF ReleaseStep

\* The tables and the outcome, at the run's next step.
LEMMA ReleaseStepTables ==
  ASSUME TrainingInv, NEW r \in Runs, ReleaseStep(r) \/ KillRun(r)
  PROVE  ReleaseInv' /\ TablePart(r)' /\ OutcomePart(r)'
<1>0. /\ TrainingTypeOK /\ TablePart(r) /\ ReleaseInv
      /\ table \in [Tables -> Runs \cup {NoRun}] /\ complete \in Runs \cup {NoRun}
  BY DEF TrainingInv, TrainingTypeOK
<1>1. PICK step \in Releasing \cup Ends : Continue(r, step)
  BY <1>0, ReleaseStepIs
<1>2. /\ run'[r].pc = step /\ \A q \in Runs : run'[q].policy = run[q].policy
  <2>1. step \in PublicationSteps
    BY DEF Releasing, Ends, PublicationSteps, LiveSteps
  <2> QED
    BY <1>0, <1>1, <2>1, ContinueIs
<1>3. \A other \in Releasing \cup Ends : Continue(r, other) => other = step
  <2>1. ASSUME NEW other \in Releasing \cup Ends, Continue(r, other) PROVE run'[r].pc = other
    <3>1. other \in PublicationSteps
      BY DEF Releasing, Ends, PublicationSteps, LiveSteps
    <3> QED
      BY <1>0, <2>1, <3>1, ContinueIs
  <2> QED
    BY <1>2, <2>1
<1> USE SentinelAssumption DEF TablePart, At, ReleaseInv, OutcomePart
<1>4. CASE ScenesEnd(r) \/ KillRun(r)
  <2>1. step \in {"relCheck", "notOk", "killed"} /\ UNCHANGED <<table, complete, relLock>>
    BY <1>3, <1>4 DEF ScenesEnd, KillRun, Moves, release, Releasing, Ends
  <2>2. step # "killed" => At(r, "scenes")
    BY <1>3, <1>4 DEF ScenesEnd, KillRun, Ends
  <2> QED
    BY <1>0, <1>2, <2>1, <2>2 DEF Untouched, Publishing
<1>5. CASE CheckRelease(r)
  <2>1. /\ At(r, "relCheck") /\ UNCHANGED <<table, complete, relLock>>
        /\ step \in {"relLock", "crashed", "ok", "notOk"}
        /\ step = "ok" => complete # NoRun /\ run[complete].policy = run[r].policy
    BY <1>3, <1>5 DEF CheckRelease, Verdict, Moves, release, Releasing, Ends
  <2> QED
    BY <1>0, <1>2, <2>1 DEF Untouched, Publishing
<1>6. CASE LockRelease(r)
  <2>1. /\ At(r, "relLock") /\ UNCHANGED <<table, complete>>
        /\ \/ step = "relRecheck" /\ relLock' = r
           \/ step = "crashed"
    BY <1>3, <1>6 DEF LockRelease, Releasing, Ends
  <2> QED
    BY <1>0, <1>2, <2>1 DEF Untouched, Publishing
<1>7. CASE RecheckRelease(r)
  <2>1. /\ At(r, "relRecheck") /\ UNCHANGED <<table, complete>>
        /\ \/ step = "relTables" /\ complete = NoRun /\ UNCHANGED relLock
           \/ step \in {"crashed", "ok", "notOk"} /\ complete # NoRun
        /\ step = "ok" => run[complete].policy = run[r].policy
    BY <1>3, <1>7 DEF RecheckRelease, Verdict, Releasing, Ends
  <2> QED
    BY <1>0, <1>2, <2>1 DEF Untouched, Publishing, Tables
<1>8. CASE WriteTable(r)
  <2>1. /\ At(r, "relTables") /\ UNCHANGED <<complete, relLock>>
        /\ table' = [table EXCEPT ![NextTable(r)] = r]
        /\ step = IF NextTable(r) = "scaler" THEN "relReadback" ELSE "relTables"
    BY <1>3, <1>8 DEF WriteTable, Releasing
  <2> QED
    BY <1>0, <1>2, <2>1 DEF Untouched, Publishing, Tables, NextTable
<1>9. CASE ReadbackRelease(r)
  <2>1. /\ At(r, "relReadback") /\ UNCHANGED <<table, complete>>
        /\ \/ step = "relCommit" /\ UNCHANGED relLock
           \/ step = "crashed"
    BY <1>3, <1>9 DEF ReadbackRelease, Releasing, Ends
  <2> QED
    BY <1>0, <1>2, <2>1 DEF Untouched, Publishing
<1>10. CASE CommitRelease(r)
  <2>1. /\ At(r, "relCommit") /\ UNCHANGED table
        /\ \/ step = "relVerify" /\ complete' = r /\ UNCHANGED relLock
           \/ step = "crashed" /\ UNCHANGED complete
    BY <1>3, <1>10 DEF CommitRelease, Releasing, Ends
  <2> QED
    BY <1>0, <1>2, <2>1 DEF Untouched, Publishing
<1>11. CASE VerifyRelease(r)
  <2>1. /\ At(r, "relVerify") /\ UNCHANGED <<table, complete>> /\ step \in {"ok", "crashed"}
    BY <1>3, <1>11 DEF VerifyRelease, Ends
  <2> QED
    BY <1>0, <1>2, <2>1 DEF Untouched, Publishing
<1>12. CASE ReleaseRaises(r)
  <2>1. step = "crashed" /\ UNCHANGED <<table, complete>>
    BY <1>3, <1>12 DEF ReleaseRaises, Ends
  <2> QED
    BY <1>0, <1>2, <2>1 DEF Untouched, Publishing
<1> QED
  BY <1>4, <1>5, <1>6, <1>7, <1>8, <1>9, <1>10, <1>11, <1>12 DEF ReleaseStep

\* A step of the release keeps the invariant.
LEMMA ReleaseStepKeeps ==
  ASSUME TrainingInv, NEW r \in Runs, ReleaseStep(r) \/ KillRun(r)
  PROVE  TrainingInv'
<1>0. /\ TrainingTypeOK /\ ReleaseInv /\ complete \in Runs \cup {NoRun}
      /\ \A q \in Runs : TablePart(q) /\ OutcomePart(q)
  BY DEF TrainingInv, TrainingTypeOK
<1>1. PICK step \in Releasing \cup Ends : Continue(r, step)
  BY <1>0, ReleaseStepIs
<1>2. /\ run' \in [Runs -> Run] /\ \A q \in Runs \ {r} : run'[q] = run[q]
      /\ run'[r].policy = run[r].policy /\ run'[r].scene = run[r].scene
  <2>1. step \in PublicationSteps
    BY DEF Releasing, Ends, PublicationSteps, LiveSteps
  <2> QED
    BY <1>0, <1>1, <2>1, ContinueIs
<1>3. TrainingTypeOK'
  <2>1. UNCHANGED <<ledger, mem, mask, sceneMarker, sceneLock>>
    BY <1>0, ReleaseStepIs
  <2>2. /\ table' \in [Tables -> Runs \cup {NoRun}] /\ relLock' \in Runs \cup {NoRun}
        /\ kills' \in 0 .. MaxKills /\ complete' \in Runs \cup {NoRun}
    BY <1>0, ReleaseStepWrites
  <2> QED
    BY <1>0, <1>2, <2>1, <2>2 DEF TrainingTypeOK
<1>4. ReleaseInv' /\ TablePart(r)' /\ OutcomePart(r)'
  BY ReleaseStepTables
<1>5. ASSUME NEW q \in Runs \ {r}
      PROVE  TablePart(q)' /\ OutcomePart(q)'
  <2>1. run'[q] = run[q]
    BY <1>2
  <2>2. OutcomePart(q)'
    BY <1>0, <1>2, <2>1, ReleaseStepWrites DEF OutcomePart, At
  <2>3. TablePart(q)'
    <3>1. CASE relLock = q
      BY <1>0, <2>1, <3>1, ReleaseStepWrites DEF TablePart, At
    <3>2. CASE relLock # q
      BY <1>0, <2>1, <3>2, ReleaseStepWrites DEF TablePart, At, Untouched, Publishing
    <3> QED
      BY <3>1, <3>2
  <2> QED
    BY <2>2, <2>3
<1> QED
  BY <1>3, <1>4, <1>5, ReleaseStepScenes, ReleaseStepPlans DEF TrainingInv

\* So does a step of a scene.
LEMMA SceneStepKeeps ==
  ASSUME TrainingInv, NEW r \in Runs, SceneStep(r)
  PROVE  TrainingInv'
  BY SceneStepTypes, SceneStepScenes, SceneStepRest DEF TrainingInv

\* So does the start of a run.
LEMMA StartKeeps ==
  ASSUME TrainingInv, NEW r \in Runs, NEW ph \in PolicyHashes, NEW targets \in SUBSET Scenes,
         StartRun(r, ph, targets)
  PROVE  TrainingInv'
<1>0. /\ TrainingTypeOK /\ ReleaseInv
      /\ \A q \in Runs : PlanPart(q) /\ ScenePart(q) /\ DonePart(q) /\ TablePart(q) /\ OutcomePart(q)
  BY DEF TrainingInv
<1>1. /\ run' \in [Runs -> Run] /\ \A q \in Runs \ {r} : run'[q] = run[q]
      /\ run[r].pc = "idle" /\ run'[r].pc = "scenes" /\ run'[r].policy = ph
      /\ run'[r].targets = targets /\ run'[r].todo = targets
      /\ run'[r].scene = run[r].scene
      /\ run'[r].done = run[r].done /\ run'[r].failed = run[r].failed
  BY <1>0, StartedRun
<1>2. /\ mem' = [mem EXCEPT ![r] = ledger]
      /\ UNCHANGED <<ledger, mask, sceneMarker, sceneLock, table, complete, relLock, kills>>
  BY DEF StartRun, release
<1>3. TrainingTypeOK'
  BY <1>0, <1>1, <1>2 DEF TrainingTypeOK
<1>4. run[r].done = {} /\ run[r].scene = {}
  BY <1>0, <1>1 DEF PlanPart, At
<1>5. ReleaseInv'
  BY <1>0, <1>2 DEF ReleaseInv
<1>6. complete # r
  BY <1>0, <1>1, SentinelAssumption DEF ReleaseInv, TablePart, Untouched, Tables, At
<1>7. ASSUME NEW q \in Runs \ {r}
      PROVE  PlanPart(q)' /\ ScenePart(q)' /\ DonePart(q)' /\ TablePart(q)' /\ OutcomePart(q)'
  <2>1. run'[q] = run[q]
    BY <1>1
  <2>2. PlanPart(q)' /\ ScenePart(q)' /\ DonePart(q)'
    BY <1>0, <1>2, <2>1 DEF PlanPart, ScenePart, DonePart, Committed, At
  <2>3. TablePart(q)'
    BY <1>0, <1>2, <2>1 DEF TablePart, At
  <2>4. OutcomePart(q)'
    <3>1. complete \in Runs \cup {NoRun}
      BY <1>0 DEF TrainingTypeOK
    <3> QED
      BY <1>0, <1>1, <1>2, <1>6, <2>1, <3>1 DEF OutcomePart, At
  <2> QED
    BY <2>2, <2>3, <2>4
<1>8. PlanPart(r)' /\ ScenePart(r)' /\ DonePart(r)' /\ OutcomePart(r)'
  BY <1>1, <1>4 DEF PlanPart, ScenePart, DonePart, OutcomePart, At, Releasing
<1>9. TablePart(r)'
  BY <1>0, <1>1, <1>2 DEF TablePart, At, Untouched
<1> QED
  BY <1>3, <1>5, <1>7, <1>8, <1>9 DEF TrainingInv

\* An operator removes only locks of killed runs, on which no run relies.
LEMMA OperatorKeeps ==
  ASSUME TrainingInv, OperatorClearsLocks
  PROVE  TrainingInv'
<1>0. /\ TrainingTypeOK /\ ReleaseInv
      /\ \A q \in Runs : PlanPart(q) /\ ScenePart(q) /\ DonePart(q) /\ TablePart(q) /\ OutcomePart(q)
  BY DEF TrainingInv
<1>1. PICK r \in Runs :
        /\ run[r].pc = "killed"
        /\ sceneLock' = Unlocked(r) /\ relLock' = IF relLock = r THEN NoRun ELSE relLock
        /\ UNCHANGED <<ledger, mem, mask, sceneMarker, table, complete, run, kills>>
  BY DEF OperatorClearsLocks, At
<1>2. TrainingTypeOK'
  BY <1>0, <1>1 DEF TrainingTypeOK, Unlocked
<1>3. ASSUME NEW q \in Runs
      PROVE  PlanPart(q)' /\ ScenePart(q)' /\ DonePart(q)' /\ TablePart(q)' /\ OutcomePart(q)'
  <2>1. PlanPart(q)' /\ DonePart(q)' /\ OutcomePart(q)'
    BY <1>0, <1>1 DEF PlanPart, DonePart, OutcomePart, Committed, At
  <2>2. run[q].scene \subseteq Scenes
    BY <1>0 DEF TrainingTypeOK, Run
  <2>3. ScenePart(q)'
    BY <1>0, <1>1, <2>2 DEF ScenePart, Committed, Unlocked
  <2>4. TablePart(q)'
    BY <1>0, <1>1 DEF TablePart, At
  <2> QED
    BY <2>1, <2>3, <2>4
<1> QED
  BY <1>0, <1>1, <1>2, <1>3 DEF TrainingInv, ReleaseInv

\* A stuttering step changes nothing the invariant speaks of.
LEMMA StutterKeeps ==
  ASSUME TrainingInv, UNCHANGED trainingVars
  PROVE  TrainingInv'
  BY DEF TrainingInv, TrainingTypeOK, ReleaseInv, PlanPart, ScenePart, DonePart, TablePart, OutcomePart,
     Committed, At, trainingVars, scenes, release

\* Every step keeps the invariant.
LEMMA StepKeepsTraining == TrainingInv /\ [TrainingNext]_trainingVars => TrainingInv'
<1> SUFFICES ASSUME TrainingInv, [TrainingNext]_trainingVars PROVE TrainingInv'
  OBVIOUS
<1>1. ASSUME NEW r \in Runs, NEW p \in PolicyHashes, NEW targets \in SUBSET Scenes,
             StartRun(r, p, targets)
      PROVE  TrainingInv'
  BY <1>1, StartKeeps
<1>2. ASSUME NEW r \in Runs, SceneStep(r) PROVE TrainingInv'
  BY <1>2, SceneStepKeeps
<1>3. ASSUME NEW r \in Runs, ReleaseStep(r) \/ KillRun(r) PROVE TrainingInv'
  BY <1>3, ReleaseStepKeeps
<1>4. CASE OperatorClearsLocks
  BY <1>4, OperatorKeeps
<1>5. CASE UNCHANGED trainingVars
  BY <1>5, StutterKeeps
<1> QED
  BY <1>1, <1>2, <1>3, <1>4, <1>5 DEF TrainingNext

-----------------------------------------------------------------------------
(* The theorems.                                                           *)

\* The invariant holds in every behaviour of the training pipeline.
THEOREM TrainingInvariant == TrainingSpec => []TrainingInv
  BY InitialTraining, StepKeepsTraining, PTL DEF TrainingSpec

\* A committed release is the work of one run, over masks of its policy
\* (training/release.py, publish_release).
THEOREM ReleaseCoherence == TrainingSpec => []ReleaseIsCoherent
<1>1. TrainingInv => ReleaseIsCoherent
  BY DEF TrainingInv, TrainingTypeOK, ReleaseInv, DonePart, Committed, ReleaseIsCoherent
<1> QED
  BY <1>1, TrainingInvariant, PTL

\* A run that exits 0 leaves a committed release of its policy, and all of its
\* scenes published under it.
THEOREM CleanRuns == TrainingSpec => []CleanRunHasRelease
<1>1. TrainingInv => CleanRunHasRelease
  <2> SUFFICES ASSUME TrainingInv, NEW r \in Runs, run[r].pc = "ok"
               PROVE  /\ complete # NoRun /\ run[complete].policy = run[r].policy
                      /\ \A s \in run[r].targets : Committed(r, s)
    BY DEF CleanRunHasRelease, Committed
  <2>1. PlanPart(r) /\ DonePart(r) /\ OutcomePart(r)
    BY DEF TrainingInv
  <2> QED
    BY <2>1 DEF PlanPart, DonePart, OutcomePart, At
<1> QED
  BY <1>1, TrainingInvariant, PTL

\* "the release is immutable": once it is committed, no step changes it.
THEOREM ReleaseIsFrozen == TrainingSpec => CommittedReleaseIsFrozen
<1>1. TrainingInv /\ [TrainingNext]_trainingVars
        => [complete # NoRun => UNCHANGED <<table, complete>>]_trainingVars
  <2> SUFFICES ASSUME TrainingInv, [TrainingNext]_trainingVars, complete # NoRun
               PROVE  UNCHANGED <<table, complete>>
    OBVIOUS
  <2>1. ASSUME NEW r \in Runs, SceneStep(r) PROVE UNCHANGED <<table, complete>>
    BY <2>1, SceneStepIs DEF TrainingInv
  <2>2. ASSUME NEW r \in Runs, ReleaseStep(r) \/ KillRun(r) PROVE UNCHANGED <<table, complete>>
    BY <2>2, ReleaseStepWrites
  <2> QED
    BY <2>1, <2>2 DEF TrainingNext, StartRun, OperatorClearsLocks, trainingVars, release
<1> QED
  BY <1>1, TrainingInvariant, PTL DEF TrainingSpec, CommittedReleaseIsFrozen

\* The mask of a scene with a completion marker never changes
\* (training/product.py, publish_eligibility).
THEOREM MasksAreFrozen == TrainingSpec => CommittedMaskIsFrozen
<1> DEFINE Frozen == \A s \in Scenes : sceneMarker[s] # NoRun =>
                       mask'[s] = mask[s] /\ sceneMarker'[s] = sceneMarker[s]
<1>1. TrainingInv /\ [TrainingNext]_trainingVars => [Frozen]_trainingVars
  <2> SUFFICES ASSUME TrainingInv, [TrainingNext]_trainingVars PROVE Frozen
    OBVIOUS
  <2>1. ASSUME NEW r \in Runs, SceneStep(r) PROVE Frozen
    BY <2>1, SceneStepWrites
  <2>2. ASSUME NEW r \in Runs, ReleaseStep(r) \/ KillRun(r) PROVE Frozen
    BY <2>2, ReleaseStepIs DEF TrainingInv
  <2> QED
    BY <2>1, <2>2 DEF TrainingNext, StartRun, OperatorClearsLocks, trainingVars, scenes
<1> QED
  BY <1>1, TrainingInvariant, PTL DEF TrainingSpec, CommittedMaskIsFrozen

-----------------------------------------------------------------------------
(* The patch index.                                                        *)

\* Whoever is past the lock owns the lock object.
LockedOwnLock == \A p \in Publishers : pc[p] \in Locked \cup {"release"} => lock = p

\* How far the publisher under the lock has got.
Progress ==
  \A p \in Publishers :
    /\ pc[p] \in {"index", "qa", "readback", "mark"} => ~Published
    /\ pc[p] \in {"qa", "readback", "mark"} => file["index"] = p
    /\ pc[p] \in {"readback", "mark"} => file["qa"] = p

\* Nothing refers to a publisher that has not started.
IdleAreUnknown == \A p \in Publishers : pc[p] = "idle" => marker # p /\ result[p] = "none"

Inv ==
  /\ TypeOK
  /\ LockedOwnLock
  /\ Progress
  /\ IdleAreUnknown
  /\ PublishedIsCoherent
  /\ SuccessIsTruthful

USE PatchIndexAssumption DEF Artifacts, Locked, Steps, Published

\* The initial state has the type and every part of the invariant.
LEMMA InitInv == Init => Inv
  BY DEF Init, Inv, TypeOK, LockedOwnLock, Progress, IdleAreUnknown, PublishedIsCoherent,
         SuccessIsTruthful

\* Every step keeps the type of the variables.
LEMMA TypeStep == TypeOK /\ [Next]_vars => TypeOK'
<1> SUFFICES ASSUME TypeOK, [Next]_vars PROVE TypeOK'
  OBVIOUS
<1> USE DEF TypeOK, Goto, Leave
<1>1. ASSUME NEW p \in Publishers, NEW f \in Policies, Start(p, f) PROVE TypeOK'
  BY <1>1 DEF Start
<1>2. ASSUME NEW p \in Publishers, CheckPublished(p) PROVE TypeOK'
  BY <1>2 DEF CheckPublished, MeetPublished
<1>3. ASSUME NEW p \in Publishers, CheckOccupied(p) PROVE TypeOK'
  BY <1>3 DEF CheckOccupied
<1>4. ASSUME NEW p \in Publishers, AcquireLock(p) PROVE TypeOK'
  BY <1>4 DEF AcquireLock
<1>5. ASSUME NEW p \in Publishers, Recheck(p) PROVE TypeOK'
  BY <1>5 DEF Recheck, MeetPublished
<1>6. ASSUME NEW p \in Publishers, WriteIndex(p) \/ WriteQa(p) PROVE TypeOK'
  BY <1>6 DEF WriteIndex, WriteQa, Write
<1>7. ASSUME NEW p \in Publishers, Readback(p) PROVE TypeOK'
  BY <1>7 DEF Readback
<1>8. ASSUME NEW p \in Publishers, WriteMarker(p) PROVE TypeOK'
  BY <1>8 DEF WriteMarker
<1>9. ASSUME NEW p \in Publishers, VerifyMarker(p) PROVE TypeOK'
  BY <1>9 DEF VerifyMarker
<1>10. ASSUME NEW p \in Publishers, ReleaseLock(p) PROVE TypeOK'
  BY <1>10 DEF ReleaseLock
<1>11. ASSUME NEW p \in Publishers, ReleaseFails(p) \/ StepRaises(p) \/ Kill(p) PROVE TypeOK'
  BY <1>11 DEF ReleaseFails, StepRaises, Kill
<1>12. ASSUME NEW p \in Publishers, LandsLate(p) PROVE TypeOK'
  BY <1>12 DEF LandsLate
<1>13. CASE OperatorClears
  BY <1>13 DEF OperatorClears
<1>14. CASE UNCHANGED vars
  BY <1>14 DEF vars
<1> QED
  BY <1>1, <1>2, <1>3, <1>4, <1>5, <1>6, <1>7, <1>8, <1>9, <1>10, <1>11, <1>12, <1>13, <1>14
     DEF Next, Proceed, Fail

\* Every step keeps the invariant, given the type after it.
LEMMA InvStep == Inv /\ TypeOK' /\ [Next]_vars => Inv'
<1> SUFFICES ASSUME Inv, TypeOK', [Next]_vars PROVE Inv'
  OBVIOUS
<1> USE DEF Inv, TypeOK, Goto, Leave, LockedOwnLock, Progress, IdleAreUnknown,
            PublishedIsCoherent, SuccessIsTruthful
<1>1. ASSUME NEW p \in Publishers, NEW f \in Policies, Start(p, f) PROVE Inv'
  BY <1>1 DEF Start
<1>2. ASSUME NEW p \in Publishers, CheckPublished(p) PROVE Inv'
  BY <1>2 DEF CheckPublished, MeetPublished, ReadbackOk
<1>3. ASSUME NEW p \in Publishers, CheckOccupied(p) PROVE Inv'
  BY <1>3 DEF CheckOccupied
<1>4. ASSUME NEW p \in Publishers, AcquireLock(p) PROVE Inv'
  BY <1>4 DEF AcquireLock
<1>5. ASSUME NEW p \in Publishers, Recheck(p) PROVE Inv'
  BY <1>5 DEF Recheck, MeetPublished, ReadbackOk
<1>6. ASSUME NEW p \in Publishers, WriteIndex(p) \/ WriteQa(p) PROVE Inv'
  BY <1>6 DEF WriteIndex, WriteQa, Write
<1>7. ASSUME NEW p \in Publishers, Readback(p) PROVE Inv'
  <2>1. CASE ReadbackOk(p, FALSE)
    BY <1>7, <2>1 DEF Readback
  <2>2. CASE ~ReadbackOk(p, FALSE)
    BY <1>7, <2>2 DEF Readback
  <2> QED
    BY <2>1, <2>2
<1>8. ASSUME NEW p \in Publishers, WriteMarker(p) PROVE Inv'
  BY <1>8 DEF WriteMarker
<1>9. ASSUME NEW p \in Publishers, VerifyMarker(p) PROVE Inv'
  BY <1>9 DEF VerifyMarker, ReadbackOk
<1>10. ASSUME NEW p \in Publishers, ReleaseLock(p) PROVE Inv'
  BY <1>10 DEF ReleaseLock
<1>11. ASSUME NEW p \in Publishers, ReleaseFails(p) \/ StepRaises(p) \/ Kill(p) PROVE Inv'
  BY <1>11 DEF ReleaseFails, StepRaises, Kill, Live
<1>12. ASSUME NEW p \in Publishers, LandsLate(p) PROVE Inv'
  BY <1>12 DEF LandsLate
<1>13. CASE OperatorClears
  BY <1>13 DEF OperatorClears, Live
<1>14. CASE UNCHANGED vars
  BY <1>14 DEF vars
<1> QED
  BY <1>1, <1>2, <1>3, <1>4, <1>5, <1>6, <1>7, <1>8, <1>9, <1>10, <1>11, <1>12, <1>13, <1>14
     DEF Next, Proceed, Fail

\* Inv holds in every reachable state.
THEOREM PatchIndexInvariant == Spec => []Inv
<1>1. Inv /\ [Next]_vars => Inv'
  BY TypeStep, InvStep DEF Inv
<1> QED
  BY InitInv, <1>1, PTL DEF Spec

\* Every variable keeps its type.
THEOREM PatchIndexTypeCorrect == Spec => []TypeOK
<1>1. Inv => TypeOK
  BY DEF Inv
<1> QED
  BY PatchIndexInvariant, <1>1, PTL

\* However publishers of the patch index interleave and fail, a marked index is the
\* work of the one publisher that marked it (publish_patch_index).
THEOREM IndexIsCoherent == Spec => []PublishedIsCoherent
<1>1. Inv => PublishedIsCoherent
  BY DEF Inv
<1> QED
  BY PatchIndexInvariant, <1>1, PTL

\* Who is told that its index is published finds an index of its own fingerprint, at
\* that moment and ever after (publish_patch_index, _require_readback).
THEOREM PublishersAreToldTheTruth == Spec => []SuccessIsTruthful
<1>1. Inv => SuccessIsTruthful
  BY DEF Inv
<1> QED
  BY PatchIndexInvariant, <1>1, PTL

-----------------------------------------------------------------------------

\* What a step does to the index a reader can see: nothing, or one publisher marks
\* the two artifacts it has written.
LEMMA VisibleStep ==
  ASSUME Inv, [Next]_vars
  PROVE  \/ Visible' = Visible
         \/ \E p \in Publishers : /\ ~Published /\ marker' = p /\ file' = file
                                  /\ \A a \in Artifacts : file[a] = p
<1> DEFINE Goal == \/ Visible' = Visible
                   \/ \E p \in Publishers : /\ ~Published /\ marker' = p /\ file' = file
                                            /\ \A a \in Artifacts : file[a] = p
<1> USE DEF Inv, TypeOK, Visible
<1>1. ASSUME UNCHANGED <<file, marker>> PROVE Goal
  BY <1>1
<1>2. ASSUME NEW p \in Publishers, WriteIndex(p) \/ WriteQa(p) PROVE Goal
  BY <1>2 DEF WriteIndex, WriteQa, Write, Progress
<1>3. ASSUME NEW p \in Publishers, WriteMarker(p) PROVE Goal
  BY <1>1, <1>3 DEF WriteMarker, Progress
<1>4. ASSUME NEW p \in Publishers, LandsLate(p) PROVE Goal
  BY <1>1, <1>4 DEF LandsLate, Progress
<1>5. CASE OperatorClears
  BY <1>5 DEF OperatorClears
<1>6. CASE UNCHANGED vars
  BY <1>1, <1>6 DEF vars
<1>7. ASSUME NEW p \in Publishers, NEW f \in Policies, Start(p, f) PROVE Goal
  BY <1>1, <1>7 DEF Start
<1>8. ASSUME NEW p \in Publishers,
             \/ CheckPublished(p) \/ CheckOccupied(p) \/ AcquireLock(p) \/ Recheck(p)
             \/ Readback(p) \/ VerifyMarker(p) \/ ReleaseLock(p)
             \/ ReleaseFails(p) \/ StepRaises(p) \/ Kill(p)
      PROVE  Goal
  BY <1>1, <1>8 DEF CheckPublished, CheckOccupied, AcquireLock, Recheck, Readback, VerifyMarker,
                    ReleaseLock, ReleaseFails, StepRaises, Kill
<1> QED
  BY <1>2, <1>3, <1>4, <1>5, <1>6, <1>7, <1>8 DEF Next, Proceed, Fail

\* The publication of the index implements the abstract release: it appears at once,
\* from one publisher, and is never changed or withdrawn.
THEOREM IndexIsImmutable == Spec => ImplementsImmutableRelease
<1>1. Init => Abstract!Init
  BY DEF Init, Abstract!Init, Visible
<1>2. ASSUME Inv, [Next]_vars PROVE [Abstract!Next]_Visible
  <2>1. ASSUME NEW p \in Publishers, ~Published, marker' = p, file' = file,
               \A a \in Artifacts : file[a] = p
        PROVE  Abstract!PublishItem("patch_index", p)
    <3>1. file = [a \in Artifacts |-> p]
      BY <1>2, <2>1 DEF Inv, TypeOK
    <3>2. Visible["patch_index"] = NoPublisher
      BY <2>1 DEF Visible
    <3>3. Visible' = [Visible EXCEPT !["patch_index"] = [a \in Artifacts |-> p]]
      BY <2>1, <3>1 DEF Visible
    <3> QED
      BY <3>2, <3>3 DEF Abstract!PublishItem
  <2> QED
    BY <1>2, <2>1, VisibleStep DEF Abstract!Next
<1> QED
  BY PatchIndexInvariant, <1>1, <1>2, PTL DEF Spec, ImplementsImmutableRelease, Abstract!Spec

=============================================================================
