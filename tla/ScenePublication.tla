-------------------------- MODULE ScenePublication --------------------------
(***************************************************************************)
(* Publication of one immutable product per scene: the feature-stack       *)
(* pipeline (data/features/pipeline.py, data/features/product.py), the     *)
(* publish lock of data/io/storage.py, and the secondary ledger with its   *)
(* reconciliation (data/secondary/ledger.py, data/secondary/idempotency.py)*)
(*                                                                         *)
(* A run is one invocation of run_features.  Any number of runs, of the    *)
(* same or of different configurations, may be alive at once: nothing but  *)
(* the per-scene lock keeps them apart.  Each run opens the ledger once,   *)
(* works on its private copy and writes the whole copy back on each upsert.*)
(***************************************************************************)
EXTENDS Naturals, FiniteSets

CONSTANTS Runs,       \* invocations of the pipeline
          Scenes,     \* scenes of the inventory
          Configs,    \* configuration hashes
          Faults,     \* the classes of faults that may happen
          NoRun, NoScene, NoConfig,
          Unpublished

ASSUME SentinelAssumption ==
  NoRun \notin Runs /\ NoScene \notin Scenes /\ NoConfig \notin Configs

\* "kill": a hard kill of the process; "raise": a step raises without effect;
\* "late": a remote write lands and its call raises all the same.
ASSUME FaultAssumption == Faults \subseteq {"kill", "raise", "late"}

VARIABLES
  artifact,  \* scene -> artifact name -> the run whose bytes are stored
  marker,    \* scene -> the run that wrote complete.json
  lock,      \* scene -> the run whose token .publish.lock carries
  ledger,    \* the rows of ledger.parquet as last written
  mem,       \* run -> its in-memory copy of the ledger
  config,    \* run -> its config_hash
  todo,      \* run -> scenes of its selection not visited yet
  scene,     \* run -> the scene it is processing
  report,    \* run -> scene -> its row in the run's report
  pc         \* run -> the step it is about to take

store == <<artifact, marker>>
vars == <<artifact, marker, lock, ledger, mem, config, todo, scene, report, pc>>

Artifacts == {"cog", "mask", "provenance", "stac"}
Status == {"absent", "exporting", "done", "failed"}
Row == [status : Status, hash : Configs \cup {NoConfig}]
Absent == [status |-> "absent", hash |-> NoConfig]
\* Mutant: the row keeps the default status of a LedgerRow.
ExportingByDefault == [status |-> "pending", hash |-> NoConfig]

Exporting == [status |-> "exporting", hash |-> NoConfig]
Failed == [status |-> "failed", hash |-> NoConfig]
Done(c) == [status |-> "done", hash |-> c]

\* The steps taken while no other run may write an artifact of the scene.
Locked == {"recheck", "cog", "mask", "provenance", "readback", "stac",
           "commit", "unlock_failed"}
\* The steps of _process_scene inside its try block.
Guarded == {"compose", "lock", "unlock", "record"} \cup Locked
Steps == {"idle", "loop", "failing", "ended", "dead"} \cup Guarded

TypeOK ==
  /\ artifact \in [Scenes -> [Artifacts -> Runs \cup {NoRun}]]
  /\ marker \in [Scenes -> Runs \cup {NoRun}]
  /\ lock \in [Scenes -> Runs \cup {NoRun}]
  /\ ledger \in [Scenes -> Row]
  /\ mem \in [Runs -> [Scenes -> Row]]
  /\ config \in [Runs -> Configs \cup {NoConfig}]
  /\ todo \in [Runs -> SUBSET Scenes]
  /\ scene \in [Runs -> Scenes \cup {NoScene}]
  /\ report \in [Runs -> [Scenes -> {"none", "done", "failed"}]]
  /\ pc \in [Runs -> Steps]

Init ==
  /\ artifact = [s \in Scenes |-> [a \in Artifacts |-> NoRun]]
  /\ marker = [s \in Scenes |-> NoRun]
  /\ lock = [s \in Scenes |-> NoRun]
  /\ ledger = [s \in Scenes |-> Absent]
  /\ mem = [r \in Runs |-> [s \in Scenes |-> Absent]]
  /\ config = [r \in Runs |-> NoConfig]
  /\ todo = [r \in Runs |-> {}]
  /\ scene = [r \in Runs |-> NoScene]
  /\ report = [r \in Runs |-> [s \in Scenes |-> "none"]]
  /\ pc = [r \in Runs |-> "idle"]

Committed(s) == marker[s] # NoRun
Live(r) == pc[r] \notin {"idle", "ended", "dead"}
Goto(r, step) == pc' = [pc EXCEPT ![r] = step]

-----------------------------------------------------------------------------
(* The run: opening the ledger, reconciling and closing a scene            *)

\* SecondaryLedger.upsert: replace the row in memory, write the whole table.
Upsert(r, s, row) ==
  /\ mem' = [mem EXCEPT ![r][s] = row]
  /\ ledger' = [mem[r] EXCEPT ![s] = row]

\* A run computes its configuration hash, then opens the ledger.
Start(r, c, selection) ==
  /\ pc[r] = "idle"
  /\ config' = [config EXCEPT ![r] = c]
  /\ todo' = [todo EXCEPT ![r] = selection]
  /\ mem' = [mem EXCEPT ![r] = ledger]
  /\ Goto(r, "loop")
  /\ UNCHANGED <<store, lock, ledger, scene, report>>

\* Mutant: the configuration hash is not compared.
ReconcileAnyHash(row, c, s) ==
  IF row.status = "done" /\ Committed(s) THEN "skip" ELSE "retry"

\* Mutant: a done scene is never skipped.
ReconcileNeverSkips(row, c, s) == "interrupted"

\* The verdict on one scene, from the run's copy of its row and the store.
Reconcile(row, c, s) ==
  CASE row.status = "absent" -> "new"
    [] row.status = "failed" -> "retry"
    [] row.status = "exporting" -> "interrupted"
    [] row.status = "done" /\ row.hash # c -> "config_changed"
    [] row.status = "done" /\ row.hash = c /\ artifact[s]["cog"] = NoRun -> "interrupted"
    [] row.status = "done" /\ row.hash = c /\ artifact[s]["cog"] # NoRun ->
         IF Committed(s) THEN "skip" ELSE "incomplete"

\* A published scene is skipped; its coverage is read from its provenance, and
\* the run ends with an exception when that cannot be read.
Skip(r, s) ==
  /\ pc[r] = "loop" /\ s \in todo[r]
  /\ Reconcile(mem[r][s], config[r], s) = "skip"
  /\ IF artifact[s]["provenance"] # NoRun
       THEN /\ report' = [report EXCEPT ![r][s] = "done"]
            /\ UNCHANGED pc
       ELSE Goto(r, "dead") /\ UNCHANGED report
  /\ todo' = [todo EXCEPT ![r] = @ \ {s}]
  /\ UNCHANGED <<store, lock, ledger, mem, config, scene>>

\* Any other verdict claims the scene with an "exporting" row.
Claim(r, s) ==
  /\ pc[r] = "loop" /\ s \in todo[r]
  /\ Reconcile(mem[r][s], config[r], s) # "skip"
  /\ todo' = [todo EXCEPT ![r] = @ \ {s}]
  /\ scene' = [scene EXCEPT ![r] = s]
  /\ Upsert(r, s, Exporting)
  /\ Goto(r, "compose")
  /\ UNCHANGED <<store, lock, config, report>>

\* The row of a finished scene, and its line of the report.
Close(r, row, verdict) ==
  /\ Upsert(r, scene[r], row)
  /\ report' = [report EXCEPT ![r][scene[r]] = verdict]
  /\ scene' = [scene EXCEPT ![r] = NoScene]
  /\ Goto(r, "loop")
  /\ UNCHANGED <<store, lock, config, todo>>

RecordDone(r) == pc[r] = "record" /\ Close(r, Done(config[r]), "done")

RecordFailed(r) == pc[r] = "failing" /\ Close(r, Failed, "failed")

Finish(r) ==
  /\ pc[r] = "loop" /\ todo[r] = {}
  /\ Goto(r, "ended")
  /\ UNCHANGED <<store, lock, ledger, mem, config, todo, scene, report>>

-----------------------------------------------------------------------------
(* finalize_feature_product: check, lock, recheck, write, commit           *)

OnlyMoves(r, step) ==
  /\ Goto(r, step)
  /\ UNCHANGED <<store, lock, ledger, mem, config, todo, scene, report>>

\* The stack is composed; a scene with a completion marker is refused.
Compose(r) ==
  /\ pc[r] = "compose"
  /\ OnlyMoves(r, IF Committed(scene[r]) THEN "failing" ELSE "lock")

\* PublishLock.acquire creates the lock object only if there is none.
AcquireLock(r) ==
  /\ pc[r] = "lock"
  /\ IF lock[scene[r]] = NoRun
       THEN lock' = [lock EXCEPT ![scene[r]] = r] /\ Goto(r, "recheck")
       ELSE Goto(r, "failing") /\ UNCHANGED lock
  /\ UNCHANGED <<store, ledger, mem, config, todo, scene, report>>

\* The lock object is created but the response is lost: the retry meets the
\* run's own object and raises, and nobody will release it.
AcquireLate(r) ==
  /\ "late" \in Faults /\ pc[r] = "lock" /\ lock[scene[r]] = NoRun
  /\ lock' = [lock EXCEPT ![scene[r]] = r]
  /\ Goto(r, "failing")
  /\ UNCHANGED <<store, ledger, mem, config, todo, scene, report>>

\* Mutant: the marker is not looked at again under the lock.
RecheckNothing(r) == pc[r] = "recheck" /\ OnlyMoves(r, "cog")

\* Another run may have committed while this one waited for the lock.
Recheck(r) ==
  /\ pc[r] = "recheck"
  /\ OnlyMoves(r, IF Committed(scene[r]) THEN "unlock_failed" ELSE "cog")

\* One artifact written with overwrite=True.
Write(r, a, next) ==
  /\ pc[r] = a
  /\ artifact' = [artifact EXCEPT ![scene[r]][a] = r]
  /\ Goto(r, next)
  /\ UNCHANGED <<marker, lock, ledger, mem, config, todo, scene, report>>

WriteCog(r) == Write(r, "cog", "mask")
WriteMask(r) == Write(r, "mask", "provenance")
WriteProvenance(r) == Write(r, "provenance", "readback")
WriteStac(r) == Write(r, "stac", "commit")

\* Mutant: the STAC item is left out.
ReadbackThenCommit(r) ==
  LET written == artifact[scene[r]]["provenance"] IN
  /\ pc[r] = "readback"
  /\ OnlyMoves(r, IF written # NoRun /\ config[written] = config[r]
                    THEN "commit" ELSE "unlock_failed")

\* The stored provenance must carry this run's configuration hash.
Readback(r) ==
  LET written == artifact[scene[r]]["provenance"] IN
  /\ pc[r] = "readback"
  /\ OnlyMoves(r, IF written # NoRun /\ config[written] = config[r]
                    THEN "stac" ELSE "unlock_failed")

\* complete.json is created only if absent: the commit point.
Commit(r) ==
  /\ pc[r] = "commit"
  /\ IF Committed(scene[r])
       THEN Goto(r, "unlock_failed") /\ UNCHANGED marker
       ELSE marker' = [marker EXCEPT ![scene[r]] = r] /\ Goto(r, "unlock")
  /\ UNCHANGED <<artifact, lock, ledger, mem, config, todo, scene, report>>

\* A write that lands although its call raises, after its last attempt.
WriteLate(r) ==
  /\ "late" \in Faults /\ pc[r] \in Artifacts
  /\ artifact' = [artifact EXCEPT ![scene[r]][pc[r]] = r]
  /\ Goto(r, "unlock_failed")
  /\ UNCHANGED <<marker, lock, ledger, mem, config, todo, scene, report>>

CommitLate(r) ==
  /\ "late" \in Faults /\ pc[r] = "commit" /\ ~Committed(scene[r])
  /\ marker' = [marker EXCEPT ![scene[r]] = r]
  /\ Goto(r, "unlock_failed")
  /\ UNCHANGED <<artifact, lock, ledger, mem, config, todo, scene, report>>

\* The "done" row reaches the file although its write raises: the handler
\* replaces it.
RecordLate(r) ==
  /\ "late" \in Faults /\ pc[r] = "record"
  /\ Upsert(r, scene[r], Done(config[r]))
  /\ Goto(r, "failing")
  /\ UNCHANGED <<store, lock, config, todo, scene, report>>

\* Mutant: the lock object is deleted whoever created it.
ReleaseAnyLock(r) ==
  /\ pc[r] \in {"unlock", "unlock_failed"}
  /\ lock' = [lock EXCEPT ![scene[r]] = NoRun]
  /\ Goto(r, IF pc[r] = "unlock" THEN "record" ELSE "failing")
  /\ UNCHANGED <<store, ledger, mem, config, todo, scene, report>>

\* Mutant: leaving the lock swallows the exception.
ReleaseSwallows(r) ==
  /\ pc[r] \in {"unlock", "unlock_failed"}
  /\ lock' = [lock EXCEPT ![scene[r]] = IF @ = r THEN NoRun ELSE @]
  /\ Goto(r, "record")
  /\ UNCHANGED <<store, ledger, mem, config, todo, scene, report>>

\* PublishLock.release deletes the lock object only if it is the run's own.
\* The exception of a failed publication goes on to the handler.
Release(r) ==
  /\ pc[r] \in {"unlock", "unlock_failed"}
  /\ lock' = [lock EXCEPT ![scene[r]] = IF @ = r THEN NoRun ELSE @]
  /\ Goto(r, IF pc[r] = "unlock" THEN "record" ELSE "failing")
  /\ UNCHANGED <<store, ledger, mem, config, todo, scene, report>>

\* A release that fails is logged, never raised: the lock object stays.
ReleaseFails(r) ==
  /\ "raise" \in Faults /\ pc[r] \in {"unlock", "unlock_failed"}
  /\ OnlyMoves(r, IF pc[r] = "unlock" THEN "record" ELSE "failing")

\* Any other step may raise: the lock is released if held, the row is "failed".
StepRaises(r) ==
  /\ "raise" \in Faults /\ pc[r] \in Guarded \ {"unlock", "unlock_failed"}
  /\ OnlyMoves(r, IF pc[r] \in Locked THEN "unlock_failed" ELSE "failing")

\* The process ends at once: a hard kill, a timeout of the driver, or a ledger
\* write outside the try block that raises.
Kill(r) ==
  /\ "kill" \in Faults /\ Live(r)
  /\ OnlyMoves(r, "dead")

\* A stale lock is an operator state: inspect, then delete.  The lock's owner
\* is seen to be no longer publishing: it is gone, or its product is committed.
OperatorClearsLock(s) ==
  /\ lock[s] # NoRun
  /\ ~(scene[lock[s]] = s /\ pc[lock[s]] \in Locked)
  /\ lock' = [lock EXCEPT ![s] = NoRun]
  /\ UNCHANGED <<store, ledger, mem, config, todo, scene, report, pc>>

Publish(r) ==
  \/ Compose(r) \/ AcquireLock(r) \/ Recheck(r)
  \/ WriteCog(r) \/ WriteMask(r) \/ WriteProvenance(r) \/ Readback(r)
  \/ WriteStac(r) \/ Commit(r) \/ Release(r)

Fault(r) ==
  \/ AcquireLate(r) \/ WriteLate(r) \/ CommitLate(r) \/ RecordLate(r)
  \/ ReleaseFails(r) \/ StepRaises(r) \/ Kill(r)

\* One step of a run that has started, faults apart.
Advance(r) ==
  \/ \E s \in Scenes : Skip(r, s) \/ Claim(r, s)
  \/ Publish(r)
  \/ RecordDone(r) \/ RecordFailed(r) \/ Finish(r)

Next ==
  \/ \E r \in Runs, c \in Configs, selection \in (SUBSET Scenes) \ {{}} : Start(r, c, selection)
  \/ \E r \in Runs : Advance(r) \/ Fault(r)
  \/ \E s \in Scenes : OperatorClearsLock(s)

Spec == Init /\ [][Next]_vars

\* One run at a time: the next starts after the previous one ended or died.
AtMostOneLive == Cardinality({r \in Runs : Live(r)}) <= 1
SerialNext == Next /\ AtMostOneLive'
SerialSpec == Init /\ [][SerialNext]_vars

-----------------------------------------------------------------------------
(* What the protocol guarantees                                            *)

\* Whoever is between acquiring and releasing the publish lock of a scene still
\* owns the lock object, so no other run can be there: kills, lost responses,
\* failed releases and the operator's deletions included.
LockProtectsPublisher ==
  \A r \in Runs : pc[r] \in Locked => lock[scene[r]] = r

\* A scene with a completion marker holds all four artifacts, every one of them
\* written by the run that wrote the marker: no mixed-identity product, however
\* publishers of different configurations interleave and fail.
CommittedIsCoherent ==
  \A s \in Scenes : Committed(s) => \A a \in Artifacts : artifact[s][a] = marker[s]

\* A completed scene is immutable: nothing rewrites an artifact or the marker
\* of a scene whose completion marker exists.
CommittedIsImmutable ==
  [][\A s \in Scenes : Committed(s) =>
       artifact'[s] = artifact[s] /\ marker'[s] = marker[s]]_store

\* A "done" row, in the ledger file or in the copy of any run that could write
\* it back later, names a committed product of that very configuration.
DoneRowsAreTruthful ==
  \A s \in Scenes : \A row \in {ledger[s]} \cup {mem[r][s] : r \in Runs} :
    row.status = "done" => Committed(s) /\ config[marker[s]] = row.hash

\* A run that reports a scene "done" reports a product of its own configuration,
\* whether it published the scene or skipped it.
ReportsAreTruthful ==
  \A r \in Runs, s \in Scenes :
    report[r][s] = "done" => Committed(s) /\ config[marker[s]] = config[r]

\* A "done" row is final for whoever knows it: a run replaces a done row of its own
\* configuration only if its copy of the ledger, taken when it started, does not
\* show that row, or if it published the scene itself (its own "done" landed and
\* raised).  So without concurrent runs a re-run never claims a done scene again.
DoneIsFinal ==
  [][\A s \in Scenes : (ledger[s].status = "done" /\ ledger'[s] # ledger[s]) =>
       \E r \in Runs :
         /\ pc'[r] # pc[r]
         /\ mem[r][s] # ledger[s] \/ config[r] # ledger[s].hash \/ marker[s] = r]_vars

\* run_features_isolated.py says that "a re-run skips scenes already published
\* with a matching config hash" and that the ledger makes the run resume-safe:
\* no run fails a scene that another run has published with the same hash.
RerunAcceptsPublishedScene ==
  \A r \in Runs, s \in Scenes :
    report[r][s] = "failed" =>
      ~(marker[s] \notin {NoRun, r} /\ config[marker[s]] = config[r])

\* The abstract release: a scene's content appears at once and never changes.
Visible == [s \in Scenes |-> IF Committed(s) THEN artifact[s] ELSE Unpublished]
Abstract == INSTANCE ImmutableRelease WITH
  Keys <- Scenes, Parts <- Artifacts, Writers <- Runs, content <- Visible

\* The publication protocol implements the abstract release.
ImplementsImmutableRelease == Abstract!Spec

=============================================================================
