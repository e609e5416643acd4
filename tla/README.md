# Verification of the berlin-lst-downscaling pipelines

TLA+ models of the parts of this repository where the order of steps, a kill
between two of them, or two processes at once decide whether the published data
(or the bill) can be trusted. TLC checks the models on small instances; TLAPS
proves every safety property among them for instances of any size.

Contents: [the system](#the-system) · [the models](#the-models) ·
[the runs](#the-runs) · [the proofs](#the-proofs) ·
[what the models found](#what-the-models-found) ·
[assumptions and limits](#assumptions-and-limits) ·
[not modelled](#not-modelled)

## The system

The repository prepares data for, trains and evaluates a land-surface-temperature
downscaling model for Berlin. It is a chain of batch pipelines, each a Python
process started by hand, by a shell script on a VM, or by another process. They
share no memory and send no messages: everything they tell each other goes
through objects in Google Cloud Storage (or local files), in four roles:

* **artifacts** - rasters, tables, sidecars - each written atomically, one by one;
* **completion markers** (`complete.json`, a manifest), written last: what other
  pipelines take for "published";
* **ledgers**, one table per pipeline, read whole at the start of a run and
  rewritten whole after every row;
* **locks**: create-only objects that keep publishers or whole runs apart.

| component | state it keeps | operations | talks to |
|---|---|---|---|
| manifest selection (`data/selection`) | manifest bundle | couple anchors with Sentinel-2 dates, publish bundle | STAC catalogues |
| ARD pipeline (`data/ard`) | products, ledger with attempts | reconcile, begin attempt, write, validate, record | manifest, acquisition, staging |
| static sources and derived products (`data/secondary`) | products, two secondary ledgers | run sources, audit, resolve, derive, force | downloads, each other's store |
| LoD vintages (`data/secondary/lod_vintages*.py`) | products per vintage, secondary ledger | morphology, forced or missing bundle, audit | raw archives, static products |
| dynamic pipeline (`data/dynamic`) | products, secondary ledger | ERA5 and shadow product per scene, ledger audit | run guard, geometry mapping |
| run guard (`data/dynamic/run_guard.py`) | one lock object per root | acquire with stale-lock reclaim, release | runner |
| feature publication (`data/features`) | five artifacts per scene, secondary ledger | reconcile, claim, compose, publish under a lock, record | all of the above, read-only |
| isolated-scene driver (`scripts/runners/run_features_isolated.py`) | summary | spawn, time out and judge one child per scene | feature publication, its ledger |
| training release (`data/training`) | masks, release tables, marker, locks | publish masks, assemble and publish the release | feature ledger |
| patch index (`data/training/patch_index.py`) | index, report, marker | publish once, accept an equal release | training release |
| patch reader (`modeling/patch_cache.py`) | thread pool, window of futures | read in order, retry, close | training job |
| prebuilt cache (`modeling/prebuilt_cache.py`) | shards, manifest, local cache roots | upload, fetch, verify, recover, fall back | training jobs |
| ablation matrix, Vertex launcher (`scripts/operators`) | run labels, create-only outputs, slot ledgers | look up, launch, poll, resubmit, reserve a slot | Vertex |
| VM launchers (`scripts/runners/vm`) | PID and exit files | start, launch detached, verify, poll, stop | the machine, all runners |
| storage and publish lock (`data/io/storage.py`) | objects, temp objects | atomic write, create-only write, lock | everything above |
| raw-input staging (`data/io/staging.py`) | stage directories | put, clean up | ARD (ECOSTRESS) |
| training (`modeling/run.py`, `real_task.py`) | checkpoints, metrics | fit, test once | caches, releases |
| QA gates, validators, EDA, analysis | reports | read and re-derive | published products |

What is hard in it: two publishers of the same item; a kill between the marker
and the ledger row; a remote write that lands although its call raises; ledger
copies that are stale when written back; a lock that outlives its owner, and who
may remove it; reprocessing in place of something that is already published;
products derived from inputs that change meanwhile; a create request whose
answer is lost; a detached job nobody can see any more; failures that must reach
an exit code. `PROJECT.json` lists these hazards by line.

What makes each component correct:

* **feature publication**: at most one publisher in a scene's folder; a marker
  only ever over the complete work of one run; nothing published changes; no
  ledger row and no report claims what is not published.
* **driver**: exit code 0 means that every scene is published.
* **run guard**: one guarded run at a time; only dead owners of the own host are
  reclaimed; a release spares other owners.
* **dynamic, static and vintage pipelines**: a done row names what is stored and
  what it was computed from; a return of 0 leaves nothing undone or outdated.
* **ARD**: a done row describes the stored bytes; recorded mosaic inputs are
  frozen; attempts are bounded; a return of 0 hides no failure.
* **training release, patch index**: one coherent release of one policy, over
  masks of that policy, for good; who is told "published" finds its own.
* **patch reader**: results in order; it ends whatever the reads do, and no read
  outlives it; a few transient errors fail nothing.
* **prebuilt cache**: a manifest never lists a shard that is not there; a cache
  root that opens is whole; a job decides.
* **matrix and slots**: a run label belongs to one paid job; no slot is paid for
  twice; every invocation of the script ends.
* **VM launchers**: a verified job is never stopped; a reported success is true;
  the launcher ends.

## The models

| module | models | lines it stands for |
|---|---|---|
| `ImmutableRelease` | abstract: items that appear whole, once, for good | - |
| `ScenePublication` | feature publication, publish lock, secondary ledger | `features/pipeline.py`, `features/product.py`, `io/storage.py`, `secondary/ledger.py`, `secondary/idempotency.py` |
| `FeatureDriver` | extends `ScenePublication` with the driver and its children | `run_features_isolated.py`, `run_features.py` |
| `RunGuard` | the guard and the runner around it | `dynamic/run_guard.py`, `run_dynamic.py` |
| `DynamicPipeline` | one run over all scenes and items, its ledger and audit | `dynamic/pipeline.py`, `secondary/product.py` |
| `GuardedRuns` | extends `RunGuard` and `DynamicPipeline`: the pipeline under its guard | `run_dynamic.py` |
| `StaticProducts` | source runs and derived runs over one store | `secondary/source_pipeline.py`, `derived_pipeline.py`, `product.py` |
| `VintageProducts` | the v6 backfill of the building vintages | `secondary/lod_vintages.py`, `lod_vintages_v6.py` |
| `ArdScene` | one ARD product per scene, ledger with attempts | `ard/pipeline.py`, `product.py`, `ledger.py`, `idempotency.py` |
| `TrainingRelease` | masks per scene, then the release of a run | `training/pipeline.py`, `product.py`, `release.py` |
| `PatchIndex` | publication of the patch index | `training/patch_index.py`, `io/storage.py` |
| `OrderedDelivery` | abstract: results in order, then an end | - |
| `BoundedMap` | the parallel patch reader | `modeling/patch_cache.py` |
| `PrebuiltCache` | uploads, fetches, recovery and fallback of a packed cache | `modeling/prebuilt_cache.py`, `real_task.py` |
| `JobMatrix` | the matrix script, its launchers, Vertex, the jobs' outputs | `launch_v6_matrix.sh`, `launch_vertex_modeling.py`, `vertex_entrypoint.sh` |
| `SubmissionSlots` | the slot ledgers of the launcher | `launch_vertex_modeling.py` |
| `VmRun` | one launcher and the detached job on the machine | `vm-runner-common.sh`, `run-dynamic-vm.sh`, `start-vm.sh`, `stop-vm.sh` |
| `...Proofs` | theorems, see [the proofs](#the-proofs) | - |
| `MC...` | values, bounds, symmetry and compositions for TLC | - |

Conventions shared by all modules. An artifact is represented by **who wrote
it** or **what it was computed from**, so "mixed product" is "two names in one
folder" and "outdated product" is a name that is not the current one. A process
has a program counter named for the step it is about to take; one action is one
remote operation together with what the code does with its result up to the next
one. Local computation (composition, masking, derivation) is part of a step that
may raise. Definitions commented *Mutant* are slightly wrong variants of the
definition below them; no model uses them, they show that each checked property
depends on the code it is about.

**Faults** are a constant, a set of classes, where the classes matter: `kill`
(the process ends between any two steps), `raise` (a step raises without effect),
`late` (a remote write lands and its call raises all the same), `unwritable` (a
ledger write raises), `loss` (a stored object disappears), `blind` (a listing of
Vertex jobs fails). Elsewhere a bound on their number.

**Composition.** `FeatureDriver` extends `ScenePublication`: each child of a
driver *is* a run. `GuardedRuns` puts `DynamicPipeline` under `RunGuard`: a call
of `run_dynamic` takes steps only while its run is between acquire and release,
and a kill ends both.
Components that share no object are checked in one run side by side, with a
variable `part` that says which one moves; nothing of the one can influence the
other, so this is the same as checking them separately.

### Publication: ScenePublication, FeatureDriver, PatchIndex, TrainingRelease

`ScenePublication`: `Start` computes the configuration hash and opens the ledger
into the run's private copy `mem`; `Reconcile` gives the verdict of
`secondary/idempotency.reconcile` from that copy and from the store. `Skip` and
`Claim` are the two sides of `_process_scene` up to the `exporting` row;
`Upsert` replaces one row in the copy and writes the *whole* copy to the file.
`Compose` ends with the first marker check of `finalize_feature_product`; then
`AcquireLock`, `Recheck`, the four writes with the provenance `Readback` between
the third and the fourth, `Commit` (create-only marker), `Release`, and
`RecordDone`. An exception under the lock goes through `unlock_failed`, one
anywhere in the `try` block to `failing`, where `RecordFailed` writes the row. A
release that fails is only logged. `OperatorClearsLock` is the documented manual
removal of a stale lock, made after inspection: never of a lock whose owner is
publishing. `Visible` maps the store to `ImmutableRelease`.

`FeatureDriver` has two kinds of steps, those of drivers and their children and
`StartByHand`, a `run_features.py` beside them. `Launch` applies the `--resume`
filter and `--limit`; what is left is the list, and with the skipped scenes the
`scope` the driver answers for. `Spawn` starts a child, `ChildExits` judges it by
exit code *and* `_scene_done`, `ChildTimesOut` kills it, `DriverKilled` leaves it
running. Drivers may overlap. A driver has no configuration: each child computes
the hash from the upstream ledgers as it finds them
(`data/features/pipeline.py:268-281`), so `Spawn` takes any, and the children of
one driver may differ.

`PatchIndex`: `CheckPublished` and `CheckOccupied` before the lock, `Recheck`
under it, the two writes, `Readback`, the create-only marker and its
verification, `ReleaseLock`. `ReadbackOk` compares what the code compares: the
index by its length, the report and the marker by fingerprint; `Patches` gives
lengths so that two different indexes can have the same one.

`TrainingRelease`: a run takes the scenes of its plan one by one - a published
mask of its own policy is accepted, one of another policy ends the run, any other
scene is claimed, locked, rechecked, written, committed and recorded - and when no
scene failed it comes to the release: first look at the marker, lock, second
look, three tables, readback, create-only marker, and the outcome `report.ok`
decides about.

### Products replaced in place: ArdScene, DynamicPipeline, StaticProducts, VintageProducts

`ArdScene`: runs follow one another. `Verdict` combines the read-only preflight
of recorded mosaic inputs with `ard/idempotency.reconcile`; `BeginAttempt`, the
writes, and `RecordDone` are `_run_scene`; its handler is `BeginLate` (attempt not
begun) and `RecordFailed`. `Persist` is a ledger write: it succeeds, or it raises
with the table in memory already changed. `Stop` records how the process ended,
or what `run()` returned, and which scenes are neither done nor exhausted. `lost`
remembers the scenes that have lost an object of a complete product.

`DynamicPipeline`: for every scene the ERA5 raster, then the two shadows; a scene
without a solar position has no shadows. Each item is reconciled, claimed,
written as raster, provenance, STAC item and marker, and recorded; the closing
audit reads the whole ledger. What a call still has to do is a set of items, and
`Turn` says which of them is next. `LoseObject` removes an artifact between runs.

`StaticProducts`: a source run publishes the sources it is configured with and
audits them; a derived run resolves the sources *once*, when it starts, then
builds surface models, horizons and the sky view factor from the COGs that exist,
with the fingerprints of what it resolved. The two may overlap. A derived raster
is named by the source rasters it was computed from: `cog[p]` is the set of what
lies at the path of the product, empty when nothing does.

`VintageProducts`: for each vintage the claim of the morphology, its two
manifests, its raster, its row; then the four derived products, all of them when
the morphology was rebuilt, otherwise the missing ones, with the rows at the end.
A raster is named by the morphology hash it goes back to.

### Locks: RunGuard

`CheckExists`, `ReadRecord`, `Probe`, `DeleteStale`, `CreateLock` are the remote
calls of `acquire_run_guard` in order, so that any number of reclaimers may stand
between any two of them. `SignalSucceeds` is `os.kill(pid, 0)`: identifiers are
reused by later processes (`Start`), and a process of another account raises
`PermissionError`. `BoundDelete` says whether `blob.delete()` names the
generation that `download_as_text()` has stored in the blob, which is what the
pinned google-cloud-storage client does; the module keeps it a parameter because
the repository's code does not ask for it.

### Training jobs: BoundedMap, PrebuiltCache

`BoundedMap`: `Submit` fills a window of `2 * workers` futures, `Yield` delivers
the oldest, `Raise`, `Exhausted` and `Close` (the caller refuses a sample) lead to
`closing`, where `Cancel` and `Shutdown` end the pool. `Take`, `ReadDone`,
`ReadTransient` and `ReadFatal` are the threads. One worker reads inline. The
module refines `OrderedDelivery`.

`PrebuiltCache`: an upload checks for a manifest, writes its shards and then the
manifest; a layout maps shard names to rows, so that two uploads with different
shard sizes replace each other's shards. A job fetches manifest and shards with
bounded retries, verifies, accepts, or removes what it has and builds the cache
itself. Only a bad checksum and an `OSError` are retried (`DownloadShard`); what
else the storage service raises breaks the fetch at once (`ShardRaises`), and only
a `PrebuiltCacheError` leads to the fallback: anything else fails the job
(`FetchRaises`). Both clear the root.

### Paid jobs: JobMatrix, SubmissionSlots, VmRun

`JobMatrix`: invocations walk the pairs in a fixed order; each pair is looked up,
launched in the background, polled, given up or resubmitted. A create request may
land after its launcher has given up on it, or never. A job writes epoch curve,
checkpoint and evidence, create-only. `SubmissionSlots`: rows are reserved before
the create request, under a lock file, in a JSON file that is rewritten whole;
the efficiency ledger reads its rows *before* it takes the lock.

`VmRun`: start, prepare, detached launch, reading back the process identifier,
the probe, the evidence check, polling, the recheck of a dead job, finish, stop,
and the exit trap with its two flags `vmStarted` and `launched`. Every look at
the machine may fail; the operator may interrupt; the job may crash; the launcher
may vanish. A launch session that ends early has not run the command, or has
started the job without writing its identifier, which may follow (`PidWritten`).

## The runs

Batch processes end, so a state in which all have ended is legal, and every
configuration says `CHECK_DEADLOCK FALSE`. Symmetry is declared only in runs
without liveness properties, over identities no formula names.

| run | instance | shows |
|---|---|---|
| `feature_runs` | by hand 3 runs of 2 configurations over one scene, or 2 runs over 2 scenes; or 2 drivers with 3 children; or a driver over 2 scenes; or a driver beside a run started by hand; all faults | lock, coherence, truthful rows, exit code 0 means published, refinement of `ImmutableRelease` |
| `secondary_runs` | guard: 3 local runs, 1 remote, 2 identifiers; pipeline: 2 guarded runs, a lit and a dark scene, 2 configurations; static: 3 source and 3 derived runs; faults and a loss | exclusion and safe reclaim; done rows name what is stored and what it was made from; a return of 0 leaves nothing undone |
| `ard_scene` | 2 runs over a staged and a mosaic scene with losses, or 4 over the mosaic scene, 2 contracts, 2 attempts, all faults | done rows survive interrupted reprocessing; frozen inputs; bounded attempts; a return of 0 hides only granules that were not staged |
| `training_outputs` | 3 index publishers, 3 fingerprints, two of equal length; or 2 training runs, 2 policies, 2 scenes, one empty | coherence, immutability, truthful success, refinement |
| `job_runs` | 6 patches, 1 or 2 workers, 3 transient errors and a fatal one; or 2 uploads of 2 layouts, a job, errors and a kill; or 2 launchers of a VM run with 4 faults of 7 kinds; or 3 backfills of 2 vintages | order and termination of the map; whole cache roots and a decision; no verified job stopped, true reports, the launcher ends; a clean backfill is current |
| `vertex_jobs` | 2 invocations over 2 pairs and 2 jobs; or 3 launchers over 2 slots or the one of verification | one job per label, passed pairs are published, every invocation ends, no slot paid twice, rows only advance |

The six runs that expect a violation are described under
[what the models found](#what-the-models-found).

**Why the bounds are enough.** Everything that goes wrong in the publication
protocols needs one process that is half-way, one that has overtaken it, and at
most one more that meets the result: three identities for one item. A run or
publisher is used once, so a "re-run" is another identity, and the bound on runs
is also the bound on restarts. Two configurations give equal and different
hashes; two scenes let a run write back an old row of a scene it does not work on
(with one configuration: rows of another one are the matter of one scene); two
identifiers for four runs force their reuse; two allowed attempts and
four runs go past the limit. Six patches with a window of four (two workers) make
the window fill, drain and refill; three transient errors are one more than a
patch survives. Two vintages that share an archive and three backfills give a
rebuild, its failure and the run after it. Source runs, derived runs and
backfills are sequences, where a bad first run, a repair and a look at the result
make three. `MaxKills`, `MaxErrors`, `MaxFaults`, `MaxTroubles` and the like bound
how often something goes wrong in one behaviour, never where. In the invocations
of the matrix the second has two attempts and may resubmit, the first does not:
both settings meet. For the modules with proofs the theorems remove the bounds.

**Fairness** is assumed only where liveness is checked, and only of what the code
or its platform schedules.

* `BoundedMap`: weak fairness of the generator, of its caller, of the pool taking
  queued reads and of each read. Threads of a live process are scheduled, and a
  read ends because GDAL and the sockets have timeouts. Under it `MapEnds` holds,
  and the map implements `OrderedDelivery` *with* the abstract fairness.
* `PrebuiltCache`: weak fairness of each job's steps; nothing is assumed of
  uploads or restarts. `JobsDecide`: a job that is not killed starts training or fails.
* `JobMatrix`: weak fairness of *some* script step and of the queue deadline of a
  job; nothing of Vertex, of the launchers or of jobs. `ScriptsEnd` is therefore
  what the script's own deadlines guarantee.
* `VmRun`: weak fairness of the launcher's steps and of the budget clock, nothing
  of the job or the machine. `RunnerEnds` needs a budget: launchers without
  `POLL_MAX_SECONDS` poll as long as the job lives.

In the composed runs the same fairness applies from the moment the part starts.
The pipelines proper have no liveness property: a batch process may be stopped at
any time and nothing restarts it but a person.

## The proofs

Eight modules of theorems; all hold for any sets of processes, scenes, hashes and
any faults of the model, from the assumptions named in the modules (mostly that
the markers for "nobody" are not somebody).

`ScenePublicationProofs`: `TypeCorrect`, `LockProtects`, `Coherence`,
`TruthfulLedger`, `TruthfulReports`, `Immutability`, `Refinement`, and for the
driver `CleanExits` (runs started by hand beside the drivers included). The
inductive invariant `Inv` needs four facts besides the
checked ones. `WritersProgress` - while a publisher writes, its scene has no
marker and holds the publisher's own bytes for all it has written - is the heart
of it: it follows from the lock and from the *recheck* under the lock, and gives
`CommittedIsCoherent` at the commit. `CommittersOwnMarker` carries that to the
done row; `IdleRunsAreUnknown` fixes a run's configuration before anything can
refer to it; `BusyHasScene` says that a publisher has a scene. `StoreStep` shows
that a step changes the store in at most two ways, from which immutability and
the refinement follow. `DoneRowsAreFinal` adds `OwnRow`: a run at work sees in its
copy the row it claimed, or the done row it wrote after its commit. For the
driver, every step is a step or a stutter of the publication, so `Inv` and
immutability carry over; `Accounts` says that each scene of its scope is still to
come, at work, failed or settled - published with the configuration of the child
the driver started for it, which a run never changes, or skipped by a resume.

`GuardedRunsProofs`, from `GuardAssumptions`: one account per host, and a delete
bound to the generation that was read. First the guard alone: `GuardExcludes`,
`ReclaimIsSafe`, `ForeignLocksAreKept`. The invariant adds that an owner that has
been read has started (found dead, it stays dead) and that reclaimers are local.
Both assumptions are needed: with two accounts a live owner is reclaimed, because
`PermissionError` is taken for "no such process" (`run_guard.py:73-77`); with an
unbound delete a reclaimer deletes the lock that a faster one has created in the
meantime. Then the pipeline behind it: `DoneRowsAreTruthful`, `ZeroIsTruthful`.
The guard gives that at most one run is in a call, and the rest follows from what
that run knows: its copy of the ledger is the stored one but for a row whose write
has failed (`LedgerPart`), the artifacts before the one it is about to replace
carry its configuration (`WrittenPart`), the row of the product it replaces is
done in neither copy, and what it was asked for is still to do, has failed, or is
delivered (`ScopePart`). Without exclusion the first of these is false at once.

`TrainingOutputsProofs`, release: `ReleaseCoherence`, `CleanRuns`,
`ReleaseIsFrozen`, `MasksAreFrozen`. The invariant relates what a run has behind
it to the store: scenes it counts as done are committed with its policy
(`DonePart`), every scene of its plan is to do, done, failed or at work
(`PlanPart`), and in the release section the lock is its own and the tables it has
written are its own (`TablePart`). Since masks are frozen once committed, what a
run relied on scene by scene is still true when it commits the release. Patch
index: `IndexIsCoherent`, `PublishersAreToldTheTruth`, `IndexIsImmutable`. The
argument is that of the scene publication with one item; the truth of an
*accepted* release is a fact about fingerprints only, since that of the index is
compared by length.

`ArdSceneProofs`: `DoneRowsAreTrue`, `ZeroIsHonest`, `AttemptsStayBounded`,
`MosaicsAreFrozen`. The invariant says that file and copy of the ledger agree
whenever the run writes to a product or turns to the next scene, that the row of
the scene at work says exporting, and that each row *fits* what is stored for its
scene: a done row names the one author of all that is there, the row of a mosaic
scene carries the contract of the stored bytes, and what was visited shows in the
table. Mosaic attempts are bounded because a done product that has lost nothing is
never reprocessed under the preflight.

`SecondaryProductsProofs`, static pipelines: `SourceRunsAreTruthful`,
`DerivedRunsAreComplete`, `DoneRastersAreTrue`. A done row names a published
product (`RowPart`); a run works on one claimed product, and the two pipelines
make different ones (`WorkPart`), so the products a run has behind it are done as
it wants them unless one has failed (`RunPart`). The derived run has no closing
audit and skips a product whose input is missing *without* a failure;
`DerivedRunsAreComplete` holds all the same, because the inputs of a product come
before it in the run's order and a done row has its raster, so an input is
missing only when an earlier product of the same run has failed. The same
invariant does not give `CombinedIsAsFingerprinted`, and TLC shows why.

`SecondaryProductsProofs`, backfill: `ZeroBackfillsAreCurrent`. A done morphology
row names its raster, since the row is claimed before the first byte
(`MorphologyOk`, `ClaimPart`); the done products of a vintage go back to that row
unless the vintage is owed its bundle (`BundleOk`), which a rebuilt morphology is
until the last row of the bundle is written; and a run that has not counted a
failure owes at most the vintage it is at (`SoundPart`). Vintages an earlier run
has *left* owing are exempt: this is the gap `stale_vintage` is about.

`PatchCacheProofs`, prebuilt cache: `ShardsAreThere`, `RootsAreWhole`,
`FailuresCleanUp`. An upload in progress that has met no error has written every
shard it no longer has to do (`UploadPart`); what a job has fetched agrees with
the manifest it read, which nobody replaces (`FetchPart`); and a root survives its
job only in the hands of a restarted one (`RootPart`). Reader: `NothingReadsOn`,
`FewErrorsAreSurvived`, `MemoryIsBounded`, `OrderIsKept` (the safety part of the
refinement). The deque always holds the last items taken, in order, and every
waiting read is among them; while the generator iterates so is every running one,
so the inline worker never starts a second read (`RoomInv`).

`VertexJobsProofs`, matrix: `LabelsAreOfOneJob`, `PassedPairsHaveOutput`. The
epoch curve is uploaded first and create-only, so every other object under a label
is of the job of its curve (`LabelPart`); a job knows what it has uploaded
(`JobPart`); and each script or launcher that waits for a job waits for one of its
pair (`ScriptPart`, `LauncherPart`), so that the job a script continues after has
published the label. This holds whatever invocations overlap, are killed, or
launch a second job for a pair. Slots: `OneCreate`, `RowsAdvance`, for any number
of launchers and slots. A launcher's copy of the ledger is a prefix, row by row
behind the file; a slot has one launcher from its reservation on; a create follows
only the launcher's own reservation.

`VmRunProofs`: `VerifiedJobsSurvive`, `ReportsAreTrue`. The machine is stopped in
two places: before a success is reported an exit status has been read, and a job
that has left one no longer runs; the exit trap stops a machine only while the
launch is not verified, and no step takes that flag back before it has dropped
`vmStarted`.

Only model-checked: `MapEnds`, `JobsDecide`, `RunnerEnds` and `ScriptsEnd`, the
liveness properties, and the fairness half of `DeliversInOrder`, all out of the
prover's reach, as is ENABLED. Every invariant, action property and refinement of
the passing runs has a theorem but for that half. The theorems speak of the
specification of each component; those about the dynamic pipeline speak of
`GuardedSpec`, in which a run that starts makes a call, while `secondary_runs` has
the guard among runs of other pipelines as well.
Type invariants other than that of `ScenePublication` are parts of the proofs'
invariants and of no run. The proofs need no induction over data: the order in
which a work list is gone through is only needed to have a first member, which
follows from the well-foundedness of the natural numbers (`LeastNumber`).

## What the models found

Each is a run expected to be violated; `PROJECT.json` quotes the sentence it
contradicts.

| run | what happens |
|---|---|
| `scene_publication_rerun` | a kill between the marker and the done row leaves a published scene that every re-run reports as failed |
| `ard_gate` | a killed reprocessing leaves `complete.json` over artifacts of two runs |
| `combined_surface_model` | a derived run that fails to rebuild the vegetation model computes the combined one from the old raster and records it with the new hash; the next, clean run keeps it |
| `matrix_resubmit` | a label is accepted for resubmission although the failed job has left the epoch curve the new one must create: the paid job fails at its upload |
| `stale_vintage` | a backfill that rebuilds a morphology and fails before the bundle leaves done rows on old rasters; the next run returns 0 |
| `vm_launch` | two failed contacts right after the process identifier was read back make the launcher stop the machine under the job it has just launched |

Seen while modelling, and not the subject of a run of their own:

* `scene_publication_rerun` has a second way to fail, without any kill:
  configuration A publishes, B is refused but replaces the done row by a failed
  one, and A then fails its own scene for ever.
* A driver that exits 0 may leave scenes of several configurations
  (`LeavesOneConfiguration`, `FeatureDriver`): `--resume` skips scenes of an older
  one, and without it the upstream ledgers may change between two children.
* The matrix script's "no duplicate" (`launch_v6_matrix.sh:38-39`) does not
  survive a kill of an invocation: its launcher's create may land after the next
  one has looked (`NoDuplicateIsCreated`). Labels stay one job's all the same:
  the outputs are create-only.
* A training run over a subset of the scenes can leave a release which a later
  full run meets and accepts as already complete (`release.py:224-250`,
  `CleanRunIsReleased`).
* An upload of a prebuilt cache with `--overwrite` and another shard size replaces
  shards a published manifest still lists (`PublishedStaysFetchable`): readers
  refuse and fall back, as `ReadyRootIsWhole` and `JobsDecide` show.
* `no_run_guard` starts a run that does not look at the lock, so the guard
  excludes only the runs that use it. An unknown `scene_ids` entry selects nothing
  and `run_dynamic` returns 0.
* What `run()` returns is dropped by Hydra in `run_ard.py` and the static runner:
  they exit 0 either way. A failed ECOSTRESS download leaves no row, and `run()`
  returns 0; `ZeroReturnHidesOnlyUnstaged` shows that nothing else is hidden so.
* The v6 runner compares no hash for the derived products of a vintage, so a
  changed vegetation input rebuilds nothing, whatever the sky-view docstring says.
* `start-vm.sh` can end on its address timeout before the caller has set the exit
  trap, and an interrupt between launch and verification stops the machine.

`DoneRowsNameTheirProduct` shows the limit of `ard_gate`: readers that consult
the *ledger* are safe, since the row leaves `done` before the first byte changes;
only readers that trust the marker alone are not.

Properties that are proved but belong to no run: `DoneIsFinal` and
`ReportsAreTruthful` in `ScenePublication`, `ReclaimsOwnHostOnly` in `RunGuard`,
`WindowIsBounded` in `BoundedMap`, `OnlyAKillLeavesARoot` in `PrebuiltCache`. Those
named above that do not hold are stated as well.

## Assumptions and limits

* Storage is Google Cloud Storage as the code uses it: single-object writes are
  atomic and strongly consistent, create-only preconditions hold. Temp objects
  and their pruning are not modelled.
* Operators remove a lock only when its owner is seen to be no longer at work, and
  start a VM run only when no job runs there, as the scripts tell them to.
* `BoundDelete` is a property of the client library, not of the repository.
* A ledger write that raises outside the `try` block ends the process; in
  `ScenePublication` that is a `Kill` at this step.
* ARD runs over one root are serial, and so are backfills, source runs among
  themselves and derived runs among themselves: nothing in the code enforces it,
  it is how the runners are used. Concurrent ARD runs would lose each other's rows
  and mix products.
* `ArdScene` reconciles each scene when its turn comes instead of all of them
  first; nothing a run does to one scene changes the row or files of another.
* `AttemptsAreBounded` speaks of mosaic scenes: reprocessing a done scene of
  another kind legally counts further, since `attempts` is never reset. An
  unwritable ledger counts one attempt twice, and the bound says so.
* Other uploads, jobs and launchers than those of the model share no object with
  it: labels, cache keys and slots are per release.
* The statuses `pending` and `skipped` exist in the ledgers' vocabulary but no
  writer sets them; the models leave them out, with the capped `attempts` column
  of the secondary ledger, which nothing reads.

## Not modelled

Most of the repository's lines are raster and table arithmetic, parsing,
configuration, plotting, reports and their tests; the models map the control of
the code that publishes, launches and decides, which is a small share of all
lines. Left out, and why:

* **Numerics** - masks, mosaics, ERA5, shadows, horizons, surface models, the
  scaler, networks, forests, metrics, TESSERA embeddings: floating-point functions
  without state; out of TLC's reach.
* **Manifest selection**, split assignment, cell index, frozen output roots:
  functions of one table or of strings, without steps; their tests enumerate the cases.
* **Acquisition and STAC clients**: network I/O, seen as steps that raise.
* **QA gates, validators, EDA, diagnostics, Stadtstruktur tables**: read-only.
* **Training lifecycle** (`modeling/run.py`): one process under the callbacks of a
  training library; what it leaves behind is part of `JobMatrix`.
* **Storage internals**: temp objects, retries and pruning below one write.
  Pruning can delete the temp object of a publisher slower than an hour.
* **Staging directories**: one process each; two sessions sharing a base directory
  may remove it, empty, under each other. The horizon cache is keyed on a geometry
  identifier alone; both are read from the code, not checked.
* **Coverage gate**: it recognises excluded scenes by an error text in the row,
  which a killed retry replaces; error texts are not part of `ArdScene`.
* Of partly modelled components: the discovery of run identifiers and log copying
  (VM), argument checks and metric validation (Vertex), packing (prebuilt cache),
  window enumeration (patch index), tile filters and the carry-forward of years
  (vintages), the eight-row smoke mode (ARD).
