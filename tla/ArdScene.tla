------------------------------ MODULE ArdScene ------------------------------
(***************************************************************************)
(* Analysis-ready data: one product per scene (data/ard/pipeline.py,       *)
(* product.py), the attempt-counting ledger (data/ard/ledger.py) and the   *)
(* reconciliation that decides what a run reprocesses                      *)
(* (data/ard/idempotency.py).                                              *)
(*                                                                         *)
(* Runs over one output root follow one another; each may be killed at any *)
(* step.  A product is rewritten in place: unlike a feature stack, it has  *)
(* no lock, and its completion marker stays while it is rewritten.         *)
(* A contract is a schema version; for a mosaic scene (Sentinel-2 schema   *)
(* 10) it is the hash of the recorded input contract.                      *)
(***************************************************************************)
EXTENDS Naturals, FiniteSets

CONSTANTS Runs, Scenes, Contracts,
          Staged,      \* ECOSTRESS scenes: their granule is downloaded first
          Mosaic,      \* Sentinel-2 schema-10 scenes: their inputs are frozen
          MaxAttempts, \* max_scene_attempts
          Faults,      \* classes of faults that may happen
          NoRun, NoScene, NoContract

ASSUME ArdAssumption ==
  /\ Staged \subseteq Scenes /\ Mosaic \subseteq Scenes
  /\ MaxAttempts \in Nat \ {0}
  /\ NoRun \notin Runs /\ NoScene \notin Scenes /\ NoContract \notin Contracts

\* "raise": a step raises without effect; "unwritable": so does a ledger write;
\* "late": a write lands and its call raises; "loss": a stored object vanishes.
ASSUME ArdFaultAssumption == Faults \subseteq {"kill", "raise", "unwritable", "late", "loss"}

VARIABLES
  artifact,  \* scene -> artifact -> the run whose bytes are stored
  marker,    \* scene -> the run that wrote complete.json last
  lost,      \* scenes that have lost an object of a complete product
  ledger,    \* the rows of ledger.parquet as last written
  mem,       \* the copy of the current run
  contract,  \* run -> the contract it was configured with
  run,       \* the current run
  todo,      \* scenes it has not reconciled yet
  scene,     \* the scene it is processing
  pc,        \* the step it is about to take
  outcome    \* run -> the scenes of its sources, how it ended

store == <<artifact, marker, lost>>
progress == <<contract, run, todo>>
vars == <<store, ledger, mem, progress, scene, pc, outcome>>

Artifacts == {"cog", "flag", "provenance", "stac"}
Row == [status : {"absent", "exporting", "done", "failed", "exhausted"},
        contract : Contracts \cup {NoContract},
        attempts : Nat,
        run : Runs \cup {NoRun}]
Absent == [status |-> "absent", contract |-> NoContract, attempts |-> 0, run |-> NoRun]

\* The steps of _run_scene inside its try block, after begin_attempt.
Attempt == {"load", "validate", "complete", "record"} \cup Artifacts
Steps == {"none", "loop", "begin", "failing", "failing_unstarted"} \cup Attempt

TypeOK ==
  /\ artifact \in [Scenes -> [Artifacts -> Runs \cup {NoRun}]]
  /\ marker \in [Scenes -> Runs \cup {NoRun}]
  /\ lost \subseteq Scenes
  /\ ledger \in [Scenes -> Row] /\ mem \in [Scenes -> Row]
  /\ contract \in [Runs -> Contracts \cup {NoContract}]
  /\ run \in Runs \cup {NoRun}
  /\ todo \subseteq Scenes
  /\ scene \in Scenes \cup {NoScene}
  /\ pc \in Steps
  /\ outcome \in [Runs -> [ended : {"none", "zero", "one", "raised", "killed"},
                           asked : SUBSET Scenes, left : SUBSET Scenes]]

Init ==
  /\ artifact = [s \in Scenes |-> [a \in Artifacts |-> NoRun]]
  /\ marker = [s \in Scenes |-> NoRun]
  /\ lost = {}
  /\ ledger = [s \in Scenes |-> Absent] /\ mem = ledger
  /\ contract = [r \in Runs |-> NoContract]
  /\ run = NoRun /\ todo = {} /\ scene = NoScene /\ pc = "none"
  /\ outcome = [r \in Runs |-> [ended |-> "none", asked |-> {}, left |-> {}]]

-----------------------------------------------------------------------------
(* The run                                                                 *)

\* cfg.sources names the sources of a run, and with them its scenes.
Start(r, c, selection) ==
  /\ run = NoRun /\ contract[r] = NoContract
  /\ run' = r /\ contract' = [contract EXCEPT ![r] = c]
  /\ todo' = selection /\ mem' = ledger /\ pc' = "loop"
  /\ outcome' = [outcome EXCEPT ![r].asked = selection]
  /\ UNCHANGED <<store, ledger, scene>>

\* The end of the process: how it ended, and the scenes of its sources whose rows
\* are neither done nor exhausted by then.
Stop(ended) ==
  /\ outcome' = [outcome EXCEPT ![run] =
       [ended |-> ended, asked |-> {},
        left |-> {s \in outcome[run].asked : ledger'[s].status \notin {"done", "exhausted"}}]]
  /\ run' = NoRun /\ todo' = {} /\ scene' = NoScene /\ pc' = "none"
  /\ mem' = [s \in Scenes |-> Absent]
  /\ UNCHANGED <<store, contract>>

\* Writing the whole ledger either succeeds, or raises with the table in memory
\* already changed, and the file changed only if the write landed after all.
Persist(table, ok) ==
  \/ ok /\ ledger' = table
  \/ ~ok /\ "unwritable" \in Faults /\ ledger' = ledger
  \/ ~ok /\ "late" \in Faults /\ ledger' = table

\* A mosaic run stops before it touches anything when a row of one of its scenes
\* records another input contract.
Drifted(s) == s \in Mosaic /\ mem[s].status # "absent" /\ mem[s].contract # contract[run]

RefuseDrift ==
  /\ pc = "loop" /\ \E s \in todo : Drifted(s)
  /\ UNCHANGED ledger
  /\ Stop("raised")

\* The code reconciles all scenes of a source before it processes the first.
\* Here each scene is reconciled when its turn comes: nothing a run does to one
\* scene changes the row or the files of another, so the verdicts are the same.

\* Whether the artifacts a done row promises are all stored.
FilesExist(s) == marker[s] # NoRun /\ \A a \in Artifacts : artifact[s][a] # NoRun

\* Mutant: one attempt too many.
ReconcileGenerous(row, s) ==
  CASE row.status = "absent" -> "new"
    [] row.status = "done" -> IF FilesExist(s) THEN "skip" ELSE "interrupted"
    [] row.status \in {"failed", "exporting"} ->
         IF row.attempts > MaxAttempts THEN "exhaust" ELSE "retry"
    [] row.status = "exhausted" -> "skip"

Reconcile(row, s) ==
  CASE row.status = "absent" -> "new"
    [] row.status = "done" /\ row.contract = contract[run] ->
         IF FilesExist(s) THEN "skip" ELSE "interrupted"
    [] row.status = "done" /\ row.contract # contract[run] -> "schema_changed"
    [] row.status \in {"failed", "exporting"} ->
         IF row.attempts >= MaxAttempts THEN "exhaust" ELSE "retry"
    [] row.status = "exhausted" -> "skip"

\* Mutant: the recorded input contracts are not compared before reconciling.
VerdictWithoutPreflight(s, verdicts) ==
  pc = "loop" /\ s \in todo /\ Reconcile(mem[s], s) \in verdicts

Verdict(s, verdicts) ==
  /\ pc = "loop" /\ s \in todo
  /\ s \in Mosaic => \A t \in Mosaic : ~Drifted(t)
  /\ Reconcile(mem[s], s) \in verdicts

Skip(s) ==
  /\ Verdict(s, {"skip"})
  /\ todo' = todo \ {s}
  /\ UNCHANGED <<store, ledger, mem, contract, run, scene, pc, outcome>>

\* The row keeps its other fields.
MarkExhausted(s) ==
  LET table == [mem EXCEPT ![s].status = "exhausted"] IN
  /\ Verdict(s, {"exhaust"})
  /\ \/ /\ Persist(table, TRUE) /\ mem' = table /\ todo' = todo \ {s}
        /\ UNCHANGED <<store, contract, run, scene, pc, outcome>>
     \/ Persist(table, FALSE) /\ Stop("raised")

\* The granule of a staged scene cannot be downloaded: logged, no row written.
StagingFails(s) ==
  /\ "raise" \in Faults /\ s \in Staged
  /\ Verdict(s, {"new", "interrupted", "schema_changed", "retry"})
  /\ todo' = todo \ {s}
  /\ UNCHANGED <<store, ledger, mem, contract, run, scene, pc, outcome>>

\* Mutant: the attempt is not begun.
ProcessAtOnce(s) ==
  /\ Verdict(s, {"new", "interrupted", "schema_changed", "retry"})
  /\ todo' = todo \ {s} /\ scene' = s /\ pc' = "load"
  /\ UNCHANGED <<store, ledger, mem, contract, run, outcome>>

Process(s) ==
  /\ Verdict(s, {"new", "interrupted", "schema_changed", "retry"})
  /\ todo' = todo \ {s} /\ scene' = s /\ pc' = "begin"
  /\ UNCHANGED <<store, ledger, mem, contract, run, outcome>>

\* run() returns 1 if the ledger has failed rows of its sources; Hydra drops what
\* main returns, so the process exits with 0 either way.
Finish ==
  /\ pc = "loop" /\ todo = {}
  /\ UNCHANGED ledger
  /\ Stop(IF \E s \in outcome[run].asked : mem[s].status = "failed" THEN "one" ELSE "zero")

-----------------------------------------------------------------------------
(* _run_scene: one attempt at one scene                                    *)

\* Only the rows of a mosaic scene carry the contract before they are done.
AttemptRow(status, attempts) ==
  [status |-> status, attempts |-> attempts, run |-> run,
   contract |-> IF scene \in Mosaic THEN contract[run] ELSE NoContract]

\* A ledger write of _run_scene: the row, and where the run goes if it raises.
WriteRow(row, next, otherwise) ==
  LET table == [mem EXCEPT ![scene] = row] IN
  /\ mem' = table
  /\ \/ Persist(table, TRUE) /\ pc' = next
     \/ Persist(table, FALSE) /\ pc' = otherwise
  /\ UNCHANGED <<store, progress, scene, outcome>>

\* Mutant: the attempt is begun in memory only.
BeginAttemptInMemory ==
  /\ pc = "begin"
  /\ mem' = [mem EXCEPT ![scene] = AttemptRow("exporting", mem[scene].attempts + 1)]
  /\ pc' = "load"
  /\ UNCHANGED <<store, ledger, progress, scene, outcome>>

BeginAttempt ==
  /\ pc = "begin"
  /\ WriteRow(AttemptRow("exporting", mem[scene].attempts + 1), "load", "failing_unstarted")

Moves(step) == pc' = step /\ UNCHANGED <<store, ledger, mem, progress, scene, outcome>>

Load == pc = "load" /\ Moves("cog")

\* Every artifact is written over what is there.
Write(a, next) ==
  /\ pc = a
  /\ artifact' = [artifact EXCEPT ![scene][a] = run]
  /\ pc' = next
  /\ UNCHANGED <<marker, lost, ledger, mem, progress, scene, outcome>>

WriteCog == Write("cog", "flag")
WriteFlag == Write("flag", "validate")
WriteProvenance == Write("provenance", "stac")
WriteStac == Write("stac", "complete")

\* Both rasters are read back and validated before the sidecars are written.
Validate == pc = "validate" /\ Moves("provenance")

WriteComplete ==
  /\ pc = "complete"
  /\ marker' = [marker EXCEPT ![scene] = run]
  /\ pc' = "record"
  /\ UNCHANGED <<artifact, lost, ledger, mem, progress, scene, outcome>>

RecordDone ==
  /\ pc = "record"
  /\ LET row == [status |-> "done", contract |-> contract[run],
                 attempts |-> mem[scene].attempts, run |-> run]
         table == [mem EXCEPT ![scene] = row]
     IN /\ mem' = table
        /\ \/ Persist(table, TRUE) /\ pc' = "loop" /\ scene' = NoScene
           \/ Persist(table, FALSE) /\ pc' = "failing" /\ UNCHANGED scene
  /\ UNCHANGED <<store, progress, outcome>>

StepRaises == "raise" \in Faults /\ pc \in Attempt \ {"record"} /\ Moves("failing")

\* A write lands although its call raises.
WriteLate ==
  /\ "late" \in Faults /\ pc \in Artifacts \cup {"complete"}
  /\ IF pc = "complete"
       THEN marker' = [marker EXCEPT ![scene] = run] /\ UNCHANGED artifact
       ELSE artifact' = [artifact EXCEPT ![scene][pc] = run] /\ UNCHANGED marker
  /\ pc' = "failing"
  /\ UNCHANGED <<lost, ledger, mem, progress, scene, outcome>>

\* The handler counts an attempt that could not be begun, then records the
\* failure; an exception in the handler ends the run.
BeginLate ==
  /\ pc = "failing_unstarted"
  /\ LET table == [mem EXCEPT ![scene] = AttemptRow("exporting", mem[scene].attempts + 1)]
     IN \/ /\ Persist(table, TRUE) /\ mem' = table /\ pc' = "failing"
           /\ UNCHANGED <<store, progress, scene, outcome>>
        \/ Persist(table, FALSE) /\ Stop("raised")

\* Mutant: a failure that cannot be recorded is logged and passed over.
RecordFailedOrPass ==
  /\ pc = "failing"
  /\ LET table == [mem EXCEPT ![scene] = AttemptRow("failed", mem[scene].attempts)]
     IN \/ Persist(table, TRUE) /\ mem' = table
        \/ Persist(table, FALSE) /\ mem' = mem
  /\ pc' = "loop" /\ scene' = NoScene
  /\ UNCHANGED <<store, progress, outcome>>

RecordFailed ==
  /\ pc = "failing"
  /\ LET table == [mem EXCEPT ![scene] = AttemptRow("failed", mem[scene].attempts)]
     IN \/ /\ Persist(table, TRUE) /\ mem' = table /\ pc' = "loop" /\ scene' = NoScene
           /\ UNCHANGED <<store, progress, outcome>>
        \/ Persist(table, FALSE) /\ Stop("raised")

Kill == "kill" \in Faults /\ run # NoRun /\ UNCHANGED ledger /\ Stop("killed")

\* An object of a complete product is lost between two runs (an incomplete
\* mirror, a manual deletion).
Lose(s) ==
  /\ "loss" \in Faults /\ run = NoRun /\ FilesExist(s)
  /\ \/ \E a \in Artifacts : /\ artifact[s][a] # NoRun
                             /\ artifact' = [artifact EXCEPT ![s][a] = NoRun]
                             /\ UNCHANGED marker
     \/ /\ marker[s] # NoRun
        /\ marker' = [marker EXCEPT ![s] = NoRun]
        /\ UNCHANGED artifact
  /\ lost' = lost \cup {s}
  /\ UNCHANGED <<ledger, mem, progress, scene, pc, outcome>>

ScenePasses ==
  \/ BeginAttempt \/ Load \/ WriteCog \/ WriteFlag \/ Validate \/ WriteProvenance
  \/ WriteStac \/ WriteComplete \/ RecordDone

SceneFails == StepRaises \/ WriteLate \/ BeginLate \/ RecordFailed

Next ==
  \/ \E r \in Runs, c \in Contracts, selection \in (SUBSET Scenes) \ {{}} : Start(r, c, selection)
  \/ \E s \in Scenes : Skip(s) \/ MarkExhausted(s) \/ StagingFails(s) \/ Process(s)
  \/ RefuseDrift \/ Finish \/ ScenePasses \/ SceneFails \/ Kill
  \/ \E s \in Scenes : Lose(s)

Spec == Init /\ [][Next]_vars

-----------------------------------------------------------------------------

\* A done row in the ledger file names the run whose bytes are stored, for every
\* artifact and the marker that are still there: no interrupted reprocessing of
\* a published scene leaves a done row on a product of two runs.
DoneRowsNameTheirProduct ==
  \A s \in Scenes : ledger[s].status = "done" =>
    LET r == ledger[s].run IN
    /\ contract[r] = ledger[s].contract
    /\ marker[s] \in {r, NoRun}
    /\ \A a \in Artifacts : artifact[s][a] \in {r, NoRun}

\* "existing products and ledger are preserved": what is stored of a mosaic
\* scene is never overwritten by a run of another input contract, however many
\* attempts at the scene failed or were killed before.
MosaicIsFrozen ==
  [][\A s \in Mosaic, a \in Artifacts :
       artifact'[s][a] \notin {artifact[s][a], NoRun} =>
         \A b \in Artifacts : artifact[s][b] # NoRun =>
           contract[artifact[s][b]] = contract[artifact'[s][a]]]_store

\* No mosaic scene is attempted more often than max_scene_attempts, over any number
\* of killed and failed runs and recorded input contracts.  A begin_attempt whose
\* write raised is counted twice, by itself and by the handler, and may exceed the
\* limit by that one; a done product that has lost an object is attempted again.
AttemptsAreBounded ==
  \A s \in Mosaic \ lost : ledger[s].attempts <=
    IF Faults \cap {"unwritable", "late"} = {} THEN MaxAttempts ELSE MaxAttempts + 1

\* "Returns 0 on success, 1 if any scene failed": a run that returns 0 leaves every
\* scene of its sources done or exhausted, but for the granules it could not stage, which leave
\* no row - whatever failed or could not be recorded on the way.
ZeroReturnHidesOnlyUnstaged ==
  \A r \in Runs : outcome[r].ended = "zero" => outcome[r].left \subseteq Staged

\* "complete.json completion marker written last as the publication gate": a
\* scene with a marker holds the four artifacts of the run that wrote it.
GateShowsWholeProduct ==
  \A s \in Scenes : marker[s] # NoRun =>
    \A a \in Artifacts : artifact[s][a] = marker[s]

=============================================================================
