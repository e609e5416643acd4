-------------------------- MODULE DynamicPipeline --------------------------
(***************************************************************************)
(* run_dynamic (data/dynamic/pipeline.py): for every selected scene the    *)
(* ERA5 raster, then the building and the vegetation shadows, each item    *)
(* reconciled with the ledger, claimed, replaced in place by               *)
(* finalize_secondary_product and recorded; at the end an audit of the     *)
(* whole ledger decides what the run returns.                              *)
(*                                                                         *)
(* A stored artifact is named by the configuration hash it was prepared    *)
(* with.  What keeps two invocations apart is the run guard, which this    *)
(* module does not know (GuardedRuns joins them).                          *)
(***************************************************************************)
EXTENDS Naturals, Sequences

CONSTANTS Invocations, \* runs of the pipeline
          NumScenes,   \* the scenes of the manifest, numbered in processing order
          Dark,        \* the scenes whose solar position is missing
          Configs,     \* run configurations (manifest, geometry, era5 settings)
          Fingerprint, \* configuration -> source -> configuration hash
          MaxFaults,   \* bound: items and writes that raise, in all
          MaxLosses,   \* bound: stored objects removed between runs
          None

Scenes == 1..NumScenes
Stage == [era5_land |-> 1, shadow_building |-> 2, shadow_vegetation |-> 3]
Sources == DOMAIN Stage
Artifacts == <<"cog", "provenance", "stac", "complete">>

\* A scene without a solar position gets no shadows.
ItemsOf(s) == {<<s, source>> : source \in IF s \in Dark THEN {"era5_land"} ELSE Sources}

WorkList(scope) == UNION {ItemsOf(s) : s \in scope}
Items == WorkList(Scenes)
Names == {Artifacts[i] : i \in 1..4}
Hashes == {Fingerprint[c][source] : c \in Configs, source \in Sources}

ASSUME DynamicAssumption ==
  /\ NumScenes \in Nat \ {0} /\ Dark \subseteq Scenes
  /\ Configs # {} /\ None \notin Hashes
  /\ MaxFaults \in Nat /\ MaxLosses \in Nat

VARIABLES
  rows,   \* the stored ledger: item -> status and configuration hash
  table,  \* run -> its copy of the ledger
  stored, \* item -> artifact -> the hash it was prepared with
  setup,  \* run -> its configuration and the scenes its filter selects
  todo,   \* run -> the items it has still to look at
  at,     \* run -> the step it is about to take
  failed, \* the runs that have counted a failed item
  status, \* run -> what run_dynamic returned
  faults, losses

dynamicVars == <<rows, table, stored, setup, todo, at, failed, status, faults, losses>>

NoRow == [status |-> "none", hash |-> None]
NoSetup == [config |-> CHOOSE c \in Configs : TRUE, scope |-> {}]
Row(st, h) == [status |-> st, hash |-> h]
Ledger == [Items -> {Row(st, h) : st \in {"none", "exporting", "failed"}, h \in {None}}
                    \cup {Row("done", h) : h \in Hashes}]
Unfinished == {"open", "item", "claim", "row", "failed"} \cup Names

DynamicTypeOK ==
  /\ rows \in Ledger
  /\ table \in [Invocations -> Ledger]
  /\ stored \in [Items -> [Names -> Hashes \cup {None}]]
  /\ setup \in [Invocations -> [config : Configs, scope : SUBSET Scenes]]
  /\ todo \in [Invocations -> SUBSET Items]
  /\ at \in [Invocations -> Unfinished \cup {"off", "over"}]
  /\ failed \subseteq Invocations
  /\ status \in [Invocations -> {"none", "zero", "one", "raised"}]
  /\ faults \in 0..MaxFaults /\ losses \in 0..MaxLosses

DynamicInit ==
  /\ rows = [i \in Items |-> NoRow]
  /\ table = [r \in Invocations |-> rows]
  /\ stored = [i \in Items |-> [n \in Names |-> None]]
  /\ setup = [r \in Invocations |-> NoSetup]
  /\ todo = [r \in Invocations |-> {}]
  /\ at = [r \in Invocations |-> "off"]
  /\ failed = {}
  /\ status = [r \in Invocations |-> "none"]
  /\ faults = 0 /\ losses = 0

\* Scene after scene, and in each the ERA5 raster first.
Turn(i) == 3 * i[1] + Stage[i[2]]
Item(r) == CHOOSE i \in todo[r] : \A j \in todo[r] : Turn(i) <= Turn(j)
FingerprintOf(r, i) == Fingerprint[setup[r].config][i[2]]
To(r, step) == at' = [at EXCEPT ![r] = step]
Ends(r, how) == To(r, "over") /\ status' = [status EXCEPT ![r] = how]
Fault == faults < MaxFaults /\ faults' = faults + 1

\* upsert changes the run's copy and then writes it back whole; a write that
\* raises may have landed all the same.
Upsert(r, st, h) == table' = [table EXCEPT ![r][Item(r)] = Row(st, h)]
Persist(r) == rows' = table'[r]
PersistRaises(r) == Fault /\ (UNCHANGED rows \/ Persist(r))

-----------------------------------------------------------------------------

Call(r) ==
  /\ at[r] = "off"
  /\ \E c \in Configs, sc \in (SUBSET Scenes) \ {{}} :
       setup' = [setup EXCEPT ![r] = [config |-> c, scope |-> sc]]
  /\ To(r, "open")
  /\ UNCHANGED <<rows, table, stored, todo, failed, status, faults, losses>>

\* The manifest or the geometry mapping cannot be loaded or does not cover the
\* scenes: 1 is returned, or a file cannot be read: an exception ends the run,
\* before the ledger is opened.
PreflightFails(r) ==
  /\ at[r] = "open" /\ Fault
  /\ \E how \in {"one", "raised"} : Ends(r, how)
  /\ UNCHANGED <<rows, table, stored, setup, todo, failed, losses>>

OpenLedger(r) ==
  /\ at[r] = "open"
  /\ table' = [table EXCEPT ![r] = rows]
  /\ todo' = [todo EXCEPT ![r] = WorkList(setup[r].scope)]
  /\ To(r, "item")
  /\ UNCHANGED <<rows, stored, setup, failed, status, faults, losses>>

UpToDate(r, i) ==
  /\ table[r][i] = Row("done", FingerprintOf(r, i))
  /\ stored[i].cog # None /\ stored[i].complete # None

Reconcile(r) ==
  /\ at[r] = "item" /\ todo[r] # {}
  /\ IF UpToDate(r, Item(r))
       THEN todo' = [todo EXCEPT ![r] = @ \ {Item(r)}] /\ UNCHANGED at
       ELSE To(r, "claim") /\ UNCHANGED todo
  /\ UNCHANGED <<rows, table, stored, setup, failed, status, faults, losses>>

\* Mutant: the exporting row is kept in memory only.
ClaimInMemory(r) ==
  /\ at[r] = "claim"
  /\ Upsert(r, "exporting", None)
  /\ To(r, "cog")
  /\ UNCHANGED <<rows, stored, setup, todo, failed, status, faults, losses>>

Claim(r) ==
  /\ at[r] = "claim"
  /\ Upsert(r, "exporting", None) /\ Persist(r)
  /\ To(r, "cog")
  /\ UNCHANGED <<stored, setup, todo, failed, status, faults, losses>>

\* The claim is written outside the try block: its failure ends the run.
ClaimRaises(r) ==
  /\ at[r] = "claim"
  /\ Upsert(r, "exporting", None) /\ PersistRaises(r)
  /\ Ends(r, "raised")
  /\ UNCHANGED <<stored, setup, todo, failed, losses>>

\* One artifact after the other is replaced, the completion marker last.
Write(r, n) ==
  /\ at[r] = Artifacts[n]
  /\ stored' = [stored EXCEPT ![Item(r)][Artifacts[n]] = FingerprintOf(r, Item(r))]
  /\ To(r, IF n = 4 THEN "row" ELSE Artifacts[n + 1])
  /\ UNCHANGED <<rows, table, setup, todo, failed, status, faults, losses>>

\* Preparing, writing or validating the product raises; a write may have landed.
WriteRaises(r, n) ==
  /\ at[r] = Artifacts[n] /\ Fault
  /\ \/ UNCHANGED stored
     \/ stored' = [stored EXCEPT ![Item(r)][Artifacts[n]] = FingerprintOf(r, Item(r))]
  /\ To(r, "failed")
  /\ UNCHANGED <<rows, table, setup, todo, failed, status, losses>>

RecordDone(r) ==
  /\ at[r] = "row"
  /\ Upsert(r, "done", FingerprintOf(r, Item(r))) /\ Persist(r)
  /\ todo' = [todo EXCEPT ![r] = @ \ {Item(r)}]
  /\ To(r, "item")
  /\ UNCHANGED <<stored, setup, failed, status, faults, losses>>

RecordDoneRaises(r) ==
  /\ at[r] = "row"
  /\ Upsert(r, "done", FingerprintOf(r, Item(r))) /\ PersistRaises(r)
  /\ To(r, "failed")
  /\ UNCHANGED <<stored, setup, todo, failed, status, losses>>

\* Circuit breaker: a scene whose ERA5 item has failed loses its shadows.
Dropped(i) == IF i[2] = "era5_land" THEN ItemsOf(i[1]) ELSE {i}

RecordFailed(r) ==
  /\ at[r] = "failed"
  /\ Upsert(r, "failed", None) /\ Persist(r)
  /\ todo' = [todo EXCEPT ![r] = @ \ Dropped(Item(r))]
  /\ failed' = failed \cup {r}
  /\ To(r, "item")
  /\ UNCHANGED <<stored, setup, status, faults, losses>>

RecordFailedRaises(r) ==
  /\ at[r] = "failed"
  /\ Upsert(r, "failed", None) /\ PersistRaises(r)
  /\ Ends(r, "raised")
  /\ UNCHANGED <<stored, setup, todo, failed, losses>>

\* find_failed_ledger_rows looks at every row, those of scenes the run's filter
\* left out included.
FailedRows(r) == {i \in Items : table[r][i].status \in {"failed", "exporting"}}

\* Mutant: only the count of this run decides.
AuditOwnFailures(r) ==
  /\ at[r] = "item" /\ todo[r] = {}
  /\ Ends(r, IF r \notin failed THEN "zero" ELSE "one")
  /\ UNCHANGED <<rows, table, stored, setup, todo, failed, faults, losses>>

Audit(r) ==
  /\ at[r] = "item" /\ todo[r] = {}
  /\ Ends(r, IF FailedRows(r) = {} /\ r \notin failed THEN "zero" ELSE "one")
  /\ UNCHANGED <<rows, table, stored, setup, todo, failed, faults, losses>>

\* The report that precedes the audit cannot be stored.
ReportRaises(r) ==
  /\ at[r] = "item" /\ todo[r] = {} /\ Fault
  /\ Ends(r, "raised")
  /\ UNCHANGED <<rows, table, stored, setup, todo, failed, losses>>

DynamicStep(r) ==
  \/ Call(r) \/ PreflightFails(r) \/ OpenLedger(r) \/ Reconcile(r)
  \/ Claim(r) \/ ClaimRaises(r)
  \/ \E n \in 1..4 : Write(r, n) \/ WriteRaises(r, n)
  \/ RecordDone(r) \/ RecordDoneRaises(r) \/ RecordFailed(r) \/ RecordFailedRaises(r)
  \/ Audit(r) \/ ReportRaises(r)

\* The process has ended: its copy of the ledger and its work list are gone.
ForgetCall(r) ==
  /\ table' = [table EXCEPT ![r] = [i \in Items |-> NoRow]]
  /\ todo' = [todo EXCEPT ![r] = {}]
  /\ setup' = [setup EXCEPT ![r] = NoSetup]
  /\ failed' = failed \ {r}
  /\ status' = [status EXCEPT ![r] = "none"]
  /\ To(r, "over")
  /\ UNCHANGED <<rows, stored, faults, losses>>

\* Somebody removes a stored object of the root while no run works on it.
LoseObject(i, n) ==
  /\ losses < MaxLosses /\ losses' = losses + 1
  /\ stored[i][n] # None
  /\ stored' = [stored EXCEPT ![i][n] = None]
  /\ UNCHANGED <<rows, table, setup, todo, at, failed, status, faults>>

-----------------------------------------------------------------------------

\* A done row on disk names a product whose artifacts, those that have not been
\* removed since, all carry the row's hash: no kill, failing write or rebuild
\* with another configuration leaves a done row on a product of two runs.
DoneRowsNameTheirArtifacts ==
  \A i \in Items, n \in Names :
    rows[i].status = "done" => stored[i][n] \in {rows[i].hash, None}

\* "Returns 0 only when no items failed during the run and no ledger row is left
\* failed": what run r was asked for is there with r's hashes and no row of the
\* root, selected or not, is failed or interrupted.
DeliversAll(r) ==
  /\ \A i \in Items : rows[i].status \notin {"failed", "exporting"}
  /\ \A i \in Items : i[1] \in setup[r].scope =>
       /\ rows[i] = Row("done", FingerprintOf(r, i))
       /\ stored[i].cog = FingerprintOf(r, i)
       /\ stored[i].complete = FingerprintOf(r, i)
=============================================================================
