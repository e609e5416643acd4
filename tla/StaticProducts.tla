--------------------------- MODULE StaticProducts ---------------------------
(***************************************************************************)
(* The two static pipelines over one store: run_sources                    *)
(* (data/secondary/source_pipeline.py) publishes the source rasters,       *)
(* run_derived (derived_pipeline.py) resolves them once, when it starts,   *)
(* and derives surface models, horizons and the sky view factor.  Each has *)
(* a ledger of its own; a product is a raster, its metadata (provenance    *)
(* and STAC item) and a completion marker, each replaced in place.         *)
(*                                                                         *)
(* The raster a source run prepares is named by its configuration hash, a  *)
(* derived raster by the source rasters it was computed from.  Runs of one *)
(* pipeline follow one another; a source run and a derived run may overlap *)
(* (nothing in the code keeps them apart).                                 *)
(***************************************************************************)
EXTENDS Naturals, Sequences

CONSTANTS
  SourceOrder,  \* the sources of a source run, in the order of its configuration
  ConfigHashes, \* source -> the configuration hashes it may be asked for; an
                \* upstream source outside SourceOrder was published earlier
  Forceable,    \* the surface models force_dsm_products may name
  MaxRuns,      \* bound: runs of each pipeline
  MaxStaticFaults, \* bound: steps that raise and processes that end, in all
  NoHash

SourceProducts == {SourceOrder[i] : i \in 1..Len(SourceOrder)}
Upstream == {"terrain_height", "vegetation_height", "lod2_morphology"}
DerivedOrder ==
  <<"building_dsm", "vegetation_dsm", "combined_dsm",
    "horizon_building", "horizon_vegetation", "svf">>
Derived == {DerivedOrder[i] : i \in 1..Len(DerivedOrder)}
Dsms == {"building_dsm", "vegetation_dsm", "combined_dsm"}
Products == SourceProducts \cup Upstream \cup Derived
Pipelines == {"sources", "derived"}

ASSUME StaticAssumption ==
  /\ SourceOrder \in Seq(DOMAIN ConfigHashes) /\ Upstream \subseteq DOMAIN ConfigHashes
  /\ \A i, j \in 1..Len(SourceOrder) : i # j => SourceOrder[i] # SourceOrder[j]
  /\ SourceProducts \cap Derived = {}
  /\ Forceable \subseteq Dsms /\ MaxRuns \in Nat /\ MaxStaticFaults \in Nat
  /\ \A s \in SourceProducts \cup Upstream : NoHash \notin ConfigHashes[s]

VARIABLES
  cog,      \* product -> what the stored raster was computed from; {} when there is none
  meta,     \* product -> the configuration hash in the stored metadata
  marked,   \* the products with a completion marker
  row,      \* product -> its ledger row: status and configuration hash
  place, step, \* pipeline -> the place in its order, and the step it takes there
  hasFailed, \* the pipelines whose run has counted a failure
  returned, \* pipeline -> the status its last run returned
  want,     \* source -> the hash of the source run's configuration
  resolved, \* source -> the hash the derived run resolved when it started
  force,    \* the products the derived run was told to force
  runs,     \* pipeline -> the runs it has had
  staticFaults, \* how many steps raised and processes ended
  tornRead  \* a derived run has read a raster its resolved hash does not name

staticVars ==
  <<cog, meta, marked, row, place, step, hasFailed, returned, want, resolved, force, runs,
    staticFaults, tornRead>>

Order(k) == IF k = "sources" THEN SourceOrder ELSE DerivedOrder
Product(k) == Order(k)[place[k]]

StaticTypeOK ==
  /\ marked \subseteq Products
  /\ \A p \in Products : row[p].status \in {"none", "exporting", "failed", "done"}
  /\ \A k \in Pipelines : place[k] \in 1..(Len(Order(k)) + 1)
  /\ step \in [Pipelines -> {"idle", "begin", "cog", "meta", "mark", "record"}]
  /\ hasFailed \subseteq Pipelines
  /\ returned \in [Pipelines -> {"none", "ok", "error"}]
  /\ force \subseteq Forceable /\ tornRead \in BOOLEAN
  /\ runs \in [Pipelines -> 0..MaxRuns] /\ staticFaults \in 0..MaxStaticFaults

Earlier == Upstream \ SourceProducts

StaticInit ==
  /\ \E h \in [Earlier -> UNION {ConfigHashes[s] : s \in Earlier}] :
       /\ \A s \in Earlier : h[s] \in ConfigHashes[s]
       /\ cog = [p \in Products |-> IF p \in Earlier THEN {h[p]} ELSE {}]
       /\ meta = [p \in Products |-> IF p \in Earlier THEN h[p] ELSE NoHash]
  /\ marked = Earlier
  /\ row = [p \in Products |-> [status |-> "none", hash |-> NoHash]]
  /\ place = [k \in Pipelines |-> 1]
  /\ step = [k \in Pipelines |-> "idle"]
  /\ hasFailed = {}
  /\ returned = [k \in Pipelines |-> "none"]
  /\ want = [s \in SourceProducts |-> NoHash]
  /\ resolved = [s \in Upstream |-> NoHash]
  /\ force = {} /\ tornRead = FALSE
  /\ runs = [k \in Pipelines |-> 0] /\ staticFaults = 0

Exists(p) == cog[p] # {}
UpsertRow(p, status, hash) == row' = [row EXCEPT ![p] = [status |-> status, hash |-> hash]]
GotoStep(k, s) == step' = [step EXCEPT ![k] = s]
Advance(k) == place' = [place EXCEPT ![k] = @ + 1] /\ GotoStep(k, "begin")
Store == <<cog, meta, marked>>
Launch == <<want, resolved, force>>
Bounds == <<runs, staticFaults>>

-----------------------------------------------------------------------------

\* What only the process of a run knows goes with it; what a run that returned 0
\* was asked for is kept, to be compared with what it left.
LeaveRun(k, outcome) ==
  /\ place' = [place EXCEPT ![k] = 1] /\ GotoStep(k, "idle")
  /\ hasFailed' = hasFailed \ {k}
  /\ returned' = [returned EXCEPT ![k] = outcome]
  /\ want' = IF k = "sources" /\ outcome # "ok" THEN [s \in SourceProducts |-> NoHash] ELSE want
  /\ resolved' = IF k = "derived" /\ outcome # "ok" THEN [s \in Upstream |-> NoHash] ELSE resolved
  /\ force' = IF k = "derived" THEN {} ELSE force

Enter(k) ==
  /\ runs[k] < MaxRuns /\ runs' = [runs EXCEPT ![k] = @ + 1]
  /\ place' = [place EXCEPT ![k] = 1] /\ GotoStep(k, "begin")
  /\ hasFailed' = hasFailed \ {k}
  /\ returned' = [returned EXCEPT ![k] = "none"]

StartSources ==
  /\ step["sources"] = "idle"
  /\ \E w \in [SourceProducts -> UNION {ConfigHashes[s] : s \in SourceProducts}] :
       /\ \A s \in SourceProducts : w[s] \in ConfigHashes[s]
       /\ want' = w
  /\ Enter("sources")
  /\ UNCHANGED <<Store, row, resolved, force, staticFaults, tornRead>>

\* A source is resolved when all its artifacts exist and its provenance names
\* a hash; the source ledger is not consulted.
Resolvable == \A s \in Upstream : Exists(s) /\ meta[s] # NoHash /\ s \in marked

StartDerived ==
  /\ step["derived"] = "idle" /\ Resolvable
  /\ resolved' = [s \in Upstream |-> meta[s]]
  /\ force' \in SUBSET Forceable
  /\ Enter("derived")
  /\ UNCHANGED <<Store, row, want, staticFaults, tornRead>>

DerivedRefused ==
  /\ step["derived"] = "idle" /\ ~Resolvable
  /\ LeaveRun("derived", "error")
  /\ UNCHANGED <<Store, row, Bounds, tornRead>>

-----------------------------------------------------------------------------
(* One product.                                                             *)

\* The rasters a derived product is computed from.
Inputs(p) ==
  CASE p = "building_dsm"       -> {"terrain_height", "lod2_morphology"}
    [] p = "vegetation_dsm"     -> {"terrain_height", "vegetation_height"}
    [] p = "combined_dsm"       -> {"building_dsm", "vegetation_dsm"}
    [] p = "horizon_building"   -> {"building_dsm"}
    [] p = "horizon_vegetation" -> {"vegetation_dsm"}
    [] p = "svf"                -> {"combined_dsm"}
    [] OTHER                    -> {}

LedgerHash(p) == IF row[p].status = "done" THEN row[p].hash ELSE NoHash

\* The fingerprint a product is wanted with: None when the upstream ledger row
\* it derives from is not done.  That of the building horizon is constant.
WantedHash(p) ==
  CASE p \in SourceProducts            -> want[p]
    [] p \in Dsms               -> resolved
    [] p = "horizon_building"   -> "geometry_id"
    [] p = "horizon_vegetation" -> LedgerHash("vegetation_dsm")
    [] p = "svf"                -> LedgerHash("combined_dsm")

\* Mutant: the hash of the finished row is not compared.
IsCurrentByStatus(p) == row[p].status = "done" /\ Exists(p) /\ p \in marked

\* reconcile: what is done with this fingerprint and whose raster and marker
\* exist is left alone.
IsCurrent(p) ==
  /\ row[p].status = "done" /\ row[p].hash = WantedHash(p)
  /\ Exists(p) /\ p \in marked

\* The derived inputs of a product have to exist, whatever their ledger rows say.
Available(p) == \A q \in Inputs(p) \cap Derived : Exists(q)

\* Mutant: the row is not claimed before the product is written.
BeginUnclaimed(k) ==
  /\ step[k] = "begin" /\ place[k] <= Len(Order(k))
  /\ LET p == Product(k) IN
     \/ /\ ~Available(p)
        /\ Advance(k) /\ UNCHANGED <<row, hasFailed>>
     \/ /\ Available(p) /\ WantedHash(p) = NoHash
        /\ Advance(k) /\ hasFailed' = hasFailed \cup {k} /\ UNCHANGED row
     \/ /\ Available(p) /\ WantedHash(p) # NoHash
        /\ IsCurrent(p) /\ p \notin force
        /\ Advance(k) /\ UNCHANGED <<row, hasFailed>>
     \/ /\ Available(p) /\ WantedHash(p) # NoHash
        /\ ~IsCurrent(p) \/ p \in force
        /\ GotoStep(k, "cog") /\ UNCHANGED <<row, place, hasFailed>>
  /\ UNCHANGED <<Store, returned, Launch, Bounds, tornRead>>

Begin(k) ==
  /\ step[k] = "begin" /\ place[k] <= Len(Order(k))
  /\ LET p == Product(k) IN
     \/ /\ ~Available(p)
        /\ Advance(k) /\ UNCHANGED <<row, hasFailed>>
     \/ /\ Available(p) /\ WantedHash(p) = NoHash
        /\ Advance(k) /\ hasFailed' = hasFailed \cup {k} /\ UNCHANGED row
     \/ /\ Available(p) /\ WantedHash(p) # NoHash
        /\ IsCurrent(p) /\ p \notin force
        /\ Advance(k) /\ UNCHANGED <<row, hasFailed>>
     \/ /\ Available(p) /\ WantedHash(p) # NoHash
        /\ ~IsCurrent(p) \/ p \in force
        /\ UpsertRow(p, "exporting", NoHash) /\ GotoStep(k, "cog") /\ UNCHANGED <<place, hasFailed>>
  /\ UNCHANGED <<Store, returned, Launch, Bounds, tornRead>>

\* Prepare and write the raster over the one that is there.
WriteCog(k) ==
  /\ step[k] = "cog"
  /\ LET p == Product(k)
         read == [q \in Inputs(p) |-> cog[q]]
     IN /\ cog' = [cog EXCEPT ![p] = {IF p \in SourceProducts THEN want[p] ELSE read}]
        /\ tornRead' = (tornRead \/ \E s \in Inputs(p) \cap SourceProducts : cog[s] # {resolved[s]})
  /\ GotoStep(k, "meta")
  /\ UNCHANGED <<meta, marked, row, place, hasFailed, returned, Launch, Bounds>>

WriteMeta(k) ==
  /\ step[k] = "meta"
  /\ meta' = [meta EXCEPT ![Product(k)] = WantedHash(Product(k))]
  /\ GotoStep(k, "mark")
  /\ UNCHANGED <<cog, marked, row, place, hasFailed, returned, Launch, Bounds, tornRead>>

MarkComplete(k) ==
  /\ step[k] = "mark"
  /\ marked' = marked \cup {Product(k)}
  /\ GotoStep(k, "record")
  /\ UNCHANGED <<cog, meta, row, place, hasFailed, returned, Launch, Bounds, tornRead>>

RecordRow(k) ==
  /\ step[k] = "record"
  /\ UpsertRow(Product(k), "done", WantedHash(Product(k))) /\ Advance(k)
  /\ UNCHANGED <<Store, hasFailed, returned, Launch, Bounds, tornRead>>

\* Mutant: the failure is recorded and not counted.
ProductRaisesUncounted(k) ==
  /\ staticFaults < MaxStaticFaults /\ staticFaults' = staticFaults + 1
  /\ step[k] \in {"cog", "meta", "mark", "record"}
  /\ UpsertRow(Product(k), "failed", NoHash) /\ Advance(k)
  /\ UNCHANGED <<Store, hasFailed, returned, Launch, runs, tornRead>>

\* Any step of a product may raise: the row is failed, the run goes on.
ProductRaises(k) ==
  /\ staticFaults < MaxStaticFaults /\ staticFaults' = staticFaults + 1
  /\ step[k] \in {"cog", "meta", "mark", "record"}
  /\ UpsertRow(Product(k), "failed", NoHash) /\ Advance(k)
  /\ hasFailed' = hasFailed \cup {k}
  /\ UNCHANGED <<Store, returned, Launch, runs, tornRead>>

-----------------------------------------------------------------------------
(* The end of a run.                                                        *)

\* find_not_done_items: every expected row done, its raster and marker there.
AuditOk == \A s \in SourceProducts : row[s].status = "done" /\ Exists(s) /\ s \in marked

Finish(k) ==
  /\ step[k] = "begin" /\ place[k] = Len(Order(k)) + 1
  /\ LeaveRun(k, IF k \notin hasFailed /\ (k = "sources" => AuditOk) THEN "ok" ELSE "error")
  /\ UNCHANGED <<Store, row, Bounds, tornRead>>

\* The process ends, or a ledger write raises out of the run.
KillProcess(k) ==
  /\ staticFaults < MaxStaticFaults /\ staticFaults' = staticFaults + 1
  /\ step[k] # "idle"
  /\ LeaveRun(k, "none")
  /\ UNCHANGED <<Store, row, runs, tornRead>>

StaticStep(k) ==
  \/ Begin(k) \/ WriteCog(k) \/ WriteMeta(k) \/ MarkComplete(k) \/ RecordRow(k)
  \/ ProductRaises(k) \/ Finish(k) \/ KillProcess(k)

StaticNext ==
  \/ StartSources \/ StartDerived \/ DerivedRefused
  \/ \E k \in Pipelines : StaticStep(k)

StaticSpec == StaticInit /\ [][StaticNext]_staticVars

-----------------------------------------------------------------------------

\* What the raster of a product was computed from, if its fingerprint is true.
Promise(p, f) == {[q \in Inputs(p) |-> {f[q]}]}
Promised(p, f) ==
  CASE p \in {"building_dsm", "vegetation_dsm"} -> Promise(p, f)
    [] p \in {"combined_dsm", "horizon_vegetation"} -> {[q \in Inputs(p) |-> Promise(q, f)]}

\* A source run that returns 0 left every source of its configuration published
\* with the hash of its configuration, whatever earlier runs left behind (the
\* closing audit looks at no hash).
SourceAuditIsTruthful ==
  returned["sources"] = "ok" =>
    \A s \in SourceProducts : cog[s] = {want[s]} /\ meta[s] = want[s] /\ s \in marked

\* A derived run that returns 0 left all six products done and published, the
\* surface models with the source hashes it resolved, the horizon and the sky
\* view factor with the hash of the model they derive from.  Nothing audits it:
\* products whose input is missing are skipped without a failure.
CleanRunIsComplete ==
  returned["derived"] = "ok" =>
    /\ \A p \in Derived :
         row[p].status = "done" /\ Exists(p) /\ p \in marked /\ meta[p] = row[p].hash
    /\ \A p \in Dsms : row[p].hash = resolved
    /\ row["horizon_vegetation"].hash = row["vegetation_dsm"].hash
    /\ row["svf"].hash = row["combined_dsm"].hash

\* A done building or vegetation model, or vegetation horizon, was computed from
\* what its hash names, unless a derived run read a source that was being
\* replaced.
DoneRasterIsAsFingerprinted ==
  ~tornRead =>
    \A p \in {"building_dsm", "vegetation_dsm", "horizon_vegetation"} :
      row[p].status = "done" => cog[p] = Promised(p, row[p].hash)

\* "Pipeline B refuses any input that is not a finalized product": the combined
\* model of a run that returned 0 was computed from what its hash names.
CombinedIsAsFingerprinted ==
  (returned["derived"] = "ok" /\ ~tornRead) =>
    cog["combined_dsm"] = Promised("combined_dsm", row["combined_dsm"].hash)

=============================================================================
