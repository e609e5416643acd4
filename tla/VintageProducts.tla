--------------------------- MODULE VintageProducts ---------------------------
(***************************************************************************)
(* The backfill of the historical building models                          *)
(* (data/secondary/lod_vintages_v6.py over lod_vintages.py).  For each     *)
(* vintage a run brings the morphology up to date with the hash of its     *)
(* code, then the four products derived from it; a morphology it has just  *)
(* rebuilt forces the whole bundle.  The morphology claims its ledger row  *)
(* before it is written; the rows of the derived products are written only *)
(* when the last of them is finished.                                      *)
(*                                                                         *)
(* A raster is named by the morphology hash it goes back to.  Runs follow  *)
(* one another, each with the hash its revision of the code gives; a run   *)
(* may be killed, any step of it may raise, and stored artifacts may go.   *)
(* The vintage-agnostic inputs (terrain, vegetation) are published once.   *)
(***************************************************************************)
EXTENDS Naturals, Sequences

CONSTANTS
  VintageOrder,   \* the vintages of the configuration, in order
  ArchivesOf,     \* vintage -> the raw archives it is built from, in order
  Revisions,      \* the morphology hashes of the revisions of the code
  MaxBackfills,   \* bound: runs
  MaxMishaps,     \* bound: steps that raise, kills and lost artifacts, in all
  NoRevision

Vintages == {VintageOrder[i] : i \in 1..Len(VintageOrder)}
Bundle == <<"building_dsm", "combined_dsm", "horizon_building", "svf">>
InBundle == {Bundle[i] : i \in 1..Len(Bundle)}
VintageItems == (InBundle \cup {"lod2_morphology"}) \X Vintages

\* A configuration names each vintage once; each is built from some archive.
ASSUME VintageAssumption ==
  /\ VintageOrder \in Seq(DOMAIN ArchivesOf)
  /\ \A i, j \in 1..Len(VintageOrder) : i # j => VintageOrder[i] # VintageOrder[j]
  /\ \A w \in Vintages : Len(ArchivesOf[w]) > 0
  /\ VintageOrder # <<>>
  /\ NoRevision \notin Revisions /\ MaxBackfills \in Nat /\ MaxMishaps \in Nat

VARIABLES
  raster,     \* item -> the morphology hash its stored raster goes back to
  prov,       \* item -> the configuration hash in its stored provenance
  sealed,     \* the items with a completion marker
  entry,      \* item -> its ledger row
  manifests,  \* the archives with a published manifest
  stage,      \* where the run is
  turn,       \* the place of the vintage it works on
  toPublish,  \* the archives, or the products, it still has to publish, in their order
  missing,    \* the derived products it was asked to build
  copy,       \* the derived rows it read before it built them
  owed,       \* the vintages whose morphology it has rebuilt and whose bundle it has not
  troubled,   \* it has counted a failure
  revision,   \* the morphology hash of its code
  reported,    \* what the last run returned
  backfills, mishaps,
  left        \* the vintages a run that did not return 0 left like that

product == <<raster, prov, sealed>>
process == <<turn, toPublish, missing, copy, owed, troubled>>
counted == <<backfills, mishaps>>
vintageVars == <<product, entry, manifests, stage, process, revision, reported, counted, left>>

vintage == VintageOrder[turn]
EntryRow(status, hash) == [status |-> status, hash |-> hash]
NoEntry == EntryRow("none", NoRevision)
Bundled(w) == InBundle \X {w}
Archives(w) == {ArchivesOf[w][i] : i \in 1..Len(ArchivesOf[w])}
\* The member of s that comes first.
First(order, s) ==
  order[CHOOSE i \in 1..Len(order) :
          order[i] \in s /\ \A j \in 1..(i - 1) : order[j] \notin s]

VintageInit ==
  /\ raster = [i \in VintageItems |-> NoRevision] /\ prov = [i \in VintageItems |-> NoRevision]
  /\ sealed = {} /\ manifests = {}
  /\ entry = [i \in VintageItems |-> NoEntry]
  /\ stage = "idle" /\ turn = 1 /\ toPublish = {} /\ missing = {}
  /\ copy = [i \in {} |-> NoEntry]
  /\ owed = {} /\ troubled = FALSE
  /\ revision = NoRevision /\ reported = "none"
  /\ backfills = 0 /\ mishaps = 0 /\ left = {}

Resolves(i) == raster[i] # NoRevision /\ i \in sealed

StartBackfill ==
  /\ stage = "idle" /\ backfills < MaxBackfills
  /\ backfills' = backfills + 1
  /\ revision' \in Revisions
  /\ stage' = "morphology" /\ reported' = "none"
  /\ UNCHANGED <<product, entry, manifests, process, mishaps, left>>

-----------------------------------------------------------------------------
(* The morphology of one vintage: _run_vintage_morphology.                  *)

Morphology == <<"lod2_morphology", vintage>>

Current == entry[Morphology] = EntryRow("done", revision) /\ Resolves(Morphology)

SkipMorphology ==
  /\ stage = "morphology" /\ Current
  /\ stage' = "derive"
  /\ UNCHANGED <<product, entry, manifests, process, revision, reported, counted, left>>

\* Mutant: the row is not claimed.
ClaimLate ==
  /\ stage = "morphology" /\ ~Current
  /\ toPublish' = Archives(vintage) /\ stage' = "manifest"
  /\ UNCHANGED <<product, entry, manifests, turn, missing, copy, owed, troubled, revision,
                 reported, counted, left>>

ClaimMorphology ==
  /\ stage = "morphology" /\ ~Current
  /\ entry' = [entry EXCEPT ![Morphology] = EntryRow("exporting", NoRevision)]
  /\ toPublish' = Archives(vintage) /\ stage' = "manifest"
  /\ UNCHANGED <<product, manifests, turn, missing, copy, owed, troubled, revision, reported,
                 counted, left>>

\* The archives are fetched and checked, and their manifests published one by one.
PublishManifest ==
  /\ stage = "manifest"
  /\ LET a == First(ArchivesOf[vintage], toPublish) IN
       /\ manifests' = manifests \cup {a}
       /\ toPublish' = toPublish \ {a}
  /\ stage' = IF toPublish' = {} THEN "raster" ELSE "manifest"
  /\ UNCHANGED <<product, entry, turn, missing, copy, owed, troubled, revision, reported,
                 counted, left>>

-----------------------------------------------------------------------------
(* The four writes of a product, of the morphology and of the bundle.       *)

\* The product of the bundle that is in work.
Part == First(Bundle, toPublish)
InWork == IF toPublish = {} THEN Morphology ELSE <<Part, vintage>>

\* What the raster in work is computed from: the building model from the
\* morphology, the combined model and the horizon from the building model, the
\* sky view factor from the combined model.
Computed(i) ==
  CASE i[1] = "lod2_morphology" -> revision
    [] i[1] = "building_dsm"    -> raster[Morphology]
    [] i[1] = "svf"             -> raster[<<"combined_dsm", vintage>>]
    [] OTHER                    -> raster[<<"building_dsm", vintage>>]

\* The hash it is published with: the surface models name the hash in the
\* provenance of the morphology, the horizon only the geometry.
Hash(i) ==
  CASE i[1] = "lod2_morphology"  -> revision
    [] i[1] = "horizon_building" -> "geometry_id"
    [] i[1] = "svf"              -> prov[<<"combined_dsm", vintage>>]
    [] OTHER                     -> prov[Morphology]

WriteRaster ==
  /\ stage = "raster"
  /\ raster' = [raster EXCEPT ![InWork] = Computed(InWork)]
  /\ stage' = "prov"
  /\ UNCHANGED <<prov, sealed, entry, manifests, process, revision, reported, counted, left>>

WriteProv ==
  /\ stage = "prov"
  /\ prov' = [prov EXCEPT ![InWork] = Hash(InWork)]
  /\ stage' = "seal"
  /\ UNCHANGED <<raster, sealed, entry, manifests, process, revision, reported, counted, left>>

Seal ==
  /\ stage = "seal"
  /\ sealed' = sealed \cup {InWork}
  /\ \/ toPublish = {} /\ toPublish' = {} /\ stage' = "record"
     \/ /\ toPublish # {} /\ toPublish = {Part}
        /\ toPublish' = missing /\ stage' = "rows"
     \/ /\ toPublish # {} /\ toPublish \ {Part} # {}
        /\ toPublish' = toPublish \ {Part} /\ stage' = "raster"
  /\ UNCHANGED <<raster, prov, entry, manifests, turn, missing, copy, owed, troubled, revision,
                 reported, counted, left>>

RecordMorphology ==
  /\ stage = "record"
  /\ entry' = [entry EXCEPT ![Morphology] = EntryRow("done", revision)]
  /\ owed' = owed \cup {vintage} /\ stage' = "derive"
  /\ UNCHANGED <<product, manifests, turn, toPublish, missing, copy, troubled, revision, reported,
                 counted, left>>

-----------------------------------------------------------------------------
(* The bundle of one vintage: _run_vintage_derived.                         *)

NextVintage ==
  /\ turn' = turn + 1
  /\ stage' = IF turn = Len(VintageOrder) THEN "audit" ELSE "morphology"

NeedsWork(rows, i) == rows[i].status # "done" \/ ~Resolves(i)

\* Mutant: a rebuilt morphology does not force its bundle.
AskedIfNeeded == {p \in InBundle : NeedsWork(entry, <<p, vintage>>)}

Asked ==
  IF vintage \in owed THEN InBundle ELSE {p \in InBundle : NeedsWork(entry, <<p, vintage>>)}

SkipBundle ==
  /\ stage = "derive" /\ Asked = {}
  /\ NextVintage
  /\ UNCHANGED <<product, entry, manifests, toPublish, missing, copy, owed, troubled, revision,
                 reported, counted, left>>

RefuseBundle ==
  /\ stage = "derive" /\ Asked # {} /\ NeedsWork(entry, Morphology)
  /\ troubled' = TRUE /\ NextVintage
  /\ UNCHANGED <<product, entry, manifests, toPublish, missing, copy, owed, revision, reported,
                 counted, left>>

StartBundle ==
  /\ stage = "derive" /\ Asked # {} /\ ~NeedsWork(entry, Morphology)
  /\ missing' = Asked
  /\ toPublish' = Asked
  /\ copy' = [i \in Bundled(vintage) |-> entry[i]]
  /\ stage' = "raster"
  /\ UNCHANGED <<product, entry, manifests, turn, owed, troubled, revision, reported, counted,
                 left>>

\* The rows of the finished products, one write of the ledger each.
RecordProduct ==
  /\ stage = "rows"
  /\ entry' = [entry EXCEPT ![InWork] = EntryRow("done", prov[InWork])]
  /\ toPublish' = toPublish \ {Part}
  /\ \/ /\ toPublish = {Part} /\ NextVintage
        /\ owed' = owed \ {vintage}
        /\ left' = IF missing = InBundle THEN left \ {vintage} ELSE left
     \/ toPublish \ {Part} # {} /\ UNCHANGED <<turn, stage, owed, left>>
  /\ UNCHANGED <<product, manifests, missing, copy, troubled, revision, reported, counted>>

-----------------------------------------------------------------------------
(* Failures and the end of a run.                                           *)

Mishap == mishaps < MaxMishaps /\ mishaps' = mishaps + 1

\* A step of the morphology raises.
MorphologyRaises ==
  /\ Mishap
  /\ \/ stage = "manifest"
     \/ stage \in {"raster", "prov", "seal"} /\ toPublish = {}
  /\ entry' = [entry EXCEPT ![Morphology] = EntryRow("failed", NoRevision)]
  /\ toPublish' = {} /\ stage' = "derive" /\ troubled' = TRUE
  /\ UNCHANGED <<product, manifests, turn, missing, copy, owed, revision, reported, backfills,
                 left>>

\* The rows read before the bundle was built, with these products failed.
Marked(bad) ==
  IF bad = {} THEN entry
  ELSE [i \in VintageItems |-> IF i \in bad \X {vintage} THEN EntryRow("failed", NoRevision)
                               ELSE IF i \in DOMAIN copy THEN copy[i] ELSE entry[i]]

\* Mutant: the failure is recorded and not counted.
BundleRaisesUncounted ==
  /\ Mishap
  /\ stage \in {"raster", "prov", "seal", "rows"} /\ toPublish # {}
  /\ entry' = Marked({p \in missing : NeedsWork(copy, <<p, vintage>>)})
  /\ toPublish' = {} /\ NextVintage
  /\ UNCHANGED <<product, manifests, missing, copy, owed, troubled, revision, reported,
                 backfills, left>>

\* A step of the bundle raises.  The handler marks the products that still need
\* work by the rows it read before; products that were done stay done.
BundleRaises ==
  /\ Mishap
  /\ stage \in {"raster", "prov", "seal", "rows"} /\ toPublish # {}
  /\ entry' = Marked({p \in missing : NeedsWork(copy, <<p, vintage>>)})
  /\ toPublish' = {} /\ NextVintage /\ troubled' = TRUE
  /\ UNCHANGED <<product, manifests, missing, copy, owed, revision, reported, backfills, left>>

Depart(result) ==
  /\ stage' = "idle" /\ turn' = 1 /\ toPublish' = {} /\ missing' = {} /\ owed' = {}
  /\ copy' = [i \in {} |-> NoEntry] /\ troubled' = FALSE
  /\ reported' = result
  /\ left' = IF result = "ok" THEN left ELSE left \cup owed

AllDone == \A i \in VintageItems : ~NeedsWork(entry, i)

AuditBackfill ==
  /\ stage = "audit"
  /\ Depart(IF AllDone /\ ~troubled THEN "ok" ELSE "error")
  /\ UNCHANGED <<product, entry, manifests, revision, counted>>

\* The process ends, or a ledger write raises out of the run.
KillBackfill ==
  /\ Mishap /\ stage # "idle"
  /\ Depart("none")
  /\ UNCHANGED <<product, entry, manifests, revision, backfills>>

\* Between two runs a raster or a marker goes.
LoseArtifact ==
  /\ Mishap /\ stage = "idle"
  /\ \E i \in VintageItems :
       \/ raster[i] # NoRevision /\ raster' = [raster EXCEPT ![i] = NoRevision] /\ UNCHANGED sealed
       \/ i \in sealed /\ sealed' = sealed \ {i} /\ UNCHANGED raster
  /\ reported' = "none"
  /\ UNCHANGED <<prov, entry, manifests, stage, process, revision, backfills, left>>

VintageNext ==
  \/ StartBackfill \/ SkipMorphology \/ ClaimMorphology \/ PublishManifest
  \/ WriteRaster \/ WriteProv \/ Seal \/ RecordMorphology
  \/ SkipBundle \/ RefuseBundle \/ StartBundle \/ RecordProduct
  \/ MorphologyRaises \/ BundleRaises \/ AuditBackfill \/ KillBackfill \/ LoseArtifact

VintageSpec == VintageInit /\ [][VintageNext]_vintageVars

-----------------------------------------------------------------------------

VintageTypeOK ==
  /\ \A i \in VintageItems : entry[i].status \in {"none", "exporting", "failed", "done"}
  /\ sealed \subseteq VintageItems /\ missing \subseteq InBundle
  /\ turn \in 1..(Len(VintageOrder) + 1)
  /\ owed \subseteq Vintages /\ left \subseteq Vintages

BundleIsOf(w) ==
  /\ raster[<<"lod2_morphology", w>>] = revision
  /\ \A p \in InBundle : raster[<<p, w>>] = revision

\* A run that returned 0 left, for every vintage, the morphology of its code and
\* four products that go back to it, through failures, kills, lost artifacts and
\* changes of the code; except where a run that did not return 0 had rebuilt the
\* morphology and not its bundle, and no run has rebuilt all four since.
ZeroBackfillIsCurrent ==
  reported = "ok" => \A w \in Vintages \ left : BundleIsOf(w)

\* "a hash change or artifact repair can never leave stale horizons/SVF in place
\* behind done ledger rows": without the exception.
RebuiltBundleIsNeverStale ==
  reported = "ok" => \A w \in Vintages : BundleIsOf(w)

=============================================================================
