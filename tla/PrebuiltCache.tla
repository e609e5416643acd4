---------------------------- MODULE PrebuiltCache ----------------------------
(***************************************************************************)
(* The prebuilt patch cache (modeling/prebuilt_cache.py): an operator cuts *)
(* a cache into shards and uploads them under one prefix, manifest last;   *)
(* training jobs fetch the prefix into their own cache root, verify it,    *)
(* and may fall back to building the cache themselves                      *)
(* (RealPatchDataModule._materialize_prebuilt).                            *)
(*                                                                         *)
(* A shard is its range of rows.  Uploads of one key have the same rows    *)
(* but not the same shards when --shard-max-bytes differs: a layout maps   *)
(* shard names to row ranges.                                              *)
(***************************************************************************)
EXTENDS Naturals, FiniteSets

CONSTANTS
  Uploads,      \* runs of build_prebuilt_patch_cache.py for the one key
  Jobs,         \* training jobs that resolve to that key
  Layouts,      \* the manifests an upload can have: shard name -> rows
  Fallback,     \* allow_job_local_fallback
  Retries,      \* prebuilt_download_retries
  MaxErrors,    \* bounds the network errors of a behaviour
  MaxKills,     \* bounds the kills of jobs and uploads
  None

Names == UNION {DOMAIN l : l \in Layouts}
Ranges == UNION {{l[n] : n \in DOMAIN l} : l \in Layouts}

ASSUME LayoutsAssumption ==
  /\ Layouts # {}
  /\ \A l \in Layouts : IsFiniteSet(DOMAIN l) /\ l \in [DOMAIN l -> Ranges]
ASSUME NoneAssumption == None \notin Layouts /\ None \notin Ranges
ASSUME CacheBoundsAssumption == Retries \in Nat \ {0} /\ MaxErrors \in Nat /\ MaxKills \in Nat

VARIABLES
  shard,     \* name -> the object under <prefix>/shards/
  manifest,  \* the object <prefix>/prebuilt_manifest.json
  up,        \* upload -> its state
  job,       \* job -> its state
  dest,      \* job -> its cache root on disk
  errors, kills

cacheVars == <<shard, manifest, up, job, dest, errors, kills>>
prefix == <<shard, manifest>>
faults == <<errors, kills>>

Upload == [pc : {"idle", "checked", "uploading", "ok", "refused", "failed", "dead"},
           layout : Layouts, overwrite : BOOLEAN,
           todo : SUBSET Names, broken : BOOLEAN]

Job == [pc : {"start", "probe", "downloading", "assembling", "building", "installed",
              "failed", "dead"},
        read : Layouts \cup {None}, todo : SUBSET Names, tries : [Names -> 0 .. Retries],
        broken : SUBSET {"refused", "raised"},  \* how shards have failed for good
        restarted : BOOLEAN]

\* The cache root: "parts" holds verified shards only, "arrays" lacks its
\* manifest.json, "ready" opens as a PatchCache.
Root == [state : {"absent", "parts", "arrays", "ready"},
         parts : UNION {[S -> Ranges \cup {None}] : S \in SUBSET Names},
         origin : {"none", "prebuilt", "local"}]

NoRoot == [state |-> "absent", parts |-> <<>>, origin |-> "none"]
Local == [state |-> "ready", parts |-> <<>>, origin |-> "local"]

CacheTypeOK ==
  /\ shard \in [Names -> Ranges \cup {None}]
  /\ manifest \in Layouts \cup {None}
  /\ up \in [Uploads -> Upload]
  /\ job \in [Jobs -> Job]
  /\ \A j \in Jobs : dest[j] = NoRoot \/ dest[j] \in Root
  /\ errors \in 0 .. MaxErrors /\ kills \in 0 .. MaxKills

CacheInit ==
  /\ shard = [n \in Names |-> None] /\ manifest = None
  /\ up \in [Uploads -> [pc : {"idle"}, layout : Layouts, overwrite : BOOLEAN,
                         todo : {{}}, broken : {FALSE}]]
  /\ job = [j \in Jobs |-> [pc |-> "start", read |-> None, todo |-> {},
                            tries |-> [n \in Names |-> 0], broken |-> {},
                            restarted |-> FALSE]]
  /\ dest = [j \in Jobs |-> NoRoot]
  /\ errors = 0 /\ kills = 0

-----------------------------------------------------------------------------
(* upload_prebuilt_cache                                                   *)

SetUp(u, r) == up' = [up EXCEPT ![u] = r]

\* A prefix with a manifest is published and always refused.
CheckPublished(u) ==
  /\ up[u].pc = "idle"
  /\ SetUp(u, [up[u] EXCEPT !.pc = IF manifest = None THEN "checked" ELSE "refused"])
  /\ UNCHANGED <<prefix, job, dest, faults>>

\* Without --overwrite, leftover shards of an earlier upload are refused.
CheckLeftovers(u) ==
  LET layout == up[u].layout
      leftover == {n \in DOMAIN layout : shard[n] # None}
  IN  /\ up[u].pc = "checked"
      /\ IF ~up[u].overwrite /\ leftover # {}
           THEN SetUp(u, [up[u] EXCEPT !.pc = "refused"])
           ELSE SetUp(u, [up[u] EXCEPT !.pc = "uploading", !.todo = DOMAIN layout])
      /\ UNCHANGED <<prefix, job, dest, faults>>

\* The thread pool uploads the shards in any order, replacing what is there;
\* an upload may fail, and may fail after its object was written.  The other
\* shards are uploaded all the same.
UploadShard(u, n, landed, ok) ==
  /\ up[u].pc = "uploading" /\ n \in up[u].todo
  /\ ok => landed
  /\ ~ok => errors < MaxErrors
  /\ errors' = errors + (IF ok THEN 0 ELSE 1)
  /\ shard' = IF landed THEN [shard EXCEPT ![n] = up[u].layout[n]] ELSE shard
  /\ SetUp(u, [up[u] EXCEPT !.todo = @ \ {n}, !.broken = @ \/ ~ok])
  /\ UNCHANGED <<manifest, job, dest, kills>>

\* future.result() raises once the pool has come to rest.
UploadRaises(u) ==
  /\ up[u].pc = "uploading" /\ up[u].todo = {} /\ up[u].broken
  /\ SetUp(u, [up[u] EXCEPT !.pc = "failed"])
  /\ UNCHANGED <<prefix, job, dest, faults>>

\* Mutant: the manifest is uploaded with the first shards.
PublishEarly(u, ok) ==
  /\ up[u].pc = "uploading" /\ ~up[u].broken
  /\ manifest = None /\ manifest' = up[u].layout
  /\ SetUp(u, [up[u] EXCEPT !.pc = IF up[u].todo = {} THEN "ok" ELSE @])
  /\ ok /\ UNCHANGED <<shard, job, dest, faults>>

\* The manifest, last, with the precondition that no object is there; the
\* answer may be lost after the object was written.
Publish(u, ok) ==
  /\ up[u].pc = "uploading" /\ up[u].todo = {} /\ ~up[u].broken
  /\ ~ok => errors < MaxErrors
  /\ errors' = errors + (IF ok THEN 0 ELSE 1)
  /\ IF manifest # None
       THEN SetUp(u, [up[u] EXCEPT !.pc = "refused"]) /\ UNCHANGED manifest
       ELSE /\ manifest' = up[u].layout
            /\ SetUp(u, [up[u] EXCEPT !.pc = IF ok THEN "ok" ELSE "failed"])
  /\ UNCHANGED <<shard, job, dest, kills>>

KillUpload(u) ==
  /\ up[u].pc \in {"checked", "uploading"} /\ kills < MaxKills
  /\ kills' = kills + 1
  /\ SetUp(u, [up[u] EXCEPT !.pc = "dead"])
  /\ UNCHANGED <<prefix, job, dest, errors>>

-----------------------------------------------------------------------------
(* _materialize_prebuilt and fetch_prebuilt_cache                          *)

SetJob(j, r) == job' = [job EXCEPT ![j] = r]
SetDest(j, r) == dest' = [dest EXCEPT ![j] = r]

\* A cache root that exists is neither reused nor deleted.
StartJob(j) ==
  /\ job[j].pc = "start"
  /\ SetJob(j, [job[j] EXCEPT !.pc = IF dest[j] = NoRoot THEN "probe" ELSE "failed"])
  /\ UNCHANGED <<prefix, up, dest, faults>>

\* Mutant: the remains of the fetch are left in place.
RecoverInPlace(j) ==
  /\ SetJob(j, [job[j] EXCEPT !.pc = IF Fallback THEN "building" ELSE "failed"])
  /\ UNCHANGED dest

\* The job's recovery from a PrebuiltCacheError: remove the cache root, build
\* it job-locally if the configuration allows that.
Recover(j) ==
  /\ SetJob(j, [job[j] EXCEPT !.pc = IF Fallback THEN "building" ELSE "failed"])
  /\ SetDest(j, NoRoot)

\* The manifest is read once; a prefix without it is incomplete.
ReadManifest(j) ==
  /\ job[j].pc = "probe"
  /\ IF manifest = None
       THEN Recover(j)
       ELSE /\ SetJob(j, [job[j] EXCEPT !.pc = "downloading", !.read = manifest,
                                        !.todo = DOMAIN manifest])
            /\ SetDest(j, [NoRoot EXCEPT !.state = "parts"])
  /\ UNCHANGED <<prefix, up, faults>>

\* Mutant: a shard is kept without its size and sha256 being compared.
AcceptAny(j, n) == TRUE

Accept(j, n) == shard[n] = job[j].read[n]

AddPart(root, n, rows) ==
  [root EXCEPT !.parts = [m \in DOMAIN @ \cup {n} |-> IF m = n THEN rows ELSE @[m]]]

\* Mutant: only network errors count as attempts, a bad checksum is retried.
CountOnlyErrors(j, n, ok) == job[j].tries[n] + (IF ok THEN 0 ELSE 1)

CountAttempt(j, n, ok) == job[j].tries[n] + 1

\* _download_shard: one attempt at one shard.  A bad checksum and an OSError count
\* as a failed attempt; the last one breaks the fetch.
DownloadShard(j, n, ok) ==
  LET tries == CountAttempt(j, n, ok) IN
  /\ job[j].pc = "downloading" /\ n \in job[j].todo
  /\ ~ok => errors < MaxErrors
  /\ errors' = errors + (IF ok THEN 0 ELSE 1)
  /\ IF ok /\ Accept(j, n)
       THEN /\ SetDest(j, AddPart(dest[j], n, shard[n]))
            /\ SetJob(j, [job[j] EXCEPT !.todo = @ \ {n}])
       ELSE /\ SetJob(j, [job[j] EXCEPT !.tries[n] = tries,
                            !.todo = IF tries = Retries THEN @ \ {n} ELSE @,
                            !.broken = IF tries = Retries THEN @ \cup {"refused"} ELSE @])
            /\ UNCHANGED dest
  /\ UNCHANGED <<prefix, up, kills>>

\* Another exception, of the storage service, is not retried.
ShardRaises(j, n) ==
  /\ job[j].pc = "downloading" /\ n \in job[j].todo /\ errors < MaxErrors
  /\ errors' = errors + 1
  /\ SetJob(j, [job[j] EXCEPT !.todo = @ \ {n}, !.broken = @ \cup {"raised"}])
  /\ UNCHANGED <<prefix, up, dest, kills>>

\* Once the pool has come to rest the failure of one of the shards is raised; any
\* failure removes everything the fetch has placed.
FetchFails(j) ==
  /\ job[j].pc = "downloading" /\ job[j].todo = {} /\ "refused" \in job[j].broken
  /\ Recover(j)
  /\ UNCHANGED <<prefix, up, faults>>

\* The job's recovery is for a PrebuiltCacheError only: what else is raised by a
\* shard, the look at the manifest or the disk fails the job, without a fallback.
FetchRaises(j) ==
  /\ job[j].pc \in {"probe", "downloading", "assembling"} /\ job[j].todo = {}
  /\ \/ "raised" \in job[j].broken /\ UNCHANGED errors
     \/ job[j].broken = {} /\ errors < MaxErrors /\ errors' = errors + 1
  /\ SetJob(j, [job[j] EXCEPT !.pc = "failed"]) /\ SetDest(j, NoRoot)
  /\ UNCHANGED <<prefix, up, kills>>

\* The arrays are assembled from the parts, checked and moved into place ...
AssembleArrays(j) ==
  /\ job[j].pc = "downloading" /\ job[j].todo = {} /\ job[j].broken = {}
  /\ SetJob(j, [job[j] EXCEPT !.pc = "assembling"])
  /\ SetDest(j, [dest[j] EXCEPT !.state = "arrays"])
  /\ UNCHANGED <<prefix, up, faults>>

\* ... manifest.json last; then the cache opens and the splits use it.
PlaceManifest(j) ==
  /\ job[j].pc = "assembling"
  /\ SetJob(j, [job[j] EXCEPT !.pc = "installed"])
  /\ SetDest(j, [dest[j] EXCEPT !.state = "ready", !.origin = "prebuilt"])
  /\ UNCHANGED <<prefix, up, faults>>

\* _build_cache refuses a cache root that exists; build_patch_cache writes a
\* staging directory and renames it, so the root appears complete or not at all.
BuildLocal(j, ok) ==
  /\ job[j].pc = "building"
  /\ ~ok => errors < MaxErrors
  /\ errors' = errors + (IF ok THEN 0 ELSE 1)
  /\ LET built == ok /\ dest[j] = NoRoot IN
       /\ SetJob(j, [job[j] EXCEPT !.pc = IF built THEN "installed" ELSE "failed"])
       /\ SetDest(j, IF built THEN Local ELSE dest[j])
  /\ UNCHANGED <<prefix, up, kills>>

\* The worker is preempted; the job is started again over what is on its disk.
KillJob(j) ==
  /\ job[j].pc \in {"probe", "downloading", "assembling", "building"} /\ kills < MaxKills
  /\ kills' = kills + 1
  /\ SetJob(j, [job[j] EXCEPT !.pc = "dead"])
  /\ UNCHANGED <<prefix, up, dest, errors>>

RestartJob(j) ==
  /\ job[j].pc = "dead"
  /\ SetJob(j, [pc |-> "start", read |-> None, todo |-> {}, tries |-> [n \in Names |-> 0],
                broken |-> {}, restarted |-> TRUE])
  /\ UNCHANGED <<prefix, up, dest, faults>>

-----------------------------------------------------------------------------

UploadStep(u) ==
  \/ CheckPublished(u) \/ CheckLeftovers(u) \/ UploadRaises(u)
  \/ \E n \in Names, landed, ok \in BOOLEAN : UploadShard(u, n, landed, ok)
  \/ \E ok \in BOOLEAN : Publish(u, ok)

JobStep(j) ==
  \/ StartJob(j) \/ ReadManifest(j) \/ FetchFails(j) \/ FetchRaises(j)
  \/ AssembleArrays(j) \/ PlaceManifest(j)
  \/ \E n \in Names : ShardRaises(j, n) \/ \E ok \in BOOLEAN : DownloadShard(j, n, ok)
  \/ \E ok \in BOOLEAN : BuildLocal(j, ok)

CacheNext ==
  \/ \E u \in Uploads : UploadStep(u) \/ KillUpload(u)
  \/ \E j \in Jobs : JobStep(j) \/ KillJob(j) \/ RestartJob(j)

\* Every job that is not killed is scheduled, and its transfers return or time
\* out.  Nobody has to start an upload, finish one or restart a job.
CacheFairness == \A j \in Jobs : WF_cacheVars(JobStep(j))

CacheSpec == CacheInit /\ [][CacheNext]_cacheVars /\ CacheFairness

-----------------------------------------------------------------------------

\* A published manifest never names a shard that is missing: a reader that
\* finds the manifest finds every object it lists, whichever uploads are
\* killed, fail, race or replace each other's leftovers.
PublishedShardsExist ==
  manifest # None => \A n \in DOMAIN manifest : shard[n] # None

\* "never overwritten", of the published cache: the shards under a published
\* manifest are the ones it describes.
PublishedStaysFetchable ==
  manifest # None => \A n \in DOMAIN manifest : shard[n] = manifest[n]

\* A cache root that opens holds all rows of one published cache, in its
\* order, or the job's own build; also after kills in the middle of a fetch,
\* and while uploads still replace shards.
ReadyRootIsWhole ==
  \A j \in Jobs : dest[j].state = "ready" =>
    \/ dest[j] = Local
    \/ manifest # None /\ dest[j].parts = manifest

\* A fetch that fails leaves no cache root; only a kill does, and then a
\* restart is refused instead of training on the remains.
OnlyAKillLeavesARoot ==
  \A j \in Jobs : job[j].pc = "failed" /\ dest[j] # NoRoot => job[j].restarted

\* A job that is not killed gets its cache or an error, after every restart:
\* retries and the fallback never make it try forever.
JobsDecide ==
  \A j \in Jobs :
    job[j].pc \notin {"start", "dead"} ~> job[j].pc \in {"installed", "failed", "dead"}

=============================================================================
