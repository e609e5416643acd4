-------------------------- MODULE PatchCacheProofs --------------------------
(***************************************************************************)
(* What the patch cache of a training job guarantees, built from patches   *)
(* read in parallel or fetched from a prebuilt one, for any number of      *)
(* patches, workers, attempts, errors, uploads and jobs.                   *)
(*                                                                         *)
(* Reader. The deque always holds the last items taken, in order, and a    *)
(* read that still waits is one of them, so a generator that has emptied   *)
(* it and has waited for the running reads leaves nothing behind. A read   *)
(* that has used n attempts has seen n - 1 transient errors.               *)
(*                                                                         *)
(* Prebuilt cache. The manifest is written by an upload that has all its   *)
(* shards in the store, and is never written over by another layout; a job *)
(* that fetches agrees with the manifest it read, and opens a root only    *)
(* when nothing of it is missing.                                          *)
(***************************************************************************)
EXTENDS BoundedMap, PrebuiltCache, FiniteSetTheorems, TLAPS

-----------------------------------------------------------------------------
(* The prebuilt cache.                                                     *)

\* An upload that has met no error has written every shard it no longer has to do,
\* and the manifest is that of an upload that was through with its shards.
UploadPart ==
  /\ \A u \in Uploads : up[u].pc = "uploading" =>
       /\ up[u].todo \subseteq DOMAIN up[u].layout
       /\ ~up[u].broken => \A n \in DOMAIN up[u].layout \ up[u].todo : shard[n] # None
  /\ PublishedShardsExist

\* What job j has fetched agrees with the manifest it read, which is still the
\* published one, and is complete unless the fetch is broken.
FetchPart(j) ==
  /\ job[j].pc \in {"start", "probe"} => \A n \in Names : job[j].tries[n] = 0
  /\ job[j].pc \in {"downloading", "assembling"} =>
       /\ job[j].read \in Layouts /\ manifest = job[j].read
       /\ dest[j].parts = [n \in DOMAIN dest[j].parts |-> job[j].read[n]]
       /\ DOMAIN dest[j].parts \subseteq DOMAIN job[j].read
  /\ job[j].pc = "downloading" =>
       /\ dest[j].state = "parts"
       /\ job[j].todo \subseteq DOMAIN job[j].read
       /\ job[j].broken = {} => DOMAIN job[j].read = job[j].todo \cup DOMAIN dest[j].parts
       /\ \A n \in job[j].todo : job[j].tries[n] < Retries
  /\ job[j].pc = "assembling" =>
       dest[j].state = "arrays" /\ DOMAIN dest[j].parts = DOMAIN job[j].read

\* A cache root survives its job only in the hands of a restarted one.
RootPart(j) ==
  /\ job[j].pc \in {"probe", "building"} => dest[j] = NoRoot
  /\ job[j].pc = "start" /\ dest[j] # NoRoot => job[j].restarted
  /\ job[j].pc = "failed" /\ dest[j] # NoRoot => job[j].restarted

CacheInv ==
  /\ CacheTypeOK /\ UploadPart /\ DOMAIN dest = Jobs
  /\ \A j \in Jobs : FetchPart(j) /\ RootPart(j)
  /\ ReadyRootIsWhole

-----------------------------------------------------------------------------

\* No upload and no job has started, nothing is published.
LEMMA CacheInitially == CacheInit => CacheInv
<1> SUFFICES ASSUME CacheInit PROVE CacheInv
  OBVIOUS
<1> USE LayoutsAssumption, CacheBoundsAssumption, NoneAssumption DEF CacheInit
<1>1. CacheTypeOK
  <2>1. up \in [Uploads -> Upload]
    <3> SUFFICES ASSUME NEW u \in Uploads PROVE up[u] \in Upload
      OBVIOUS
    <3> DEFINE Idle == [pc : {"idle"}, layout : Layouts, overwrite : BOOLEAN, todo : {{}},
                        broken : {FALSE}]
    <3>1. up[u] \in Idle
      OBVIOUS
    <3>2. Idle \subseteq Upload
      BY DEF Upload
    <3> QED
      BY <3>1, <3>2
  <2>2. job \in [Jobs -> Job]
    BY DEF Job
  <2>3. shard \in [Names -> Ranges \cup {None}] /\ manifest \in Layouts \cup {None}
    OBVIOUS
  <2>4. errors \in 0 .. MaxErrors /\ kills \in 0 .. MaxKills /\ \A j \in Jobs : dest[j] = NoRoot
    OBVIOUS
  <2> HIDE DEF CacheInit
  <2> QED
    BY <2>1, <2>2, <2>3, <2>4 DEF CacheTypeOK
<1>2. UploadPart
  BY DEF UploadPart, PublishedShardsExist
<1> QED
  BY <1>1, <1>2 DEF CacheInv, FetchPart, RootPart, ReadyRootIsWhole, NoRoot

\* The state an upload moves to is typed, and the manifest changes once only.
LEMMA UploadTypes ==
  ASSUME CacheInv, NEW u \in Uploads, UploadStep(u) \/ KillUpload(u)
  PROVE  /\ up' \in [Uploads -> Upload] /\ shard' \in [Names -> Ranges \cup {None}]
         /\ \A n \in Names : shard[n] # None => shard'[n] # None
         /\ manifest' \in Layouts \cup {None} /\ (manifest # None => manifest' = manifest)
         /\ errors' \in 0 .. MaxErrors /\ kills' \in 0 .. MaxKills
         /\ UNCHANGED <<job, dest>>
         /\ \A w \in Uploads \ {u} : up'[w] = up[w]
<1> USE LayoutsAssumption, CacheBoundsAssumption, NoneAssumption DEF CacheInv, CacheTypeOK, prefix, faults, SetUp
<1>0. /\ up[u] \in Upload /\ DOMAIN up[u].layout \subseteq Names
      /\ \A n \in DOMAIN up[u].layout : up[u].layout[n] \in Ranges
  BY DEF Upload, Names, Ranges
<1>1. CASE CheckPublished(u)
  BY <1>0, <1>1 DEF CheckPublished, Upload
<1>2. CASE CheckLeftovers(u)
  <2>1. \/ up' = [up EXCEPT ![u] = [up[u] EXCEPT !.pc = "refused"]]
        \/ up' = [up EXCEPT ![u] = [up[u] EXCEPT !.pc = "uploading", !.todo = DOMAIN up[u].layout]]
    BY <1>2 DEF CheckLeftovers
  <2>2. /\ [up[u] EXCEPT !.pc = "refused"] \in Upload
        /\ \A S \in SUBSET Names : [up[u] EXCEPT !.pc = "uploading", !.todo = S] \in Upload
    BY <1>0 DEF Upload
  <2>3. \E r \in Upload : up' = [up EXCEPT ![u] = r]
    BY <1>0, <2>1, <2>2
  <2> QED
    BY <1>2, <2>3 DEF CheckLeftovers
<1>3. CASE UploadRaises(u)
  BY <1>0, <1>3 DEF UploadRaises, Upload
<1>4. ASSUME NEW n \in Names, NEW landed \in BOOLEAN, NEW ok \in BOOLEAN,
             UploadShard(u, n, landed, ok)
      PROVE  /\ up' \in [Uploads -> Upload] /\ shard' \in [Names -> Ranges \cup {None}]
             /\ \A m \in Names : shard[m] # None => shard'[m] # None
             /\ errors' \in 0 .. MaxErrors /\ UNCHANGED <<job, dest, manifest, kills>>
             /\ \A w \in Uploads \ {u} : up'[w] = up[w]
  <2>1. n \in DOMAIN up[u].layout
    BY <1>0, <1>4 DEF UploadShard, UploadPart
  <2>2. up' \in [Uploads -> Upload] /\ \A w \in Uploads \ {u} : up'[w] = up[w]
    BY <1>0, <1>4 DEF UploadShard, Upload
  <2> QED
    BY <1>0, <1>4, <2>1, <2>2 DEF UploadShard
<1>5. ASSUME NEW ok \in BOOLEAN, Publish(u, ok)
      PROVE  /\ up' \in [Uploads -> Upload] /\ errors' \in 0 .. MaxErrors
             /\ manifest' \in Layouts \cup {None} /\ (manifest # None => manifest' = manifest)
             /\ UNCHANGED <<job, dest, shard, kills>>
             /\ \A w \in Uploads \ {u} : up'[w] = up[w]
  <2>1. \E S \in {"refused", "ok", "failed"} : up' = [up EXCEPT ![u] = [up[u] EXCEPT !.pc = S]]
    BY <1>5 DEF Publish
  <2>2. \A S \in {"refused", "ok", "failed"} : [up[u] EXCEPT !.pc = S] \in Upload
    BY <1>0 DEF Upload
  <2>3. PICK r \in Upload : up' = [up EXCEPT ![u] = r]
    BY <2>1, <2>2
  <2>4. up' \in [Uploads -> Upload] /\ \A w \in Uploads \ {u} : up'[w] = up[w]
    BY <1>0, <2>3
  <2>5. up[u].layout \in Layouts
    BY <1>0 DEF Upload
  <2> QED
    BY <1>0, <1>5, <2>4, <2>5 DEF Publish
<1>6. CASE KillUpload(u)
  BY <1>0, <1>6 DEF KillUpload, Upload
<1> QED
  BY <1>1, <1>2, <1>3, <1>4, <1>5, <1>6 DEF UploadStep

\* A published manifest lists shards that its upload has written, and they stay.
LEMMA UploadKeepsShards ==
  ASSUME CacheInv, NEW u \in Uploads, UploadStep(u) \/ KillUpload(u)
  PROVE  UploadPart'
<1> USE NoneAssumption DEF CacheInv, CacheTypeOK, UploadPart, PublishedShardsExist, SetUp, prefix, faults
<1>0. /\ up[u] \in Upload /\ \A w \in Uploads : DOMAIN up[w].layout \subseteq Names
      /\ \A n \in DOMAIN up[u].layout : up[u].layout[n] \in Ranges
      /\ manifest # None => DOMAIN manifest \subseteq Names
  BY DEF Upload, Names, Ranges
<1>1. ASSUME NEW w \in Uploads, w # u, up'[w].pc = "uploading"
      PROVE  /\ up'[w].todo \subseteq DOMAIN up'[w].layout
             /\ ~up'[w].broken => \A n \in DOMAIN up'[w].layout \ up'[w].todo : shard'[n] # None
  BY <1>0, <1>1, UploadTypes
<1>2. ASSUME up'[u].pc = "uploading"
      PROVE  /\ up'[u].todo \subseteq DOMAIN up'[u].layout
             /\ ~up'[u].broken => \A n \in DOMAIN up'[u].layout \ up'[u].todo : shard'[n] # None
  <2>1. CASE CheckPublished(u) \/ UploadRaises(u) \/ KillUpload(u) \/ \E ok \in BOOLEAN : Publish(u, ok)
    BY <1>0, <1>2, <2>1 DEF CheckPublished, UploadRaises, KillUpload, Publish, Upload
  <2>2. CASE CheckLeftovers(u)
    <3>1. /\ up[u] \in Upload /\ u \in DOMAIN up
          /\ \/ up' = [up EXCEPT ![u] = [up[u] EXCEPT !.pc = "refused"]]
             \/ up' = [up EXCEPT ![u] = [up[u] EXCEPT !.pc = "uploading",
                                                     !.todo = DOMAIN up[u].layout]]
      BY <1>0, <2>2 DEF CheckLeftovers
    <3>2. up'[u].pc = "uploading" =>
            up'[u].todo = DOMAIN up[u].layout /\ up'[u].layout = up[u].layout
      BY <3>1 DEF Upload
    <3> QED
      BY <1>2, <3>2
  <2>3. ASSUME NEW n \in Names, NEW landed \in BOOLEAN, NEW ok \in BOOLEAN,
               UploadShard(u, n, landed, ok)
        PROVE  /\ up'[u].todo \subseteq DOMAIN up'[u].layout
               /\ ~up'[u].broken => \A m \in DOMAIN up'[u].layout \ up'[u].todo : shard'[m] # None
    <3>1. /\ up'[u].layout = up[u].layout /\ up'[u].todo = up[u].todo \ {n}
          /\ ~up'[u].broken => ~up[u].broken /\ ok
          /\ up[u].pc = "uploading"
      BY <1>0, <2>3 DEF UploadShard, Upload
    <3>2. n \in DOMAIN up[u].layout
      BY <2>3, <3>1 DEF UploadShard
    <3>3. ok => shard' = [shard EXCEPT ![n] = up[u].layout[n]]
      BY <2>3 DEF UploadShard
    <3>4. \A m \in Names : shard[m] # None => shard'[m] # None
      BY UploadTypes
    <3> QED
      BY <1>0, <3>1, <3>2, <3>3, <3>4
  <2> QED
    BY <2>1, <2>2, <2>3 DEF UploadStep
<1>3. ASSUME manifest' # None PROVE \A n \in DOMAIN manifest' : shard'[n] # None
  <2>1. CASE manifest # None
    BY <1>0, <2>1, UploadTypes
  <2>2. CASE manifest = None
    <3>1. \E ok \in BOOLEAN : Publish(u, ok)
      BY <1>3, <2>2 DEF UploadStep, CheckPublished, CheckLeftovers, UploadRaises, UploadShard,
                        KillUpload
    <3> QED
      BY <1>0, <1>3, <2>2, <3>1 DEF Publish
  <2> QED
    BY <2>1, <2>2
<1> QED
  BY <1>1, <1>2, <1>3

\* An upload does not touch what the jobs have, nor the manifest they have read.
LEMMA UploadKeeps ==
  ASSUME CacheInv, NEW u \in Uploads, UploadStep(u) \/ KillUpload(u)
  PROVE  CacheInv'
<1>1. CacheTypeOK'
  BY UploadTypes DEF CacheInv, CacheTypeOK
<1>2. \A j \in Jobs : FetchPart(j)' /\ RootPart(j)'
  BY UploadTypes, NoneAssumption DEF CacheInv, FetchPart, RootPart
<1>3. ReadyRootIsWhole'
  BY UploadTypes, NoneAssumption DEF CacheInv, ReadyRootIsWhole
<1> QED
  BY <1>1, <1>2, <1>3, UploadKeepsShards, UploadTypes DEF CacheInv

-----------------------------------------------------------------------------

\* What is left to show of a step of one job.
LEMMA OneJobMoves ==
  ASSUME CacheInv, NEW j \in Jobs, UNCHANGED <<shard, manifest, up>>,
         NEW r \in Job, job' = [job EXCEPT ![j] = r],
         NEW d, d = NoRoot \/ d \in Root, DOMAIN dest' = Jobs, dest'[j] = d,
         \A k \in Jobs \ {j} : dest'[k] = dest[k],
         errors' \in 0 .. MaxErrors, kills' \in 0 .. MaxKills,
         FetchPart(j)', RootPart(j)',
         d.state = "ready" => d = Local \/ (manifest # None /\ d.parts = manifest)
  PROVE  CacheInv'
<1>1. job' \in [Jobs -> Job] /\ \A k \in Jobs \ {j} : job'[k] = job[k]
  BY DEF CacheInv, CacheTypeOK
<1>2. \A k \in Jobs : dest'[k] = NoRoot \/ dest'[k] \in Root
  BY DEF CacheInv, CacheTypeOK
<1>3. CacheTypeOK'
  BY <1>1, <1>2 DEF CacheInv, CacheTypeOK
<1>4. UploadPart'
  BY DEF CacheInv, UploadPart, PublishedShardsExist
<1>5. \A k \in Jobs \ {j} : FetchPart(k)' /\ RootPart(k)'
  BY <1>1 DEF CacheInv, FetchPart, RootPart
<1>6. ReadyRootIsWhole'
  BY DEF CacheInv, ReadyRootIsWhole
<1> QED
  BY <1>3, <1>4, <1>5, <1>6 DEF CacheInv

\* What a job may take for granted.
LEMMA JobBefore ==
  ASSUME CacheInv, NEW j \in Jobs
  PROVE  /\ job[j] \in Job /\ DOMAIN job = Jobs
         /\ dest[j] = NoRoot \/ dest[j] \in Root
         /\ DOMAIN dest = Jobs
         /\ errors \in 0 .. MaxErrors /\ kills \in 0 .. MaxKills
         /\ FetchPart(j) /\ RootPart(j)
         /\ dest[j].state = "ready" => dest[j] = Local \/ (manifest # None /\ dest[j].parts = manifest)
  BY DEF CacheInv, CacheTypeOK, ReadyRootIsWhole

\* The recovery ends with no cache root, and nothing to fetch.
LEMMA RecoverKeeps ==
  ASSUME CacheInv, NEW j \in Jobs, Recover(j), UNCHANGED <<shard, manifest, up, faults>>
  PROVE  CacheInv'
<1> DEFINE r == [job[j] EXCEPT !.pc = IF Fallback THEN "building" ELSE "failed"]
<1>1. r \in Job /\ r.pc \in {"building", "failed"}
  BY JobBefore DEF Job
<1>2. job' = [job EXCEPT ![j] = r] /\ dest' = [dest EXCEPT ![j] = NoRoot]
  BY DEF Recover, SetJob, SetDest
<1>3. job'[j] = r /\ dest'[j] = NoRoot /\ DOMAIN dest' = Jobs
      /\ \A k \in Jobs \ {j} : dest'[k] = dest[k]
  BY <1>2, JobBefore
<1>4. FetchPart(j)' /\ RootPart(j)'
  BY <1>1, <1>3 DEF FetchPart, RootPart
<1> HIDE DEF r
<1> QED
  BY <1>1, <1>2, <1>3, <1>4, JobBefore, OneJobMoves DEF faults, NoRoot

\* One attempt at one shard: what it accepts is what the manifest lists.
LEMMA DownloadKeeps ==
  ASSUME CacheInv, NEW j \in Jobs, NEW n \in Names, NEW ok \in BOOLEAN, DownloadShard(j, n, ok)
  PROVE  CacheInv'
<1> USE NoneAssumption, CacheBoundsAssumption
<1>1. /\ job[j].pc = "downloading" /\ n \in job[j].todo
      /\ UNCHANGED <<shard, manifest, up, kills>> /\ errors' \in 0 .. MaxErrors
  BY JobBefore DEF DownloadShard, prefix
<1>2. /\ job[j].read \in Layouts /\ manifest = job[j].read
      /\ job[j].todo \subseteq DOMAIN job[j].read /\ job[j].tries[n] < Retries
      /\ job[j].broken = {} => DOMAIN job[j].read = job[j].todo \cup DOMAIN dest[j].parts
      /\ \A m \in job[j].todo : job[j].tries[m] < Retries
      /\ dest[j].parts = [m \in DOMAIN dest[j].parts |-> job[j].read[m]]
      /\ DOMAIN dest[j].parts \subseteq DOMAIN job[j].read
      /\ dest[j].state = "parts"
  BY <1>1, JobBefore DEF FetchPart
<1>3. dest[j] \in Root
  BY <1>2, JobBefore DEF NoRoot
<1>4. job[j] \in Job /\ DOMAIN job = Jobs /\ DOMAIN dest = Jobs
  BY JobBefore
<1>5. CASE ok /\ Accept(j, n)
  <2> DEFINE r == [job[j] EXCEPT !.todo = @ \ {n}]
             d == AddPart(dest[j], n, shard[n])
  <2>1. job' = [job EXCEPT ![j] = r] /\ dest' = [dest EXCEPT ![j] = d]
    BY <1>5 DEF DownloadShard, SetJob, SetDest
  <2>2. /\ r \in Job /\ r.pc = "downloading" /\ r.todo = job[j].todo \ {n} /\ r.read = job[j].read
        /\ r.tries = job[j].tries /\ r.broken = job[j].broken
    BY <1>1, <1>4 DEF Job
  <2>3. /\ dest[j].parts \in [DOMAIN dest[j].parts -> Ranges \cup {None}]
        /\ DOMAIN dest[j].parts \in SUBSET Names
    BY <1>3 DEF Root
  <2> DEFINE more == [m \in DOMAIN dest[j].parts \cup {n} |->
                        IF m = n THEN shard[n] ELSE dest[j].parts[m]]
  <2>4. /\ DOMAIN more = DOMAIN dest[j].parts \cup {n}
        /\ more \in [DOMAIN more -> Ranges \cup {None}] /\ DOMAIN more \in SUBSET Names
    BY <2>3 DEF CacheInv, CacheTypeOK
  <2>5. d = [dest[j] EXCEPT !.parts = more]
    BY DEF AddPart
  <2>6. d \in Root /\ d.state = "parts" /\ d.parts = more
    <3>1. more \in UNION {[S -> Ranges \cup {None}] : S \in SUBSET Names}
      BY <2>4
    <3> HIDE DEF more, d
    <3> QED
      BY <1>2, <1>3, <2>5, <3>1 DEF Root
  <2>7. d.parts = [m \in DOMAIN d.parts |-> job[j].read[m]]
    <3>1. n \in DOMAIN job[j].read /\ shard[n] = job[j].read[n]
      BY <1>1, <1>2, <1>5 DEF Accept
    <3>2. \A m \in DOMAIN dest[j].parts : dest[j].parts[m] = job[j].read[m]
      BY <1>2
    <3>3. more = [m \in DOMAIN more |-> job[j].read[m]]
      BY <3>1, <3>2
    <3> HIDE DEF d, more
    <3> QED
      BY <2>6, <3>3
  <2>8. /\ job'[j] = r /\ dest'[j] = d /\ DOMAIN dest' = Jobs
        /\ \A k \in Jobs \ {j} : dest'[k] = dest[k]
    BY <2>1, JobBefore
  <2> HIDE DEF r, d, more
  <2>9. FetchPart(j)'
    BY <1>1, <1>2, <2>2, <2>4, <2>6, <2>7, <2>8 DEF FetchPart
  <2>10. RootPart(j)'
    BY <2>2, <2>8 DEF RootPart
  <2> QED
    BY <1>1, <1>2, <2>1, <2>2, <2>4, <2>6, <2>8, <2>9, <2>10, JobBefore, OneJobMoves
<1>6. CASE ~(ok /\ Accept(j, n))
  <2> DEFINE tries == job[j].tries[n] + 1
             r == [job[j] EXCEPT !.tries[n] = tries,
                                 !.todo = IF tries = Retries THEN @ \ {n} ELSE @,
                                 !.broken = IF tries = Retries THEN @ \cup {"refused"} ELSE @]
  <2>1. job' = [job EXCEPT ![j] = r] /\ dest' = dest
    BY <1>6 DEF DownloadShard, SetJob, CountAttempt
  <2>2. tries \in 1 .. Retries
    BY <1>2, <1>4 DEF Job
  <2>3. /\ r \in Job /\ r.pc = "downloading" /\ r.read = job[j].read
        /\ r.todo = (IF tries = Retries THEN job[j].todo \ {n} ELSE job[j].todo)
        /\ r.tries = [job[j].tries EXCEPT ![n] = tries]
        /\ (r.broken = {} => job[j].broken = {} /\ tries # Retries)
    <3> HIDE DEF tries
    <3>1. [job[j].tries EXCEPT ![n] = tries] \in [Names -> 0 .. Retries]
      BY <1>4, <2>2 DEF Job
    <3> QED
      BY <1>1, <1>4, <3>1 DEF Job
  <2>4. job'[j] = r
    BY <2>1, JobBefore
  <2>5. \A m \in r.todo : r.tries[m] < Retries
    <3>1. SUFFICES ASSUME NEW m \in r.todo PROVE r.tries[m] < Retries
      OBVIOUS
    <3>2. job[j].tries \in [Names -> 0 .. Retries] /\ m \in job[j].todo /\ job[j].todo \subseteq Names
      BY <1>4, <2>3, <3>1 DEF Job
    <3> HIDE DEF r
    <3>3. CASE m # n
      BY <1>2, <2>3, <3>2, <3>3
    <3>4. CASE m = n
      BY <2>2, <2>3, <3>1, <3>2, <3>4
    <3> QED
      BY <3>3, <3>4
  <2> HIDE DEF r, tries
  <2>6. FetchPart(j)'
    <3>1. /\ manifest' = r.read /\ r.read \in Layouts /\ r.todo \subseteq DOMAIN r.read
          /\ r.broken = {} => DOMAIN r.read = r.todo \cup DOMAIN dest[j].parts
      BY <1>1, <1>2, <2>3
    <3>2. /\ job'[j] = r /\ dest'[j] = dest[j] /\ r.pc = "downloading"
          /\ dest[j].state = "parts"
          /\ dest[j].parts = [m \in DOMAIN dest[j].parts |-> r.read[m]]
          /\ DOMAIN dest[j].parts \subseteq DOMAIN r.read
      BY <1>2, <2>1, <2>3, <2>4
    <3> QED
      BY <2>5, <3>1, <3>2 DEF FetchPart
  <2>7. RootPart(j)'
    BY <2>3, <2>4 DEF RootPart
  <2> QED
    BY <1>1, <1>2, <2>1, <2>3, <2>6, <2>7, JobBefore, OneJobMoves
<1> QED
  BY <1>5, <1>6

\* A fetch starts with an empty cache root and the manifest as published.
LEMMA ReadManifestKeeps ==
  ASSUME CacheInv, NEW j \in Jobs, ReadManifest(j)
  PROVE  CacheInv'
<1>1. CASE manifest = None
  BY <1>1, RecoverKeeps DEF ReadManifest, prefix
<1>2. CASE manifest # None
  <2> DEFINE r == [job[j] EXCEPT !.pc = "downloading", !.read = manifest, !.todo = DOMAIN manifest]
             d == [NoRoot EXCEPT !.state = "parts"]
  <2>1. /\ job' = [job EXCEPT ![j] = r] /\ dest' = [dest EXCEPT ![j] = d]
        /\ job[j].pc = "probe" /\ UNCHANGED <<shard, manifest, up, errors, kills>>
    BY <1>2 DEF ReadManifest, SetJob, SetDest, prefix, faults
  <2>2. manifest \in Layouts /\ DOMAIN manifest \in SUBSET Names
    BY <1>2 DEF CacheInv, CacheTypeOK, Names
  <2>3. job[j] \in Job /\ DOMAIN job = Jobs /\ DOMAIN dest = Jobs
    BY JobBefore
  <2>4. /\ r \in Job /\ r.pc = "downloading" /\ r.read = manifest /\ r.todo = DOMAIN manifest
        /\ r.tries = job[j].tries
    BY <2>2, <2>3 DEF Job
  <2>5. d \in Root /\ d.state = "parts" /\ d.parts = <<>> /\ DOMAIN d.parts = {}
    <3>1. <<>> \in UNION {[S -> Ranges \cup {None}] : S \in SUBSET Names}
      <4>1. <<>> \in [{} -> Ranges \cup {None}]
        OBVIOUS
      <4> QED
        BY <4>1
    <3>2. d = [state |-> "parts", parts |-> <<>>, origin |-> "none"]
      BY DEF NoRoot
    <3> HIDE DEF d
    <3> QED
      BY <3>1, <3>2 DEF Root
  <2>6. \A n \in r.todo : r.tries[n] < Retries
    <3>1. FetchPart(j)
      BY JobBefore
    <3>2. \A n \in Names : job[j].tries[n] = 0
      BY <2>1, <3>1 DEF FetchPart
    <3> HIDE DEF r
    <3> QED
      BY <2>2, <2>4, <3>2, CacheBoundsAssumption
  <2>7. job'[j] = r /\ dest'[j] = d /\ DOMAIN dest' = Jobs /\ \A k \in Jobs \ {j} : dest'[k] = dest[k]
    BY <2>1, <2>3
  <2>8. d.parts = [n \in DOMAIN d.parts |-> r.read[n]]
    BY <2>5
  <2> HIDE DEF r, d
  <2>9. FetchPart(j)' /\ RootPart(j)'
    BY <2>1, <2>2, <2>4, <2>5, <2>6, <2>7, <2>8 DEF FetchPart, RootPart
  <2> QED
    BY <2>1, <2>4, <2>5, <2>7, <2>9, JobBefore, OneJobMoves
<1> QED
  BY <1>1, <1>2

\* The parts of a fetch that is not broken are the whole published cache.
LEMMA AssembleKeeps ==
  ASSUME CacheInv, NEW j \in Jobs, AssembleArrays(j) \/ PlaceManifest(j)
  PROVE  CacheInv'
<1>1. job[j] \in Job /\ DOMAIN job = Jobs /\ DOMAIN dest = Jobs
  BY JobBefore
<1>2. PICK p \in {"assembling", "installed"}, d \in Root :
        /\ job' = [job EXCEPT ![j] = [job[j] EXCEPT !.pc = p]]
        /\ dest' = [dest EXCEPT ![j] = d] /\ d.parts = dest[j].parts
        /\ d.state = (IF p = "assembling" THEN "arrays" ELSE "ready")
        /\ UNCHANGED <<shard, manifest, up, errors, kills>>
        /\ job[j].read \in Layouts /\ manifest = job[j].read
        /\ dest[j].parts = [n \in DOMAIN dest[j].parts |-> job[j].read[n]]
        /\ DOMAIN dest[j].parts = DOMAIN job[j].read
  <2>1. /\ job[j].pc \in {"downloading", "assembling"}
        /\ job[j].pc = "downloading" => job[j].todo = {} /\ job[j].broken = {}
        /\ UNCHANGED <<shard, manifest, up, errors, kills>>
    BY DEF AssembleArrays, PlaceManifest, prefix, faults
  <2>2. dest[j] \in Root
    <3>1. dest[j].state \in {"parts", "arrays"}
      BY <2>1, JobBefore DEF FetchPart
    <3>2. NoRoot.state = "absent"
      BY DEF NoRoot
    <3> QED
      BY <3>1, <3>2, JobBefore
  <2>3. /\ job[j].read \in Layouts /\ manifest = job[j].read
        /\ dest[j].parts = [n \in DOMAIN dest[j].parts |-> job[j].read[n]]
        /\ DOMAIN dest[j].parts = DOMAIN job[j].read
    BY <2>1, JobBefore DEF FetchPart
  <2>4. CASE AssembleArrays(j)
    <3> DEFINE d == [dest[j] EXCEPT !.state = "arrays"]
    <3>1. d \in Root /\ d.parts = dest[j].parts /\ d.state = "arrays"
      BY <2>2 DEF Root
    <3> QED
      BY <2>1, <2>3, <2>4, <3>1 DEF AssembleArrays, SetJob, SetDest
  <2>5. CASE PlaceManifest(j)
    <3> DEFINE d == [dest[j] EXCEPT !.state = "ready", !.origin = "prebuilt"]
    <3>1. d \in Root /\ d.parts = dest[j].parts /\ d.state = "ready"
      BY <2>2 DEF Root
    <3> QED
      BY <2>1, <2>3, <2>5, <3>1 DEF PlaceManifest, SetJob, SetDest
  <2> QED
    BY <2>4, <2>5
<1> DEFINE r == [job[j] EXCEPT !.pc = p]
<1>3. r \in Job /\ r.pc = p /\ r.read = job[j].read
  BY <1>1 DEF Job
<1>4. job'[j] = r /\ dest'[j] = d /\ DOMAIN dest' = Jobs /\ \A k \in Jobs \ {j} : dest'[k] = dest[k]
  BY <1>1, <1>2
<1> HIDE DEF r
<1>5. FetchPart(j)' /\ RootPart(j)'
  BY <1>2, <1>3, <1>4 DEF FetchPart, RootPart
<1>6. d.parts = manifest /\ manifest # None
  <2>1. job[j].read = [n \in DOMAIN job[j].read |-> job[j].read[n]]
    BY <1>2, LayoutsAssumption
  <2> QED
    BY <1>2, <2>1, NoneAssumption
<1>7. job' = [job EXCEPT ![j] = r]
  BY <1>2 DEF r
<1> QED
  BY <1>2, <1>3, <1>4, <1>5, <1>6, <1>7, JobBefore, OneJobMoves

\* A step that leaves the cache root as it is, or builds the cache where none was.
LEMMA QuietMove ==
  ASSUME CacheInv, NEW j \in Jobs, NEW r \in Job, job' = [job EXCEPT ![j] = r],
         r.pc \notin {"downloading", "assembling"},
         UNCHANGED <<shard, manifest, up>>, errors' \in 0 .. MaxErrors, kills' \in 0 .. MaxKills,
         DOMAIN dest' = Jobs, \A k \in Jobs \ {j} : dest'[k] = dest[k],
         dest'[j] = dest[j] \/ (dest'[j] = Local /\ r.pc = "installed"),
         r.pc \in {"start", "probe"} => \A n \in Names : r.tries[n] = 0,
         r.pc \in {"probe", "building"} => dest[j] = NoRoot,
         r.pc \in {"start", "failed"} /\ dest[j] # NoRoot => r.restarted
  PROVE  CacheInv'
<1>1. job'[j] = r
  BY JobBefore
<1>2. FetchPart(j)' /\ RootPart(j)'
  BY <1>1 DEF FetchPart, RootPart
<1>3. Local \in Root
  <2>1. <<>> \in [{} -> Ranges \cup {None}]
    OBVIOUS
  <2>2. <<>> \in UNION {[S -> Ranges \cup {None}] : S \in SUBSET Names}
    BY <2>1
  <2> QED
    BY <2>2 DEF Local, Root
<1>4. CASE dest'[j] = dest[j]
  BY <1>2, <1>4, JobBefore, OneJobMoves
<1>5. CASE dest'[j] = Local
  BY <1>2, <1>3, <1>5, OneJobMoves
<1> QED
  BY <1>4, <1>5

\* A shard that raises only breaks the fetch; a fetch that raises ends with no
\* cache root.
LEMMA RaisesKeep ==
  ASSUME CacheInv, NEW j \in Jobs, FetchRaises(j) \/ \E n \in Names : ShardRaises(j, n)
  PROVE  CacheInv'
<1> USE CacheBoundsAssumption
<1>1. /\ job[j] \in Job /\ DOMAIN job = Jobs /\ DOMAIN dest = Jobs
      /\ errors \in 0 .. MaxErrors /\ kills \in 0 .. MaxKills /\ FetchPart(j)
  BY JobBefore
<1>2. CASE FetchRaises(j)
  <2> DEFINE r == [job[j] EXCEPT !.pc = "failed"]
  <2>1. /\ job' = [job EXCEPT ![j] = r] /\ dest' = [dest EXCEPT ![j] = NoRoot]
        /\ UNCHANGED <<shard, manifest, up, kills>> /\ errors' \in 0 .. MaxErrors
    BY <1>1, <1>2 DEF FetchRaises, SetJob, SetDest, prefix
  <2>2. r \in Job /\ r.pc = "failed"
    BY <1>1 DEF Job
  <2>3. job'[j] = r /\ dest'[j] = NoRoot /\ DOMAIN dest' = Jobs
        /\ \A k \in Jobs \ {j} : dest'[k] = dest[k]
    BY <1>1, <2>1
  <2> HIDE DEF r
  <2>4. FetchPart(j)' /\ RootPart(j)'
    BY <2>2, <2>3 DEF FetchPart, RootPart
  <2> QED
    BY <1>1, <2>1, <2>2, <2>3, <2>4, OneJobMoves DEF NoRoot
<1>3. ASSUME NEW n \in Names, ShardRaises(j, n) PROVE CacheInv'
  <2> DEFINE r == [job[j] EXCEPT !.todo = @ \ {n}, !.broken = @ \cup {"raised"}]
  <2>1. /\ job' = [job EXCEPT ![j] = r] /\ dest' = dest /\ job[j].pc = "downloading"
        /\ UNCHANGED <<shard, manifest, up, kills>> /\ errors' \in 0 .. MaxErrors
    <3>1. job' = [job EXCEPT ![j] = r]
      BY <1>3 DEF ShardRaises, SetJob
    <3> HIDE DEF r
    <3>2. errors < MaxErrors /\ errors' = errors + 1
      BY <1>3 DEF ShardRaises
    <3>3. errors' \in 0 .. MaxErrors
      BY <1>1, <3>2
    <3> QED
      BY <1>3, <3>1, <3>3 DEF ShardRaises, prefix
  <2>2. /\ r \in Job /\ r.pc = "downloading" /\ r.read = job[j].read /\ r.tries = job[j].tries
        /\ r.todo = job[j].todo \ {n} /\ r.broken # {}
    BY <1>1, <2>1 DEF Job
  <2>3. job'[j] = r
    BY <1>1, <2>1
  <2> HIDE DEF r
  <2>4. FetchPart(j)' /\ RootPart(j)'
    BY <1>1, <2>1, <2>2, <2>3 DEF FetchPart, RootPart
  <2> QED
    BY <1>1, <2>1, <2>2, <2>4, JobBefore, OneJobMoves
<1> QED
  BY <1>2, <1>3

\* Starting, being killed and restarted, and the local build.
LEMMA OtherJobSteps ==
  ASSUME CacheInv, NEW j \in Jobs,
         \/ StartJob(j) \/ KillJob(j) \/ RestartJob(j)
         \/ \E ok \in BOOLEAN : BuildLocal(j, ok)
  PROVE  CacheInv'
<1>1. job[j] \in Job /\ DOMAIN job = Jobs /\ DOMAIN dest = Jobs /\ RootPart(j)
      /\ errors \in 0 .. MaxErrors /\ kills \in 0 .. MaxKills
  BY JobBefore
<1>2. \A p \in {"probe", "failed", "dead", "installed"} :
        LET r == [job[j] EXCEPT !.pc = p] IN
          r \in Job /\ r.pc = p /\ r.restarted = job[j].restarted /\ r.tries = job[j].tries
  BY <1>1 DEF Job
<1>3. CASE StartJob(j)
  <2> DEFINE p == IF dest[j] = NoRoot THEN "probe" ELSE "failed"
             r == [job[j] EXCEPT !.pc = p]
  <2>1. /\ job' = [job EXCEPT ![j] = r] /\ UNCHANGED <<shard, manifest, up, dest, errors, kills>>
        /\ dest[j] # NoRoot => job[j].restarted
    BY <1>1, <1>3 DEF StartJob, SetJob, prefix, faults, RootPart
  <2>2. /\ r \in Job /\ r.pc = p /\ r.restarted = job[j].restarted
        /\ \A n \in Names : r.tries[n] = 0
    <3>1. FetchPart(j) /\ job[j].pc = "start"
      BY <1>3, JobBefore DEF StartJob
    <3>2. \A n \in Names : job[j].tries[n] = 0
      BY <3>1 DEF FetchPart
    <3>3. r \in Job /\ r.pc = p /\ r.restarted = job[j].restarted /\ r.tries = job[j].tries
      BY <1>2
    <3> QED
      BY <3>2, <3>3
  <2> HIDE DEF r
  <2> QED
    BY <1>1, <2>1, <2>2, QuietMove
<1>4. CASE KillJob(j)
  <2> DEFINE r == [job[j] EXCEPT !.pc = "dead"]
  <2>1. /\ job' = [job EXCEPT ![j] = r] /\ UNCHANGED <<shard, manifest, up, dest, errors>>
        /\ kills' \in 0 .. MaxKills
    BY <1>1, <1>4, CacheBoundsAssumption DEF KillJob, SetJob, prefix
  <2>2. r \in Job /\ r.pc = "dead"
    BY <1>2
  <2> HIDE DEF r
  <2> QED
    BY <1>1, <2>1, <2>2, QuietMove
<1>5. CASE RestartJob(j)
  <2> DEFINE r == [pc |-> "start", read |-> None, todo |-> {}, tries |-> [n \in Names |-> 0],
                   broken |-> {}, restarted |-> TRUE]
  <2>1. job' = [job EXCEPT ![j] = r] /\ UNCHANGED <<shard, manifest, up, dest, errors, kills>>
    BY <1>5 DEF RestartJob, SetJob, prefix, faults
  <2>2. r \in Job /\ r.pc = "start" /\ r.restarted /\ \A n \in Names : r.tries[n] = 0
    BY CacheBoundsAssumption DEF Job
  <2> HIDE DEF r
  <2> QED
    BY <1>1, <2>1, <2>2, QuietMove
<1>6. ASSUME NEW ok \in BOOLEAN, BuildLocal(j, ok) PROVE CacheInv'
  <2> DEFINE p == IF ok /\ dest[j] = NoRoot THEN "installed" ELSE "failed"
             r == [job[j] EXCEPT !.pc = p]
  <2>1. /\ job' = [job EXCEPT ![j] = r] /\ UNCHANGED <<shard, manifest, up, kills>>
        /\ dest' = [dest EXCEPT ![j] = IF ok /\ dest[j] = NoRoot THEN Local ELSE dest[j]]
        /\ errors' \in 0 .. MaxErrors /\ job[j].pc = "building"
    BY <1>1, <1>6, CacheBoundsAssumption DEF BuildLocal, SetJob, SetDest, prefix
  <2>2. r \in Job /\ r.pc = p
    BY <1>2
  <2>3. /\ DOMAIN dest' = Jobs /\ \A k \in Jobs \ {j} : dest'[k] = dest[k]
        /\ dest'[j] = dest[j] \/ (dest'[j] = Local /\ p = "installed")
        /\ dest[j] = NoRoot
    BY <1>1, <2>1 DEF RootPart
  <2>4. p \in {"installed", "failed"}
    OBVIOUS
  <2> HIDE DEF r, p
  <2> QED
    BY <1>1, <2>1, <2>2, <2>3, <2>4, QuietMove
<1> QED
  BY <1>3, <1>4, <1>5, <1>6

\* Every step of a job keeps the invariant; a failed fetch only clears the root.
LEMMA JobKeeps ==
  ASSUME CacheInv, NEW j \in Jobs, JobStep(j) \/ KillJob(j) \/ RestartJob(j)
  PROVE  CacheInv'
<1>1. CASE FetchFails(j)
  BY <1>1, RecoverKeeps DEF FetchFails, prefix
<1> QED
  BY <1>1, ReadManifestKeeps, DownloadKeeps, RaisesKeep, AssembleKeeps, OtherJobSteps DEF JobStep

\* The invariant holds in every reachable state of uploads and jobs.
THEOREM CacheInvariant == CacheSpec => []CacheInv
<1>1. CacheInv /\ [CacheNext]_cacheVars => CacheInv'
  <2> SUFFICES ASSUME CacheInv, [CacheNext]_cacheVars PROVE CacheInv'
    OBVIOUS
  <2>1. CASE UNCHANGED cacheVars
    BY <2>1 DEF cacheVars, CacheInv, CacheTypeOK, UploadPart, PublishedShardsExist, FetchPart,
                RootPart, ReadyRootIsWhole
  <2> QED
    BY <2>1, UploadKeeps, JobKeeps DEF CacheNext
<1> QED
  BY <1>1, CacheInitially, PTL DEF CacheSpec

\* Every variable keeps its type.
THEOREM CacheTypeCorrect == CacheSpec => []CacheTypeOK
<1>1. CacheInv => CacheTypeOK
  BY DEF CacheInv
<1> QED
  BY <1>1, CacheInvariant, PTL

\* Whatever manifest a reader finds, every shard it lists is there
\* (upload_prebuilt_cache uploads the manifest last).
THEOREM ShardsAreThere == CacheSpec => []PublishedShardsExist
<1>1. CacheInv => PublishedShardsExist
  BY DEF CacheInv, UploadPart
<1> QED
  BY <1>1, CacheInvariant, PTL

\* A cache root that opens is the whole published cache or the job's own build
\* (fetch_prebuilt_cache, _materialize_prebuilt).
THEOREM RootsAreWhole == CacheSpec => []ReadyRootIsWhole
<1>1. CacheInv => ReadyRootIsWhole
  BY DEF CacheInv
<1> QED
  BY <1>1, CacheInvariant, PTL

\* A failed fetch leaves no cache root behind, unless it failed on the root that a
\* killed predecessor left (_materialize_prebuilt removes what the fetch placed).
THEOREM FailuresCleanUp == CacheSpec => []OnlyAKillLeavesARoot
<1>1. CacheInv => OnlyAKillLeavesARoot
  BY DEF CacheInv, RootPart, OnlyAKillLeavesARoot
<1> QED
  BY <1>1, CacheInvariant, PTL

-----------------------------------------------------------------------------
(* The parallel reader.                                                    *)

\* The deque holds the last items taken; what it has given up was delivered,
\* as long as the generator iterates.
DequeInv ==
  /\ Len(pending) <= taken
  /\ \A k \in 1 .. Len(pending) : pending[k] = taken - Len(pending) + k
  /\ phase \in {"iterating", "suspended"} => Len(delivered) = taken - Len(pending)

\* Where the reads are: what waits is in the deque, what was not taken has not
\* begun.
TaskInv ==
  /\ \A i \in Items : task[i] = "queued" => taken - Len(pending) < i /\ i <= taken
  /\ \A i \in Items : taken < i => task[i] = "none"

PhaseInv ==
  /\ outcome = "open" <=> phase \in {"iterating", "suspended"}
  /\ phase = "ended" => pending = <<>> /\ \A i \in Items : task[i] # "running"

\* What the attempts and the failures of reads have cost.
ErrorInv ==
  /\ \A i \in Items : attempt[i] <= transient + 1
  /\ \A i \in Items : task[i] = "raised" => fatal > 0 \/ transient >= MaxAttempts
  /\ outcome = "raised" => fatal > 0 \/ transient >= MaxAttempts

MapInv == TypeOK /\ DequeInv /\ TaskInv /\ PhaseInv /\ ErrorInv

-----------------------------------------------------------------------------

\* The front of a sequence and what is left without it.
LEMMA FrontOff ==
  ASSUME NEW S, NEW q \in Seq(S), q # <<>>
  PROVE  /\ Len(q) \in Nat /\ Len(q) > 0
         /\ Head(q) = q[1] /\ Head(q) \in S
         /\ Tail(q) \in Seq(S) /\ Len(Tail(q)) = Len(q) - 1
         /\ \A k \in 1 .. Len(q) - 1 : Tail(q)[k] = q[k + 1]
  OBVIOUS

\* One more element.
LEMMA OneMore ==
  ASSUME NEW S, NEW q \in Seq(S), NEW e \in S
  PROVE  /\ Append(q, e) \in Seq(S) /\ Len(Append(q, e)) = Len(q) + 1
         /\ Append(q, e)[Len(q) + 1] = e
         /\ \A k \in 1 .. Len(q) : Append(q, e)[k] = q[k]
  OBVIOUS

\* The deque, oldest future first.
LEMMA Oldest ==
  ASSUME MapInv, pending # <<>>
  PROVE  /\ Len(pending) \in Nat /\ Len(pending) > 0 /\ Len(pending) <= taken
         /\ Head(pending) = taken - Len(pending) + 1 /\ Head(pending) \in Items
         /\ Tail(pending) \in Seq(Items) /\ Len(Tail(pending)) = Len(pending) - 1
         /\ \A k \in 1 .. Len(pending) - 1 :
              Tail(pending)[k] = taken - (Len(pending) - 1) + k
<1>1. pending \in Seq(Items) /\ taken \in Nat /\ DequeInv
  BY BoundsAssumption DEF MapInv, TypeOK
<1>2. /\ Len(pending) \in Nat /\ Len(pending) > 0
      /\ Head(pending) = pending[1] /\ Head(pending) \in Items
      /\ Tail(pending) \in Seq(Items) /\ Len(Tail(pending)) = Len(pending) - 1
      /\ \A k \in 1 .. Len(pending) - 1 : Tail(pending)[k] = pending[k + 1]
  BY <1>1, FrontOff
<1>3. \A k \in 1 .. Len(pending) - 1 : pending[k + 1] = taken - (Len(pending) - 1) + k
  BY <1>1, <1>2 DEF DequeInv
<1> QED
  BY <1>1, <1>2, <1>3 DEF DequeInv

\* Nothing has been read at first.
LEMMA InitialMap == Init => MapInv
<1> SUFFICES ASSUME Init PROVE MapInv
  OBVIOUS
<1>1. Len(<<>>) = 0 /\ <<>> \in Seq(Items)
  OBVIOUS
<1>2. TypeOK
  BY <1>1, BoundsAssumption DEF Init, TypeOK, Phases
<1>3. DequeInv
  <2>1. taken = 0 /\ Len(pending) = 0 /\ Len(delivered) = 0
    BY <1>1 DEF Init
  <2> QED
    BY <2>1 DEF DequeInv
<1>4. PhaseInv
  BY DEF Init, PhaseInv
<1>5. TaskInv /\ ErrorInv
  BY DEF Init, TaskInv, ErrorInv
<1> QED
  BY <1>2, <1>3, <1>4, <1>5 DEF MapInv

\* Each step of the generator and of its caller keeps the invariant.
LEMMA GeneratorKeepsMap == MapInv /\ (Generator \/ Caller) => MapInv'
<1> SUFFICES ASSUME MapInv, Generator \/ Caller PROVE MapInv'
  OBVIOUS
<1>0. /\ TypeOK /\ DequeInv /\ TaskInv /\ PhaseInv /\ ErrorInv
      /\ taken \in Nat /\ Len(pending) \in Nat /\ Len(delivered) \in Nat
  BY BoundsAssumption DEF MapInv, TypeOK
<1> USE DEF pool, caller
<1>1. CASE Submit
  <2>1. /\ taken < NumItems /\ taken + 1 \in Items
        /\ phase = "iterating" /\ taken' = taken + 1
        /\ UNCHANGED <<workers, phase, transient, fatal, delivered, outcome>>
    BY <1>0, <1>1, BoundsAssumption DEF Submit, Fillable, TypeOK, Items
  <2>2. /\ pending' \in Seq(Items) /\ Len(pending') = Len(pending) + 1
        /\ pending'[Len(pending) + 1] = taken + 1
        /\ \A k \in 1 .. Len(pending) : pending'[k] = pending[k]
    BY <1>0, <1>1, <2>1, OneMore DEF Submit, TypeOK
  <2>3. /\ task' \in [Items -> {"none", "queued", "running", "done", "raised", "cancelled"}]
        /\ task'[taken + 1] \in {"queued", "running"}
        /\ \A i \in Items \ {taken + 1} : task'[i] = task[i]
    BY <1>0, <1>1, <2>1 DEF Submit, TypeOK
  <2>4. /\ attempt' \in [Items -> 0 .. MaxAttempts]
        /\ attempt'[taken + 1] \in {0, 1}
        /\ \A i \in Items \ {taken + 1} : attempt'[i] = attempt[i]
    BY <1>0, <1>1, <2>1, BoundsAssumption DEF Submit, TypeOK
  <2>5. TypeOK'
    BY <1>0, <2>1, <2>2, <2>3, <2>4, BoundsAssumption DEF TypeOK
  <2>6. DequeInv'
    BY <1>0, <2>1, <2>2 DEF DequeInv
  <2>7. TaskInv'
    BY <1>0, <2>1, <2>2, <2>3 DEF TaskInv, DequeInv, Items
  <2>8. PhaseInv'
    BY <1>0, <2>1 DEF PhaseInv
  <2>9. ErrorInv'
    <3>1. transient \in Nat
      BY <1>0, BoundsAssumption DEF TypeOK
    <3>2. \A i \in Items : attempt'[i] <= transient + 1
      BY <1>0, <2>4, <3>1 DEF ErrorInv
    <3> QED
      BY <1>0, <2>1, <2>3, <3>2 DEF ErrorInv
  <2> QED
    BY <2>5, <2>6, <2>7, <2>8, <2>9 DEF MapInv
<1>2. CASE Yield \/ Raise \/ Cancel
  \* The oldest future leaves the deque; it does not wait any more.
  <2>1. /\ pending # <<>> /\ pending' = Tail(pending)
        /\ UNCHANGED <<workers, taken, attempt, transient, fatal>>
    BY <1>2 DEF Yield, Raise, Cancel
  <2>2. /\ Len(pending) > 0 /\ Head(pending) = taken - Len(pending) + 1
        /\ Head(pending) \in Items
        /\ pending' \in Seq(Items) /\ Len(pending') = Len(pending) - 1
        /\ \A k \in 1 .. Len(pending') : pending'[k] = taken - Len(pending') + k
    BY <2>1, Oldest
  <2>3. /\ task' \in [Items -> {"none", "queued", "running", "done", "raised", "cancelled"}]
        /\ task'[Head(pending)] # "queued"
        /\ \A i \in Items \ {Head(pending)} : task'[i] = task[i]
        /\ \A i \in Items : task'[i] = "raised" => task[i] = "raised"
        /\ \A i \in Items : task[i] = "none" => task'[i] = "none"
    BY <1>0, <1>2, <2>2 DEF Yield, Raise, Cancel, TypeOK
  <2>4. /\ phase' \in Phases \ {"ended"} /\ outcome' \in {"open", "complete", "raised", "closed"}
        /\ outcome' = "open" <=> phase' \in {"iterating", "suspended"}
        /\ delivered' \in Seq(Items)
    <3>1. Append(delivered, Head(pending)) \in Seq(Items)
      BY <1>0, <2>2, OneMore DEF TypeOK
    <3>2. CASE Yield
      BY <1>0, <3>1, <3>2 DEF Yield, TypeOK, PhaseInv, Phases
    <3>3. CASE Raise
      BY <1>0, <3>3 DEF Raise, TypeOK, Phases
    <3>4. CASE Cancel
      BY <1>0, <3>4 DEF Cancel, TypeOK, PhaseInv, Phases
    <3> QED
      BY <1>2, <3>2, <3>3, <3>4
  <2>5. TypeOK'
    BY <1>0, <2>1, <2>2, <2>3, <2>4 DEF TypeOK
  <2>6. phase' \in {"iterating", "suspended"} => Len(delivered') = Len(delivered) + 1 /\ phase = "iterating"
    BY <1>0, <1>2, <2>2, OneMore DEF Yield, Raise, Cancel, TypeOK
  <2>7. DequeInv'
    BY <1>0, <2>1, <2>2, <2>6 DEF DequeInv
  <2>8. TaskInv'
    BY <1>0, <2>1, <2>2, <2>3 DEF TaskInv, Items
  <2>9. outcome' = "raised" => outcome = "raised" \/ task[Head(pending)] = "raised"
    BY <1>2 DEF Yield, Raise, Cancel
  <2>10. ErrorInv'
    BY <1>0, <2>1, <2>2, <2>3, <2>9 DEF ErrorInv
  <2> QED
    BY <2>4, <2>5, <2>7, <2>8, <2>10 DEF MapInv, PhaseInv
<1>3. CASE Exhausted
  BY <1>0, <1>3 DEF Exhausted, MapInv, TypeOK, DequeInv, TaskInv, PhaseInv, ErrorInv, Phases
<1>4. CASE Shutdown
  BY <1>0, <1>4 DEF Shutdown, Inside, MapInv, TypeOK, DequeInv, TaskInv, PhaseInv, ErrorInv, Phases
<1>5. CASE Resume
  BY <1>0, <1>5 DEF Resume, MapInv, TypeOK, DequeInv, TaskInv, PhaseInv, ErrorInv, Phases
<1>6. CASE Close
  BY <1>0, <1>6 DEF Close, MapInv, TypeOK, DequeInv, TaskInv, PhaseInv, ErrorInv, Phases
<1> QED
  BY <1>1, <1>2, <1>3, <1>4, <1>5, <1>6 DEF Generator, Caller

\* So does each step of a thread of the pool.
LEMMA PoolKeepsMap ==
  ASSUME MapInv, NEW i \in Items, Take(i) \/ Read(i)
  PROVE  MapInv'
<1>0. /\ TypeOK /\ DequeInv /\ TaskInv /\ PhaseInv /\ ErrorInv
  BY DEF MapInv
<1>1. /\ UNCHANGED <<workers, taken, pending, phase, delivered, outcome>>
      /\ task[i] \in {"queued", "running"}
  BY DEF Take, Read, ReadDone, ReadTransient, ReadFatal, caller
<1>2. phase # "ended"
  <2>1. phase = "ended" => Len(pending) = 0
    BY <1>0 DEF PhaseInv
  <2> QED
    BY <1>0, <1>1, <2>1, BoundsAssumption DEF PhaseInv, TaskInv, TypeOK, Items
<1>3. /\ task' \in [Items -> {"none", "queued", "running", "done", "raised", "cancelled"}]
      /\ task'[i] \in {"running", "done", "raised"}
      /\ \A j \in Items \ {i} : task'[j] = task[j]
  BY <1>0 DEF Take, Read, ReadDone, ReadTransient, ReadFatal, TypeOK
<1>4. /\ attempt' \in [Items -> 0 .. MaxAttempts]
      /\ attempt'[i] <= transient' + 1
      /\ \A j \in Items \ {i} : attempt'[j] = attempt[j]
      /\ transient' \in 0 .. MaxTransient /\ fatal' \in 0 .. MaxFatal
      /\ transient' >= transient /\ fatal' >= fatal
  <2>1. transient \in Nat /\ fatal \in Nat /\ attempt[i] \in Nat /\ attempt[i] <= transient + 1
    BY <1>0, BoundsAssumption DEF TypeOK, ErrorInv
  <2>2. CASE Take(i)
    BY <1>0, <2>1, <2>2, BoundsAssumption DEF Take, TypeOK
  <2>3. CASE ReadDone(i) \/ ReadFatal(i)
    BY <1>0, <2>1, <2>3, BoundsAssumption DEF ReadDone, ReadFatal, TypeOK
  <2>4. CASE ReadTransient(i)
    <3>1. transient' = transient + 1 /\ transient' \in 0 .. MaxTransient /\ fatal' = fatal
      BY <1>0, <2>1, <2>4, BoundsAssumption DEF ReadTransient, TypeOK
    <3>2. CASE LastAttempt(i)
      BY <1>0, <2>1, <2>4, <3>1, <3>2 DEF ReadTransient, TypeOK
    <3>3. CASE ~LastAttempt(i)
      <4>1. attempt[i] + 1 \in 0 .. MaxAttempts
        BY <1>0, <3>3, BoundsAssumption DEF LastAttempt, TypeOK
      <4> QED
        BY <1>0, <2>1, <2>4, <3>1, <3>3, <4>1 DEF ReadTransient, TypeOK
    <3> QED
      BY <3>2, <3>3
  <2> QED
    BY <2>2, <2>3, <2>4 DEF Read
<1>5. task'[i] = "raised" => fatal' > 0 \/ transient' >= MaxAttempts
  BY <1>0, BoundsAssumption DEF Take, Read, ReadDone, ReadTransient, ReadFatal, LastAttempt, TypeOK, ErrorInv
<1>6. TypeOK'
  BY <1>0, <1>1, <1>3, <1>4 DEF TypeOK
<1>7. DequeInv' /\ PhaseInv'
  BY <1>0, <1>1, <1>2 DEF DequeInv, PhaseInv
<1>8. TaskInv'
  BY <1>0, <1>1, <1>3 DEF TaskInv
<1>9. ErrorInv'
  <2>1. /\ transient \in Nat /\ transient' \in Nat /\ fatal \in Nat /\ fatal' \in Nat
        /\ MaxAttempts \in Nat /\ \A j \in Items : attempt[j] \in Nat
    BY <1>0, <1>4, BoundsAssumption DEF TypeOK
  <2>2. \A j \in Items : attempt'[j] <= transient' + 1
    BY <1>0, <1>4, <2>1 DEF ErrorInv
  <2>3. fatal > 0 \/ transient >= MaxAttempts => fatal' > 0 \/ transient' >= MaxAttempts
    BY <1>4, <2>1
  <2> QED
    BY <1>0, <1>1, <1>3, <1>5, <2>2, <2>3 DEF ErrorInv
<1> QED
  BY <1>6, <1>7, <1>8, <1>9 DEF MapInv

\* Every step keeps the invariant.
LEMMA StepKeepsMap == MapInv /\ [Next]_vars => MapInv'
<1> SUFFICES ASSUME MapInv, [Next]_vars PROVE MapInv'
  OBVIOUS
<1>1. CASE UNCHANGED vars
  BY <1>1 DEF MapInv, TypeOK, DequeInv, TaskInv, PhaseInv, ErrorInv, vars
<1> QED
  BY <1>1, GeneratorKeepsMap, PoolKeepsMap DEF Next

\* The invariant holds in every behaviour of the map (ordered_bounded_map).
THEOREM MapInvariant == Spec => []MapInv
  BY InitialMap, StepKeepsMap, PTL DEF Spec

\* No read is left running or waiting once the generator has ended
\* (executor.shutdown in the finally clause of ordered_bounded_map).
THEOREM NothingReadsOn == Spec => []NoReadOutlivesTheMap
<1>1. MapInv => NoReadOutlivesTheMap
  <2> SUFFICES ASSUME MapInv, phase = "ended" PROVE Inside("queued") \cup Inside("running") = {}
    BY DEF NoReadOutlivesTheMap
  <2>1. Len(pending) = 0 /\ \A i \in Items : task[i] # "running"
    BY DEF MapInv, PhaseInv
  <2>2. \A i \in Items : task[i] # "queued"
    BY <2>1, BoundsAssumption DEF MapInv, TaskInv, TypeOK, Items
  <2> QED
    BY <2>1, <2>2 DEF Inside
<1> QED
  BY <1>1, MapInvariant, PTL

\* Fewer transient errors than a patch has attempts never fail a build
\* (read_with_retry).
THEOREM FewErrorsAreSurvived == Spec => []TransientErrorsAreSurvived
<1>1. MapInv => TransientErrorsAreSurvived
  BY DEF MapInv, ErrorInv, TransientErrorsAreSurvived
<1> QED
  BY <1>1, MapInvariant, PTL

\* What the window and the pool have room for: while the generator iterates, a
\* running read is one of the deque's, so that the inline worker starts a read
\* only when none runs.
RoomInv ==
  /\ Len(pending) <= Window
  /\ taken - Len(delivered) <= Window
  /\ phase \in {"iterating", "suspended"} =>
       \A i \in Items : task[i] = "running" => taken - Len(pending) < i
  /\ Cardinality(Inside("running")) <= workers

\* Sets of items are finite, and smaller sets count less.
LEMMA ItemsAreCounted ==
  ASSUME NEW A \in SUBSET Items
  PROVE  /\ IsFiniteSet(A) /\ Cardinality(A) \in Nat
         /\ \A B \in SUBSET A : Cardinality(B) <= Cardinality(A)
         /\ \A i \in Items : Cardinality(A \cup {i}) <= Cardinality(A) + 1
<1>1. IsFiniteSet(Items)
  BY BoundsAssumption, FS_Interval DEF Items
<1>2. IsFiniteSet(A)
  BY <1>1, FS_Subset
<1>3. Cardinality(A) \in Nat
  BY <1>2, FS_CardinalityType
<1>4. \A B \in SUBSET A : Cardinality(B) <= Cardinality(A)
  BY <1>2, FS_Subset
<1>5. \A i \in Items : Cardinality(A \cup {i}) <= Cardinality(A) + 1
  <2> TAKE i \in Items
  <2>1. Cardinality(A \cup {i}) = IF i \in A THEN Cardinality(A) ELSE Cardinality(A) + 1
    BY <1>2, FS_AddElement, Zenon
  <2> QED
    BY <1>3, <2>1
<1> QED
  BY <1>2, <1>3, <1>4, <1>5

\* The generator and its caller leave room.
LEMMA GeneratorLeavesRoom == MapInv /\ RoomInv /\ (Generator \/ Caller) => RoomInv'
<1> SUFFICES ASSUME MapInv, RoomInv, Generator \/ Caller PROVE RoomInv'
  OBVIOUS
<1>0. /\ TypeOK /\ DequeInv /\ TaskInv /\ PhaseInv
      /\ taken \in Nat /\ Len(pending) \in Nat /\ Len(delivered) \in Nat
      /\ workers \in 1 .. 4 /\ Window \in Nat
  BY BoundsAssumption, WorkersAssumption DEF MapInv, TypeOK, Window
<1> USE DEF pool, caller
<1>w. workers' = workers /\ Window' = Window
  BY DEF Generator, Caller, Submit, Yield, Raise, Exhausted, Cancel, Shutdown, Resume, Close, Window
<1>1. CASE Submit
  <2>1. /\ taken + 1 \in Items /\ taken' = taken + 1 /\ Len(pending) < Window
        /\ phase = "iterating" /\ phase' = phase /\ delivered' = delivered
        /\ Len(pending') = Len(pending) + 1
        /\ \A i \in Items \ {taken + 1} : task'[i] = task[i]
        /\ task'[taken + 1] = IF workers = 1 THEN "running" ELSE "queued"
    BY <1>0, <1>1, OneMore, BoundsAssumption DEF Submit, Fillable, TypeOK, Items
  <2>2. Cardinality(Inside("running")') <= workers
    <3>1. CASE workers = 1
      <4>1. Inside("running") = {}
        BY <1>0, <2>1, <3>1 DEF RoomInv, TaskInv, Inside, Window, Items
      <4>2. Inside("running")' = {taken + 1}
        BY <2>1, <3>1, <4>1 DEF Inside
      <4> QED
        BY <3>1, <4>2, FS_Singleton
    <3>2. CASE workers # 1
      <4>1. Inside("running")' \in SUBSET Inside("running")
        BY <2>1, <3>2 DEF Inside
      <4>2. Inside("running") \in SUBSET Items
        BY DEF Inside
      <4>3. Cardinality(Inside("running")') <= Cardinality(Inside("running"))
        BY <4>1, <4>2, ItemsAreCounted
      <4>4. Cardinality(Inside("running")') \in Nat /\ Cardinality(Inside("running")) \in Nat
        BY <4>1, <4>2, ItemsAreCounted
      <4> QED
        BY <1>0, <4>3, <4>4 DEF RoomInv
    <3> QED
      BY <3>1, <3>2
  <2> QED
    BY <1>0, <1>w, <2>1, <2>2 DEF RoomInv, DequeInv, Items
<1>2. CASE Yield \/ Raise \/ Cancel
  <2>1. /\ pending # <<>> /\ pending' = Tail(pending) /\ taken' = taken
    BY <1>2 DEF Yield, Raise, Cancel
  <2>2. /\ Len(pending) > 0 /\ Len(pending') = Len(pending) - 1
        /\ Head(pending) = taken - Len(pending) + 1 /\ Head(pending) \in Items
    BY <2>1, Oldest
  <2>3. taken - Len(delivered') <= taken - Len(delivered)
    BY <1>0, <1>2, <2>2, OneMore DEF Yield, Raise, Cancel, TypeOK
  <2>4. \A i \in Items : task'[i] = "running" <=> task[i] = "running"
    BY <1>0, <1>2, <2>2 DEF Yield, Raise, Cancel, TypeOK
  <2>5. Inside("running")' = Inside("running")
    BY <2>4 DEF Inside
  <2>6. phase' \in {"iterating", "suspended"} =>
          phase \in {"iterating", "suspended"} /\ task[Head(pending)] # "running"
    BY <1>2 DEF Yield, Raise, Cancel
  <2>7. Len(delivered') \in Nat
    BY <1>0, <1>2, <2>2, OneMore DEF Yield, Raise, Cancel, TypeOK
  <2>8. phase' \in {"iterating", "suspended"} =>
          \A i \in Items : task'[i] = "running" => taken - Len(pending') < i
    BY <1>0, <2>2, <2>4, <2>6 DEF RoomInv, Items
  <2>9. Len(pending') <= Window /\ taken - Len(delivered') <= Window
    BY <1>0, <2>2, <2>3, <2>7 DEF RoomInv
  <2> QED
    BY <1>w, <2>1, <2>5, <2>8, <2>9 DEF RoomInv
<1>3. CASE Exhausted \/ Shutdown \/ Resume \/ Close
  <2>1. /\ UNCHANGED <<taken, pending, delivered, task>>
        /\ phase' \in {"iterating", "suspended"} => phase \in {"iterating", "suspended"}
    BY <1>3 DEF Exhausted, Shutdown, Resume, Close
  <2> QED
    BY <1>w, <2>1 DEF RoomInv, Inside
<1> QED
  BY <1>1, <1>2, <1>3 DEF Generator, Caller

\* So do the threads of the pool: a read starts only when a thread is free.
LEMMA PoolLeavesRoom ==
  ASSUME MapInv, RoomInv, NEW i \in Items, Take(i) \/ Read(i)
  PROVE  RoomInv'
<1>0. TypeOK /\ DequeInv /\ TaskInv /\ workers \in 1 .. 4
  BY WorkersAssumption DEF MapInv, TypeOK
<1>1. /\ UNCHANGED <<workers, taken, pending, phase, delivered, outcome>> /\ Window' = Window
      /\ \A j \in Items \ {i} : task'[j] = task[j]
  BY <1>0 DEF Take, Read, ReadDone, ReadTransient, ReadFatal, caller, TypeOK, Window
<1>2. Inside("running") \in SUBSET Items
  BY DEF Inside
<1>3. CASE Take(i)
  <2>1. task[i] = "queued" /\ task'[i] = "running" /\ Cardinality(Inside("running")) < workers
    BY <1>0, <1>3 DEF Take, TypeOK
  <2>2. Inside("running")' = Inside("running") \cup {i}
    BY <1>1, <2>1 DEF Inside
  <2>3. Cardinality(Inside("running")') <= Cardinality(Inside("running")) + 1
    BY <1>2, <2>2, ItemsAreCounted
  <2>4. Inside("running")' \in SUBSET Items
    BY <1>2, <2>2
  <2>5. Cardinality(Inside("running")') \in Nat /\ Cardinality(Inside("running")) \in Nat
    BY <1>2, <2>4, ItemsAreCounted
  <2>6. Cardinality(Inside("running")') <= workers
    BY <1>0, <2>1, <2>3, <2>5
  <2>7. \A j \in Items : task'[j] = "running" => j = i \/ task[j] = "running"
    BY <1>1
  <2> QED
    BY <1>0, <1>1, <2>1, <2>6, <2>7 DEF RoomInv, TaskInv
<1>4. CASE Read(i)
  <2>1. task[i] = "running" /\ \A j \in Items : task'[j] = "running" => task[j] = "running"
    BY <1>1, <1>4 DEF Read, ReadDone, ReadTransient, ReadFatal
  <2>2. Inside("running")' \in SUBSET Inside("running")
    BY <2>1 DEF Inside
  <2>3. Cardinality(Inside("running")') <= Cardinality(Inside("running"))
    BY <1>2, <2>2, ItemsAreCounted
  <2>4. Cardinality(Inside("running")') \in Nat /\ Cardinality(Inside("running")) \in Nat
    BY <1>2, <2>2, ItemsAreCounted
  <2>5. Cardinality(Inside("running")') <= workers
    BY <1>0, <2>3, <2>4 DEF RoomInv
  <2> QED
    BY <1>1, <2>1, <2>5 DEF RoomInv
<1> QED
  BY <1>3, <1>4

\* A build never holds more results than the window has room for, nor runs more
\* reads than it has workers, however slow its consumer is.
THEOREM MemoryIsBounded == Spec => []WindowIsBounded
<1>1. Init => RoomInv
  <2> SUFFICES ASSUME Init PROVE RoomInv
    OBVIOUS
  <2>1. taken = 0 /\ Len(pending) = 0 /\ Len(delivered) = 0 /\ Inside("running") = {}
    BY DEF Init, Inside
  <2>2. workers \in 1 .. 4 /\ Window \in Nat
    BY WorkersAssumption DEF Init, Window
  <2>3. Cardinality(Inside("running")) = 0
    BY <2>1, FS_EmptySet
  <2>4. \A i \in Items : task[i] # "running"
    BY DEF Init
  <2> QED
    BY <2>1, <2>2, <2>3, <2>4 DEF RoomInv
<1>2. MapInv /\ RoomInv /\ [Next]_vars => RoomInv'
  <2>1. UNCHANGED vars /\ RoomInv => RoomInv'
    BY DEF RoomInv, Inside, Window, vars
  <2> QED
    BY <2>1, GeneratorLeavesRoom, PoolLeavesRoom DEF Next
<1>3. RoomInv => WindowIsBounded
  BY DEF RoomInv, WindowIsBounded
<1> QED
  BY <1>1, <1>2, <1>3, MapInvariant, PTL DEF Spec

\* The caller receives the results one by one, in the order of the items, until
\* all are delivered, one cannot be read, or it closes the generator: the safety
\* part of DeliversInOrder.
THEOREM OrderIsKept == Spec => Delivery!Init /\ [][Delivery!Next]_(Delivery!deliveryVars)
<1>1. Init => Delivery!Init
  BY DEF Init, Delivery!Init
<1>2. MapInv /\ [Next]_vars => [Delivery!Next]_(Delivery!deliveryVars)
  <2> SUFFICES ASSUME MapInv, [Next]_vars PROVE [Delivery!Next]_(Delivery!deliveryVars)
    OBVIOUS
  <2>0. /\ taken \in 0 .. NumItems /\ Len(pending) \in Nat /\ DequeInv /\ PhaseInv
        /\ Len(delivered) \in Nat
    BY DEF MapInv, TypeOK
  <2>1. CASE Yield
    <3>1. Len(pending) > 0 /\ Head(pending) = taken - Len(pending) + 1
      BY <2>1, Oldest DEF Yield
    <3>2. Len(delivered) < NumItems /\ Head(pending) = Len(delivered) + 1 /\ outcome = "open"
      BY <2>0, <2>1, <3>1, BoundsAssumption DEF Yield, DequeInv, PhaseInv
    <3> QED
      BY <2>1, <3>2 DEF Yield, Delivery!Next, Delivery!Deliver
  <2>2. CASE Raise
    <3>1. Len(pending) > 0
      BY <2>2, Oldest DEF Raise
    <3>2. Len(delivered) < NumItems /\ outcome = "open"
      BY <2>0, <2>2, <3>1, BoundsAssumption DEF Raise, DequeInv, PhaseInv
    <3> QED
      BY <2>2, <3>2 DEF Raise, Delivery!Next, Delivery!End
  <2>3. CASE Exhausted
    <3>1. Len(pending) = 0
      BY <2>3 DEF Exhausted
    <3>2. Len(delivered) = NumItems /\ outcome = "open"
      BY <2>0, <2>3, <3>1, BoundsAssumption DEF Exhausted, DequeInv, PhaseInv
    <3> QED
      BY <2>3, <3>2 DEF Exhausted, Delivery!Next, Delivery!End
  <2>4. CASE Close
    BY <2>0, <2>4 DEF Close, PhaseInv, Delivery!Next, Delivery!End
  <2>5. CASE Submit \/ Cancel \/ Shutdown \/ Resume
    BY <2>5 DEF Submit, Cancel, Shutdown, Resume, caller, Delivery!deliveryVars
  <2>6. CASE \E i \in Items : Take(i) \/ Read(i)
    BY <2>6 DEF Take, Read, ReadDone, ReadTransient, ReadFatal, caller, Delivery!deliveryVars
  <2>7. CASE UNCHANGED vars
    BY <2>7 DEF vars, Delivery!deliveryVars
  <2> QED
    BY <2>1, <2>2, <2>3, <2>4, <2>5, <2>6, <2>7 DEF Next, Generator, Caller
<1> QED
  BY <1>1, <1>2, MapInvariant, PTL DEF Spec

=============================================================================
