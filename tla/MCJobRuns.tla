----------------------------- MODULE MCJobRuns -----------------------------
(***************************************************************************)
(* What runs on a machine of its own: the patch cache of a training job,   *)
(* built from patches read through the bounded map or fetched from a       *)
(* prebuilt one; a pipeline run launched on the virtual machine; and the   *)
(* backfill of the building vintages, one of the pipelines launched there. *)
(* part says which is explored.  The other parts start after a local build that *)
(* ended at its first read, so that every behaviour has a map and the      *)
(* properties of the map need no exception.                                *)
(*                                                                         *)
(* Values: a cache of two rows, cut into two shards or into one.           *)
(***************************************************************************)
EXTENDS BoundedMap, PrebuiltCache, VmRun, MCVintageProducts

VARIABLE part

Fine == [n \in {"features-0", "features-1"} |-> IF n = "features-0" THEN {1} ELSE {2}]
Coarse == [n \in {"features-0"} |-> {1, 2}]
TwoLayouts == {Fine, Coarse}

JobRunsInit ==
  /\ Init /\ CacheInit /\ VmInit /\ VintageInit
  /\ part \in {"map", "cache", "vm", "vintages"}
  /\ part # "map" => workers = 1
  /\ part # "cache" => \A u \in Uploads : up[u].layout = Coarse /\ up[u].overwrite

After(p) == part = p /\ phase = "ended" /\ UNCHANGED <<vars, part>>

FirstReadFails == Submit \/ ReadFatal(1) \/ Raise \/ Shutdown

MapStep ==
  /\ IF part = "map" THEN Next ELSE FirstReadFails
  /\ UNCHANGED <<cacheVars, vmVars, vintageVars, part>>

JobRunsNext ==
  \/ MapStep
  \/ After("cache") /\ CacheNext /\ UNCHANGED <<vmVars, vintageVars>>
  \/ After("vm") /\ VmNext /\ UNCHANGED <<cacheVars, vintageVars>>
  \/ After("vintages") /\ VintageNext /\ UNCHANGED <<cacheVars, vmVars>>

Fetching == part = "cache" /\ phase = "ended"

\* CacheFairness and VmFairness from the moment the job or the launcher starts.
JobRunsFairness ==
  /\ Fairness
  /\ \A j \in Jobs : WF_cacheVars(Fetching /\ JobStep(j))
  /\ VmFairness

JobRunsSpec ==
  JobRunsInit /\ [][JobRunsNext]_<<vars, cacheVars, vmVars, vintageVars, part>> /\ JobRunsFairness
=============================================================================
