-------------------------- MODULE MCSecondaryRuns --------------------------
(***************************************************************************)
(* The secondary products, dynamic and static.  The two write roots of     *)
(* their own, so they are explored side by side: part says which of them   *)
(* moves.  In the part "guard" any run may start and what it does with the *)
(* root is left out; the part "pipeline" is that of GuardedRuns.           *)
(*                                                                         *)
(* Values: three interchangeable runs on the first host, one on another;   *)
(* two scenes, the second without a solar position; two configurations     *)
(* that differ in the vegetation horizon.                                  *)
(***************************************************************************)
EXTENDS GuardedRuns, MCStaticProducts, TLC

CONSTANTS local1, local2, local3, remote

VARIABLE part

TwoHosts == [r \in Runs |-> IF r = remote THEN "worker" ELSE "vm"]
OneAccount == [r \in Runs |-> "pipeline"]
TwoAccounts == [r \in Runs |-> IF r = local1 THEN "root" ELSE "pipeline"]
HorizonChanges ==
  [horizon1 |-> [era5_land |-> "e", shadow_building |-> "b", shadow_vegetation |-> "v1"],
   horizon2 |-> [era5_land |-> "e", shadow_building |-> "b", shadow_vegetation |-> "v2"]]
TheConfigs == DOMAIN Fingerprint

SameHostRuns == Permutations({local1, local2, local3} \cap Invocations) \cup Permutations(Pids)

RunsInit == /\ part \in {"guard", "pipeline", "static"}
            /\ GuardedInit /\ StaticInit

RunsNext ==
  /\ \/ part = "guard" /\ Next /\ UNCHANGED <<dynamicVars, staticVars>>
     \/ part = "pipeline" /\ GuardedNext /\ UNCHANGED staticVars
     \/ part = "static" /\ StaticNext /\ UNCHANGED <<vars, dynamicVars>>
  /\ UNCHANGED part

RunsSpec == RunsInit /\ [][RunsNext]_<<vars, dynamicVars, staticVars, part>>
=============================================================================
