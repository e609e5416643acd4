---------------------------- MODULE MCFeatureRuns ----------------------------
(***************************************************************************)
(* Feature runs over one output root, however they are started: by hand    *)
(* (run_features), by drivers (run_features_isolated), or by a driver next *)
(* to runs started by hand.                                                *)
(*                                                                         *)
(* Drivers, runs, scenes and configurations are interchangeable: no action *)
(* and no property names one of them.                                      *)
(***************************************************************************)
EXTENDS FeatureDriver, TLC

Interchangeable ==
  Permutations(Drivers) \cup Permutations(Runs) \cup Permutations(Scenes) \cup Permutations(Configs)

\* Bounds: how many drivers are started, over how many of the scenes, with how many
\* configurations, whether runs are started by hand, too, how many runs there
\* are, and how many scenes they are given between them.
Worlds == {
  [drivers |-> 0, scenes |-> 1, configs |-> 2, byHand |-> TRUE, runs |-> 3, given |-> 3],
  [drivers |-> 0, scenes |-> 2, configs |-> 1, byHand |-> TRUE, runs |-> 2, given |-> 3],
  [drivers |-> 1, scenes |-> 1, configs |-> 2, byHand |-> TRUE, runs |-> 2, given |-> 2],
  [drivers |-> 1, scenes |-> 2, configs |-> 2, byHand |-> FALSE, runs |-> 2, given |-> 2],
  [drivers |-> 2, scenes |-> 1, configs |-> 2, byHand |-> FALSE, runs |-> 3, given |-> 3]}

VARIABLES
  world,
  reach,  \* the scenes of this world
  given   \* scenes given to runs so far

FeatureInit ==
  /\ DriverInit
  /\ world \in Worlds /\ reach \in {S \in SUBSET Scenes : Cardinality(S) = world.scenes}
  /\ given = 0

Launched == {d \in Drivers : driver[d].phase # "idle"}
Started == {r \in Runs : pc[r] # "idle"}

FeatureNext ==
  /\ ChildrenNext \/ (world.byHand /\ StartByHand)
  /\ given' = given + Cardinality(UNION {todo'[r] : r \in Started' \ Started})
  /\ given' <= world.given /\ Cardinality(Started') <= world.runs
  /\ Cardinality(Launched') <= world.drivers
  /\ Cardinality({config'[r] : r \in Started'}) <= world.configs
  /\ \A d \in Drivers : driver'[d].queue \subseteq reach
  /\ \A r \in Runs : todo'[r] \subseteq reach
  /\ UNCHANGED <<world, reach>>

FeatureSpec == FeatureInit /\ [][FeatureNext]_<<driverVars, world, reach, given>>

=============================================================================
