----------------------------- MODULE MCArdScene -----------------------------
(***************************************************************************)
(* Values and bounds for ArdScene; runs and contracts are interchangeable. *)
(* Four runs over the mosaic scene alone, with no object lost, or MaxMixed *)
(* runs over any sources; part says which is explored.                     *)
(***************************************************************************)
EXTENDS ArdScene, TLC

CONSTANT MaxMixed

Interchangeable == Permutations(Runs) \cup Permutations(Contracts)

VARIABLE part

ArdInit == part \in {"mosaic", "mixed"} /\ Init

Started == {r \in Runs : contract[r] # NoContract}

ArdNext ==
  /\ Next /\ UNCHANGED part
  /\ part = "mosaic" => todo' \subseteq Mosaic /\ (run = NoRun => run' # NoRun)
  /\ part = "mixed" => Cardinality(Started') <= MaxMixed

ArdSpec == ArdInit /\ [][ArdNext]_<<vars, part>>

=============================================================================
