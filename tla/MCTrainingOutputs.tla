------------------------- MODULE MCTrainingOutputs -------------------------
(***************************************************************************)
(* The two training outputs in one run: the training release and the patch *)
(* index.  They share no object, lock or process, so they are explored     *)
(* side by side: part says which of them moves.                            *)
(*                                                                         *)
(* Values: three fingerprints of patch indexes, two of them with indexes   *)
(* of the same length, which the readback of the index alone cannot tell   *)
(* apart; runs, policies and publishers are interchangeable.               *)
(***************************************************************************)
EXTENDS PatchIndex, TrainingRelease, TLC

CONSTANT longer

Lengths == [f \in Policies |-> IF f = longer THEN 2 ELSE 1]
Interchangeable ==
  Permutations(Publishers) \cup Permutations(Policies \ {longer})
    \cup Permutations(Runs) \cup Permutations(PolicyHashes)

VARIABLE part

outputs == <<vars, trainingVars, part>>

OutputsInit == part \in {"index", "release"} /\ Init /\ TrainingInit

OutputsNext ==
  \/ part = "index" /\ Next /\ UNCHANGED <<trainingVars, part>>
  \/ part = "release" /\ TrainingNext /\ UNCHANGED <<vars, part>>

OutputsSpec == OutputsInit /\ [][OutputsNext]_outputs

=============================================================================
