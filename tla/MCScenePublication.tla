------------------------ MODULE MCScenePublication ------------------------
(***************************************************************************)
(* Model values for ScenePublication.  Runs, scenes and configurations are *)
(* interchangeable: no action and no property names one of them.           *)
(***************************************************************************)
EXTENDS ScenePublication, TLC

Interchangeable ==
  Permutations(Runs) \cup Permutations(Scenes) \cup Permutations(Configs)

=============================================================================
