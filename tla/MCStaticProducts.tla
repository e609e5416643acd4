-------------------------- MODULE MCStaticProducts --------------------------
(***************************************************************************)
(* Values for StaticProducts: the vegetation source is published with two  *)
(* configurations, the others were published once, by earlier runs.        *)
(***************************************************************************)
EXTENDS StaticProducts

Ordered == <<"vegetation_height">>
Configurations ==
  [s \in SourceProducts \cup Upstream |-> IF s = "vegetation_height" THEN {"v2", "v3"} ELSE {"v1"}]

=============================================================================
