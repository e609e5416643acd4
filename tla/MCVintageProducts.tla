-------------------------- MODULE MCVintageProducts --------------------------
(***************************************************************************)
(* Values for VintageProducts: two vintages, the first built from two raw  *)
(* archives, one of which the second is built from as well.                *)
(***************************************************************************)
EXTENDS VintageProducts

TwoVintages == <<"2017", "2021">>
SharedArchive ==
  [w \in {"2017", "2021"} |->
     IF w = "2017" THEN <<"lod1-2017", "lod2-2021">> ELSE <<"lod2-2021">>]

=============================================================================
