--------------------------- MODULE OrderedDelivery ---------------------------
(***************************************************************************)
(* What ordered_bounded_map (modeling/patch_cache.py) promises its caller: *)
(* the results of the items one by one, in the order of the items, until   *)
(* all are delivered, the next one cannot be read, or the caller closes    *)
(* the generator - and one of the three happens.                           *)
(***************************************************************************)
EXTENDS Naturals, Sequences

CONSTANT NumItems

VARIABLES
  delivered,  \* the items whose results the caller has received, in order
  outcome     \* "open", "complete", "raised" or "closed"

deliveryVars == <<delivered, outcome>>

Init == delivered = <<>> /\ outcome = "open"

Deliver ==
  /\ outcome = "open" /\ Len(delivered) < NumItems
  /\ delivered' = Append(delivered, Len(delivered) + 1)
  /\ UNCHANGED outcome

End ==
  /\ outcome = "open"
  /\ outcome' \in {"raised", "closed", "complete"}
  /\ outcome' = "complete" => Len(delivered) = NumItems
  /\ outcome' = "raised" => Len(delivered) < NumItems
  /\ UNCHANGED delivered

Next == Deliver \/ End

Spec == Init /\ [][Next]_deliveryVars /\ WF_deliveryVars(Next)

=============================================================================
