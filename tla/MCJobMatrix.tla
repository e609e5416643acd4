----------------------------- MODULE MCJobMatrix -----------------------------
(***************************************************************************)
(* Values for JobMatrix: an invocation of one attempt, then one that may   *)
(* resubmit failed pairs.                                                  *)
(***************************************************************************)
EXTENDS JobMatrix

OptIn == <<[from |-> 1, to |-> 1, attempts |-> 1, optIn |-> FALSE],
           [from |-> 1, to |-> 1, attempts |-> 1, optIn |-> TRUE]>>
=============================================================================
