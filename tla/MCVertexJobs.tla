---------------------------- MODULE MCVertexJobs ----------------------------
(***************************************************************************)
(* The two places where paid jobs are created: the ablation matrix and the *)
(* slot ledgers.  They share no state and are explored side by side: part  *)
(* says which of them moves.                                               *)
(*                                                                         *)
(* Values: an invocation of one attempt, then one of two attempts that may *)
(* resubmit failed pairs.                                                  *)
(***************************************************************************)
EXTENDS JobMatrix, SubmissionSlots

VARIABLE part

OptIn == <<[from |-> 1, to |-> 2, attempts |-> 1, optIn |-> FALSE],
           [from |-> 1, to |-> 2, attempts |-> 2, optIn |-> TRUE]>>

VertexInit ==
  /\ part \in {"matrix", "slots"}
  /\ MatrixInit /\ SlotsInit
  /\ part = "matrix" => session = "efficiency"

VertexNext ==
  \/ part = "matrix" /\ MatrixNext /\ UNCHANGED <<slotVars, part>>
  \/ part = "slots" /\ SlotsNext /\ UNCHANGED <<matrixVars, part>>

VertexSpec ==
  VertexInit /\ [][VertexNext]_<<matrixVars, slotVars, part>> /\ MatrixFairness
=============================================================================
