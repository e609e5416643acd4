---------------------------- MODULE GuardedRuns ----------------------------
(***************************************************************************)
(* scripts/runners/run_dynamic.py: a run takes the guard, calls            *)
(* run_dynamic while it holds it, and releases it however the call ends; a *)
(* kill ends both.  The guard is that of RunGuard, the call that of        *)
(* DynamicPipeline.                                                        *)
(***************************************************************************)
EXTENDS RunGuard, DynamicPipeline

ASSUME GuardedAssumption == Invocations \subseteq Runs

\* run_dynamic is left by returning or raising, and by the death of the process.
Leaves(r) == pc[r] = "running" /\ pc'[r] # "running"

\* The members of Invocations start; a call that has not ended is left by a kill only.
GuardStep ==
  /\ Next
  /\ \A r \in Runs \ Invocations : pc'[r] = "idle"
  /\ \A r \in Invocations : Leaves(r) => at[r] = "over" \/ pc'[r] = "dead"
  /\ IF \E r \in Invocations : Leaves(r)
       THEN \E r \in Invocations : Leaves(r) /\ ForgetCall(r)
       ELSE UNCHANGED dynamicVars

PipelineStep(r) ==
  /\ pc[r] = "running"
  /\ DynamicStep(r)
  /\ UNCHANGED vars

Removal(i, n) ==
  /\ \A r \in Runs : ~Live(r)
  /\ LoseObject(i, n)
  /\ UNCHANGED vars

GuardedInit == Init /\ DynamicInit

GuardedNext ==
  \/ GuardStep
  \/ \E r \in Invocations : PipelineStep(r)
  \/ \E i \in Items, n \in Names : Removal(i, n)

GuardedSpec == GuardedInit /\ [][GuardedNext]_<<vars, dynamicVars>>

-----------------------------------------------------------------------------

\* A run that returned 0 and still holds the guard has delivered what it was asked
\* for and leaves no failed or interrupted row behind, although other runs were
\* killed, failed, waited for the guard or reclaimed it.
ZeroReturnIsComplete ==
  \A r \in Invocations : status[r] = "zero" /\ pc[r] = "running" => DeliversAll(r)
=============================================================================
