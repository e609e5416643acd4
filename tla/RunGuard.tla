------------------------------ MODULE RunGuard ------------------------------
(***************************************************************************)
(* The run guard of the Dynamic pipeline (data/dynamic/run_guard.py, used  *)
(* by scripts/runners/run_dynamic.py): one lock object per output root,    *)
(* created by whoever starts first, reclaimed from a dead owner of the     *)
(* same host, released by generation.                                      *)
(*                                                                         *)
(* A run creates the lock object at most once, so the generation of the    *)
(* object is the run that created it.                                      *)
(***************************************************************************)
EXTENDS Naturals, FiniteSets

CONSTANTS Runs,   \* invocations of run_dynamic with the guard on
          Pids,   \* process identifiers
          Host,   \* run -> the machine it runs on
          User,   \* run -> the account it runs as
          Faults, \* "kill", "raise", "late", as in ScenePublication
          BoundDelete, \* does the client's delete() name the generation it read?
          NoRun, NoPid

ASSUME NoRunAssumption == NoRun \notin Runs
ASSUME NoPidAssumption == NoPid \notin Pids
ASSUME GuardFaultAssumption == Faults \subseteq {"kill", "raise", "late"}

VARIABLES
  lock,  \* the run whose lock object exists
  pid,   \* run -> its process identifier
  seen,  \* run -> the owner it read from the lock object
  pc     \* run -> the step it is about to take

vars == <<lock, pid, seen, pc>>

Active == {"exists", "read", "probe", "delete", "create", "running", "release"}
Stopped == {"idle", "refused", "failed", "ended", "dead"}

TypeOK ==
  /\ lock \in Runs \cup {NoRun}
  /\ pid \in [Runs -> Pids \cup {NoPid}]
  /\ seen \in [Runs -> Runs \cup {NoRun}]
  /\ pc \in [Runs -> Active \cup Stopped]

Init ==
  /\ lock = NoRun
  /\ pid = [r \in Runs |-> NoPid]
  /\ seen = [r \in Runs |-> NoRun]
  /\ pc = [r \in Runs |-> "idle"]

Live(r) == pc[r] \in Active
Goto(r, step) == pc' = [pc EXCEPT ![r] = step]
OnlyMoves(r, step) == Goto(r, step) /\ UNCHANGED <<lock, pid, seen>>

\* The operating system gives a new process an identifier no live one has.
Start(r, p) ==
  /\ pc[r] = "idle"
  /\ \A q \in Runs : Live(q) /\ Host[q] = Host[r] => pid[q] # p
  /\ pid' = [pid EXCEPT ![r] = p]
  /\ Goto(r, "exists")
  /\ UNCHANGED <<lock, seen>>

CheckExists(r) ==
  /\ pc[r] = "exists"
  /\ OnlyMoves(r, IF lock = NoRun THEN "create" ELSE "read")

\* Reading the record of a lock object deleted meanwhile raises.
ReadRecord(r) ==
  /\ pc[r] = "read"
  /\ seen' = [seen EXCEPT ![r] = lock]
  /\ Goto(r, IF lock = NoRun THEN "failed" ELSE "probe")
  /\ UNCHANGED <<lock, pid>>

\* os.kill(owner_pid, 0) by r succeeds.  It raises ProcessLookupError when no
\* process has the identifier, PermissionError when another account owns it.
SignalSucceeds(r, owner) ==
  \E q \in Runs :
    Live(q) /\ Host[q] = Host[r] /\ pid[q] = pid[owner] /\ User[q] = User[r]

\* Mutant: the owner's host is not compared.
ProbeAnyHost(r) ==
  /\ pc[r] = "probe"
  /\ OnlyMoves(r, IF ~SignalSucceeds(r, seen[r]) THEN "delete" ELSE "refused")

\* A live owner or an owner on another host refuses the run; any other owner
\* of this host is taken for dead.
Probe(r) ==
  LET owner == seen[r] IN
  /\ pc[r] = "probe"
  /\ OnlyMoves(r, IF Host[owner] = Host[r] /\ ~SignalSucceeds(r, owner)
                    THEN "delete" ELSE "refused")

\* blob.delete(); deleting an object that is not there raises.
DeleteStale(r) ==
  /\ pc[r] = "delete"
  /\ IF lock # NoRun /\ (BoundDelete => lock = seen[r])
       THEN lock' = NoRun /\ Goto(r, "create")
       ELSE Goto(r, "failed") /\ UNCHANGED lock
  /\ UNCHANGED <<pid, seen>>

\* Mutant: the upload has no precondition.
CreateLockOver(r) ==
  /\ pc[r] = "create"
  /\ lock' = r /\ Goto(r, "running")
  /\ UNCHANGED <<pid, seen>>

\* The upload requires that no object exists.
CreateLock(r) ==
  /\ pc[r] = "create"
  /\ IF lock = NoRun
       THEN lock' = r /\ Goto(r, "running")
       ELSE Goto(r, "refused") /\ UNCHANGED lock
  /\ UNCHANGED <<pid, seen>>

\* The object is created but the response is lost; the client's retry meets
\* it, and the run takes itself for the loser of a race.
CreateLate(r) ==
  /\ "late" \in Faults /\ pc[r] = "create" /\ lock = NoRun
  /\ lock' = r
  /\ Goto(r, "refused")
  /\ UNCHANGED <<pid, seen>>

\* run_dynamic returns or raises: the lease is released all the same.
FinishWork(r) == pc[r] = "running" /\ OnlyMoves(r, "release")

\* The delete requires the generation of the lease.
ReleaseLock(r) ==
  /\ pc[r] = "release"
  /\ lock' = IF lock = r THEN NoRun ELSE lock
  /\ Goto(r, "ended")
  /\ UNCHANGED <<pid, seen>>

\* A release that fails is logged; the lock object stays.
ReleaseFails(r) ==
  /\ "raise" \in Faults /\ pc[r] = "release"
  /\ OnlyMoves(r, "ended")

StepRaises(r) ==
  /\ "raise" \in Faults /\ pc[r] \in {"exists", "read", "delete", "create"}
  /\ OnlyMoves(r, "failed")

Kill(r) ==
  /\ "kill" \in Faults /\ Live(r)
  /\ OnlyMoves(r, "dead")

\* "manually remove the lock if the owner is dead"
OperatorRemoves ==
  /\ lock # NoRun /\ ~Live(lock)
  /\ lock' = NoRun
  /\ UNCHANGED <<pid, seen, pc>>

Step(r) ==
  \/ CheckExists(r) \/ ReadRecord(r) \/ Probe(r) \/ DeleteStale(r) \/ CreateLock(r)
  \/ FinishWork(r) \/ ReleaseLock(r)
  \/ CreateLate(r) \/ ReleaseFails(r) \/ StepRaises(r) \/ Kill(r)

Next ==
  \/ \E r \in Runs, p \in Pids : Start(r, p)
  \/ \E r \in Runs : Step(r)
  \/ OperatorRemoves

Spec == Init /\ [][Next]_vars

-----------------------------------------------------------------------------

\* What exclusion depends on outside the module: every host runs the pipeline
\* under one account, and the client's delete names the generation it read.
OneUserPerHost == \A r, q \in Runs : Host[r] = Host[q] => User[r] = User[q]
GuardAssumptions == OneUserPerHost /\ BoundDelete

\* Single-writer enforcement: a guarded run that is working still owns the lock
\* object, so no other guarded run works at the same time - whatever stale locks,
\* kills, lost responses and concurrent reclaimers there were.
WorkerOwnsLock == \A r \in Runs : pc[r] \in {"running", "release"} => lock = r

\* "cross-host locks ... are never auto-deleted": a reclaiming run only ever
\* deletes the lock of an owner of its own host.
ReclaimsOwnHostOnly ==
  [][\A r \in Runs : pc[r] = "delete" /\ pc'[r] = "create" => Host[lock] = Host[r]]_vars

\* "stale locks can be reclaimed automatically only when the lock owner PID is
\* absent": a run about to reclaim has no live process under the owner's pid.
ReclaimsAbsentOwnerOnly ==
  \A r \in Runs : pc[r] = "delete" => ~Live(seen[r])

=============================================================================
