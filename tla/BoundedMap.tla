----------------------------- MODULE BoundedMap -----------------------------
(***************************************************************************)
(* The parallel patch reader of a cache build (modeling/patch_cache.py):   *)
(* ordered_bounded_map submits reads to a thread pool through a window of  *)
(* 2 * workers futures and yields their results in input order; each read  *)
(* is retried on transient I/O errors (read_with_retry).  The caller is    *)
(* RealPatchDataModule._write_cache: build_patch_cache consumes the        *)
(* results, and the generator is closed when it returns or raises.         *)
(***************************************************************************)
EXTENDS Naturals, Sequences, FiniteSets

CONSTANTS
  NumItems,      \* the admitted patches, in cache order
  WorkerCounts,  \* values of cache_build_workers
  MaxAttempts,   \* READ_MAX_ATTEMPTS
  MaxTransient,  \* bounds the transient I/O errors of a behaviour
  MaxFatal       \* bounds the reads that fail for good

ASSUME WorkersAssumption == WorkerCounts \subseteq 1 .. 4
ASSUME BoundsAssumption ==
  NumItems \in Nat \ {0} /\ MaxAttempts \in Nat \ {0} /\ MaxTransient \in Nat /\ MaxFatal \in Nat

VARIABLES
  workers,    \* max_workers
  taken,      \* the source has been advanced past items 1 .. taken
  pending,    \* the deque of futures, by item
  task,       \* item -> where its future is
  attempt,    \* item -> reads started
  phase,      \* of the generator
  transient,  \* transient errors so far
  fatal,      \* failed reads that are not retried
  delivered, outcome

vars == <<workers, taken, pending, task, attempt, phase, transient, fatal, delivered, outcome>>
pool == <<task, attempt, transient, fatal>>
caller == <<delivered, outcome>>

Items == 1 .. NumItems
Phases == {"iterating", "suspended", "closing", "ended"}
Inside(state) == {i \in Items : task[i] = state}

TypeOK ==
  /\ workers \in WorkerCounts
  /\ taken \in 0 .. NumItems
  /\ pending \in Seq(Items)
  /\ task \in [Items -> {"none", "queued", "running", "done", "raised", "cancelled"}]
  /\ attempt \in [Items -> 0 .. MaxAttempts]
  /\ phase \in Phases
  /\ transient \in 0 .. MaxTransient /\ fatal \in 0 .. MaxFatal
  /\ delivered \in Seq(Items)
  /\ outcome \in {"open", "complete", "raised", "closed"}

Init ==
  /\ workers \in WorkerCounts
  /\ taken = 0 /\ pending = <<>>
  /\ task = [i \in Items |-> "none"] /\ attempt = [i \in Items |-> 0]
  /\ phase = "iterating"
  /\ transient = 0 /\ fatal = 0
  /\ delivered = <<>> /\ outcome = "open"

-----------------------------------------------------------------------------
(* The generator.  One worker runs inline: the item is taken, read and     *)
(* yielded before the next is looked at.                                   *)

Window == IF workers = 1 THEN 1 ELSE 2 * workers

\* Mutant: one future too many.
FillableEager == taken < NumItems /\ Len(pending) <= Window

Fillable == taken < NumItems /\ Len(pending) < Window

\* submit, or the inline call
Submit ==
  /\ phase = "iterating" /\ Fillable
  /\ taken' = taken + 1
  /\ pending' = Append(pending, taken + 1)
  /\ task' = [task EXCEPT ![taken + 1] = IF workers = 1 THEN "running" ELSE "queued"]
  /\ attempt' = [attempt EXCEPT ![taken + 1] = IF workers = 1 THEN 1 ELSE 0]
  /\ UNCHANGED <<workers, phase, transient, fatal, caller>>

\* Mutant: whichever future completes first is yielded.
YieldAny ==
  /\ phase = "iterating" /\ ~Fillable
  /\ \E k \in DOMAIN pending :
       /\ task[pending[k]] = "done"
       /\ delivered' = Append(delivered, pending[k])
       /\ pending' = SelectSeq(pending, LAMBDA i : i # pending[k])
  /\ phase' = "suspended"
  /\ UNCHANGED <<workers, taken, pool, outcome>>

\* yield pending.popleft().result()
Yield ==
  /\ phase = "iterating" /\ ~Fillable
  /\ pending # <<>> /\ task[Head(pending)] = "done"
  /\ delivered' = Append(delivered, Head(pending))
  /\ pending' = Tail(pending)
  /\ phase' = "suspended"
  /\ UNCHANGED <<workers, taken, pool, outcome>>

\* The result of the oldest future is an exception.
Raise ==
  /\ phase = "iterating" /\ ~Fillable
  /\ pending # <<>> /\ task[Head(pending)] = "raised"
  /\ pending' = Tail(pending)
  /\ phase' = "closing" /\ outcome' = "raised"
  /\ UNCHANGED <<workers, taken, pool, delivered>>

Exhausted ==
  /\ phase = "iterating" /\ taken = NumItems /\ pending = <<>>
  /\ phase' = "closing" /\ outcome' = "complete"
  /\ UNCHANGED <<workers, taken, pending, pool, delivered>>

\* build_patch_cache asks for the next sample ...
Resume ==
  /\ phase = "suspended" /\ phase' = "iterating"
  /\ UNCHANGED <<workers, taken, pending, pool, caller>>

\* ... or a sample was refused and samples.close() ends the generator.
Close ==
  /\ phase = "suspended" /\ phase' = "closing" /\ outcome' = "closed"
  /\ UNCHANGED <<workers, taken, pending, pool, delivered>>

\* future.cancel(), one future after the other: a running read is not stopped.
Cancel ==
  /\ phase = "closing" /\ pending # <<>>
  /\ task' = [task EXCEPT ![Head(pending)] = IF @ = "queued" THEN "cancelled" ELSE @]
  /\ pending' = Tail(pending)
  /\ UNCHANGED <<workers, taken, attempt, phase, transient, fatal, caller>>

\* Mutant: shutdown(wait=False).
AbandonPool ==
  /\ phase = "closing" /\ pending = <<>>
  /\ phase' = "ended"
  /\ UNCHANGED <<workers, taken, pending, pool, caller>>

\* Mutant: the end waits for the result of every future, cancelled ones too.
JoinAll ==
  /\ phase = "closing" /\ pending = <<>>
  /\ \A i \in 1 .. taken : task[i] \in {"done", "raised"}
  /\ phase' = "ended"
  /\ UNCHANGED <<workers, taken, pending, pool, caller>>

\* executor.shutdown(wait=True, cancel_futures=True)
Shutdown ==
  /\ phase = "closing" /\ pending = <<>> /\ Inside("running") = {}
  /\ phase' = "ended"
  /\ UNCHANGED <<workers, taken, pending, pool, caller>>

-----------------------------------------------------------------------------
(* The pool's threads and the reads they run.                              *)

Take(i) ==
  /\ task[i] = "queued" /\ \A j \in Inside("queued") : i <= j
  /\ Cardinality(Inside("running")) < workers
  /\ task' = [task EXCEPT ![i] = "running"]
  /\ attempt' = [attempt EXCEPT ![i] = 1]
  /\ UNCHANGED <<workers, taken, pending, phase, transient, fatal, caller>>

ReadDone(i) ==
  /\ task[i] = "running"
  /\ task' = [task EXCEPT ![i] = "done"]
  /\ UNCHANGED <<workers, taken, pending, attempt, phase, transient, fatal, caller>>

\* Mutant: the last backoff entry is taken for the last attempt.
LastAttemptEarly(i) == attempt[i] + 1 >= MaxAttempts

LastAttempt(i) == attempt[i] = MaxAttempts

\* RasterioIOError, TimeoutError or ConnectionError: again, unless it was the
\* last attempt.
ReadTransient(i) ==
  /\ task[i] = "running" /\ transient < MaxTransient
  /\ transient' = transient + 1
  /\ IF LastAttempt(i)
       THEN task' = [task EXCEPT ![i] = "raised"] /\ UNCHANGED attempt
       ELSE attempt' = [attempt EXCEPT ![i] = @ + 1] /\ UNCHANGED task
  /\ UNCHANGED <<workers, taken, pending, phase, fatal, caller>>

\* Any other exception, or None for an admitted patch.
ReadFatal(i) ==
  /\ task[i] = "running" /\ fatal < MaxFatal
  /\ fatal' = fatal + 1
  /\ task' = [task EXCEPT ![i] = "raised"]
  /\ UNCHANGED <<workers, taken, pending, attempt, phase, transient, caller>>

-----------------------------------------------------------------------------

Generator == Submit \/ Yield \/ Raise \/ Exhausted \/ Cancel \/ Shutdown
Caller == Resume \/ Close
Read(i) == ReadDone(i) \/ ReadTransient(i) \/ ReadFatal(i)

Next == Generator \/ Caller \/ \E i \in Items : Take(i) \/ Read(i)

\* The generator, its caller and the pool's threads are scheduled; a read
\* returns or fails (GDAL's and the socket's timeouts bound it).
Fairness ==
  /\ WF_vars(Generator) /\ WF_vars(Caller)
  /\ WF_vars(\E i \in Items : Take(i))
  /\ \A i \in Items : WF_vars(Read(i))

Spec == Init /\ [][Next]_vars /\ Fairness

-----------------------------------------------------------------------------

\* "At most 2 * max_workers results are submitted but not yet consumed", and
\* no more reads run than there are workers: the memory of a build is bounded
\* however slow the consumer is.
WindowIsBounded ==
  /\ taken - Len(delivered) <= Window
  /\ Cardinality(Inside("running")) <= workers

\* Once the generator has ended no read is left running or waiting: nothing
\* reads on while the failed build's staging directory is removed or the next
\* phase starts.
NoReadOutlivesTheMap ==
  phase = "ended" => Inside("queued") \cup Inside("running") = {}

\* Fewer transient errors than one patch has attempts never fail a build.
TransientErrorsAreSurvived ==
  outcome = "raised" => fatal > 0 \/ transient >= MaxAttempts

\* The caller sees an ordered prefix and the map comes to an end whatever the
\* reads do (OrderedDelivery's own fairness included).
Delivery == INSTANCE OrderedDelivery
DeliversInOrder == Delivery!Spec

\* Every map ends with its pool shut down.
MapEnds == <>(phase = "ended")

=============================================================================
