----------------------------- MODULE PatchIndex -----------------------------
(***************************************************************************)
(* Publication of the patch index (data/training/patch_index.py): one      *)
(* immutable release under an output root, two artifacts and a completion  *)
(* marker, one release lock (data/io/storage.py).  Publishers of equal and *)
(* of different fingerprints may run at once.  Unlike a feature stack, a   *)
(* destination with artifacts and no marker is refused, and a finished     *)
(* release of the same fingerprint is accepted.                            *)
(***************************************************************************)
EXTENDS Naturals

CONSTANTS Publishers, Policies,
          Patches,   \* policy -> number of patches in its index
          Faults,    \* "kill", "raise", "late"
          NoPublisher, NoPolicy

ASSUME PatchIndexAssumption ==
  /\ NoPublisher \notin Publishers /\ NoPolicy \notin Policies
  /\ Patches \in [Policies -> Nat]
  /\ Faults \subseteq {"kill", "raise", "late"}

VARIABLES
  file,    \* artifact -> the publisher whose bytes are stored
  marker,  \* the publisher that wrote the completion marker
  lock,    \* the publisher whose token the release lock carries
  policy,  \* publisher -> the fingerprint of its build
  pc,      \* publisher -> the step it is about to take
  result   \* publisher -> what publish_patch_index came to

vars == <<file, marker, lock, policy, pc, result>>

Artifacts == {"index", "qa"}
Locked == {"recheck", "index", "qa", "readback", "mark", "verify"}
Steps == {"idle", "check", "occupied", "lock", "release", "ended", "dead"} \cup Locked

TypeOK ==
  /\ file \in [Artifacts -> Publishers \cup {NoPublisher}]
  /\ marker \in Publishers \cup {NoPublisher}
  /\ lock \in Publishers \cup {NoPublisher}
  /\ policy \in [Publishers -> Policies \cup {NoPolicy}]
  /\ pc \in [Publishers -> Steps]
  /\ result \in [Publishers -> {"none", "published", "accepted", "refused", "failed"}]

Init ==
  /\ file = [a \in Artifacts |-> NoPublisher]
  /\ marker = NoPublisher
  /\ lock = NoPublisher
  /\ policy = [p \in Publishers |-> NoPolicy]
  /\ pc = [p \in Publishers |-> "idle"]
  /\ result = [p \in Publishers |-> "none"]

Published == marker # NoPublisher
Live(p) == pc[p] \notin {"idle", "ended", "dead"}
Goto(p, step) == pc' = [pc EXCEPT ![p] = step]

\* The call comes to an end: under the lock it releases the lock first.
Leave(p, outcome) ==
  /\ result' = [result EXCEPT ![p] = outcome]
  /\ Goto(p, IF pc[p] \in Locked THEN "release" ELSE "ended")

Start(p, f) ==
  /\ pc[p] = "idle"
  /\ policy' = [policy EXCEPT ![p] = f]
  /\ Goto(p, "check")
  /\ UNCHANGED <<file, marker, lock, result>>

\* What a publisher reads back: the row count of the index, the fingerprint of
\* the report and, once it is expected, the fingerprint of the marker.
ReadbackOk(p, markerExpected) ==
  /\ \A a \in Artifacts : file[a] # NoPublisher
  /\ Patches[policy[file["index"]]] = Patches[policy[p]]
  /\ policy[file["qa"]] = policy[p]
  /\ markerExpected => Published /\ policy[marker] = policy[p]

\* Mutant: only the length of the index is compared.
MeetPublishedByLength(p) ==
  Leave(p, IF Patches[policy[marker]] = Patches[policy[p]] THEN "accepted" ELSE "refused")

\* A published index is accepted if it is of the same fingerprint and reads
\* back, refused otherwise.
MeetPublished(p) ==
  Leave(p, IF policy[marker] = policy[p] /\ ReadbackOk(p, TRUE) THEN "accepted" ELSE "refused")

CheckPublished(p) ==
  /\ pc[p] = "check"
  /\ IF Published THEN MeetPublished(p) ELSE Goto(p, "occupied") /\ UNCHANGED result
  /\ UNCHANGED <<file, marker, lock, policy>>

\* Artifacts without a marker are a partial publication.
CheckOccupied(p) ==
  /\ pc[p] = "occupied"
  /\ IF \E a \in Artifacts : file[a] # NoPublisher
       THEN Leave(p, "refused")
       ELSE Goto(p, "lock") /\ UNCHANGED result
  /\ UNCHANGED <<file, marker, lock, policy>>

\* Mutant: the lock object is written over an existing one.
AcquireLockOver(p) ==
  /\ pc[p] = "lock"
  /\ lock' = p /\ Goto(p, "recheck")
  /\ UNCHANGED <<file, marker, policy, result>>

AcquireLock(p) ==
  /\ pc[p] = "lock"
  /\ IF lock = NoPublisher
       THEN lock' = p /\ Goto(p, "recheck") /\ UNCHANGED result
       ELSE Leave(p, "refused") /\ UNCHANGED lock
  /\ UNCHANGED <<file, marker, policy>>

\* Under the lock only the marker is looked at again.
Recheck(p) ==
  /\ pc[p] = "recheck"
  /\ IF Published THEN MeetPublished(p) ELSE Goto(p, "index") /\ UNCHANGED result
  /\ UNCHANGED <<file, marker, lock, policy>>

Write(p, a, next) ==
  /\ pc[p] = a
  /\ file' = [file EXCEPT ![a] = p]
  /\ Goto(p, next)
  /\ UNCHANGED <<marker, lock, policy, result>>

\* Mutant: the report is left out and nothing is read back.
WriteIndexThenMark(p) == Write(p, "index", "mark")

WriteIndex(p) == Write(p, "index", "qa")
WriteQa(p) == Write(p, "qa", "readback")

Readback(p) ==
  /\ pc[p] = "readback"
  /\ IF ReadbackOk(p, FALSE) THEN Goto(p, "mark") /\ UNCHANGED result ELSE Leave(p, "refused")
  /\ UNCHANGED <<file, marker, lock, policy>>

\* The marker is created only if absent.
WriteMarker(p) ==
  /\ pc[p] = "mark"
  /\ IF Published
       THEN Leave(p, "refused") /\ UNCHANGED marker
       ELSE marker' = p /\ Goto(p, "verify") /\ UNCHANGED result
  /\ UNCHANGED <<file, lock, policy>>

VerifyMarker(p) ==
  /\ pc[p] = "verify"
  /\ Leave(p, IF ReadbackOk(p, TRUE) THEN "published" ELSE "refused")
  /\ UNCHANGED <<file, marker, lock, policy>>

ReleaseLock(p) ==
  /\ pc[p] = "release"
  /\ lock' = IF lock = p THEN NoPublisher ELSE lock
  /\ Goto(p, "ended")
  /\ UNCHANGED <<file, marker, policy, result>>

ReleaseFails(p) ==
  /\ "raise" \in Faults /\ pc[p] = "release"
  /\ Goto(p, "ended")
  /\ UNCHANGED <<file, marker, lock, policy, result>>

StepRaises(p) ==
  /\ "raise" \in Faults /\ Live(p) /\ pc[p] # "release"
  /\ Leave(p, "failed")
  /\ UNCHANGED <<file, marker, lock, policy>>

\* A remote write lands although its call raises.
LandsLate(p) ==
  /\ "late" \in Faults
  /\ \/ /\ pc[p] = "lock" /\ lock = NoPublisher /\ lock' = p
        /\ UNCHANGED <<file, marker>>
     \/ /\ pc[p] \in Artifacts /\ file' = [file EXCEPT ![pc[p]] = p]
        /\ UNCHANGED <<lock, marker>>
     \/ /\ pc[p] = "mark" /\ ~Published /\ marker' = p
        /\ UNCHANGED <<lock, file>>
  /\ Leave(p, "failed")
  /\ UNCHANGED policy

Kill(p) ==
  /\ "kill" \in Faults /\ Live(p)
  /\ Goto(p, "dead")
  /\ UNCHANGED <<file, marker, lock, policy, result>>

\* A stale lock, a partial publication: inspected, then deleted by an operator
\* when no publisher is at work.
OperatorClears ==
  /\ \A p \in Publishers : ~Live(p)
  /\ lock' = NoPublisher
  /\ file' = IF Published THEN file ELSE [a \in Artifacts |-> NoPublisher]
  /\ UNCHANGED <<marker, policy, pc, result>>

Proceed(p) ==
  \/ CheckPublished(p) \/ CheckOccupied(p) \/ AcquireLock(p) \/ Recheck(p)
  \/ WriteIndex(p) \/ WriteQa(p) \/ Readback(p) \/ WriteMarker(p) \/ VerifyMarker(p)
  \/ ReleaseLock(p)

Fail(p) == ReleaseFails(p) \/ StepRaises(p) \/ LandsLate(p) \/ Kill(p)

Next ==
  \/ \E p \in Publishers, f \in Policies : Start(p, f)
  \/ \E p \in Publishers : Proceed(p) \/ Fail(p)
  \/ OperatorClears

Spec == Init /\ [][Next]_vars

-----------------------------------------------------------------------------

\* A published index is the work of the one publisher that marked it.
PublishedIsCoherent == Published => \A a \in Artifacts : file[a] = marker

\* Who is told that the index is published, by its own work or by that of
\* another, finds there the index of its own fingerprint - now and ever after.
SuccessIsTruthful ==
  \A p \in Publishers : result[p] \in {"published", "accepted"} =>
    /\ Published /\ policy[marker] = policy[p]
    /\ \A a \in Artifacts : policy[file[a]] = policy[p]

\* Publishers that compete never all lose: when all that started were refused,
\* because of another's lock, artifacts or marker, and none failed or was killed,
\* the index they made way for is published.
SomePublisherWins ==
  LET started == {p \in Publishers : pc[p] # "idle"} IN
  (started # {} /\ \A p \in started : pc[p] = "ended" /\ result[p] = "refused") => Published

\* "artifacts without a completion marker are a partial publication and are
\* never overwritten": who begins to write finds nothing there.
PartialIsNeverOverwritten ==
  \A p \in Publishers : pc[p] = "index" => \A a \in Artifacts : file[a] = NoPublisher

\* The published index as an item of the abstract release.
Visible == [k \in {"patch_index"} |-> IF Published THEN file ELSE NoPublisher]
Abstract == INSTANCE ImmutableRelease WITH
  Keys <- {"patch_index"}, Parts <- Artifacts, Writers <- Publishers,
  Unpublished <- NoPublisher, content <- Visible

\* The publication of the index implements the abstract release.
ImplementsImmutableRelease == Abstract!Spec

=============================================================================
