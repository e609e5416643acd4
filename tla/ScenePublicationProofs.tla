----------------------- MODULE ScenePublicationProofs -----------------------
(***************************************************************************)
(* Proofs about ScenePublication and FeatureDriver for any sets of runs,   *)
(* drivers, scenes and configurations and any faults.  The invariants the  *)
(* runs check are not inductive by themselves; Inv adds how far a          *)
(* publisher has got, that it writes only before the commit, and that a    *)
(* run's configuration is fixed before anything can refer to it.           *)
(***************************************************************************)
EXTENDS FeatureDriver, TLAPS

\* The artifacts a publisher has already written, by the step it is about to take.
Written(step) ==
  CASE step = "mask" -> {"cog"}
    [] step = "provenance" -> {"cog", "mask"}
    [] step \in {"readback", "stac"} -> {"cog", "mask", "provenance"}
    [] step = "commit" -> Artifacts
    [] OTHER -> {}

Writing == {"cog", "mask", "provenance", "readback", "stac", "commit"}

\* A run past its claim works on a scene.
BusyHasScene ==
  \A r \in Runs : pc[r] \in Guarded \cup {"failing"} => scene[r] \in Scenes

\* While a publisher writes, its scene is not committed and holds its own bytes
\* for everything it has written.
WritersProgress ==
  \A r \in Runs : pc[r] \in Writing =>
    /\ marker[scene[r]] = NoRun
    /\ \A a \in Written(pc[r]) : artifact[scene[r]][a] = r

\* A publisher past its commit wrote the marker.
CommittersOwnMarker ==
  \A r \in Runs : pc[r] \in {"unlock", "record"} => marker[scene[r]] = r

\* Nothing refers to a run that has not started.
IdleRunsAreUnknown ==
  \A r \in Runs : pc[r] = "idle" =>
    \A s \in Scenes : marker[s] # r /\ report[r][s] = "none"

\* DoneRowsAreTruthful, said of the ledger file and of each copy separately.
Truthful(row, s) ==
  row.status = "done" => Committed(s) /\ config[marker[s]] = row.hash
RowsAreTruthful ==
  \A s \in Scenes : Truthful(ledger[s], s) /\ \A r \in Runs : Truthful(mem[r][s], s)

Inv ==
  /\ TypeOK
  /\ BusyHasScene
  /\ LockProtectsPublisher
  /\ WritersProgress
  /\ CommittersOwnMarker
  /\ IdleRunsAreUnknown
  /\ CommittedIsCoherent
  /\ RowsAreTruthful
  /\ ReportsAreTruthful

-----------------------------------------------------------------------------

\* Every action keeps the types of the variables.
LEMMA TypeStep == TypeOK /\ [Next]_vars => TypeOK'
<1> SUFFICES ASSUME TypeOK, [Next]_vars PROVE TypeOK'
  OBVIOUS
<1> USE SentinelAssumption DEF TypeOK, Steps, Guarded, Locked, Goto, Row, Status, Artifacts, store, OnlyMoves
<1>1. ASSUME NEW r \in Runs, NEW c \in Configs, NEW selection \in SUBSET Scenes, Start(r, c, selection)
      PROVE  TypeOK'
  BY <1>1 DEF Start
<1>2. ASSUME NEW r \in Runs, NEW s \in Scenes, Skip(r, s) PROVE TypeOK'
  <2>1. todo' \in [Runs -> SUBSET Scenes]
    BY <1>2 DEF Skip
  <2>2. CASE artifact[s]["provenance"] # NoRun
    <3>1. report' = [report EXCEPT ![r][s] = "done"] /\ pc' = pc
      BY <1>2, <2>2 DEF Skip
    <3>2. QED
      BY <1>2, <2>1, <3>1 DEF Skip
  <2>3. CASE artifact[s]["provenance"] = NoRun
    BY <1>2, <2>1, <2>3 DEF Skip
  <2>4. QED
    BY <2>2, <2>3
<1>3. ASSUME NEW r \in Runs, NEW s \in Scenes, Claim(r, s) PROVE TypeOK'
  BY <1>3 DEF Claim, Upsert, Exporting
<1>4. ASSUME NEW r \in Runs, Compose(r) \/ Recheck(r) \/ Readback(r) PROVE TypeOK'
  BY <1>4 DEF Compose, Recheck, Readback
<1>5. ASSUME NEW r \in Runs, AcquireLock(r) PROVE TypeOK'
  <2>1. CASE lock[scene[r]] = NoRun
    <3>1. lock' = [lock EXCEPT ![scene[r]] = r] /\ pc' = [pc EXCEPT ![r] = "recheck"]
      BY <1>5, <2>1 DEF AcquireLock
    <3>2. QED
      BY <1>5, <3>1 DEF AcquireLock
  <2>2. CASE lock[scene[r]] # NoRun
    BY <1>5, <2>2 DEF AcquireLock
  <2>3. QED
    BY <2>1, <2>2
<1>6. ASSUME NEW r \in Runs, AcquireLate(r) PROVE TypeOK'
  BY <1>6 DEF AcquireLate
<1>7. ASSUME NEW r \in Runs, NEW a \in Artifacts, NEW step \in Steps, Write(r, a, step) PROVE TypeOK'
  BY <1>7 DEF Write
<1>8. ASSUME NEW r \in Runs, WriteCog(r) \/ WriteMask(r) \/ WriteProvenance(r) \/ WriteStac(r)
      PROVE  TypeOK'
  BY <1>7, <1>8 DEF WriteCog, WriteMask, WriteProvenance, WriteStac
<1>9. ASSUME NEW r \in Runs, WriteLate(r) PROVE TypeOK'
  BY <1>9 DEF WriteLate
<1>10. ASSUME NEW r \in Runs, Commit(r) PROVE TypeOK'
  <2>1. CASE Committed(scene[r])
    BY <1>10, <2>1 DEF Commit
  <2>2. CASE ~Committed(scene[r])
    <3>1. marker' = [marker EXCEPT ![scene[r]] = r] /\ pc' = [pc EXCEPT ![r] = "unlock"]
      BY <1>10, <2>2 DEF Commit
    <3>2. QED
      BY <1>10, <3>1 DEF Commit
  <2>3. QED
    BY <2>1, <2>2
<1>11. ASSUME NEW r \in Runs, CommitLate(r) PROVE TypeOK'
  BY <1>11 DEF CommitLate
<1>12. ASSUME NEW r \in Runs, Release(r) PROVE TypeOK'
  BY <1>12 DEF Release
<1>13. ASSUME NEW r \in Runs, ReleaseFails(r) \/ StepRaises(r) \/ Kill(r) \/ Finish(r) PROVE TypeOK'
  BY <1>13 DEF ReleaseFails, StepRaises, Kill, Finish
<1>14. ASSUME NEW r \in Runs, RecordDone(r) PROVE TypeOK'
  BY <1>14 DEF RecordDone, Close, Upsert, Done
<1>15. ASSUME NEW r \in Runs, RecordFailed(r) PROVE TypeOK'
  BY <1>15 DEF RecordFailed, Close, Upsert, Failed
<1>16. ASSUME NEW s \in Scenes, OperatorClearsLock(s) PROVE TypeOK'
  BY <1>16 DEF OperatorClearsLock
<1>17. CASE UNCHANGED vars
  BY <1>17 DEF vars
<1>18. ASSUME NEW r \in Runs, RecordLate(r) PROVE TypeOK'
  BY <1>18 DEF RecordLate, Upsert, Done
<1>19. QED
  BY <1>1, <1>2, <1>3, <1>4, <1>5, <1>6, <1>8, <1>9, <1>10, <1>11, <1>12, <1>13, <1>14, <1>15,
     <1>16, <1>17, <1>18
     DEF Next, Advance, Publish, Fault

\* Every action keeps the invariant.
LEMMA InvStep == Inv /\ TypeOK' /\ [Next]_vars => Inv'
<1> SUFFICES ASSUME Inv, TypeOK', [Next]_vars PROVE Inv'
  OBVIOUS
<1> USE SentinelAssumption
    DEF Inv, TypeOK, Steps, Guarded, Locked, Goto, Row, Status, Artifacts, store, OnlyMoves,
        Committed, BusyHasScene, LockProtectsPublisher, WritersProgress, Written, Writing,
        CommittersOwnMarker, IdleRunsAreUnknown, CommittedIsCoherent,
        RowsAreTruthful, Truthful, ReportsAreTruthful
<1>1. ASSUME NEW r \in Runs, NEW c \in Configs, NEW selection \in SUBSET Scenes, Start(r, c, selection) PROVE Inv'
  BY <1>1 DEF Start
<1>2. ASSUME NEW r \in Runs, NEW s \in Scenes, Skip(r, s) PROVE Inv'
  <2>1. /\ Committed(s) /\ config[marker[s]] = config[r]
        /\ UNCHANGED <<artifact, marker, lock, ledger, mem, config, scene>>
    BY <1>2 DEF Skip, Reconcile
  <2>2. CASE artifact[s]["provenance"] # NoRun
    <3>1. report' = [report EXCEPT ![r][s] = "done"] /\ pc' = pc /\ pc[r] = "loop"
      BY <1>2, <2>2 DEF Skip
    <3>2. ReportsAreTruthful'
      BY <2>1, <3>1
    <3>3. IdleRunsAreUnknown'
      BY <2>1, <3>1
    <3>4. QED
      BY <2>1, <3>1, <3>2, <3>3
  <2>3. CASE artifact[s]["provenance"] = NoRun
    <3>1. report' = report /\ pc' = [pc EXCEPT ![r] = "dead"]
      BY <1>2, <2>3 DEF Skip
    <3>2. QED
      BY <2>1, <3>1
  <2>4. QED
    BY <2>2, <2>3
<1>3. ASSUME NEW r \in Runs, NEW s \in Scenes, Claim(r, s) PROVE Inv'
  BY <1>3 DEF Claim, Upsert, Exporting
<1>4. ASSUME NEW r \in Runs, Compose(r) PROVE Inv'
  BY <1>4 DEF Compose
<1>5. ASSUME NEW r \in Runs, AcquireLock(r) PROVE Inv'
  <2>1. UNCHANGED <<artifact, marker, ledger, mem, config, todo, scene, report>>
    BY <1>5 DEF AcquireLock
  <2>2. CASE lock[scene[r]] = NoRun
    <3>1. /\ lock' = [lock EXCEPT ![scene[r]] = r]
          /\ pc' = [pc EXCEPT ![r] = "recheck"] /\ pc[r] = "lock"
      BY <1>5, <2>2 DEF AcquireLock
    <3>2. LockProtectsPublisher'
      BY <2>1, <2>2, <3>1
    <3>3. QED
      BY <2>1, <3>1, <3>2
  <2>3. CASE lock[scene[r]] # NoRun
    <3>1. lock' = lock /\ pc' = [pc EXCEPT ![r] = "failing"] /\ pc[r] = "lock"
      BY <1>5, <2>3 DEF AcquireLock
    <3>2. QED
      BY <2>1, <3>1
  <2>4. QED
    BY <2>2, <2>3
<1>6. ASSUME NEW r \in Runs, AcquireLate(r) PROVE Inv'
  BY <1>6 DEF AcquireLate
<1>7. ASSUME NEW r \in Runs, Recheck(r) PROVE Inv'
  BY <1>7 DEF Recheck
<1>8. ASSUME NEW r \in Runs, WriteCog(r) PROVE Inv'
  BY <1>8 DEF WriteCog, Write
<1>9. ASSUME NEW r \in Runs, WriteMask(r) PROVE Inv'
  BY <1>9 DEF WriteMask, Write
<1>10. ASSUME NEW r \in Runs, WriteProvenance(r) PROVE Inv'
  BY <1>10 DEF WriteProvenance, Write
<1>11. ASSUME NEW r \in Runs, Readback(r) PROVE Inv'
  BY <1>11 DEF Readback
<1>12. ASSUME NEW r \in Runs, WriteStac(r) PROVE Inv'
  BY <1>12 DEF WriteStac, Write
<1>13. ASSUME NEW r \in Runs, WriteLate(r) PROVE Inv'
  BY <1>13 DEF WriteLate
<1>14. ASSUME NEW r \in Runs, Commit(r) PROVE Inv'
  <2>1. UNCHANGED <<artifact, lock, ledger, mem, config, todo, scene, report>>
    BY <1>14 DEF Commit
  <2>2. marker' = [marker EXCEPT ![scene[r]] = r] /\ pc' = [pc EXCEPT ![r] = "unlock"] /\ pc[r] = "commit"
    BY <1>14 DEF Commit
  <2>3. marker[scene[r]] = NoRun /\ \A a \in Artifacts : artifact[scene[r]][a] = r
    BY <2>2
  <2>4. CommittedIsCoherent'
    BY <2>1, <2>2, <2>3
  <2>5. RowsAreTruthful' /\ ReportsAreTruthful'
    BY <2>1, <2>2, <2>3
  <2>6. WritersProgress' /\ LockProtectsPublisher'
    BY <2>1, <2>2, <2>3
  <2>7. QED
    BY <2>1, <2>2, <2>3, <2>4, <2>5, <2>6
<1>15. ASSUME NEW r \in Runs, CommitLate(r) PROVE Inv'
  BY <1>15 DEF CommitLate
<1>16. ASSUME NEW r \in Runs, Release(r) PROVE Inv'
  BY <1>16 DEF Release
<1>17. ASSUME NEW r \in Runs, ReleaseFails(r) PROVE Inv'
  BY <1>17 DEF ReleaseFails
<1>18. ASSUME NEW r \in Runs, StepRaises(r) PROVE Inv'
  BY <1>18 DEF StepRaises
<1>19. ASSUME NEW r \in Runs, Kill(r) PROVE Inv'
  BY <1>19 DEF Kill, Live
<1>20. ASSUME NEW r \in Runs, RecordDone(r) PROVE Inv'
  BY <1>20 DEF RecordDone, Close, Upsert, Done
<1>21. ASSUME NEW r \in Runs, RecordFailed(r) PROVE Inv'
  BY <1>21 DEF RecordFailed, Close, Upsert, Failed
<1>22. ASSUME NEW r \in Runs, Finish(r) PROVE Inv'
  BY <1>22 DEF Finish
<1>23. ASSUME NEW s \in Scenes, OperatorClearsLock(s) PROVE Inv'
  BY <1>23 DEF OperatorClearsLock
<1>24. CASE UNCHANGED vars
  BY <1>24 DEF vars
<1>25. ASSUME NEW r \in Runs, RecordLate(r) PROVE Inv'
  BY <1>25 DEF RecordLate, Upsert, Done
<1>26. QED
  BY <1>1, <1>2, <1>3, <1>4, <1>5, <1>6, <1>7, <1>8, <1>9, <1>10, <1>11, <1>12, <1>13,
     <1>14, <1>15, <1>16, <1>17, <1>18, <1>19, <1>20, <1>21, <1>22, <1>23, <1>24, <1>25
     DEF Next, Advance, Publish, Fault

\* The empty store and ledger satisfy the invariant.
LEMMA InitInv == Init => Inv
  BY SentinelAssumption
     DEF Init, Inv, TypeOK, Absent, Row, Status, Steps, Guarded, Locked, Committed, BusyHasScene,
         LockProtectsPublisher, WritersProgress, Writing, CommittersOwnMarker, IdleRunsAreUnknown,
         CommittedIsCoherent, RowsAreTruthful, Truthful, ReportsAreTruthful

\* Inv holds in every reachable state.
THEOREM Invariance == Spec => []Inv
<1>1. Inv /\ [Next]_vars => Inv'
  BY TypeStep, InvStep DEF Inv
<1>2. QED
  BY InitInv, <1>1, PTL DEF Spec

\* Every variable keeps its type.
THEOREM TypeCorrect == Spec => []TypeOK
<1>1. Inv => TypeOK
  BY DEF Inv
<1>2. QED
  BY Invariance, <1>1, PTL

\* The publish lock protects its publisher, whatever faults happen.
THEOREM LockProtects == Spec => []LockProtectsPublisher
<1>1. Inv => LockProtectsPublisher
  BY DEF Inv
<1>2. QED
  BY Invariance, <1>1, PTL

\* A completion marker is only ever seen on a complete product of one run.
THEOREM Coherence == Spec => []CommittedIsCoherent
<1>1. Inv => CommittedIsCoherent
  BY DEF Inv
<1>2. QED
  BY Invariance, <1>1, PTL

\* No "done" row, written or still in memory, names a product that is not there.
THEOREM TruthfulLedger == Spec => []DoneRowsAreTruthful
<1>1. Inv => DoneRowsAreTruthful
  BY DEF Inv, RowsAreTruthful, Truthful, DoneRowsAreTruthful
<1>2. QED
  BY Invariance, <1>1, PTL

\* No run reports a scene as done that is not published with its configuration.
THEOREM TruthfulReports == Spec => []ReportsAreTruthful
<1>1. Inv => ReportsAreTruthful
  BY DEF Inv
<1>2. QED
  BY Invariance, <1>1, PTL

-----------------------------------------------------------------------------

\* The three things a step can do to the store: nothing, write one artifact of
\* a scene that is not committed, or commit a scene the publisher has filled.
WritesArtifact(r, a) ==
  /\ scene[r] \in Scenes /\ marker[scene[r]] = NoRun
  /\ artifact' = [artifact EXCEPT ![scene[r]][a] = r]
  /\ marker' = marker

CommitsScene(r) ==
  /\ scene[r] \in Scenes /\ marker[scene[r]] = NoRun
  /\ \A a \in Artifacts : artifact[scene[r]][a] = r
  /\ marker' = [marker EXCEPT ![scene[r]] = r]
  /\ artifact' = artifact

\* Every write of an artifact or a marker is made before the scene's commit.
LEMMA StoreStep ==
  ASSUME Inv, [Next]_vars
  PROVE  \/ UNCHANGED store
         \/ \E r \in Runs, a \in Artifacts : WritesArtifact(r, a)
         \/ \E r \in Runs : CommitsScene(r)
<1> DEFINE Goal == \/ UNCHANGED store
                   \/ \E r \in Runs, a \in Artifacts : WritesArtifact(r, a)
                   \/ \E r \in Runs : CommitsScene(r)
<1>1. ASSUME NEW r \in Runs, NEW a \in Artifacts, pc[r] = a,
             artifact' = [artifact EXCEPT ![scene[r]][a] = r], marker' = marker
      PROVE  Goal
  <2>1. scene[r] \in Scenes /\ marker[scene[r]] = NoRun
    BY <1>1 DEF Inv, BusyHasScene, WritersProgress, Writing, Guarded, Locked, Artifacts
  <2>2. QED
    BY <1>1, <2>1 DEF WritesArtifact
<1>2. ASSUME NEW r \in Runs, pc[r] = "commit",
             artifact' = artifact, marker' = [marker EXCEPT ![scene[r]] = r]
      PROVE  Goal
  <2>1. scene[r] \in Scenes /\ marker[scene[r]] = NoRun /\ \A a \in Artifacts : artifact[scene[r]][a] = r
    BY <1>2 DEF Inv, BusyHasScene, WritersProgress, Writing, Written, Guarded, Locked
  <2>2. QED
    BY <1>2, <2>1 DEF CommitsScene
<1>3. ASSUME NEW r \in Runs, Fault(r) PROVE Goal
  <2>1. CASE WriteLate(r)
    BY <2>1, <1>1 DEF WriteLate
  <2>2. CASE CommitLate(r)
    BY <2>2, <1>2 DEF CommitLate
  <2>3. CASE AcquireLate(r) \/ RecordLate(r) \/ ReleaseFails(r) \/ StepRaises(r) \/ Kill(r)
    BY <2>3 DEF AcquireLate, RecordLate, ReleaseFails, StepRaises, Kill, OnlyMoves, store
  <2>4. QED
    BY <1>3, <2>1, <2>2, <2>3 DEF Fault
<1>4. ASSUME NEW r \in Runs, Publish(r) PROVE Goal
  <2>1. CASE WriteCog(r) \/ WriteMask(r) \/ WriteProvenance(r) \/ WriteStac(r)
    BY <2>1, <1>1 DEF WriteCog, WriteMask, WriteProvenance, WriteStac, Write, Artifacts
  <2>2. CASE Commit(r)
    <3>1. \/ UNCHANGED store
          \/ /\ pc[r] = "commit" /\ artifact' = artifact
             /\ marker' = [marker EXCEPT ![scene[r]] = r]
      BY <2>2 DEF Commit, store
    <3>2. QED
      BY <3>1, <1>2
  <2>3. CASE Compose(r) \/ AcquireLock(r) \/ Recheck(r) \/ Readback(r) \/ Release(r)
    BY <2>3 DEF Compose, AcquireLock, Recheck, Readback, Release, OnlyMoves, store
  <2>4. QED
    BY <1>4, <2>1, <2>2, <2>3 DEF Publish
<1>5. ASSUME NEW r \in Runs, Advance(r) PROVE Goal
  <2>1. ASSUME NEW s \in Scenes, Skip(r, s) \/ Claim(r, s) PROVE UNCHANGED store
    BY <2>1 DEF Skip, Claim, store
  <2>2. ASSUME RecordDone(r) \/ RecordFailed(r) \/ Finish(r) PROVE UNCHANGED store
    BY <2>2 DEF RecordDone, RecordFailed, Finish, Close, store
  <2>3. QED
    BY <1>4, <1>5, <2>1, <2>2 DEF Advance
<1>6. ASSUME NEW r \in Runs, NEW c \in Configs, NEW selection \in SUBSET Scenes, Start(r, c, selection)
      PROVE  Goal
  BY <1>6 DEF Start, store
<1>7. ASSUME NEW s \in Scenes, OperatorClearsLock(s) PROVE Goal
  BY <1>7 DEF OperatorClearsLock, store
<1>8. CASE UNCHANGED vars
  BY <1>8 DEF vars, store
<1>9. Goal
  BY <1>3, <1>5, <1>6, <1>7, <1>8 DEF Next
<1>10. QED
  BY <1>9

\* Nothing rewrites a committed scene, however its would-be publishers
\* interleave, fail, or are killed.
THEOREM Immutability == Spec => CommittedIsImmutable
<1> DEFINE Kept == \A s \in Scenes : Committed(s) => artifact'[s] = artifact[s] /\ marker'[s] = marker[s]
<1>1. ASSUME Inv, [Next]_vars PROVE [Kept]_store
  <2>1. CASE UNCHANGED store
    BY <2>1
  <2>2. ASSUME NEW r \in Runs, NEW a \in Artifacts, WritesArtifact(r, a) PROVE Kept
    BY <1>1, <2>2 DEF WritesArtifact, Committed, Inv, TypeOK
  <2>3. ASSUME NEW r \in Runs, CommitsScene(r) PROVE Kept
    BY <1>1, <2>3 DEF CommitsScene, Committed, Inv, TypeOK
  <2>4. QED
    BY <1>1, <2>1, <2>2, <2>3, StoreStep
<1>2. QED
  BY Invariance, <1>1, PTL DEF Spec, CommittedIsImmutable

\* The protocol implements the abstract release: a reader that looks only at
\* scenes with a completion marker sees each appear whole, once, for good.
THEOREM Refinement == Spec => ImplementsImmutableRelease
<1>1. Init => Abstract!Init
  BY DEF Init, Abstract!Init, Visible, Committed
<1>2. ASSUME Inv, [Next]_vars PROVE [Abstract!Next]_Visible
  <2>1. CASE UNCHANGED store
    BY <2>1 DEF store, Visible, Committed
  <2>2. ASSUME NEW r \in Runs, NEW a \in Artifacts, WritesArtifact(r, a) PROVE Visible' = Visible
    <3>1. \A s \in Scenes : Committed(s) => artifact'[s] = artifact[s]
      BY <1>2, <2>2 DEF WritesArtifact, Committed, Inv, TypeOK
    <3>2. QED
      BY <2>2, <3>1 DEF WritesArtifact, Visible, Committed
  <2>3. ASSUME NEW r \in Runs, CommitsScene(r) PROVE Abstract!PublishItem(scene[r], r)
    <3>1. artifact[scene[r]] = [a \in Artifacts |-> r]
      BY <1>2, <2>3 DEF CommitsScene, Inv, TypeOK
    <3>2. Visible[scene[r]] = Unpublished
      BY <2>3 DEF CommitsScene, Visible, Committed
    <3>3. \A s \in Scenes : Committed(s)' <=> Committed(s) \/ s = scene[r]
      BY <1>2, <2>3, SentinelAssumption DEF CommitsScene, Committed, Inv, TypeOK
    <3>4. Visible' = [Visible EXCEPT ![scene[r]] = [a \in Artifacts |-> r]]
      BY <2>3, <3>1, <3>3 DEF CommitsScene, Visible
    <3>5. QED
      BY <3>2, <3>4 DEF Abstract!PublishItem
  <2>4. QED
    BY <1>2, <2>1, <2>2, <2>3, StoreStep DEF Abstract!Next, CommitsScene
<1>3. QED
  BY Invariance, <1>1, <1>2, PTL DEF Spec, ImplementsImmutableRelease, Abstract!Spec

-----------------------------------------------------------------------------

\* At work, a run's copy shows the row it has claimed, or the done row it has written
\* itself after its commit.
OwnRow ==
  \A r \in Runs : pc[r] \in Guarded \cup {"failing"} /\ mem[r][scene[r]].status = "done" =>
    marker[scene[r]] = r

\* Only a run about to record its scene, or one that closes it, writes that row.
LEMMA OwnRowStep == Inv /\ OwnRow /\ [Next]_vars => OwnRow'
<1> SUFFICES ASSUME Inv, OwnRow, [Next]_vars, NEW q \in Runs,
                    pc'[q] \in Guarded \cup {"failing"}, mem'[q][scene'[q]].status = "done"
             PROVE  marker'[scene'[q]] = q
  BY DEF OwnRow
<1>1. TypeOK
  BY DEF Inv
<1>2. \A s \in Scenes : marker[s] # NoRun => marker'[s] = marker[s]
  <2>1. \A s \in Scenes : Committed(s) => Committed(s)' /\ marker'[s] = marker[s]
    BY <1>1, StoreStep DEF WritesArtifact, CommitsScene, Committed, TypeOK, store
  <2> QED
    BY <2>1 DEF Committed
<1>3. ASSUME pc[q] \in Guarded \cup {"failing"}, scene'[q] = scene[q], mem'[q] = mem[q]
      PROVE  marker'[scene'[q]] = q
  <2>1. scene[q] \in Scenes /\ marker[scene[q]] = q
    BY <1>3 DEF OwnRow, Inv, BusyHasScene
  <2> QED
    BY <1>2, <1>3, <2>1, SentinelAssumption
<1>4. ASSUME NEW r \in Runs, NEW c \in Configs, NEW selection \in SUBSET Scenes, Start(r, c, selection)
      PROVE  marker'[scene'[q]] = q
  BY <1>1, <1>3, <1>4 DEF Start, Goto, TypeOK, Guarded, Locked
<1>5. ASSUME NEW r \in Runs, NEW s \in Scenes, Skip(r, s) PROVE marker'[scene'[q]] = q
  BY <1>1, <1>3, <1>5 DEF Skip, Goto, TypeOK, Guarded, Locked
<1>6. ASSUME NEW r \in Runs, NEW s \in Scenes, Claim(r, s) PROVE marker'[scene'[q]] = q
  <2>1. CASE q = r
    <3>1. scene'[q] = s /\ mem'[q][s] = Exporting
      BY <1>1, <1>6, <2>1 DEF Claim, Upsert, TypeOK
    <3> QED
      BY <3>1 DEF Exporting
  <2>2. CASE q # r
    BY <1>1, <1>3, <1>6, <2>2 DEF Claim, Upsert, Goto, TypeOK
  <2> QED
    BY <2>1, <2>2
<1>7. ASSUME NEW r \in Runs, Publish(r) PROVE marker'[scene'[q]] = q
  <2>1. /\ UNCHANGED <<mem, scene>> /\ pc[r] \in Guarded
        /\ \E step \in Steps : Goto(r, step)
    BY <1>7 DEF Publish, Compose, AcquireLock, Recheck, WriteCog, WriteMask, WriteProvenance, WriteStac,
       Write, Readback, Commit, Release, OnlyMoves, Steps, Guarded, Locked, Artifacts
  <2> QED
    BY <1>1, <1>3, <2>1 DEF Goto, TypeOK
<1>8. ASSUME NEW r \in Runs, RecordLate(r) PROVE marker'[scene'[q]] = q
  <2>1. /\ pc[r] = "record" /\ scene' = scene /\ marker' = marker
        /\ \A p \in Runs \ {r} : mem'[p] = mem[p] /\ pc'[p] = pc[p]
    BY <1>1, <1>8 DEF RecordLate, Upsert, Goto, TypeOK, store
  <2>2. q = r => marker[scene[q]] = q
    BY <2>1 DEF Inv, CommittersOwnMarker
  <2> QED
    BY <1>3, <2>1, <2>2
<1>9. ASSUME NEW r \in Runs,
             AcquireLate(r) \/ WriteLate(r) \/ CommitLate(r) \/ ReleaseFails(r) \/ StepRaises(r) \/ Kill(r)
      PROVE  marker'[scene'[q]] = q
  <2>1. /\ UNCHANGED <<mem, scene>>
        /\ pc[r] \in Guarded \/ pc'[r] = "dead"
        /\ \E step \in Steps : Goto(r, step)
    BY <1>1, <1>9 DEF AcquireLate, WriteLate, CommitLate, ReleaseFails, StepRaises, Kill,
       OnlyMoves, Steps, Guarded, Locked, Artifacts, Goto, TypeOK
  <2> QED
    BY <1>1, <1>3, <2>1 DEF Goto, TypeOK, Guarded, Locked
<1>10. ASSUME NEW r \in Runs, RecordDone(r) \/ RecordFailed(r) PROVE marker'[scene'[q]] = q
  BY <1>1, <1>3, <1>10 DEF RecordDone, RecordFailed, Close, Upsert, Goto, TypeOK, Guarded, Locked
<1>11. ASSUME NEW r \in Runs, Finish(r) PROVE marker'[scene'[q]] = q
  BY <1>1, <1>3, <1>11 DEF Finish, Goto, TypeOK, Guarded, Locked
<1>12. ASSUME NEW s \in Scenes, OperatorClearsLock(s) PROVE marker'[scene'[q]] = q
  BY <1>3, <1>12 DEF OperatorClearsLock
<1>13. CASE UNCHANGED vars
  BY <1>3, <1>13 DEF vars
<1> QED
  BY <1>4, <1>5, <1>6, <1>7, <1>8, <1>9, <1>10, <1>11, <1>12, <1>13 DEF Next, Advance, Fault

\* No run takes back a done row of its own configuration that it knows of, unless it
\* wrote that row itself (secondary/idempotency.reconcile, features/pipeline.py).
THEOREM DoneRowsAreFinal == Spec => DoneIsFinal
<1> DEFINE Final ==
      \A s \in Scenes : (ledger[s].status = "done" /\ ledger'[s] # ledger[s]) =>
        \E r \in Runs :
          /\ pc'[r] # pc[r]
          /\ mem[r][s] # ledger[s] \/ config[r] # ledger[s].hash \/ marker[s] = r
<1>1. ASSUME Inv, OwnRow, [Next]_vars PROVE Final
  <2> SUFFICES ASSUME NEW s \in Scenes, ledger[s].status = "done", ledger'[s] # ledger[s]
               PROVE  \E r \in Runs :
                        /\ pc'[r] # pc[r]
                        /\ mem[r][s] # ledger[s] \/ config[r] # ledger[s].hash \/ marker[s] = r
    OBVIOUS
  <2>1. TypeOK
    BY <1>1 DEF Inv
  <2>2. Committed(s) /\ config[marker[s]] = ledger[s].hash /\ artifact[s]["cog"] # NoRun
    BY <1>1, SentinelAssumption
       DEF Inv, RowsAreTruthful, Truthful, CommittedIsCoherent, Committed, Artifacts, TypeOK
  <2>3. ASSUME NEW r \in Runs, NEW z \in Scenes, NEW row, Upsert(r, z, row), pc'[r] # pc[r],
               z = s => mem[r][s] # ledger[s] \/ config[r] # ledger[s].hash \/ marker[s] = r
        PROVE  \E u \in Runs :
                 /\ pc'[u] # pc[u]
                 /\ mem[u][s] # ledger[s] \/ config[u] # ledger[s].hash \/ marker[s] = u
    <3>1. z # s => ledger'[s] = mem[r][s]
      BY <2>1, <2>3 DEF Upsert, TypeOK
    <3> QED
      BY <2>3, <3>1
  <2>4. ASSUME NEW r \in Runs, NEW z \in Scenes, Claim(r, z)
        PROVE  /\ Upsert(r, z, Exporting) /\ pc'[r] # pc[r]
               /\ z = s => mem[r][s] # ledger[s] \/ config[r] # ledger[s].hash
    <3>1. Upsert(r, z, Exporting) /\ pc'[r] # pc[r]
      BY <2>1, <2>4 DEF Claim, Goto, TypeOK
    <3>2. ASSUME z = s, mem[r][s] = ledger[s], config[r] = ledger[s].hash PROVE FALSE
      <4>1. Reconcile(mem[r][s], config[r], s) = "skip"
        BY <2>2, <3>2 DEF Reconcile
      <4> QED
        BY <2>4, <3>2, <4>1 DEF Claim
    <3> QED
      BY <3>1, <3>2
  <2>5. ASSUME NEW r \in Runs, RecordDone(r) \/ RecordLate(r) \/ RecordFailed(r)
        PROVE  /\ \E row : Upsert(r, scene[r], row)
               /\ pc'[r] # pc[r] /\ scene[r] \in Scenes
               /\ scene[r] = s => mem[r][s] # ledger[s] \/ marker[s] = r
    <3>1. /\ \E row : Upsert(r, scene[r], row)
          /\ pc[r] \in {"record", "failing"} /\ pc'[r] # pc[r]
      BY <2>1, <2>5 DEF RecordDone, RecordLate, RecordFailed, Close, Goto, TypeOK
    <3>2. scene[r] \in Scenes /\ (mem[r][scene[r]].status = "done" => marker[scene[r]] = r)
      BY <1>1, <3>1 DEF OwnRow, Inv, BusyHasScene, Guarded, Locked
    <3> QED
      BY <3>1, <3>2
  <2>6. ASSUME UNCHANGED ledger PROVE FALSE
    BY <2>6
  <2>7. ASSUME NEW r \in Runs, NEW z \in Scenes, Skip(r, z) PROVE FALSE
    BY <2>6, <2>7 DEF Skip
  <2>8. ASSUME NEW r \in Runs, Publish(r) \/ Finish(r) PROVE FALSE
    BY <2>6, <2>8 DEF Publish, Compose, AcquireLock, Recheck, WriteCog, WriteMask, WriteProvenance,
       WriteStac, Write, Readback, Commit, Release, OnlyMoves, Finish
  <2>9. ASSUME NEW r \in Runs,
               AcquireLate(r) \/ WriteLate(r) \/ CommitLate(r) \/ ReleaseFails(r) \/ StepRaises(r) \/ Kill(r)
        PROVE  FALSE
    BY <2>6, <2>9 DEF AcquireLate, WriteLate, CommitLate, ReleaseFails, StepRaises, Kill, OnlyMoves
  <2>10. ASSUME NEW r \in Runs, NEW c \in Configs, NEW selection \in SUBSET Scenes, Start(r, c, selection)
         PROVE  FALSE
    BY <2>6, <2>10 DEF Start
  <2>11. ASSUME NEW z \in Scenes, OperatorClearsLock(z) PROVE FALSE
    BY <2>6, <2>11 DEF OperatorClearsLock
  <2>12. ASSUME UNCHANGED vars PROVE FALSE
    BY <2>6, <2>12 DEF vars
  <2>13. PICK r \in Runs : (\E z \in Scenes : Claim(r, z))
                           \/ RecordDone(r) \/ RecordLate(r) \/ RecordFailed(r)
    BY <1>1, <2>7, <2>8, <2>9, <2>10, <2>11, <2>12 DEF Next, Advance, Fault
  <2>14. CASE \E z \in Scenes : Claim(r, z)
    BY <2>3, <2>4, <2>14
  <2> QED
    BY <2>3, <2>5, <2>13, <2>14
<1>2. Init => OwnRow
  BY DEF Init, OwnRow, Guarded, Locked, Artifacts
<1>3. Inv /\ [Next]_vars => Inv'
  BY TypeStep, InvStep DEF Inv
<1>4. Spec => [](Inv /\ OwnRow)
  BY InitInv, OwnRowStep, <1>2, <1>3, PTL DEF Spec
<1> QED
  BY <1>1, <1>4, PTL DEF Spec, DoneIsFinal

-----------------------------------------------------------------------------
(* The driver                                                              *)

\* What a driver has got of a scene it does not count as failed.
Settled(d, s) ==
  /\ Committed(s)
  /\ driver[d].child[s] = NoRun => driver[d].resume
  /\ driver[d].child[s] # NoRun => config[marker[s]] = config[driver[d].child[s]]

\* A driver accounts for every scene it answers for: it is still to come, at work,
\* failed or settled; its children have started; and a scene has no child before it
\* is taken from the list.
Accounts(d) ==
  /\ driver[d].phase \in {"next", "wait", "ended"} =>
       \A s \in driver[d].scope : \/ s \in driver[d].queue \cup driver[d].failed
                                  \/ driver[d].phase = "wait" /\ s = driver[d].current
                                  \/ Settled(d, s)
  /\ \A s \in Scenes : driver[d].child[s] # NoRun =>
       /\ driver[d].phase # "idle" /\ s \notin driver[d].queue
       /\ driver[d].child[s] \in Runs /\ pc[driver[d].child[s]] # "idle"
  /\ driver[d].phase = "wait" => driver[d].current \in Scenes /\ CurrentChild(d) # NoRun
  /\ driver[d].phase = "ended" => driver[d].queue = {}

DriverInv == Inv /\ driver \in [Drivers -> Driver] /\ \A d \in Drivers : Accounts(d)

\* A run that has started keeps its configuration.
LEMMA ConfigStays ==
  ASSUME Inv, [Next]_vars, NEW r \in Runs, pc[r] # "idle"
  PROVE  pc'[r] # "idle" /\ config'[r] = config[r]
<1>1. pc \in [Runs -> Steps] /\ config \in [Runs -> Configs \cup {NoConfig}]
  BY DEF Inv, TypeOK
<1>2. ASSUME NEW q \in Runs, NEW c \in Configs, NEW selection \in SUBSET Scenes, Start(q, c, selection)
      PROVE  pc'[r] # "idle" /\ config'[r] = config[r]
  BY <1>1, <1>2 DEF Start, Goto
<1>3. ASSUME NEW q \in Runs, NEW s \in Scenes, Skip(q, s) \/ Claim(q, s)
      PROVE  pc'[r] # "idle" /\ config'[r] = config[r]
  BY <1>1, <1>3 DEF Skip, Claim, Goto
<1>4. ASSUME NEW q \in Runs, Publish(q) PROVE pc'[r] # "idle" /\ config'[r] = config[r]
  <2>1. /\ config' = config
        /\ \E step \in Steps \ {"idle"} : Goto(q, step)
    BY <1>4 DEF Publish, Compose, AcquireLock, Recheck, WriteCog, WriteMask, WriteProvenance, WriteStac,
       Write, Readback, Commit, Release, OnlyMoves, Steps, Guarded, Locked, Artifacts
  <2> QED
    BY <1>1, <2>1 DEF Goto
<1>5. ASSUME NEW q \in Runs, Fault(q) PROVE pc'[r] # "idle" /\ config'[r] = config[r]
  <2>1. /\ config' = config
        /\ \E step \in Steps \ {"idle"} : Goto(q, step)
    BY <1>5 DEF Fault, AcquireLate, WriteLate, CommitLate, RecordLate, ReleaseFails, StepRaises, Kill,
       OnlyMoves, Steps, Guarded, Locked, Artifacts
  <2> QED
    BY <1>1, <2>1 DEF Goto
<1>6. ASSUME NEW q \in Runs, RecordDone(q) \/ RecordFailed(q) \/ Finish(q)
      PROVE  pc'[r] # "idle" /\ config'[r] = config[r]
  BY <1>1, <1>6 DEF RecordDone, RecordFailed, Close, Finish, Goto
<1>7. ASSUME NEW s \in Scenes, OperatorClearsLock(s) PROVE pc'[r] # "idle" /\ config'[r] = config[r]
  BY <1>7 DEF OperatorClearsLock
<1>8. CASE UNCHANGED vars
  BY <1>8 DEF vars
<1> QED
  BY <1>2, <1>3, <1>4, <1>5, <1>6, <1>7, <1>8 DEF Next, Advance

\* A published scene stays published, with the configuration it has.
LEMMA PublishedStays ==
  ASSUME Inv, [Next]_vars, NEW s \in Scenes, Committed(s)
  PROVE  Committed(s)' /\ config'[marker'[s]] = config[marker[s]]
<1>1. marker'[s] = marker[s]
  <2>1. CASE UNCHANGED store
    BY <2>1 DEF store
  <2>2. ASSUME NEW r \in Runs, NEW a \in Artifacts, WritesArtifact(r, a) PROVE marker'[s] = marker[s]
    BY <2>2 DEF WritesArtifact
  <2>3. ASSUME NEW r \in Runs, CommitsScene(r) PROVE marker'[s] = marker[s]
    BY <2>3 DEF CommitsScene, Committed, Inv, TypeOK
  <2> QED
    BY <2>1, <2>2, <2>3, StoreStep
<1>2. marker[s] \in Runs /\ pc[marker[s]] # "idle"
  BY DEF Committed, Inv, TypeOK, IdleRunsAreUnknown
<1> QED
  BY <1>1, <1>2, ConfigStays DEF Committed

\* What the drivers rely on survives a step of the publication.
LEMMA AccountsStay ==
  ASSUME DriverInv, [Next]_vars, NEW d \in Drivers, driver'[d] = driver[d]
  PROVE  Accounts(d)'
<1>1. Inv /\ Accounts(d)
  BY DEF DriverInv
<1>2. \A s \in Scenes : driver[d].child[s] # NoRun =>
        pc'[driver[d].child[s]] # "idle" /\ config'[driver[d].child[s]] = config[driver[d].child[s]]
  BY <1>1, ConfigStays DEF Accounts
<1>3. \A s \in Scenes : Settled(d, s) => Settled(d, s)'
  BY <1>1, <1>2, PublishedStays DEF Settled
<1>4. driver \in [Drivers -> Driver] /\ driver[d].scope \in SUBSET Scenes
  BY DEF DriverInv, Driver
<1> QED
  BY <1>1, <1>2, <1>3, <1>4 DEF Accounts, CurrentChild

\* The children of a driver keep what the driver has settled.
LEMMA SettledStays ==
  ASSUME DriverInv, [Next]_vars, NEW d \in Drivers, NEW s \in Scenes, Settled(d, s),
         driver'[d].child[s] = driver[d].child[s], driver'[d].resume = driver[d].resume
  PROVE  Settled(d, s)'
<1>1. Inv /\ Accounts(d)
  BY DEF DriverInv
<1>2. driver[d].child[s] # NoRun => config'[driver[d].child[s]] = config[driver[d].child[s]]
  BY <1>1, ConfigStays DEF Accounts
<1> QED
  BY <1>1, <1>2, PublishedStays DEF Settled

\* A step of a driver, or beside the drivers, keeps the invariant.
LEMMA DriverStep == DriverInv /\ [DriverNext]_driverVars => DriverInv'
<1> SUFFICES ASSUME DriverInv, [DriverNext]_driverVars PROVE DriverInv'
  OBVIOUS
<1>1. [Next]_vars
  <2>1. ASSUME NEW d \in Drivers, NEW s \in Scenes, NEW r \in Runs, NEW c \in Configs, Spawn(d, s, r, c)
        PROVE  Next
    <3>1. Start(r, c, {s})
      BY <2>1 DEF Spawn
    <3>2. {s} \in (SUBSET Scenes) \ {{}}
      OBVIOUS
    <3> QED
      BY <3>1, <3>2 DEF Next
  <2>2. ASSUME NEW d \in Drivers, ChildTimesOut(d) PROVE Next
    <3>1. CurrentChild(d) \in Runs /\ Kill(CurrentChild(d))
      BY <2>2 DEF ChildTimesOut, DriverInv, Accounts, CurrentChild
    <3> QED
      BY <3>1 DEF Next, Fault
  <2>3. CASE \/ (\E r \in Runs : Advance(r) \/ Fault(r)) \/ (\E s \in Scenes : OperatorClearsLock(s))
             \/ StartByHand
    BY <2>3 DEF Next, StartByHand
  <2>4. ASSUME NEW d \in Drivers,
               \/ \E resume \in BOOLEAN, list \in SUBSET Scenes : Launch(d, resume, list)
               \/ ChildExits(d) \/ DriverKilled(d) \/ DriverEnds(d)
        PROVE  UNCHANGED vars
    BY <2>4 DEF Launch, ChildExits, DriverKilled, DriverEnds, publication
  <2>5. CASE UNCHANGED driverVars
    BY <2>5 DEF driverVars
  <2> QED
    BY <2>1, <2>2, <2>3, <2>4, <2>5 DEF DriverNext, ChildrenNext
<1>2. Inv /\ Inv' /\ driver \in [Drivers -> Driver]
  BY <1>1, TypeStep, InvStep DEF DriverInv, Inv
<1>3. CASE driver' = driver
  BY <1>1, <1>2, <1>3, AccountsStay DEF DriverInv
<1>4. ASSUME NEW d \in Drivers, NEW new, new \in Driver, driver' = [driver EXCEPT ![d] = new], Accounts(d)'
      PROVE  DriverInv'
  <2>1. driver' \in [Drivers -> Driver] /\ \A e \in Drivers \ {d} : driver'[e] = driver[e]
    BY <1>2, <1>4
  <2> QED
    BY <1>1, <1>2, <1>4, <2>1, AccountsStay DEF DriverInv
<1>5. ASSUME NEW d \in Drivers, NEW resume \in BOOLEAN, NEW list \in SUBSET Scenes, Launch(d, resume, list)
      PROVE  DriverInv'
  <2> DEFINE new == [driver[d] EXCEPT !.phase = "next", !.resume = resume, !.queue = list,
                       !.scope = list \cup Skipped(resume)]
  <2>1. /\ new \in Driver /\ new.phase = "next" /\ new.resume = resume /\ new.queue = list
        /\ new.scope = list \cup Skipped(resume) /\ new.child = driver[d].child
    BY <1>2 DEF Driver, Skipped
  <2>2. driver' = [driver EXCEPT ![d] = new] /\ UNCHANGED vars /\ driver[d].phase = "idle"
    BY <1>5 DEF Launch, publication
  <2> HIDE DEF new
  <2>3. driver'[d] = new
    BY <1>2, <2>2
  <2>4. \A s \in Scenes : new.child[s] = NoRun
    BY <2>1, <2>2 DEF DriverInv, Accounts
  <2>5. \A s \in new.scope : s \in Scenes /\ (s \notin new.queue => resume /\ Committed(s)')
    BY <2>1, <2>2 DEF SceneDone, Skipped, Committed, vars, store
  <2>6. Accounts(d)'
    BY <2>1, <2>3, <2>4, <2>5 DEF Accounts, Settled
  <2> QED
    BY <1>4, <2>1, <2>2, <2>6
<1>6. ASSUME NEW d \in Drivers, NEW s \in Scenes, NEW r \in Runs, NEW c \in Configs, Spawn(d, s, r, c)
      PROVE  DriverInv'
  <2> DEFINE children == [driver[d].child EXCEPT ![s] = r]
             new == [driver[d] EXCEPT !.phase = "wait", !.queue = driver[d].queue \ {s}, !.current = s,
                       !.child = children]
  <2>1. /\ children \in [Scenes -> Runs \cup {NoRun}] /\ children[s] = r
        /\ \A z \in Scenes \ {s} : children[z] = driver[d].child[z]
    BY <1>2 DEF Driver
  <2> HIDE DEF children
  <2>2. /\ new \in Driver /\ new.phase = "wait" /\ new.queue = driver[d].queue \ {s} /\ new.current = s
        /\ new.child = children /\ new.resume = driver[d].resume /\ new.scope = driver[d].scope
        /\ new.failed = driver[d].failed
    BY <1>2, <2>1 DEF Driver
  <2>3. /\ driver' = [driver EXCEPT ![d] = new] /\ driver[d].phase = "next"
        /\ Start(r, c, {s})
    BY <1>6 DEF Spawn, children
  <2> HIDE DEF new
  <2>4. driver'[d] = new
    BY <1>2, <2>3
  <2>5. pc'[r] # "idle" /\ r # NoRun
    BY <1>2, <2>3, SentinelAssumption DEF Start, Goto, Inv, TypeOK
  <2>6. \A z \in Scenes \ {s} : Settled(d, z) => Settled(d, z)'
    BY <1>1, <2>1, <2>2, <2>4, SettledStays
  <2>7. \A z \in Scenes \ {s} : driver[d].child[z] # NoRun => pc'[driver[d].child[z]] # "idle"
    BY <1>1, <1>2, ConfigStays DEF DriverInv, Accounts
  <2>8. Accounts(d) /\ new.scope \in SUBSET Scenes
    BY <1>2, <2>2 DEF DriverInv, Driver
  <2>9. Accounts(d)'
    BY <2>1, <2>2, <2>3, <2>4, <2>5, <2>6, <2>7, <2>8 DEF Accounts, CurrentChild
  <2> QED
    BY <1>4, <2>2, <2>3, <2>9
<1>7. ASSUME NEW d \in Drivers, NEW new, new \in Driver, driver' = [driver EXCEPT ![d] = new],
             new.scope = driver[d].scope, new.queue = driver[d].queue, new.child = driver[d].child,
             new.resume = driver[d].resume,
             new.phase \in {"next", "ended", "dead"},
             new.phase = "ended" => new.queue = {} /\ driver[d].phase = "next",
             new.phase = "next" => driver[d].phase = "wait",
             driver[d].failed \subseteq new.failed,
             driver[d].phase = "wait" /\ new.phase = "next" =>
               driver[d].current \in new.failed \/ Settled(d, driver[d].current)
      PROVE  DriverInv'
  <2>1. driver'[d] = new
    BY <1>2, <1>7
  <2>2. \A z \in Scenes : Settled(d, z) => Settled(d, z)'
    BY <1>1, <1>7, <2>1, SettledStays
  <2>3. \A z \in Scenes : driver[d].child[z] # NoRun => pc'[driver[d].child[z]] # "idle"
    BY <1>1, <1>2, ConfigStays DEF DriverInv, Accounts
  <2>5. Accounts(d) /\ new.scope \in SUBSET Scenes
    BY <1>7 DEF DriverInv, Driver
  <2>6. Accounts(d)'
    BY <1>7, <2>1, <2>2, <2>3, <2>5 DEF Accounts, CurrentChild
  <2> QED
    BY <1>4, <1>7, <2>6
<1>8. ASSUME NEW d \in Drivers, NEW ok \in BOOLEAN, driver[d].phase = "wait",
             driver' = [driver EXCEPT ![d] = Collected(d, ok)],
             ok => Settled(d, driver[d].current)
      PROVE  DriverInv'
  <2> DEFINE new == Collected(d, ok)
  <2>1. driver[d].current \in Scenes
    BY <1>8 DEF DriverInv, Accounts
  <2>2. /\ new \in Driver /\ new.phase = "next" /\ new.queue = driver[d].queue
        /\ new.scope = driver[d].scope /\ new.child = driver[d].child /\ new.resume = driver[d].resume
        /\ new.failed = driver[d].failed \cup (IF ok THEN {} ELSE {driver[d].current})
    BY <1>2, <2>1 DEF Driver, Collected
  <2>3. driver' = [driver EXCEPT ![d] = new]
    BY <1>8
  <2> HIDE DEF new
  <2> QED
    BY <1>7, <1>8, <2>2, <2>3
<1>9. ASSUME NEW d \in Drivers, ChildExits(d) PROVE DriverInv'
  <2> DEFINE r == CurrentChild(d)
             s == driver[d].current
             ok == pc[r] = "ended" /\ report[r][s] = "done" /\ SceneDone(s)
  <2>1. driver[d].phase = "wait" /\ driver' = [driver EXCEPT ![d] = Collected(d, ok)]
    BY <1>9 DEF ChildExits
  <2>2. s \in Scenes /\ r # NoRun /\ r \in Runs
    BY <2>1 DEF DriverInv, Accounts, CurrentChild
  <2>3. ok => Settled(d, s)
    BY <1>2, <2>2 DEF Inv, ReportsAreTruthful, Settled, CurrentChild
  <2>4. ok \in BOOLEAN
    OBVIOUS
  <2> HIDE DEF ok
  <2> QED
    BY <1>8, <2>1, <2>3, <2>4
<1>10. ASSUME NEW d \in Drivers, ChildTimesOut(d) PROVE DriverInv'
  BY <1>8, <1>10 DEF ChildTimesOut
<1>11. ASSUME NEW d \in Drivers, DriverKilled(d) \/ DriverEnds(d) PROVE DriverInv'
  <2>1. PICK phase \in {"dead", "ended"} :
          /\ driver' = [driver EXCEPT ![d] = [driver[d] EXCEPT !.phase = phase]]
          /\ phase = "ended" => driver[d].phase = "next" /\ driver[d].queue = {}
    BY <1>2, <1>11 DEF DriverKilled, DriverEnds
  <2> DEFINE new == [driver[d] EXCEPT !.phase = phase]
  <2>2. /\ new \in Driver /\ new.phase = phase /\ new.queue = driver[d].queue
        /\ new.scope = driver[d].scope /\ new.child = driver[d].child /\ new.resume = driver[d].resume
        /\ new.failed = driver[d].failed
    BY <1>2 DEF Driver
  <2> HIDE DEF new
  <2> QED
    BY <1>7, <2>1, <2>2 DEF new
<1> QED
  BY <1>3, <1>5, <1>6, <1>9, <1>10, <1>11 DEF DriverNext, ChildrenNext, StartByHand, driverVars

\* A driver that exits 0 has every scene published that it was asked for, with the
\* configuration of its own child where it started one, also with other drivers and
\* runs started by hand beside it (run_features_isolated.py, main).
THEOREM CleanExits == DriverSpec => []CleanExitIsComplete
<1>1. DriverInit => DriverInv
  <2> SUFFICES ASSUME DriverInit PROVE DriverInv
    OBVIOUS
  <2>1. Inv
    BY InitInv DEF DriverInit
  <2> QED
    BY <2>1 DEF DriverInit, DriverInv, Driver, Accounts
<1>2. DriverInv => CleanExitIsComplete
  BY DEF DriverInv, Accounts, Settled, CleanExitIsComplete, ExitsZero
<1> QED
  BY <1>1, <1>2, DriverStep, PTL DEF DriverSpec

=============================================================================
