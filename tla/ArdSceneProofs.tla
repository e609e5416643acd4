--------------------------- MODULE ArdSceneProofs ---------------------------
(***************************************************************************)
(* What the analysis-ready data and their ledger guarantee for any number  *)
(* of scenes, runs, contracts and attempts, and any faults.                *)
(*                                                                         *)
(* The argument: the copy of a run and the ledger file are equal whenever  *)
(* the run writes to a product or turns to the next scene, and the row of  *)
(* the scene it writes to says exporting.  So a done row is never left     *)
(* over bytes that are being replaced, the row of a mosaic scene keeps the *)
(* contract of the bytes stored for it, and what a run has visited shows   *)
(* in the table it takes its return value from.                            *)
(***************************************************************************)
EXTENDS ArdScene, TLAPS

\* How many attempts the row of a mosaic scene may count.
Limit == IF Faults \cap {"unwritable", "late"} = {} THEN MaxAttempts ELSE MaxAttempts + 1

\* A row that says done names the run whose bytes are stored, whole as long as
\* nothing of it is lost.
DescribesProduct(row, bytes, mark, whole, con) ==
  /\ row.run \in Runs /\ row.contract \in Contracts /\ con[row.run] = row.contract
  /\ mark \in {row.run, NoRun} /\ \A a \in Artifacts : bytes[a] \in {row.run, NoRun}
  /\ whole => mark = row.run /\ \A a \in Artifacts : bytes[a] = row.run

\* The row of a scene fits what is stored for it.
RowFits(row, s, bytes, mark, gone, con) ==
  /\ row.status = "absent" => row.attempts = 0
  /\ row.status = "done" => DescribesProduct(row, bytes, mark, s \notin gone, con)
  /\ s \in Mosaic => \A a \in Artifacts :
       bytes[a] # NoRun => row.status # "absent" /\ row.contract = con[bytes[a]]
  /\ s \in Mosaic \ gone => row.attempts <= Limit

TableFits(t, art, mark, gone, con) ==
  \A s \in Scenes : RowFits(t[s], s, art[s], mark[s], gone, con)

\* Both tables do; so do the bytes and the runs that wrote them.
TablesInv ==
  /\ TableFits(ledger, artifact, marker, lost, contract)
  /\ run # NoRun => TableFits(mem, artifact, marker, lost, contract)
  /\ \A s \in Scenes, a \in Artifacts :
       artifact[s][a] # NoRun => contract[artifact[s][a]] # NoContract

\* Where the run is.
WorkInv ==
  /\ run = NoRun <=> pc = "none"
  /\ scene = NoScene <=> pc \in {"none", "loop"}
  /\ run # NoRun => contract[run] # NoContract
  /\ pc \in {"loop", "begin"} \cup Attempt => mem = ledger

\* The row of the scene at work.
SceneInv ==
  /\ pc \in Attempt => mem[scene].status = "exporting"
  /\ scene \in Mosaic => mem[scene].status = "absent" \/ mem[scene].contract = contract[run]
  /\ pc = "begin" /\ scene \in Mosaic \ lost => mem[scene].attempts < MaxAttempts
  /\ pc = "failing_unstarted" =>
       /\ Limit = MaxAttempts + 1
       /\ scene \in Mosaic \ lost => mem[scene].attempts <= MaxAttempts

\* What of its product is written.
WrittenInv ==
  /\ pc \in {"flag", "validate", "provenance", "stac", "complete", "record"} => artifact[scene]["cog"] = run
  /\ pc \in {"validate", "provenance", "stac", "complete", "record"} => artifact[scene]["flag"] = run
  /\ pc \in {"stac", "complete", "record"} => artifact[scene]["provenance"] = run
  /\ pc \in {"complete", "record"} => artifact[scene]["stac"] = run
  /\ pc = "record" => marker[scene] = run

\* What the run has visited shows in its table.
VisitInv ==
  run # NoRun => \A s \in outcome[run].asked \ todo :
    s = scene \/ s \in Staged \/ mem[s].status \in {"done", "exhausted", "failed"}

ArdInv ==
  TypeOK /\ TablesInv /\ WorkInv /\ SceneInv /\ WrittenInv /\ VisitInv /\ ZeroReturnHidesOnlyUnstaged

USE ArdAssumption

-----------------------------------------------------------------------------

\* The constants of the module, spelled out.
LEMMA Limits == Limit \in Nat /\ MaxAttempts \in Nat /\ MaxAttempts > 0
                /\ MaxAttempts <= Limit /\ Limit <= MaxAttempts + 1
  BY DEF Limit

\* Before anything runs the invariant holds.
LEMMA InitialArd == Init => ArdInv
<1> SUFFICES ASSUME Init PROVE ArdInv
  OBVIOUS
<1>1. TypeOK
  BY DEF Init, TypeOK, Row, Absent, Artifacts, Steps
<1>2. TablesInv
  BY Limits DEF Init, TablesInv, TableFits, RowFits, Absent
<1>3. WorkInv /\ SceneInv /\ WrittenInv /\ VisitInv
  BY DEF Init, WorkInv, SceneInv, WrittenInv, VisitInv, Attempt, Artifacts
<1>4. ZeroReturnHidesOnlyUnstaged
  BY DEF Init, ZeroReturnHidesOnlyUnstaged
<1> QED
  BY <1>1, <1>2, <1>3, <1>4 DEF ArdInv

-----------------------------------------------------------------------------
(* The verdicts                                                            *)

\* A scene is processed whose row may be replaced.
LEMMA Processed ==
  ASSUME ArdInv, NEW s \in Scenes, Verdict(s, {"new", "interrupted", "schema_changed", "retry"})
  PROVE  /\ s \in Mosaic => mem[s].status = "absent" \/ mem[s].contract = contract[run]
         /\ s \in Mosaic \ lost => mem[s].attempts < MaxAttempts
<1>1. /\ run \in Runs /\ mem[s] \in Row
      /\ RowFits(mem[s], s, artifact[s], marker[s], lost, contract)
  BY DEF ArdInv, TypeOK, TablesInv, TableFits, WorkInv, Verdict
<1>2. s \in Mosaic => mem[s].status = "absent" \/ mem[s].contract = contract[run]
  BY DEF Verdict, Drifted
<1>3. CASE mem[s].status = "absent"
  BY <1>1, <1>2, <1>3, Limits DEF RowFits
<1>4. CASE mem[s].status = "done"
  <2>1. s \in Mosaic => Reconcile(mem[s], s) = (IF FilesExist(s) THEN "skip" ELSE "interrupted")
    BY <1>2, <1>4 DEF Reconcile
  <2>2. s \notin lost => FilesExist(s)
    BY <1>1, <1>4 DEF RowFits, DescribesProduct, FilesExist
  <2> QED
    BY <1>2, <2>1, <2>2 DEF Verdict
<1>5. CASE mem[s].status \in {"failed", "exporting"}
  <2>1. Reconcile(mem[s], s) = (IF mem[s].attempts >= MaxAttempts THEN "exhaust" ELSE "retry")
    BY <1>5 DEF Reconcile
  <2>2. mem[s].attempts < MaxAttempts
    BY <1>1, <2>1, Limits DEF Verdict, Row
  <2> QED
    BY <1>2, <2>2
<1>6. CASE mem[s].status = "exhausted"
  <2>1. Reconcile(mem[s], s) = "skip"
    BY <1>6 DEF Reconcile
  <2> QED
    BY <2>1 DEF Verdict
<1> QED
  BY <1>1, <1>3, <1>4, <1>5, <1>6 DEF Row

\* One is passed over that is done or exhausted.
LEMMA PassedOver ==
  ASSUME ArdInv, NEW s \in Scenes, Verdict(s, {"skip"})
  PROVE  mem[s].status \in {"done", "exhausted"}
<1>1. mem[s] \in Row
  BY DEF ArdInv, TypeOK
<1>2. mem[s].status = "absent" => Reconcile(mem[s], s) = "new"
  BY DEF Reconcile
<1>3. mem[s].status \in {"failed", "exporting"} => Reconcile(mem[s], s) \in {"exhaust", "retry"}
  BY DEF Reconcile
<1> QED
  BY <1>1, <1>2, <1>3 DEF Verdict, Row

\* One is given up that has failed or was interrupted.
LEMMA GivenUp ==
  ASSUME ArdInv, NEW s \in Scenes, Verdict(s, {"exhaust"})
  PROVE  mem[s].status \in {"failed", "exporting"}
<1>1. mem[s] \in Row
  BY DEF ArdInv, TypeOK
<1>2. mem[s].status = "absent" => Reconcile(mem[s], s) = "new"
  BY DEF Reconcile
<1>3. mem[s].status = "done" => Reconcile(mem[s], s) \in {"skip", "interrupted", "schema_changed"}
  BY DEF Reconcile
<1>4. mem[s].status = "exhausted" => Reconcile(mem[s], s) = "skip"
  BY DEF Reconcile
<1> QED
  BY <1>1, <1>2, <1>3, <1>4 DEF Verdict, Row

-----------------------------------------------------------------------------
(* Ends, starts and table writes                                           *)

\* A run that ends with a ledger that fits, and returns 0 only if what it was
\* asked for is done, exhausted or could not be staged, keeps the invariant.
LEMMA EndKeeps ==
  ASSUME ArdInv, run # NoRun, NEW e \in {"zero", "one", "raised", "killed"}, Stop(e),
         ledger' \in [Scenes -> Row], TableFits(ledger', artifact, marker, lost, contract),
         e = "zero" => \A s \in outcome[run].asked :
                         s \in Staged \/ ledger'[s].status \in {"done", "exhausted"}
  PROVE  ArdInv'
<1>0. /\ run \in Runs /\ run' = NoRun /\ todo' = {} /\ scene' = NoScene /\ pc' = "none"
      /\ mem' = [s \in Scenes |-> Absent]
      /\ UNCHANGED <<artifact, marker, lost, contract>>
  BY DEF ArdInv, TypeOK, Stop, store
<1>1. outcome' = [outcome EXCEPT ![run] =
        [ended |-> e, asked |-> {},
         left |-> {s \in outcome[run].asked : ledger'[s].status \notin {"done", "exhausted"}}]]
  BY DEF Stop
<1>2. TypeOK'
  <2>1. outcome[run].asked \subseteq Scenes
    BY <1>0 DEF ArdInv, TypeOK
  <2>2. mem' \in [Scenes -> Row]
    BY <1>0 DEF Row, Absent
  <2>3. [ended |-> e, asked |-> {},
         left |-> {s \in outcome[run].asked : ledger'[s].status \notin {"done", "exhausted"}}]
        \in [ended : {"none", "zero", "one", "raised", "killed"},
             asked : SUBSET Scenes, left : SUBSET Scenes]
    BY <2>1
  <2> QED
    BY <1>0, <1>1, <2>2, <2>3 DEF ArdInv, TypeOK, Steps
<1>3. TablesInv'
  BY <1>0 DEF ArdInv, TablesInv
<1>4. WorkInv' /\ SceneInv' /\ WrittenInv' /\ VisitInv'
  BY <1>0 DEF WorkInv, SceneInv, WrittenInv, VisitInv, Attempt, Artifacts
<1>5. ZeroReturnHidesOnlyUnstaged'
  <2> SUFFICES ASSUME NEW r \in Runs, outcome'[r].ended = "zero"
               PROVE  outcome'[r].left \subseteq Staged
    BY DEF ZeroReturnHidesOnlyUnstaged
  <2>1. CASE r = run
    BY <1>0, <1>1, <2>1 DEF ArdInv, TypeOK
  <2>2. CASE r # run
    BY <1>1, <2>2 DEF ArdInv, TypeOK, ZeroReturnHidesOnlyUnstaged
  <2> QED
    BY <2>1, <2>2
<1> QED
  BY <1>2, <1>3, <1>4, <1>5 DEF ArdInv

\* A row that fits keeps the table fitting.
LEMMA RowWritten ==
  ASSUME NEW t \in [Scenes -> Row], NEW s \in Scenes, NEW row \in Row,
         TableFits(t, artifact, marker, lost, contract),
         RowFits(row, s, artifact[s], marker[s], lost, contract)
  PROVE  /\ [t EXCEPT ![s] = row] \in [Scenes -> Row]
         /\ TableFits([t EXCEPT ![s] = row], artifact, marker, lost, contract)
         /\ [t EXCEPT ![s] = row][s] = row
         /\ \A z \in Scenes \ {s} : [t EXCEPT ![s] = row][z] = t[z]
  BY DEF TableFits

\* A ledger write leaves the table, or what was there.
LEMMA Persisted ==
  ASSUME NEW t, NEW ok \in BOOLEAN, Persist(t, ok)
  PROVE  /\ ledger' \in {ledger, t}
         /\ ok => ledger' = t
         /\ ~ok => Limit = MaxAttempts + 1
  BY DEF Persist, Limit

\* A run starts.
LEMMA StartKeepsArd ==
  ASSUME ArdInv, NEW r \in Runs, NEW c \in Contracts, NEW selection \in SUBSET Scenes, Start(r, c, selection)
  PROVE  ArdInv'
<1>0. /\ run = NoRun /\ contract[r] = NoContract /\ run' = r /\ todo' = selection
      /\ mem' = ledger /\ pc' = "loop" /\ ledger' = ledger /\ scene' = scene
      /\ contract' = [contract EXCEPT ![r] = c]
      /\ UNCHANGED <<artifact, marker, lost>>
      /\ outcome' = [outcome EXCEPT ![r].asked = selection]
      /\ scene = NoScene
  BY DEF ArdInv, WorkInv, Start, store
<1>1. TypeOK'
  BY <1>0 DEF ArdInv, TypeOK, Steps
<1>2. \A s \in Scenes : RowFits(ledger[s], s, artifact[s], marker[s], lost, contract')
  <2> SUFFICES ASSUME NEW s \in Scenes
               PROVE  RowFits(ledger[s], s, artifact[s], marker[s], lost, contract')
    OBVIOUS
  <2>1. RowFits(ledger[s], s, artifact[s], marker[s], lost, contract)
    BY DEF ArdInv, TablesInv, TableFits
  <2>2. \A a \in Artifacts : artifact[s][a] # NoRun =>
          artifact[s][a] # r /\ contract'[artifact[s][a]] = contract[artifact[s][a]]
    BY <1>0 DEF ArdInv, TablesInv, TypeOK
  <2>3. ledger[s].status = "done" => contract'[ledger[s].run] = contract[ledger[s].run]
    BY <1>0, <2>1 DEF RowFits, DescribesProduct, ArdInv, TypeOK
  <2> QED
    BY <2>1, <2>2, <2>3 DEF RowFits, DescribesProduct
<1>3. TablesInv'
  <2>1. \A s \in Scenes, a \in Artifacts : artifact[s][a] # NoRun => contract'[artifact[s][a]] # NoContract
    BY <1>0 DEF ArdInv, TablesInv, TypeOK
  <2> QED
    BY <1>0, <1>2, <2>1 DEF TablesInv, TableFits
<1>4. WorkInv' /\ SceneInv' /\ WrittenInv' /\ VisitInv'
  BY <1>0 DEF ArdInv, TypeOK, WorkInv, SceneInv, WrittenInv, VisitInv, Attempt, Artifacts
<1>5. ZeroReturnHidesOnlyUnstaged'
  BY <1>0 DEF ArdInv, TypeOK, ZeroReturnHidesOnlyUnstaged
<1> QED
  BY <1>1, <1>3, <1>4, <1>5 DEF ArdInv

\* The verdicts that leave the tables alone: a scene is passed over, cannot be
\* staged, or becomes the run's work.
LEMMA TurnKeepsArd ==
  ASSUME ArdInv, NEW s \in Scenes, Skip(s) \/ StagingFails(s) \/ Process(s)
  PROVE  ArdInv'
<1>0. /\ pc = "loop" /\ scene = NoScene /\ run # NoRun /\ mem = ledger
      /\ todo' = todo \ {s}
      /\ UNCHANGED <<artifact, marker, lost, ledger, mem, contract, run, outcome>>
  BY DEF ArdInv, WorkInv, Skip, StagingFails, Process, Verdict, store
<1>1. \/ pc' = "loop" /\ scene' = NoScene
      \/ pc' = "begin" /\ scene' = s
  BY <1>0 DEF Skip, StagingFails, Process
<1>2. TypeOK' /\ TablesInv' /\ ZeroReturnHidesOnlyUnstaged'
  BY <1>0, <1>1 DEF ArdInv, TypeOK, Steps, TablesInv, ZeroReturnHidesOnlyUnstaged
<1>3. WorkInv' /\ WrittenInv'
  BY <1>0, <1>1 DEF ArdInv, WorkInv, WrittenInv, Attempt, Artifacts
<1>4. SceneInv'
  <2>1. CASE Process(s)
    <3>1. Verdict(s, {"new", "interrupted", "schema_changed", "retry"})
      BY <2>1 DEF Process
    <3>2. pc' = "begin" /\ scene' = s
      BY <2>1 DEF Process
    <3> QED
      BY <1>0, <3>1, <3>2, Processed DEF SceneInv, Attempt, Artifacts
  <2>2. CASE pc' = "loop"
    BY <1>0, <1>1, <2>2 DEF SceneInv, Attempt, Artifacts
  <2> QED
    BY <1>0, <2>1, <2>2 DEF Skip, StagingFails
<1>5. VisitInv'
  <2>1. Skip(s) => mem[s].status \in {"done", "exhausted"}
    BY PassedOver DEF Skip
  <2>2. s = scene' \/ s \in Staged \/ mem[s].status \in {"done", "exhausted", "failed"}
    BY <2>1 DEF StagingFails, Process
  <2> QED
    BY <1>0, <2>2 DEF ArdInv, VisitInv, TypeOK
<1> QED
  BY <1>2, <1>3, <1>4, <1>5 DEF ArdInv

\* A scene is given up.
LEMMA GiveUpKeepsArd ==
  ASSUME ArdInv, NEW s \in Scenes, MarkExhausted(s)
  PROVE  ArdInv'
<1> DEFINE row == [mem[s] EXCEPT !.status = "exhausted"]
           table == [mem EXCEPT ![s] = row]
<1>0. /\ pc = "loop" /\ scene = NoScene /\ run # NoRun /\ run \in Runs /\ mem = ledger
      /\ mem \in [Scenes -> Row] /\ mem[s] \in Row
      /\ TableFits(mem, artifact, marker, lost, contract)
      /\ mem[s].status \in {"failed", "exporting"}
  BY GivenUp DEF ArdInv, WorkInv, MarkExhausted, Verdict, TypeOK, TablesInv
<1>1. row \in Row /\ RowFits(row, s, artifact[s], marker[s], lost, contract)
  BY <1>0 DEF TableFits, RowFits, Row
<1>2. table = [mem EXCEPT ![s].status = "exhausted"]
  BY <1>0
<1> HIDE DEF row
<1>3. /\ table \in [Scenes -> Row] /\ TableFits(table, artifact, marker, lost, contract)
      /\ table[s] = row /\ \A z \in Scenes \ {s} : table[z] = mem[z]
  <2>1. mem \in [Scenes -> Row] /\ TableFits(mem, artifact, marker, lost, contract)
    BY <1>0
  <2> QED
    BY <1>1, <2>1, RowWritten
<1>4. \/ Persist(table, TRUE) /\ mem' = table /\ todo' = todo \ {s}
         /\ UNCHANGED <<store, contract, run, scene, pc, outcome>>
      \/ Persist(table, FALSE) /\ Stop("raised")
  BY <1>2 DEF MarkExhausted
<1> HIDE DEF table
<1>5. CASE Persist(table, FALSE) /\ Stop("raised")
  BY <1>0, <1>3, <1>5, Persisted, EndKeeps
<1>6. CASE /\ Persist(table, TRUE) /\ mem' = table /\ todo' = todo \ {s}
           /\ UNCHANGED <<store, contract, run, scene, pc, outcome>>
  <2>1. ledger' = table
    BY <1>6, Persisted
  <2>2. TypeOK' /\ ZeroReturnHidesOnlyUnstaged'
    BY <1>3, <1>6, <2>1 DEF ArdInv, TypeOK, store, ZeroReturnHidesOnlyUnstaged
  <2>3. TablesInv'
    BY <1>3, <1>6, <2>1 DEF ArdInv, TablesInv, store
  <2>4. WorkInv' /\ SceneInv' /\ WrittenInv'
    BY <1>0, <1>6, <2>1 DEF ArdInv, WorkInv, SceneInv, WrittenInv, Attempt, Artifacts, store
  <2>5. VisitInv'
    <3>1. mem'[s].status = "exhausted"
      BY <1>0, <1>3, <1>6 DEF Row, row
    <3> QED
      BY <1>0, <1>3, <1>6, <3>1 DEF ArdInv, VisitInv, TypeOK
  <2> QED
    BY <2>2, <2>3, <2>4, <2>5 DEF ArdInv
<1> QED
  BY <1>4, <1>5, <1>6

-----------------------------------------------------------------------------
(* One attempt at one scene                                                *)

\* Whoever works on a scene works as a run on a scene of the plan.
LEMMA AtWork ==
  ASSUME ArdInv, pc \notin {"none", "loop"}
  PROVE  /\ scene \in Scenes /\ run \in Runs /\ run # NoRun /\ contract[run] \in Contracts
         /\ mem \in [Scenes -> Row] /\ mem[scene] \in Row /\ mem[scene].attempts \in Nat
         /\ TableFits(mem, artifact, marker, lost, contract)
         /\ RowFits(mem[scene], scene, artifact[scene], marker[scene], lost, contract)
  BY DEF ArdInv, TypeOK, WorkInv, TablesInv, TableFits, Row

\* A row of an attempt fits a scene whose row may be replaced.
LEMMA AttemptRowFits ==
  ASSUME ArdInv, pc \notin {"none", "loop"}, NEW status \in {"exporting", "failed"},
         NEW n \in Nat, scene \in Mosaic \ lost => n <= Limit
  PROVE  /\ AttemptRow(status, n) \in Row
         /\ RowFits(AttemptRow(status, n), scene, artifact[scene], marker[scene], lost, contract)
         /\ AttemptRow(status, n).status = status
         /\ AttemptRow(status, n).attempts = n
         /\ scene \in Mosaic => AttemptRow(status, n).contract = contract[run]
<1>1. /\ AttemptRow(status, n) \in Row
      /\ AttemptRow(status, n).status = status
      /\ AttemptRow(status, n).attempts = n
      /\ scene \in Mosaic => AttemptRow(status, n).contract = contract[run]
  BY AtWork DEF AttemptRow, Row
<1>2. scene \in Mosaic => \A a \in Artifacts :
        artifact[scene][a] # NoRun => contract[run] = contract[artifact[scene][a]]
  BY AtWork DEF RowFits, ArdInv, SceneInv
<1> QED
  BY <1>1, <1>2 DEF RowFits

\* Writing such a row keeps both tables fitting.
LEMMA WorkRow ==
  ASSUME ArdInv, pc \notin {"none", "loop"}, NEW row \in Row, NEW ok \in BOOLEAN,
         RowFits(row, scene, artifact[scene], marker[scene], lost, contract),
         Persist([mem EXCEPT ![scene] = row], ok)
  PROVE  /\ [mem EXCEPT ![scene] = row] \in [Scenes -> Row] /\ ledger' \in [Scenes -> Row]
         /\ TableFits([mem EXCEPT ![scene] = row], artifact, marker, lost, contract)
         /\ TableFits(ledger', artifact, marker, lost, contract)
         /\ [mem EXCEPT ![scene] = row][scene] = row
         /\ \A z \in Scenes \ {scene} : [mem EXCEPT ![scene] = row][z] = mem[z]
         /\ ok => ledger' = [mem EXCEPT ![scene] = row]
         /\ ~ok => Limit = MaxAttempts + 1
<1> DEFINE table == [mem EXCEPT ![scene] = row]
<1>1. /\ table \in [Scenes -> Row] /\ TableFits(table, artifact, marker, lost, contract)
      /\ table[scene] = row /\ \A z \in Scenes \ {scene} : table[z] = mem[z]
  BY AtWork, RowWritten
<1> HIDE DEF table
<1>2. Persist(table, ok)
  BY DEF table
<1>3. /\ ledger' \in {ledger, table} /\ (ok => ledger' = table) /\ (~ok => Limit = MaxAttempts + 1)
  BY <1>2, Persisted
<1>4. ledger \in [Scenes -> Row] /\ TableFits(ledger, artifact, marker, lost, contract)
  BY DEF ArdInv, TypeOK, TablesInv
<1> QED
  BY <1>1, <1>3, <1>4 DEF table

\* What is left to show of a step that writes the scene's row and stays in the
\* run.
LEMMA TablesKept ==
  ASSUME ArdInv, pc \notin {"none", "loop"}, NEW table \in [Scenes -> Row],
         mem' = table, ledger' \in [Scenes -> Row],
         TableFits(table, artifact, marker, lost, contract),
         TableFits(ledger', artifact, marker, lost, contract),
         pc' \in Steps, scene' \in Scenes \cup {NoScene}, UNCHANGED <<store, progress, outcome>>
  PROVE  TypeOK' /\ TablesInv' /\ ZeroReturnHidesOnlyUnstaged'
<1>1. TypeOK'
  BY DEF ArdInv, TypeOK, store, progress
<1>2. TablesInv'
  BY DEF ArdInv, TablesInv, store, progress
<1>3. ZeroReturnHidesOnlyUnstaged'
  BY DEF ArdInv, ZeroReturnHidesOnlyUnstaged
<1> QED
  BY <1>1, <1>2, <1>3

\* An attempt begins, or its begin cannot be recorded.
LEMMA BeginKeepsArd ==
  ASSUME ArdInv, BeginAttempt
  PROVE  ArdInv'
<1> DEFINE row == AttemptRow("exporting", mem[scene].attempts + 1)
           table == [mem EXCEPT ![scene] = row]
<1>0. /\ pc = "begin" /\ mem' = table
      /\ UNCHANGED <<store, progress, scene, outcome>>
      /\ UNCHANGED <<artifact, marker, lost, contract, run, todo>>
  BY DEF BeginAttempt, WriteRow, store, progress
<1>1. PICK ok \in BOOLEAN : Persist(table, ok) /\ pc' = (IF ok THEN "load" ELSE "failing_unstarted")
  BY DEF BeginAttempt, WriteRow
<1>2. mem[scene].attempts + 1 \in Nat /\ (scene \in Mosaic \ lost => mem[scene].attempts + 1 <= MaxAttempts)
  BY <1>0, AtWork, Limits DEF ArdInv, SceneInv
<1>3. /\ row \in Row /\ RowFits(row, scene, artifact[scene], marker[scene], lost, contract)
      /\ row.status = "exporting" /\ row.attempts = mem[scene].attempts + 1
      /\ scene \in Mosaic => row.contract = contract[run]
  BY <1>0, <1>2, Limits, AttemptRowFits
<1> HIDE DEF row
<1>4. /\ table \in [Scenes -> Row] /\ ledger' \in [Scenes -> Row]
      /\ TableFits(table, artifact, marker, lost, contract)
      /\ TableFits(ledger', artifact, marker, lost, contract)
      /\ table[scene] = row /\ \A z \in Scenes \ {scene} : table[z] = mem[z]
      /\ ok => ledger' = table
      /\ ~ok => Limit = MaxAttempts + 1
  <2>1. pc \notin {"none", "loop"} /\ Persist(table, ok)
    BY <1>0, <1>1
  <2> QED
    BY <1>3, <2>1, WorkRow
<1> HIDE DEF table
<1>5. pc' \in {"load", "failing_unstarted"} /\ scene' = scene /\ scene \in Scenes
  BY <1>0, <1>1, AtWork
<1>6. TypeOK' /\ TablesInv' /\ ZeroReturnHidesOnlyUnstaged'
  BY <1>0, <1>4, <1>5, TablesKept DEF Steps, Attempt
<1>7. WorkInv' /\ WrittenInv'
  BY <1>0, <1>1, <1>4, <1>5, AtWork DEF ArdInv, WorkInv, WrittenInv, Attempt, Artifacts
<1>8. SceneInv'
  BY <1>0, <1>1, <1>2, <1>3, <1>4, <1>5 DEF SceneInv, Attempt, Artifacts
<1>9. VisitInv'
  BY <1>0, <1>4 DEF ArdInv, VisitInv, TypeOK
<1> QED
  BY <1>6, <1>7, <1>8, <1>9 DEF ArdInv

\* The handler counts an attempt that could not be begun.
LEMMA BeginLateKeepsArd ==
  ASSUME ArdInv, BeginLate
  PROVE  ArdInv'
<1> DEFINE row == AttemptRow("exporting", mem[scene].attempts + 1)
           table == [mem EXCEPT ![scene] = row]
<1>0. pc = "failing_unstarted"
  BY DEF BeginLate
<1>1. PICK ok \in BOOLEAN :
        /\ Persist(table, ok)
        /\ ok => mem' = table /\ pc' = "failing" /\ UNCHANGED <<store, progress, scene, outcome>>
        /\ ~ok => Stop("raised")
  BY DEF BeginLate
<1>2. mem[scene].attempts + 1 \in Nat /\ (scene \in Mosaic \ lost => mem[scene].attempts + 1 <= Limit)
  BY <1>0, AtWork, Limits DEF ArdInv, SceneInv
<1>3. /\ row \in Row /\ RowFits(row, scene, artifact[scene], marker[scene], lost, contract)
      /\ scene \in Mosaic => row.contract = contract[run]
  BY <1>0, <1>2, AttemptRowFits
<1> HIDE DEF row
<1>4. /\ table \in [Scenes -> Row] /\ ledger' \in [Scenes -> Row]
      /\ TableFits(table, artifact, marker, lost, contract)
      /\ TableFits(ledger', artifact, marker, lost, contract)
      /\ table[scene] = row /\ \A z \in Scenes \ {scene} : table[z] = mem[z]
  BY <1>0, <1>1, <1>3, WorkRow
<1> HIDE DEF table
<1>5. CASE ~ok
  BY <1>0, <1>1, <1>4, <1>5, AtWork, EndKeeps
<1>6. CASE ok
  <2>0. /\ mem' = table /\ pc' = "failing" /\ scene' = scene /\ scene \in Scenes
        /\ UNCHANGED <<store, progress, scene, outcome>>
        /\ UNCHANGED <<artifact, marker, lost, contract, run, todo>>
    BY <1>0, <1>1, <1>6, AtWork DEF store, progress
  <2>1. TypeOK' /\ TablesInv' /\ ZeroReturnHidesOnlyUnstaged'
    BY <1>0, <1>4, <2>0, TablesKept DEF Steps
  <2>2. WorkInv' /\ WrittenInv'
    BY <1>0, <1>4, <2>0, AtWork DEF ArdInv, WorkInv, WrittenInv, Attempt, Artifacts
  <2>3. SceneInv'
    BY <1>3, <1>4, <2>0 DEF SceneInv, Attempt, Artifacts
  <2>4. VisitInv'
    BY <1>4, <2>0 DEF ArdInv, VisitInv, TypeOK
  <2> QED
    BY <2>1, <2>2, <2>3, <2>4 DEF ArdInv
<1> QED
  BY <1>5, <1>6

\* The failure of an attempt is recorded, or ends the run.
LEMMA RecordFailedKeepsArd ==
  ASSUME ArdInv, RecordFailed
  PROVE  ArdInv'
<1> DEFINE row == AttemptRow("failed", mem[scene].attempts)
           table == [mem EXCEPT ![scene] = row]
<1>0. pc = "failing"
  BY DEF RecordFailed
<1>1. PICK ok \in BOOLEAN :
        /\ Persist(table, ok)
        /\ ok => /\ mem' = table /\ pc' = "loop" /\ scene' = NoScene
                 /\ UNCHANGED <<store, progress, outcome>>
        /\ ~ok => Stop("raised")
  BY DEF RecordFailed
<1>2. mem[scene].attempts \in Nat /\ (scene \in Mosaic \ lost => mem[scene].attempts <= Limit)
  BY <1>0, AtWork DEF RowFits
<1>3. /\ row \in Row /\ RowFits(row, scene, artifact[scene], marker[scene], lost, contract)
      /\ row.status = "failed"
  BY <1>0, <1>2, AttemptRowFits
<1> HIDE DEF row
<1>4. /\ table \in [Scenes -> Row] /\ ledger' \in [Scenes -> Row]
      /\ TableFits(table, artifact, marker, lost, contract)
      /\ TableFits(ledger', artifact, marker, lost, contract)
      /\ table[scene] = row /\ \A z \in Scenes \ {scene} : table[z] = mem[z]
      /\ ok => ledger' = table
  BY <1>0, <1>1, <1>3, WorkRow
<1> HIDE DEF table
<1>5. CASE ~ok
  BY <1>0, <1>1, <1>4, <1>5, AtWork, EndKeeps
<1>6. CASE ok
  <2>0. /\ mem' = table /\ ledger' = table /\ pc' = "loop" /\ scene' = NoScene
        /\ UNCHANGED <<store, progress, outcome>>
        /\ UNCHANGED <<artifact, marker, lost, contract, run, todo>>
    BY <1>1, <1>4, <1>6 DEF store, progress
  <2>1. TypeOK' /\ TablesInv' /\ ZeroReturnHidesOnlyUnstaged'
    BY <1>0, <1>4, <2>0, TablesKept DEF Steps
  <2>2. WorkInv' /\ WrittenInv' /\ SceneInv'
    BY <1>0, <2>0, AtWork DEF ArdInv, WorkInv, WrittenInv, SceneInv, Attempt, Artifacts
  <2>3. VisitInv'
    BY <1>3, <1>4, <2>0 DEF ArdInv, VisitInv, TypeOK
  <2> QED
    BY <2>1, <2>2, <2>3 DEF ArdInv
<1> QED
  BY <1>5, <1>6

\* The product of the attempt is recorded as done.
LEMMA RecordDoneKeepsArd ==
  ASSUME ArdInv, RecordDone
  PROVE  ArdInv'
<1> DEFINE row == [status |-> "done", contract |-> contract[run],
                   attempts |-> mem[scene].attempts, run |-> run]
           table == [mem EXCEPT ![scene] = row]
<1>0. /\ pc = "record" /\ mem' = table
      /\ UNCHANGED <<store, progress, outcome>>
      /\ UNCHANGED <<artifact, marker, lost, contract, run, todo>>
  BY DEF RecordDone, store, progress
<1>1. PICK ok \in BOOLEAN :
        /\ Persist(table, ok)
        /\ ok => pc' = "loop" /\ scene' = NoScene
        /\ ~ok => pc' = "failing" /\ scene' = scene
  BY DEF RecordDone
<1>2. /\ artifact[scene]["cog"] = run /\ artifact[scene]["flag"] = run
      /\ artifact[scene]["provenance"] = run /\ artifact[scene]["stac"] = run
      /\ marker[scene] = run
  BY <1>0 DEF ArdInv, WrittenInv
<1>3. /\ row \in Row /\ row.status = "done" /\ row.contract = contract[run]
      /\ RowFits(row, scene, artifact[scene], marker[scene], lost, contract)
  <2>1. row \in Row
    BY <1>0, AtWork DEF Row
  <2>2. \A a \in Artifacts : artifact[scene][a] = run
    BY <1>2 DEF Artifacts
  <2> QED
    BY <1>0, <1>2, <2>1, <2>2, AtWork DEF RowFits, DescribesProduct
<1> HIDE DEF row
<1>4. /\ table \in [Scenes -> Row] /\ ledger' \in [Scenes -> Row]
      /\ TableFits(table, artifact, marker, lost, contract)
      /\ TableFits(ledger', artifact, marker, lost, contract)
      /\ table[scene] = row /\ \A z \in Scenes \ {scene} : table[z] = mem[z]
      /\ ok => ledger' = table
  <2>1. pc \notin {"none", "loop"} /\ Persist(table, ok)
    BY <1>0, <1>1
  <2> QED
    BY <1>3, <2>1, WorkRow
<1> HIDE DEF table
<1>5. pc' \in {"loop", "failing"} /\ scene' \in {NoScene, scene} /\ scene \in Scenes
  BY <1>0, <1>1, AtWork
<1>6. TypeOK' /\ TablesInv' /\ ZeroReturnHidesOnlyUnstaged'
  BY <1>0, <1>4, <1>5, TablesKept DEF Steps
<1>7. WorkInv' /\ WrittenInv'
  BY <1>0, <1>1, <1>4, <1>5, AtWork DEF ArdInv, WorkInv, WrittenInv, Attempt, Artifacts
<1>8. SceneInv'
  BY <1>0, <1>1, <1>3, <1>4, <1>5 DEF SceneInv, Attempt, Artifacts
<1>9. VisitInv'
  BY <1>0, <1>1, <1>3, <1>4 DEF ArdInv, VisitInv, TypeOK
<1> QED
  BY <1>6, <1>7, <1>8, <1>9 DEF ArdInv

\* A step that writes nothing, or raises without effect.
LEMMA MoveKeepsArd ==
  ASSUME ArdInv, Load \/ Validate \/ StepRaises
  PROVE  ArdInv'
<1>0. /\ pc \in Attempt /\ pc' \in {"cog", "provenance", "failing"}
      /\ pc' = "cog" => pc = "load"
      /\ pc' = "provenance" => pc = "validate"
      /\ UNCHANGED <<artifact, marker, lost, ledger, mem, contract, run, todo, scene, outcome>>
  BY DEF Load, Validate, StepRaises, Moves, store, progress, Attempt
<1>1. TypeOK' /\ TablesInv' /\ ZeroReturnHidesOnlyUnstaged' /\ VisitInv'
  BY <1>0 DEF ArdInv, TypeOK, TablesInv, ZeroReturnHidesOnlyUnstaged, VisitInv, Steps, Attempt, Artifacts
<1>2. WorkInv' /\ SceneInv' /\ WrittenInv'
  BY <1>0 DEF ArdInv, WorkInv, SceneInv, WrittenInv, Attempt, Artifacts
<1> QED
  BY <1>1, <1>2 DEF ArdInv

\* What a step that writes an object of the product may do: the object is the
\* run's, and if the step does not raise, the run goes on in the order of the
\* code.
LEMMA ObjectWritten ==
  ASSUME ArdInv, WriteCog \/ WriteFlag \/ WriteProvenance \/ WriteStac \/ WriteComplete \/ WriteLate
  PROVE  /\ pc \in Attempt
         /\ \/ /\ \E a \in Artifacts : pc = a /\ artifact' = [artifact EXCEPT ![scene][a] = run]
               /\ UNCHANGED marker
            \/ pc = "complete" /\ marker' = [marker EXCEPT ![scene] = run] /\ UNCHANGED artifact
         /\ \/ pc' = "failing"
            \/ pc = "cog" /\ pc' = "flag"
            \/ pc = "flag" /\ pc' = "validate"
            \/ pc = "provenance" /\ pc' = "stac"
            \/ pc = "stac" /\ pc' = "complete"
            \/ pc = "complete" /\ pc' = "record"
         /\ UNCHANGED <<lost, ledger, mem, contract, run, todo, scene, outcome>>
  BY DEF WriteCog, WriteFlag, WriteProvenance, WriteStac, WriteComplete, WriteLate, Write, progress,
     Attempt, Artifacts

\* Such a step keeps the invariant: the row says exporting and carries, for a
\* mosaic scene, the contract of the run.
LEMMA ObjectKeepsArd ==
  ASSUME ArdInv, WriteCog \/ WriteFlag \/ WriteProvenance \/ WriteStac \/ WriteComplete \/ WriteLate
  PROVE  ArdInv'
<1>0. /\ pc \in Attempt /\ pc \notin {"none", "loop"}
      /\ UNCHANGED <<lost, ledger, mem, contract, run, todo, scene, outcome>>
      /\ pc' \in Steps
  BY ObjectWritten DEF Attempt, Steps, Artifacts
<1>1. /\ scene \in Scenes /\ run \in Runs /\ run # NoRun /\ contract[run] \in Contracts
      /\ mem = ledger /\ mem[scene].status = "exporting"
      /\ scene \in Mosaic => mem[scene].contract = contract[run]
      /\ TableFits(mem, artifact, marker, lost, contract)
  BY <1>0, AtWork DEF ArdInv, WorkInv, SceneInv
<1>2. /\ artifact' \in [Scenes -> [Artifacts -> Runs \cup {NoRun}]]
      /\ marker' \in [Scenes -> Runs \cup {NoRun}]
      /\ \A s \in Scenes \ {scene} : artifact'[s] = artifact[s] /\ marker'[s] = marker[s]
      /\ \A a \in Artifacts : artifact'[scene][a] \in {artifact[scene][a], run}
  <2>1. /\ artifact \in [Scenes -> [Artifacts -> Runs \cup {NoRun}]]
        /\ marker \in [Scenes -> Runs \cup {NoRun}]
    BY DEF ArdInv, TypeOK
  <2>2. CASE \E a \in Artifacts : artifact' = [artifact EXCEPT ![scene][a] = run] /\ marker' = marker
    BY <1>1, <2>1, <2>2
  <2>3. CASE marker' = [marker EXCEPT ![scene] = run] /\ artifact' = artifact
    BY <1>1, <2>1, <2>3
  <2> QED
    BY <2>2, <2>3, ObjectWritten
<1>3. TypeOK'
  BY <1>0, <1>2 DEF ArdInv, TypeOK
<1>4. TableFits(mem, artifact', marker', lost, contract)
  <2> SUFFICES ASSUME NEW s \in Scenes
               PROVE  RowFits(mem[s], s, artifact'[s], marker'[s], lost, contract)
    BY DEF TableFits
  <2>1. RowFits(mem[s], s, artifact[s], marker[s], lost, contract)
    BY <1>1 DEF TableFits
  <2>2. CASE s # scene
    BY <1>2, <2>1, <2>2
  <2>3. CASE s = scene
    BY <1>1, <1>2, <2>1, <2>3 DEF RowFits
  <2> QED
    BY <2>2, <2>3
<1>5. TablesInv'
  <2>1. \A s \in Scenes, a \in Artifacts : artifact'[s][a] # NoRun => contract[artifact'[s][a]] # NoContract
    BY <1>1, <1>2 DEF ArdInv, TablesInv
  <2> QED
    BY <1>0, <1>1, <1>4, <2>1 DEF TablesInv
<1>6. WorkInv' /\ SceneInv'
  BY <1>0, ObjectWritten DEF ArdInv, WorkInv, SceneInv, Attempt, Artifacts
<1>7. WrittenInv'
  <2>1. CASE pc' = "failing"
    BY <2>1 DEF WrittenInv
  <2>2. CASE pc \in Artifacts /\ pc' # "failing"
    <3>1. artifact' = [artifact EXCEPT ![scene][pc] = run] /\ UNCHANGED <<marker, scene, run>>
      BY <2>2, ObjectWritten DEF Artifacts
    <3>2. artifact'[scene][pc] = run /\ \A a \in Artifacts \ {pc} : artifact'[scene][a] = artifact[scene][a]
      BY <1>1, <2>2, <3>1 DEF ArdInv, TypeOK
    <3> QED
      BY <2>2, <3>1, <3>2, ObjectWritten DEF ArdInv, WrittenInv, Artifacts
  <2>3. CASE pc = "complete"
    <3>1. marker' = [marker EXCEPT ![scene] = run] /\ UNCHANGED <<artifact, scene, run>>
      BY <2>3, ObjectWritten DEF Artifacts
    <3>2. marker'[scene] = run
      BY <1>1, <3>1 DEF ArdInv, TypeOK
    <3> QED
      BY <2>3, <3>1, <3>2, ObjectWritten DEF ArdInv, WrittenInv
  <2> QED
    BY <2>1, <2>2, <2>3, ObjectWritten
<1>8. VisitInv' /\ ZeroReturnHidesOnlyUnstaged'
  BY <1>0 DEF ArdInv, VisitInv, ZeroReturnHidesOnlyUnstaged
<1> QED
  BY <1>3, <1>5, <1>6, <1>7, <1>8 DEF ArdInv

-----------------------------------------------------------------------------

\* A run that ends of itself, is refused or is killed.
LEMMA StopKeepsArd ==
  ASSUME ArdInv, Finish \/ RefuseDrift \/ Kill
  PROVE  ArdInv'
<1>1. /\ run # NoRun /\ ledger' = ledger /\ ledger \in [Scenes -> Row]
      /\ TableFits(ledger, artifact, marker, lost, contract)
  BY DEF ArdInv, TypeOK, TablesInv, WorkInv, Finish, RefuseDrift, Kill
<1>2. CASE RefuseDrift \/ Kill
  BY <1>1, <1>2, EndKeeps DEF RefuseDrift, Kill
<1>3. CASE Finish
  <2> DEFINE e == IF \E s \in outcome[run].asked : mem[s].status = "failed" THEN "one" ELSE "zero"
  <2>1. Stop(e) /\ pc = "loop" /\ todo = {} /\ mem = ledger /\ scene = NoScene
    BY <1>3 DEF Finish, ArdInv, WorkInv
  <2>2. outcome[run].asked \subseteq Scenes
    BY <1>1 DEF ArdInv, TypeOK
  <2>3. e = "zero" => \A s \in outcome[run].asked :
                        s \in Staged \/ ledger[s].status \in {"done", "exhausted"}
    BY <1>1, <2>1, <2>2 DEF ArdInv, VisitInv
  <2>4. e \in {"zero", "one", "raised", "killed"}
    OBVIOUS
  <2> HIDE DEF e
  <2> QED
    BY <1>1, <2>1, <2>3, <2>4, EndKeeps
<1> QED
  BY <1>2, <1>3

\* An object is lost between two runs.
LEMMA LossKeepsArd ==
  ASSUME ArdInv, NEW s \in Scenes, Lose(s)
  PROVE  ArdInv'
<1>0. /\ run = NoRun /\ pc = "none" /\ scene = NoScene /\ lost' = lost \cup {s}
      /\ UNCHANGED <<ledger, mem, contract, run, todo, scene, pc, outcome>>
  BY DEF ArdInv, WorkInv, Lose, progress
<1>1. /\ artifact' \in [Scenes -> [Artifacts -> Runs \cup {NoRun}]]
      /\ marker' \in [Scenes -> Runs \cup {NoRun}]
      /\ \A z \in Scenes \ {s} : artifact'[z] = artifact[z] /\ marker'[z] = marker[z]
      /\ \A a \in Artifacts : artifact'[s][a] \in {artifact[s][a], NoRun}
      /\ marker'[s] \in {marker[s], NoRun}
  <2>1. /\ artifact \in [Scenes -> [Artifacts -> Runs \cup {NoRun}]]
        /\ marker \in [Scenes -> Runs \cup {NoRun}]
    BY DEF ArdInv, TypeOK
  <2>2. CASE \E a \in Artifacts : artifact' = [artifact EXCEPT ![s][a] = NoRun] /\ marker' = marker
    BY <2>1, <2>2
  <2>3. CASE marker' = [marker EXCEPT ![s] = NoRun] /\ artifact' = artifact
    BY <2>1, <2>3
  <2> QED
    BY <2>2, <2>3 DEF Lose
<1>2. TableFits(ledger, artifact', marker', lost', contract)
  <2> SUFFICES ASSUME NEW z \in Scenes
               PROVE  RowFits(ledger[z], z, artifact'[z], marker'[z], lost', contract)
    BY DEF TableFits
  <2>1. RowFits(ledger[z], z, artifact[z], marker[z], lost, contract)
    BY DEF ArdInv, TablesInv, TableFits
  <2>2. CASE z # s
    BY <1>0, <1>1, <2>1, <2>2 DEF RowFits, DescribesProduct
  <2>3. CASE z = s
    BY <1>0, <1>1, <2>1, <2>3 DEF RowFits, DescribesProduct
  <2> QED
    BY <2>2, <2>3
<1>3. TablesInv'
  <2>1. \A z \in Scenes, a \in Artifacts : artifact'[z][a] # NoRun => contract[artifact'[z][a]] # NoContract
    BY <1>1 DEF ArdInv, TablesInv
  <2> QED
    BY <1>0, <1>2, <2>1 DEF TablesInv
<1>4. TypeOK'
  BY <1>0, <1>1 DEF ArdInv, TypeOK
<1>5. WorkInv' /\ SceneInv' /\ WrittenInv' /\ VisitInv' /\ ZeroReturnHidesOnlyUnstaged'
  BY <1>0 DEF ArdInv, WorkInv, SceneInv, WrittenInv, VisitInv, ZeroReturnHidesOnlyUnstaged, Attempt, Artifacts
<1> QED
  BY <1>3, <1>4, <1>5 DEF ArdInv

\* Every step keeps the invariant.
LEMMA StepKeepsArd == ArdInv /\ [Next]_vars => ArdInv'
<1> SUFFICES ASSUME ArdInv, [Next]_vars PROVE ArdInv'
  OBVIOUS
<1>1. CASE UNCHANGED vars
  BY <1>1 DEF ArdInv, TypeOK, TablesInv, WorkInv, SceneInv, WrittenInv, VisitInv,
     ZeroReturnHidesOnlyUnstaged, vars, store, progress
<1>2. CASE \E r \in Runs, c \in Contracts, selection \in (SUBSET Scenes) \ {{}} : Start(r, c, selection)
  BY <1>2, StartKeepsArd
<1>3. CASE \E s \in Scenes : Skip(s) \/ MarkExhausted(s) \/ StagingFails(s) \/ Process(s)
  BY <1>3, TurnKeepsArd, GiveUpKeepsArd
<1>4. CASE ScenePasses
  BY <1>4, BeginKeepsArd, MoveKeepsArd, ObjectKeepsArd, RecordDoneKeepsArd DEF ScenePasses
<1>5. CASE SceneFails
  BY <1>5, MoveKeepsArd, ObjectKeepsArd, BeginLateKeepsArd, RecordFailedKeepsArd DEF SceneFails
<1>6. CASE RefuseDrift \/ Finish \/ Kill
  BY <1>6, StopKeepsArd
<1>7. CASE \E s \in Scenes : Lose(s)
  BY <1>7, LossKeepsArd
<1> QED
  BY <1>1, <1>2, <1>3, <1>4, <1>5, <1>6, <1>7 DEF Next

-----------------------------------------------------------------------------
(* The theorems                                                            *)

\* The invariant holds in every behaviour of the ARD pipeline.
THEOREM ArdInvariant == Spec => []ArdInv
  BY InitialArd, StepKeepsArd, PTL DEF Spec

\* A done row names the run whose bytes are stored, however reprocessing of
\* published scenes is interrupted (ard/pipeline.py, _run_scene).
THEOREM DoneRowsAreTrue == Spec => []DoneRowsNameTheirProduct
<1>1. ArdInv => DoneRowsNameTheirProduct
  BY DEF ArdInv, TablesInv, TableFits, RowFits, DescribesProduct, DoneRowsNameTheirProduct
<1> QED
  BY <1>1, ArdInvariant, PTL

\* A run that returns 0 leaves every scene of its sources done or exhausted, but
\* for granules it could not stage (ard/pipeline.py, run).
THEOREM ZeroIsHonest == Spec => []ZeroReturnHidesOnlyUnstaged
<1>1. ArdInv => ZeroReturnHidesOnlyUnstaged
  BY DEF ArdInv
<1> QED
  BY <1>1, ArdInvariant, PTL

\* Attempts at a mosaic scene stay within max_scene_attempts (ard/idempotency.py,
\* reconcile), by one more where a begin can fail to be recorded.
THEOREM AttemptsStayBounded == Spec => []AttemptsAreBounded
<1>1. ArdInv => AttemptsAreBounded
  BY DEF ArdInv, TablesInv, TableFits, RowFits, AttemptsAreBounded, Limit
<1> QED
  BY <1>1, ArdInvariant, PTL

\* No run overwrites what is stored of a mosaic scene for another input contract
\* (ard/pipeline.py, _assert_s2_resume_contract).
THEOREM MosaicsAreFrozen == Spec => MosaicIsFrozen
<1> DEFINE Frozen ==
      \A s \in Mosaic, a \in Artifacts :
        artifact'[s][a] \notin {artifact[s][a], NoRun} =>
          \A b \in Artifacts : artifact[s][b] # NoRun =>
            contract[artifact[s][b]] = contract[artifact'[s][a]]
<1>1. ArdInv /\ [Next]_vars => [Frozen]_store
  <2> SUFFICES ASSUME ArdInv, [Next]_vars, NEW s \in Mosaic, NEW a \in Artifacts,
                      artifact'[s][a] \notin {artifact[s][a], NoRun},
                      NEW b \in Artifacts, artifact[s][b] # NoRun
               PROVE  contract[artifact[s][b]] = contract[artifact'[s][a]]
    OBVIOUS
  <2>1. artifact' # artifact
    OBVIOUS
  <2>2. CASE WriteCog \/ WriteFlag \/ WriteProvenance \/ WriteStac \/ WriteComplete \/ WriteLate
    <3>1. /\ pc \in Attempt /\ pc \notin {"none", "loop"}
          /\ \E z \in Artifacts : artifact' = [artifact EXCEPT ![scene][z] = run]
      BY <2>1, <2>2, ObjectWritten DEF Attempt, Artifacts
    <3>2. s = scene /\ artifact'[s][a] = run
      BY <3>1 DEF ArdInv, TypeOK
    <3>3. contract[artifact[s][b]] = contract[run]
      BY <3>1, <3>2, AtWork DEF ArdInv, SceneInv, RowFits
    <3> QED
      BY <3>2, <3>3
  <2>3. CASE \E z \in Scenes : Lose(z)
    BY <2>3 DEF Lose, ArdInv, TypeOK
  <2> QED
    BY <2>1, <2>2, <2>3 DEF Next, vars, store, progress, ScenePasses, SceneFails, Start, Skip,
       MarkExhausted, StagingFails, Process, RefuseDrift, Finish, Stop, BeginAttempt, WriteRow, Load,
       Moves, Validate, RecordDone, StepRaises, BeginLate, RecordFailed, Kill
<1> QED
  BY <1>1, ArdInvariant, PTL DEF Spec, MosaicIsFrozen

=============================================================================
