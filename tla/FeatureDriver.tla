---------------------------- MODULE FeatureDriver ----------------------------
(***************************************************************************)
(* The isolated-scene runner (scripts/runners/run_features_isolated.py):   *)
(* one child process per assessable scene, one after the other, each child *)
(* a run of ScenePublication with that single scene.  The driver kills a   *)
(* child that exceeds its timeout, and believes a child only if the ledger *)
(* agrees.  A driver that is killed leaves its child running, so children  *)
(* of an old and of a new driver may be alive together.  A driver hands    *)
(* its children roots, not a configuration: each child computes its hash   *)
(* from the upstream ledgers as it finds them, so the children of one      *)
(* driver may differ.                                                      *)
(***************************************************************************)
EXTENDS ScenePublication

CONSTANT Drivers  \* invocations of the driver

VARIABLE driver   \* invocation -> its state

driverVars == <<vars, driver>>
publication == vars

Driver == [phase : {"idle", "next", "wait", "ended", "dead"},
           resume : BOOLEAN,
           scope : SUBSET Scenes,           \* the scenes it answers for
           queue : SUBSET Scenes,           \* scene_ids not visited yet
           current : Scenes \cup {NoScene},
           child : [Scenes -> Runs \cup {NoRun}],  \* the run it started for a scene
           failed : SUBSET Scenes]          \* failed rows of the summary

DriverTypeOK == TypeOK /\ driver \in [Drivers -> Driver]

DriverInit ==
  /\ Init
  /\ driver = [d \in Drivers |->
       [phase |-> "idle", resume |-> FALSE, scope |-> {}, queue |-> {},
        current |-> NoScene, child |-> [s \in Scenes |-> NoRun], failed |-> {}]]

\* _scene_done: the ledger row is done and its COG and marker exist.  The hash
\* of the row is not looked at.
SceneDone(s) ==
  ledger[s].status = "done" /\ artifact[s]["cog"] # NoRun /\ Committed(s)

\* The scenes --resume takes off the list.
Skipped(resume) == IF resume THEN {s \in Scenes : SceneDone(s)} ELSE {}

\* The scene list: without what is skipped, and cut short by --limit.
Launch(d, resume, list) ==
  /\ driver[d].phase = "idle" /\ list \subseteq Scenes \ Skipped(resume)
  /\ driver' = [driver EXCEPT ![d] =
       [driver[d] EXCEPT !.phase = "next", !.resume = resume, !.queue = list,
                         !.scope = list \cup Skipped(resume)]]
  /\ UNCHANGED publication

\* run_single_scene starts the child; c is what the child computes.
Spawn(d, s, r, c) ==
  /\ driver[d].phase = "next" /\ s \in driver[d].queue
  /\ Start(r, c, {s})
  /\ driver' = [driver EXCEPT ![d] =
       [driver[d] EXCEPT !.phase = "wait", !.queue = driver[d].queue \ {s}, !.current = s,
                         !.child = [driver[d].child EXCEPT ![s] = r]]]

CurrentChild(d) == driver[d].child[driver[d].current]

Collected(d, ok) ==
  [driver[d] EXCEPT !.phase = "next", !.current = NoScene,
                    !.failed = driver[d].failed \cup IF ok THEN {} ELSE {driver[d].current}]

\* Mutant: the child's main returns its status instead of raising SystemExit,
\* Hydra drops it, and the ledger is not consulted.
ChildExitsZero(d) ==
  /\ driver[d].phase = "wait" /\ ~Live(CurrentChild(d))
  /\ driver' = [driver EXCEPT ![d] = Collected(d, pc[CurrentChild(d)] = "ended")]
  /\ UNCHANGED publication

\* The child has exited; exit code 0 is necessary but not sufficient.
ChildExits(d) ==
  LET r == CurrentChild(d)
      s == driver[d].current
  IN  /\ driver[d].phase = "wait" /\ ~Live(r)
      /\ driver' = [driver EXCEPT ![d] =
           Collected(d, pc[r] = "ended" /\ report[r][s] = "done" /\ SceneDone(s))]
      /\ UNCHANGED publication

\* The child is killed when its time is up.
ChildTimesOut(d) ==
  /\ driver[d].phase = "wait"
  /\ Kill(CurrentChild(d))
  /\ driver' = [driver EXCEPT ![d] = Collected(d, FALSE)]

\* The driver itself dies (a lost SSH session); its child does not.
DriverKilled(d) ==
  /\ "kill" \in Faults /\ driver[d].phase \in {"next", "wait"}
  /\ driver' = [driver EXCEPT ![d].phase = "dead"]
  /\ UNCHANGED publication

\* Exit code 0 exactly when no scene failed.
DriverEnds(d) ==
  /\ driver[d].phase = "next" /\ driver[d].queue = {}
  /\ driver' = [driver EXCEPT ![d].phase = "ended"]
  /\ UNCHANGED publication

ExitsZero(d) == driver[d].phase = "ended" /\ driver[d].failed = {}

\* run_features, started by hand over any selection, writes the same root.
StartByHand ==
  /\ \E r \in Runs, c \in Configs, selection \in (SUBSET Scenes) \ {{}} : Start(r, c, selection)
  /\ UNCHANGED driver

ChildrenNext ==
  \/ \E d \in Drivers, resume \in BOOLEAN, list \in SUBSET Scenes : Launch(d, resume, list)
  \/ \E d \in Drivers, s \in Scenes, r \in Runs, c \in Configs : Spawn(d, s, r, c)
  \/ \E d \in Drivers :
       ChildExits(d) \/ ChildTimesOut(d) \/ DriverKilled(d) \/ DriverEnds(d)
  \/ (\E r \in Runs : Advance(r) \/ Fault(r)) /\ UNCHANGED driver
  \/ (\E s \in Scenes : OperatorClearsLock(s)) /\ UNCHANGED driver

DriverNext == ChildrenNext \/ StartByHand

DriverSpec == DriverInit /\ [][DriverNext]_driverVars

-----------------------------------------------------------------------------

\* A driver that exits 0 has every scene published that it was asked for: with the
\* configuration of the child it started for the scene, or, where it started none,
\* because it was asked to resume - whatever its children, other drivers, runs
\* started by hand, kills and timeouts did meanwhile.
CleanExitIsComplete ==
  \A d \in Drivers : ExitsZero(d) =>
    \A s \in driver[d].scope :
      /\ Committed(s)
      /\ IF driver[d].child[s] = NoRun
           THEN driver[d].resume
           ELSE config[marker[s]] = config[driver[d].child[s]]

\* "a re-run skips scenes already published with a matching config hash": a
\* driver that exits 0 leaves all scenes with one configuration.  Does not hold.
LeavesOneConfiguration ==
  \A d \in Drivers : ExitsZero(d) =>
    \A s, t \in driver[d].scope : config[marker[s]] = config[marker[t]]

=============================================================================
