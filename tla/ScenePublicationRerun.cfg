SPECIFICATION SerialSpec
CONSTANTS
  Runs = {r1, r2, r3}
  Scenes = {s1}
  Configs = {c1, c2}
  Faults = {"kill"}
  NoRun = NoRun
  NoScene = NoScene
  NoConfig = NoConfig
  Unpublished = Unpublished
SYMMETRY Interchangeable
CHECK_DEADLOCK FALSE
INVARIANT RerunAcceptsPublishedScene
