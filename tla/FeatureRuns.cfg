SPECIFICATION FeatureSpec
CONSTANTS
  Drivers = {d1, d2}
  Runs = {r1, r2, r3}
  Scenes = {s1, s2}
  Configs = {c1, c2}
  Faults = {"kill", "raise", "late"}
  NoRun = NoRun
  NoScene = NoScene
  NoConfig = NoConfig
  Unpublished = Unpublished
INVARIANTS
  TypeOK
  LockProtectsPublisher
  CommittedIsCoherent
  DoneRowsAreTruthful
  CleanExitIsComplete
PROPERTIES
  ImplementsImmutableRelease
SYMMETRY Interchangeable
CHECK_DEADLOCK FALSE
