SPECIFICATION JobRunsSpec
CONSTANTS
  NumItems = 6
  WorkerCounts = {1, 2}
  MaxAttempts = 3
  MaxTransient = 3
  MaxFatal = 1
  Uploads = {u1, u2}
  Jobs = {j1}
  Layouts <- TwoLayouts
  Fallback = TRUE
  Retries = 2
  MaxErrors = 2
  MaxKills = 1
  None = None
  VmFaults = {"blip", "prelaunch", "lost", "crash", "stop", "interrupt", "vanish"}
  ContactRetries = 2
  HasBudget = TRUE
  MaxLaunches = 2
  MaxTroubles = 4
  VintageOrder <- TwoVintages
  ArchivesOf <- SharedArchive
  Revisions = {"v2", "v3"}
  MaxBackfills = 3
  MaxMishaps = 2
  NoRevision = NoRevision
INVARIANTS
  NoReadOutlivesTheMap
  TransientErrorsAreSurvived
  PublishedShardsExist
  ReadyRootIsWhole
  VerifiedJobIsNeverKilled
  LauncherTellsTheTruth
  ZeroBackfillIsCurrent
PROPERTIES
  DeliversInOrder
  MapEnds
  JobsDecide
  RunnerEnds
CHECK_DEADLOCK FALSE
