SPECIFICATION RunsSpec
CONSTANTS
  local1 = local1
  local2 = local2
  local3 = local3
  remote = remote
  Runs = {local1, local2, local3, remote}
  Invocations = {local1, local2}
  Pids = {p1, p2}
  Host <- TwoHosts
  User <- OneAccount
  Faults = {"kill", "raise", "late"}
  BoundDelete = TRUE
  NoRun = NoRun
  NoPid = NoPid
  NumScenes = 2
  Dark = {2}
  Fingerprint <- HorizonChanges
  Configs <- TheConfigs
  MaxFaults = 1
  MaxLosses = 1
  None = None
  SourceOrder <- Ordered
  ConfigHashes <- Configurations
  Forceable = {"combined_dsm"}
  MaxRuns = 3
  MaxStaticFaults = 1
  NoHash = NoHash
INVARIANTS
  WorkerOwnsLock
  ReclaimsAbsentOwnerOnly
  DoneRowsNameTheirArtifacts
  ZeroReturnIsComplete
  SourceAuditIsTruthful
  CleanRunIsComplete
  DoneRasterIsAsFingerprinted
SYMMETRY SameHostRuns
CHECK_DEADLOCK FALSE
