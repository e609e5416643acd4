SPECIFICATION StaticSpec
CONSTANTS
  SourceOrder <- Ordered
  ConfigHashes <- Configurations
  Forceable = {"combined_dsm"}
  MaxRuns = 3
  MaxStaticFaults = 1
  NoHash = NoHash
INVARIANT CombinedIsAsFingerprinted
CHECK_DEADLOCK FALSE
