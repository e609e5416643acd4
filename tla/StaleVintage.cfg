SPECIFICATION VintageSpec
CONSTANTS
  VintageOrder <- TwoVintages
  ArchivesOf <- SharedArchive
  Revisions = {"v2", "v3"}
  MaxBackfills = 3
  MaxMishaps = 1
  NoRevision = NoRevision
INVARIANT RebuiltBundleIsNeverStale
CHECK_DEADLOCK FALSE
