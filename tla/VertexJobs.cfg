SPECIFICATION VertexSpec
CONSTANTS
  Invocations <- OptIn
  NumPairs = 2
  MaxJobs = 2
  Faults = {"kill", "raise", "late", "blind"}
  Launchers = {l1, l2, l3}
  NumSlots = 2
  NoLauncher = NoLauncher
INVARIANTS
  LabelBelongsToOneJob
  PassedPairsArePublished
  OneCreatePerSlot
PROPERTIES
  ScriptsEnd
  RowsOnlyAdvance
CHECK_DEADLOCK FALSE
