SPECIFICATION VmSpec
CONSTANTS
  VmFaults = {"blip"}
  ContactRetries = 2
  HasBudget = TRUE
  MaxLaunches = 2
  MaxTroubles = 4
INVARIANT LaunchedJobIsNeverKilled
CHECK_DEADLOCK FALSE
