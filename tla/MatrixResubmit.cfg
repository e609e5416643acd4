SPECIFICATION SerialMatrixSpec
CONSTANTS
  Invocations <- OptIn
  NumPairs = 1
  MaxJobs = 2
  Faults = {"raise"}
INVARIANT AcceptedLabelIsFree
CHECK_DEADLOCK FALSE
