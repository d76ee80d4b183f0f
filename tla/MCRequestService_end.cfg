\* The contract on Runtime.close against what close does when it fails.
SPECIFICATION Spec
CONSTANTS
  MaxPending = 3
  MaxRequestDevice = 1
  MaxQueuedInput = 4
  EnqueueWhileRunning = FALSE
  DeviceSizes <- MCDeviceSizes
  InputSizes <- MCInputSizes
  MaxTicket = 3
  MaxGeneration = 2
  MaxTime = 0
  MonotonicClock = TRUE
INVARIANTS
  RuntimeEndedOnce
CHECK_DEADLOCK FALSE
