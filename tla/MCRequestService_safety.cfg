\* Any clock, four tickets through a ring of two slots, two runtime generations.
SPECIFICATION FairSpec
CONSTANTS
  MaxPending = 2
  MaxRequestDevice = 1
  MaxQueuedInput = 3
  EnqueueWhileRunning = TRUE
  DeviceSizes <- MCDeviceSizes
  InputSizes <- MCInputSizes
  MaxTicket = 5
  MaxGeneration = 2
  MaxTime = 1
  MonotonicClock = FALSE
INVARIANTS
  TypeOK
  RingHoldsUnpublished
  PublishedInOrder
  OwnedOnce
  TelemetryConserved
  PoisonDrains
  GenerationFence
  ProofReceiptsOrdered
PROPERTIES
  ImplementsProofQueue
  Answered
\* A destroyed service does nothing more.
CHECK_DEADLOCK FALSE
