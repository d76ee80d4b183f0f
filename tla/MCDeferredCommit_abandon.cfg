\* A caller that returns without Scheme.deinit.
SPECIFICATION AbandoningSpec
CONSTANTS
  NumCommits = 3
  Kinds <- MCKinds
  MaxMixes = 1
INVARIANTS
  WorkerWithinScheme
CHECK_DEADLOCK FALSE
