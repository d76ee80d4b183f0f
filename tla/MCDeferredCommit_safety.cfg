\* Preprocessed, main, interaction and composition trees; data between any two.
SPECIFICATION FairSpec
CONSTANTS
  NumCommits = 4
  Kinds <- MCKinds
  MaxMixes = 3
INVARIANTS
  TypeOK
  WorkerWithinScheme
  WorkerReaped
  StorageReturned
PROPERTIES
  ImplementsSequential
  CallsReturn
\* A scheme that is gone takes no more calls.
CHECK_DEADLOCK FALSE
