\* How often column storage is given back when a call fails.
SPECIFICATION Spec
CONSTANTS
  NumCommits = 3
  Kinds <- MCKinds
  MaxMixes = 1
INVARIANTS
  GivenBackOnce
CHECK_DEADLOCK FALSE
