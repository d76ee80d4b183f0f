\* A commit that streams its columns and fails.
SPECIFICATION Spec
CONSTANTS
  NumCommits = 3
  Kinds = {"streaming"}
  MaxMixes = 1
INVARIANTS
  FailureDeinitializes
CHECK_DEADLOCK FALSE
