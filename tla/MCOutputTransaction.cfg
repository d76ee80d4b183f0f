\* Three runs that want any of two names, or none, for each of their outputs.
SPECIFICATION Spec
CONSTANTS
  Runs = {r1, r2, r3}
  Paths = {x1, x2}
  NoPath = NoPath
  Nothing = Nothing
SYMMETRY Symmetry
INVARIANTS
  TypeOK
  ReportFirst
  ErrorsLeaveNothing
PROPERTIES
  ImplementsAtomic
\* When all runs have ended, nothing happens any more.
CHECK_DEADLOCK FALSE
