\* Lists of buffers planned by both planners; the Metal plans run.
SPECIFICATION FairSpec
CONSTANTS
  Inputs <- MCInputs
  Budgets = {6}
  MaxTick = 2
  Limit = 8
  Page = 2
  MaxRuns = 2
  MaxVersion = 2
INVARIANTS
  TypeOK
  NoAliasing
  LiveHoldsValue
  NeverRefused
PROPERTIES
  ImplementsLowestFit
  LoopsEnd
CHECK_DEADLOCK FALSE
