\* Any call into CUDA may fail; three proof shapes for a cache of two.
SPECIFICATION FairSpec
CONSTANTS
  Keys = {k1, k2, k3}
  NoKey = NoKey
  Capacity = 2
  Limit = 3
  LastStage = 3
  MaxAllocations = 3
  MaxFunctions = 1
INVARIANTS
  TypeOK
  ArenaPinned
  CacheSound
  ReadyMeansAble
  EndsEmpty
PROPERTIES
  CallsReturn
