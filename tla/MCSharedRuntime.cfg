\* Two threads that race for the lock, an object of each kind, two runtimes
\* one after the other.
SPECIFICATION FairSpec
CONSTANTS
  Threads = {t1, t2}
  Buffers = {b1}
  Trees = {r1}
  Arenas = {a1}
  NoOne = NoOne
  MaxRuntimes = 2
INVARIANTS
  TypeOK
  RuntimeOutlivesUses
  SnapshotConsistent
PROPERTIES
  CallsReturn
