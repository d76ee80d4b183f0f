\* A thread that keeps an arena and one that shuts the runtime down.
SPECIFICATION Spec
CONSTANTS
  Threads = {t1, t2}
  Buffers = {b1}
  Trees = {}
  Arenas = {a1}
  NoOne = NoOne
  MaxRuntimes = 2
INVARIANTS
  ArenasKeepRuntime
