CONSTANTS
  b1 = b1  b2 = b2  b3 = b3  t1 = t1  t2 = t2  f1 = f1  f2 = f2
  Buffers = {b1, b2, b3}
  Threads = {t1, t2}
  Fences = {f1, f2}
  NoFence = NoFence
  PoolSizes = {2}
SPECIFICATION FairSpec
INVARIANTS FencesOwnedOnce
PROPERTIES DependencyKept WaitersWake
