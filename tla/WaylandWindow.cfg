CONSTANTS
  b1 = b1  b2 = b2  b3 = b3
  Buffers = {b1, b2, b3}
  NoBuffer = NoBuffer
  InitialCount = 3
  PoolSizes = {2}
SPECIFICATION Spec
SYMMETRY Symmetry
INVARIANTS
  FreeCountExact ExclusiveOwnership RefsExact ReleasesTracked CreationSettled FramePending
PROPERTIES
  ImplementsBufferQueue
