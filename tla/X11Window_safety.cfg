CONSTANTS
  b1 = b1  b2 = b2  b3 = b3
  Buffers = {b1, b2, b3}
  NoBuffer = NoBuffer
  PoolSizes = {2}
  Timeouts = {"bounded"}
  MaxSerial = 3
SPECIFICATION Spec
SYMMETRY Symmetry
INVARIANTS
  ExclusiveOwnership
  OwnedStaysHeld
  RefCountExact
  PendingSerialsDistinct
  NoReleaseLost
  PoolOutlivesWork
PROPERTIES
  ImplementsBufferQueue
