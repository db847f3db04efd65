CONSTANTS
  b1 = b1  b2 = b2  b3 = b3
  Buffers = {b1, b2}
  NoBuffer = NoBuffer
  PoolSizes = {2}
  MaxSerial = 2
  Timeouts = {"forever"}
SPECIFICATION FairSpec
PROPERTIES
  SubmissionsPresented
  CallsReturn
  ReleaseEndsDequeue
