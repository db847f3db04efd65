CONSTANTS
  b1 = b1  b2 = b2  b3 = b3  b4 = b4  c1 = c1  c2 = c2
  Buffers = {b1, b2, b3}
  Chains = {c1, c2}
  NoChain = NoChain
  ImageCounts = {1, 2}
  AcceptsRetired = FALSE
SPECIFICATION FairSpec
PROPERTIES AcquireRecovers
