SPECIFICATION RingSpec
CONSTANTS
  size = 5
  Blocks <- MCBlocks
  LeavesOne = TRUE
INVARIANT RefusesOnlyAtLimits
PROPERTY
  ImplementsByteStream
