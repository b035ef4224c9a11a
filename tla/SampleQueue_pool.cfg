\* A pool of one frame that has to grow, an allocation that may fail and one
\* change of the FFT size.
SPECIFICATION Spec
CONSTANTS
  MAX_SAMPLE_QUEUE_SIZE = 2
  MAIN_FRAME_POOL_FRAMES = 1
  FftSizes <- MCFftSizes
  AllocationMayFail = TRUE
  MaxDelivered = 9
  MaxReconfigures = 1
INVARIANTS
  TypeOK
  EveryFrameHasOneOwner
  FrameFitsFft
  FramesAreConsecutive
  PoolIsBounded
  AtMostOneStale
  FramesKeepComing
PROPERTIES
  NeverBackwards
