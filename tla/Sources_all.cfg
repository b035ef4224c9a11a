\* Each of the three sources, two starts, chunks smaller and larger than the
\* file and the transfer; a packet without a time and a failing read happen.
CONSTANTS
  ChunkSizes = {1, 3}
  UntimedPackets = TRUE
  MaxClock = 5
  TransferSamples = 2
  MaxTransfers = 3
  FileSamples = 2
  ResyncAfter = 1
  ReadMayFail = TRUE
  MaxHanded = 6
  MaxStarts = 2
SPECIFICATION FairSpec
INVARIANTS EveryLossIsCounted PlaybackIsSeamless PlaybackIsPaced
PROPERTIES StopJoins ImplementsSampleSource
CHECK_DEADLOCK FALSE
