\* Two captures, every failing call but stat; liveness and the refinement of
\* IqCapture too.
SPECIFICATION FairSpec
CONSTANTS
  RingSize = 3
  SampleBytes = 2
  BufferBytes = 3
  StdioBytes = 2
  BatchSizes <- MCBatchSizes
  SourceLosses <- MCSourceLosses
  Faults <- MCFaults
  MaxReceived = 5
  MaxCaptures = 2
INVARIANTS
  TypeOK
  RingHeldWhileUsed
  NoSharedSlot
  RingIsFifo
  FileIsPrefix
  NothingLostSilently
  SidecarIsExact
PROPERTIES
  NoPushAfterStop
  AcceptedIsDrained
  ImplementsIqCapture
