\* A sidecar that cannot be rewritten at stop.
SPECIFICATION Spec
CONSTANTS
  RingSize = 2
  SampleBytes = 2
  BufferBytes = 3
  StdioBytes = 2
  BatchSizes = {1}
  SourceLosses = {0}
  Faults = {"sidecar"}
  MaxReceived = 1
  MaxCaptures = 1
PROPERTIES
  StopKeepsASidecar
