\* One tuning, two FFT sizes and two palettes, under fairness.
SPECIFICATION FairSpec
CONSTANTS
  Frequencies = {1}
  Gains = {20}
  FftSizes = {1024, 2048}
  Looks = {"jet", "hot"}
  Duration = TRUE
  Backlog = 1
INVARIANTS
  CaptureKeepsItsReceiver
PROPERTIES
  HeldFrameKeepsItsControls
  CaptureEnds
