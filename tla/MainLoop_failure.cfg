\* A write error that surfaces when the capture is stopped.
SPECIFICATION Spec
CONSTANTS
  Frequencies = {1}
  Gains = {20}
  FftSizes = {1024}
  Looks = {"hann"}
  Duration = TRUE
  Backlog = 1
INVARIANTS
  FailureIsShown
