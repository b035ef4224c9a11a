\* A retune and the start of a capture in one batch of events.
SPECIFICATION Spec
CONSTANTS
  Frequencies = {1, 2}
  Gains = {20}
  FftSizes = {1024}
  Looks = {"hann"}
  Duration = TRUE
  Backlog = 1
INVARIANTS
  SidecarHoldsForTheFile
