\* Two frequencies and a backlog of one delivery.
SPECIFICATION Spec
CONSTANTS
  Frequencies = {1, 2}
  Gains = {20}
  FftSizes = {1024}
  Looks = {"hann"}
  Duration = FALSE
  Backlog = 1
INVARIANTS
  TunerMatchesSidecar
  ExportDescribesHeldFrame
  SnapsToNewChannel
