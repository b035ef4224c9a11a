\* Two instances, three sessions, any crash and any failure of the save.
CONSTANTS
  Instances = {a, b}
  Receivers <- MCReceivers
  Playback = Playback
  SupportedFft = {1, 2}
  DefaultFft = 1
  MinTuning <- MCMinTuning
  MaxTuning <- MCMaxTuning
  DefaultTuning = 2
  ControlTuning = 2
  NaN = NaN
  Absent = Absent
  InitialKeys <- MCInitialKeys
  MaxSessions = 3
SPECIFICATION Spec
SYMMETRY MCSymmetry
INVARIANTS TypeOK FileIsWhole KeysSurvive
CHECK_DEADLOCK FALSE
