\* A pane of two columns, frames of one and of three bins, one loud level.
SPECIFICATION Spec
CONSTANTS
  Sizes = {1, 3}
  Levels = {0, 6}
  PaneWidth = 2
  MedianStride = 2
  Headroom = 2
  FloorMargin = 3
  TopDecay = 1
  MaxFrames = 3
INVARIANTS
  TypeOK
  TracesSinceReset
  BurstsStayInView
  OverlaysFitTrace
