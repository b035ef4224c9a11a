\* Three lines of two columns.
SPECIFICATION Spec
CONSTANTS
  Capacity = 3
  Width = 2
  MaxLevel = 1
  ColorMaps <- MCColorMaps
INVARIANTS
  HistoryIsRecent
  HistogramMatchesHistory
  ScreenShowsRecent
  ColoursAreCurrent
