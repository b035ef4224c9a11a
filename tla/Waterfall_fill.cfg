\* The line that fills the history.
SPECIFICATION Spec
CONSTANTS
  Capacity = 3
  Width = 1
  MaxLevel = 1
  ColorMaps = {"jet"}
INVARIANTS
  RowIsHistoryLine
