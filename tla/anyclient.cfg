SPECIFICATION Spec
CONSTANTS
  Byte = {0, 1, 2, 3, 4, 9}
  MaxPos = 5
  Files <- MCTwoFiles
  compare_for_diff = TRUE
  MinLen = 0
  AllowGapJoin = TRUE
  MaxBound = 3
  MaxTouch = 3
  TouchMod = 100
  SizeMod = 1000
INVARIANTS TypeOK TouchesDistinct
PROPERTIES PuntsOldestFirst CallsReturn
