SPECIFICATION Spec
CONSTANTS
  Byte = {0, 1, 2, 3, 4, 9}
  MaxPos = 5
  Files <- MCTwoFiles
  compare_for_diff = TRUE
  MinLen = 1
  AllowGapJoin = FALSE
  MaxBound = 4
  MaxTouch = 4
  TouchMod = 100
  SizeMod = 1000
PROPERTY DiffKeepsHeldBytes
