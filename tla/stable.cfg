SPECIFICATION Spec
CONSTANTS
  Byte = {0, 1, 2, 3, 4}
  MaxPos = 5
  Files <- MCOneFile
  compare_for_diff = TRUE
  MinLen = 1
  AllowGapJoin = FALSE
  MaxBound = 4
  MaxTouch = 4
  TouchMod = 100
  SizeMod = 16
INVARIANTS Integrity HoldsFile HasIffHeld ComparesInsideBlock BytesAccounted
PROPERTIES PuntReachesBound ImplementsSparseFile
