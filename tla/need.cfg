SPECIFICATION NeedSpec
CONSTANTS
  Byte = {0, 1, 2, 3, 4, 5, 6}
  MaxPos = 7
  Files <- MCOneFile
  compare_for_diff = TRUE
  MinLen = 1
  AllowGapJoin = FALSE
  MaxBound = 0
  MaxTouch = 100
  TouchMod = 200
  SizeMod = 1000
  MaxGreedy = 3
  MaxReads = 2
INVARIANTS NeedCoversMissing NeedIsMinimal NeedAgreesWithHas GreedyReadsFewer
CHECK_DEADLOCK FALSE
