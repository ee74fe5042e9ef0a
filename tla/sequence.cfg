SPECIFICATION ClientSpec
CONSTANTS
  c1 = c1
  c2 = c2
  Byte = {0, 1, 2, 3, 4, 5, 6}
  MaxPos = 7
  Files <- MCOneFile
  compare_for_diff = TRUE
  MinLen = 1
  AllowGapJoin = FALSE
  MaxBound = 2
  MaxTouch = 100
  TouchMod = 200
  SizeMod = 1000
  Client = {c1, c2}
  GreedyLengths <- MCGreedyOrNot
  MaxDemands = 2
  Setups <- MCAnyDemand
INVARIANT SequenceSucceeds
SYMMETRY MCSymmetry
CHECK_DEADLOCK FALSE
