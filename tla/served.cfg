SPECIFICATION ClientSpec
CONSTANTS
  c1 = c1
  c2 = c2
  Byte = {0, 1, 2, 3, 4, 5, 6, 7}
  MaxPos = 8
  Files <- MCOneFile
  compare_for_diff = TRUE
  MinLen = 1
  AllowGapJoin = TRUE
  MaxBound = 2
  MaxTouch = 100
  TouchMod = 200
  SizeMod = 1000
  Client = {c1, c2}
  GreedyLengths <- MCNotGreedy
  MaxDemands = 3
  Setups <- MCPagesOrPunting
INVARIANT PuntSparesFreshData
PROPERTY EveryPageServed
CHECK_DEADLOCK FALSE
