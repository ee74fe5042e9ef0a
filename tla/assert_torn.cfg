SPECIFICATION ThreadsSpec
CONSTANTS
  t1 = t1
  t2 = t2
  Thread = {t1, t2}
  NoThread = NoThread
  Byte = {0, 1, 2, 3}
  MaxPos = 4
  Files <- MCOneFile
  compare_for_diff = TRUE
  MinLen = 1
  AllowGapJoin = FALSE
  MaxBound = 2
  MaxTouch = 3
  TouchMod = 100
  SizeMod = 1000
INVARIANT EntryAssertsHold
CHECK_DEADLOCK FALSE
