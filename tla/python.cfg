SPECIFICATION PySpec
CONSTANTS
  t1 = t1
  t2 = t2
  Thread = {t1, t2}
  NoThread = NoThread
  MaxCalls <- MCCalls
  Byte = {0, 1, 2, 3}
  MaxPos = 4
  Files <- MCOneFile
  compare_for_diff = TRUE
  MinLen = 0
  AllowGapJoin = TRUE
  MaxBound = 0
  MaxTouch = 100
  TouchMod = 200
  SizeMod = 1000
INVARIANTS NeverMeetsTornObject LockedCallsExclude
PROPERTIES LoadRestores
CHECK_DEADLOCK FALSE
