SPECIFICATION FSSpec
CONSTANTS
  t1 = t1
  t2 = t2
  t3 = t3
  Thread = {t1, t2, t3}
  NoThread = NoThread
  MaxCalls <- MCCalls
  Id = {"a"}
INVARIANTS KeysFit
CHECK_DEADLOCK FALSE
