SPECIFICATION FairSpec
CONSTANTS
  Callers = {g1, g2}
  Keys = {k}
  TTLs = {0, 2}
  MaxTime = 4
  Exclusive = TRUE
INVARIANTS RememberedUntilExpiry
PROPERTIES AnswersAreCurrent ExpiredIsEvicted
CHECK_DEADLOCK FALSE
