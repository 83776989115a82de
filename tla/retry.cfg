SPECIFICATION Spec
CONSTANTS
  Width = 8
  DelayCap = 20
  Limits = {0, 1, 4, 9}
  BaseDelays = {0, 1, 3}
  Delays <- SomeDelays
INVARIANTS RetriesAreExact BackoffFollowsFormula
CHECK_DEADLOCK FALSE
