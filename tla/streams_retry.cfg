SPECIFICATION FairSpec
CONSTANTS
  Msgs = {m1}
  Pods = {p1}
  Nobody = Nobody
  Named = {p1}
  WithDLQ = {p1}
  MaxPending = 100
  MaxRetries = 3
  RetryDelay = 1
  Custom = FALSE
  Verdicts <- AlwaysLater
  MaxFaults = 0
PROPERTIES NackedIsRetried
CHECK_DEADLOCK FALSE
