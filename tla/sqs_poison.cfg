SPECIFICATION FairSpec
CONSTANTS
  k = k  NoKey = NoKey
  Msgs = {m1}
  Pods = {p1}
  MaxCopies = 1
  Key <- NoKeys
  Delayed = {}
  MaxRetries = 1
  RetryDelay = 2
  Custom = FALSE
  Verdicts <- AlwaysRetry
  Unit = 2
  WithDLQ = {p1}
  MaxFaults = 0
PROPERTIES PoisonReachesDLQ
CHECK_DEADLOCK FALSE
