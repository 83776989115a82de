SPECIFICATION FairSpec
CONSTANTS
  k = k  NoKey = NoKey
  Msgs = {m1}
  Pods = {p1, p2}
  MaxCopies = 2
  Key <- SharedKey
  Delayed = {m1}
  MaxRetries = 1
  RetryDelay = 2
  Custom = TRUE
  Verdicts <- AnyVerdict
  Unit = 2
  WithDLQ = {p1}
  MaxFaults = 2
INVARIANTS TypeOK DeletedWasSettled RepeatsExplained
CHECK_DEADLOCK FALSE
PROPERTIES NeverStranded
