SPECIFICATION FairSpec
CONSTANTS
  Msgs = {m1, m2}
  Pods = {p1, p2}
  Nobody = Nobody
  Named = {p1}
  WithDLQ = {p1}
  MaxPending = 1
  MaxRetries = 1
  RetryDelay = 0
  Custom = FALSE
  Verdicts <- AnyVerdict
  MaxFaults = 3
INVARIANTS TypeOK AckedWasSettled
PROPERTIES ImplementsDelivery SettledOrParked
CHECK_DEADLOCK FALSE
