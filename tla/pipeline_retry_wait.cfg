SPECIFICATION FairSpec
CONSTANTS
  m1 = m1  m2 = m2  m3 = m3  k = k
  NoKey = NoKey
  Msgs = {m1, m2}
  Workers = {w1}
  RingSize = 1
  BatchMax = 10
  DrainMax = 100
  OutSize = 1
  MaxRetries = 1
  RetryDelay = 1
  Custom = TRUE
  Delayed = {}
  Unknown = {}
  Verdicts <- AlwaysRetry
  Key <- NoKeys
  StoreFails = FALSE
  PollFails = FALSE
PROPERTIES EventuallySettled
CHECK_DEADLOCK FALSE
