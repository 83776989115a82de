SPECIFICATION Spec
CONSTANTS
  m1 = m1  m2 = m2  m3 = m3  k = k
  NoKey = NoKey
  Msgs = {m1, m2, m3}
  Workers = {w1, w2}
  RingSize = 2
  BatchMax = 10
  DrainMax = 100
  OutSize = 1
  MaxRetries = 1
  RetryDelay = 1
  Custom = TRUE
  Delayed = {m2}
  Unknown = {m3}
  Verdicts <- AnyVerdict
  Key <- SharedKey
  StoreFails = TRUE
  PollFails = TRUE
SYMMETRY WorkerSymmetry
INVARIANTS TypeOK EachInOnePlace OneBatchAtATime ClosedAfterLastUse RunsBounded DuplicatesOnlyWithinBatch AckedWasProcessed
CHECK_DEADLOCK FALSE
