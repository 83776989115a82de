SPECIFICATION FairSpec
CONSTANTS
  k = k
  NoKey = NoKey
  Msgs = {m1, m2}
  Delayed = {m2}
  MaxOutstanding = 2
  MaxDeliveries = 3
  Verdicts = {"Ack", "Nack", "DLQ"}
  Expires = {m1}
  Key <- SharedKey
  StoreFails = TRUE
INVARIANTS NoOrphan ClosedOnce ForgottenWhenSettled
PROPERTIES CallbacksReturn ReceiveReturns
CHECK_DEADLOCK FALSE
