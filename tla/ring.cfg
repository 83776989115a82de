SPECIFICATION DrainedSpec
CONSTANTS
  a = a  b = b
  Producers = {p1, p2}
  Consumers = {c1}
  Item = {a, b}
  Nil = Nil
  Capacity = 2
  Batches <- OneAndTwo
  Maxes <- AllMaxes
  MaxHead = 2
  MaxRequest = 300
INVARIANTS TypeOK CursorsAgree WindowHoldsItems NoLostWakeup Sizing
PROPERTIES ImplementsQueue LenNeverOverstates CloseReleasesProducers BlockedGetsWoken
