SPECIFICATION FairSpec
CONSTANTS
  Items = {x, y}
  Delays = {0, 1, 3}
  Second = 2
  MaxTime = 7
INVARIANT NeverEarly
PROPERTIES ImplementsDelayQueue EventuallyFires
