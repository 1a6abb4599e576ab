SPECIFICATION FairSpec
CONSTANTS
  Events = {e1, e2, e3, e4}
  QueueMax = 2
  MaxKeep = 2
  Grown = 3
  MaxFails = 2
  MaxCrashes = 1
INVARIANTS TypeOK StoredOnceInOrder
PROPERTIES ImplementsLog EventuallyStored
CHECK_DEADLOCK FALSE
