CONSTANTS
  Consumer = {c1, c2}
  Operator = {o1, o2}
  NoOne = NoOne
  Poison = {3}
  Unreadable = {1}
  Batch = 2
  MaxAttempts = 2
  FailureThreshold = 3
  MaxEvents = 3
  MaxFaults = 3
  MaxDisruptions = 2
SPECIFICATION FairSpec
INVARIANT
  ExactlyOnce
  OffsetCovers
PROPERTY
  EverythingSettled
  KeepsPromise
