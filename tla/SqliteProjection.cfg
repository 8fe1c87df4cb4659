CONSTANTS
  hold = hold
  undo = undo
  NoId = NoId
  CommandId = {hold, undo}
  Account <- MCAccount
  Log <- MCLog
  Commits = {2, 5, 7}
  MaxBigint = 9
  MaxVersion = 9
  Poison = {2}
  Consumer = {c1, c2}
  Operator = {o1}
  FailurePoints = {"begin"}
  Batch = 2
  MaxAttempts = 2
  MaxFaults = 2
  MaxCrashes = 1
  MaxDrills = 1
SPECIFICATION Spec
INVARIANT
  BalancesExact
  ReadsServed
  OrderIndependent
  DrillPasses
PROPERTY
  KeepsPromise
CHECK_DEADLOCK FALSE
