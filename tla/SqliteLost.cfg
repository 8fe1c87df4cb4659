CONSTANTS
  hold = hold
  undo = undo
  NoId = NoId
  CommandId = {hold, undo}
  Account <- MCAccount
  Log <- MCLog
  Commits = {2, 5, 7}
  MaxBigint = 9
  MaxVersion = 9
  Poison = {}
  Consumer = {c1}
  Operator = {o1}
  FailurePoints = {"begin", "commit"}
  Batch = 2
  MaxAttempts = 2
  MaxFaults = 2
  MaxCrashes = 1
  MaxDrills = 0
SPECIFICATION Spec
INVARIANT NothingSkipped
CHECK_DEADLOCK FALSE
