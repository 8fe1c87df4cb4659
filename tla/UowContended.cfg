CONSTANTS
  c1 = c1
  c2 = c2
  c3 = c3
  c4 = c4
  NoId = NoId
  CommandId = {c1, c2, c3, c4}
  Account <- ContendedAccount
  Genesis <- ContendedGenesis
  Requests <- ContendedRequests
  Worker = {w1, w2, w3}
  MaxBigint = 6
  MaxVersion = 4
  MaxNow = 1
  MaxRaceRetries = 1
  MaxSubmits = 3
  MaxLosses = 1
SPECIFICATION Spec
INVARIANT
  NoLostUpdate
  WaitsAscend
  RepliesDurable
PROPERTY
  ImplementsLedger
CHECK_DEADLOCK FALSE
SYMMETRY WorkerSymmetry
