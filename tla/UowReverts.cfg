CONSTANTS
  c1 = c1
  c2 = c2
  c3 = c3
  c4 = c4
  NoId = NoId
  CommandId = {c1, c2, c3, c4}
  Account <- RevertAccount
  Genesis <- RevertGenesis
  Requests <- RevertRequests
  Worker = {w1, w2, w3}
  MaxBigint = 6
  MaxVersion = 8
  MaxNow = 0
  MaxRaceRetries = 2
  MaxSubmits = 3
  MaxLosses = 0
SPECIFICATION FairSpec
PROPERTY
  ImplementsLedger
  Answered
CHECK_DEADLOCK FALSE
