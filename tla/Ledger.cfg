CONSTANTS
  start = start
  first = first
  second = second
  spend = spend
  NoId = NoId
  CommandId = {start, first, second, spend}
  Account <- MCAccount
  Genesis <- MCGenesis
  Requests <- MCRequests
  MaxBigint = 5
  MaxVersion = 4
  MaxNow = 1
SPECIFICATION Spec
INVARIANT
  Foldable
  HeldIsOpenHolds
  MoneyConserved
  RevertedOnce
  ResultsMatchLog
  DecisionsApply
CHECK_DEADLOCK FALSE
