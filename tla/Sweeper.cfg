CONSTANTS
  h1 = h1
  h2 = h2
  void = void
  x1 = x1
  NoId = NoId
  CommandId = {h1, h2, void, x1}
  Account <- MCAccount
  Genesis <- MCGenesis
  Requests <- MCRequests
  ExpiryId <- MCExpiryId
  Sweeper = {s1, s2}
  Alive = {s1}
  Pruning = TRUE
  MaxBigint = 6
  MaxVersion = 8
  MaxNow = 1
SPECIFICATION FairSpec
INVARIANT
  ClosedOnce
  NeverRewritten
PROPERTY HoldsExpire
CHECK_DEADLOCK FALSE
