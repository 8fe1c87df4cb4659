CONSTANTS
  Thread = {t1, t2, t3}
  Threshold = 2
  RetryAttempts = 2
  MaxOutages = 2
SPECIFICATION FairBreakerSpec
INVARIANT
  TypeOK
  ProbeOwned
PROPERTY Recovers
