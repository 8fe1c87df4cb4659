CONSTANTS
  Worker = {w1, w2}
  Handler = {h1, h2}
  Build = {1, 2}
  SnapshotEvery = 2
  MaxRaceRetries = 1
  MaxIds = 5
  MaxDrops = 1
  MaxRestores = 1
SPECIFICATION Spec
INVARIANT
  FoldsExact
  TrustedIsExact
  NeverOrphaned
  TailBounded
  MemoExact
CHECK_DEADLOCK FALSE
