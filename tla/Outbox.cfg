CONSTANTS
  Stream = {s1, s2}
  Writer = {w1, w2}
  Relay = {r1, r2}
  NoOne = NoOne
  MaxIds = 3
  MaxLosses = 1
SPECIFICATION FairSpec
INVARIANT
  Gapless
  CausesFirst
PROPERTY
  OnlyAhead
  EverythingPublished
CHECK_DEADLOCK FALSE
