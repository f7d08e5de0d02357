SPECIFICATION MCSpec
CONSTANTS
  N = 2
  w1 = w1
  w2 = w2
  Sweepers = {w1, w2}
  Sizes = {1, 2}
  Quota = 2
  PutTTL = 2
  AttemptTimeout = 2
  Grace = 2
  Batch = 1
  Horizon = 4
  MaxDamage = 1
  MaxFaults = 1
  None = None
CHECK_DEADLOCK FALSE
INVARIANT ReferencedIsKept
INVARIANT ReadyIsWhole
INVARIANT CollectedOnce
INVARIANT WithinQuota
PROPERTY OrphansAreCollected
