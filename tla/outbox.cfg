SPECIFICATION FairSpec
CONSTANTS
  Procs = {p1, p2}
  Events = {e1, e2}
  Malformed = {e2}
  BatchSize = 2
  MaxFaults = 2
  None = None
CHECK_DEADLOCK FALSE
PROPERTY DeliversAtLeastOnce
PROPERTY EveryEventSettles
