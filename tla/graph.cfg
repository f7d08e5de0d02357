SPECIFICATION Spec
CONSTANTS
  N = 8
  Kind <- GraphKind
  After <- GraphAfter
  Recovery <- GraphSafe
  MergeOf <- GraphMerge
  Terminal <- GraphTerminal
  Labels = {"a","b"}
  MaxAttempts = 2
  Workers = {w1}
  Slots = 2
  MaxConcurrency = 2
  Load = 0
  Reports <- RetryableOnly
  Faulty = {0, 1, 3, 5, 6}
  Misfit = {6}
  Artifacts = {8}
  Ops = {"decide","cancel","pause","history"}
  Ticks = {"delay","retry","approval","run"}
  MaxSessions = 1
CHECK_DEADLOCK FALSE
INVARIANT DependenciesFirst
INVARIANT SkipsAreWhole
 
PROPERTY PauseHolds
