SPECIFICATION Spec
CONSTANTS
  N = 2
  Kind <- PairKind
  After <- PairAfter
  Recovery <- PairSafe
  MergeOf <- PairMerge
  Terminal <- PairTerminal
  Labels = {}
  MaxAttempts = 2
  Workers = {w1}
  Slots = 2
  MaxConcurrency = 2
  Load = 0
  Reports <- RetryableOnly
  Faulty = {}
  Misfit = {}
  Artifacts = {}
  Ops = {"cancel","session","drain","revoke"}
  Ticks = {"lease","grace","retry","start"}
  MaxSessions = 2
CHECK_DEADLOCK FALSE
PROPERTY CancelWins
INVARIANT ConfirmedMeansStopped
 
