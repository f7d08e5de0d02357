SPECIFICATION Spec
CONSTANTS
  N = 2
  Kind <- PairKind
  After <- PairAfter
  Recovery <- PairSafe
  MergeOf <- PairMerge
  Terminal <- PairTerminal
  Labels = {}
  MaxAttempts = 2
  Workers = {w1, w2}
  Slots = 2
  MaxConcurrency = 1
  Load = 0
  Reports <- NoReports
  Faulty = {}
  Misfit = {}
  Artifacts = {}
  Ops = {"session"}
  Ticks = {"lease","retry"}
  MaxSessions = 2
SYMMETRY Symmetry
CHECK_DEADLOCK FALSE
INVARIANT Ownership
 
INVARIANT WithinConcurrency
