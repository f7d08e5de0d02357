SPECIFICATION Spec
CONSTANTS
  N = 2
  Kind <- PairKind
  After <- PairAfter
  Recovery <- PairHold
  MergeOf <- PairMerge
  Terminal <- PairTerminal
  Labels = {}
  MaxAttempts = 2
  Workers = {w1}
  Slots = 2
  MaxConcurrency = 2
  Load = 0
  Reports <- AllReports
  Faulty = {}
  Misfit = {}
  Artifacts = {}
  Ops = {"resolve"}
  Ticks = {"lease","attempt","retry","window","run"}
  MaxSessions = 1
PROPERTY AmbiguityHeld
PROPERTY HoldNeedsDecision
PROPERTY RepeatsInsideWindow
CHECK_DEADLOCK FALSE
