SPECIFICATION FairSpec
CONSTANTS
  N = 2
  Kind <- LateKind
  After <- LateAfter
  Recovery <- PairSafe
  MergeOf <- PairMerge
  Terminal <- PairTerminal
  Labels = {}
  MaxAttempts = 2
  Workers = {w1}
  Slots = 2
  MaxConcurrency = 2
  Load = 0
  Reports <- RetryableOnly
  Faulty = {0, 1, 2}
  Misfit = {}
  Artifacts = {}
  Ops = {"cancel","pause"}
  Ticks = {"grace","run","start","attempt","retry","delay","lease"}
  MaxSessions = 1
CHECK_DEADLOCK FALSE
PROPERTY Settles
 
INVARIANT WaitsAreBacked
 
