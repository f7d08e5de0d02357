SPECIFICATION Spec
CONSTANTS
  Schedules = {s1}
  Evaluators = {v1, v2}
  Horizon = 6
  Wall <- PutBack
  Defs = {d1, d2}
  d1 = d1
  d2 = d2
  Matching <- MatchingOf
  Pinned = {d2}
  FoldWindow = 3
  MaxActive = 1
  MaxRuns = 2
  MaxTokens = 1
  MaxRev = 2
  None = None
CHECK_DEADLOCK FALSE
INVARIANT OncePerWallTime
INVARIANT OneLiveRun
INVARIANT SlotsAccounted
PROPERTY EvaluationsAreCurrent
