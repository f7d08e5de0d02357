SPECIFICATION FairSpec
CONSTANTS
  a1 = a1
  a2 = a2
  Attempts = {a1, a2}
  TTL = 2
  Margin = 1
  StartWithin = 1
  Grace = 1
  DrainGrace = 1
  Stubborn = {a1}
  Undying = {}
  Scenarios <- MCScenarios
INVARIANT ChildrenWithinSlots
PROPERTY ReportsAreTrue
PROPERTY LeaseCoversHandler
PROPERTY OldRunnersAreStopped
PROPERTY EveryAttemptEnds
