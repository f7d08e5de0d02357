SPECIFICATION Spec
CONSTANTS
  Clients = {c1, c2}
  Users = {u1, u2}
  u1 = u1
  u2 = u2
  KeyIds = {1, 2, 3, 4}
  Bundles = {b1, b2}
  b1 = b1
  b2 = b2
  Scenarios <- AllScenarios
  None = None
CHECK_DEADLOCK FALSE
INVARIANT OwnerRemains
 
INVARIANT OneLiveSuccessor
PROPERTY ActivationsChain
