SPECIFICATION FairSpec
CONSTANTS
  Procs = {p1}
  Tenants = {t1, t2}
  Events = {e1, e2}
  e1 = e1
  e2 = e2
  t1 = t1
  t2 = t2
  TenantOf <- OneEach
  MaxDeliver = 2
  MaxFaults = 1
  None = None
INVARIANT WakeIsNotLost
PROPERTIES
  
  WorkIsFound
CHECK_DEADLOCK FALSE
