SPECIFICATION Spec
CONSTANTS
  a1 = a1
  a2 = a2
  Attempts = {a1, a2}
  TTL = 3
  Margin = 1
  StartWithin = 1
  Grace = 1
  DrainGrace = 1
  Stubborn = {a1}
  Undying = {}
  Scenarios <- MCScenarios
PROPERTY RenewalExtends
