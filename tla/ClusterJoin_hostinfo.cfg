SPECIFICATION Spec
CONSTANTS
  Seed = Seed
  Joiners = {a, b}
  Nowhere = Nowhere
  None = None
  MaxCalls = 1
INVARIANT HostInfoComes
CHECK_DEADLOCK FALSE
