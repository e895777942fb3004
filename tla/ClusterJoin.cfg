SPECIFICATION FairSpec
CONSTANTS
  Seed = Seed
  Joiners = {a, b}
  Nowhere = Nowhere
  None = None
  MaxCalls = 1
INVARIANTS IdsAreDistinct OneJoinIsSafe
PROPERTIES WaitsEnd
CHECK_DEADLOCK FALSE
