SPECIFICATION FairSpec
CONSTANTS
  None = None
  Asked = 2
  MaxCalls = 3
  MaxArgs = 2
  MaxCallbacks = 2
INVARIANTS NothingElseIsLost
PROPERTIES ImplementsDataflow RequestsAnswered
CHECK_DEADLOCK FALSE
