CONSTANTS
  Candidates <- MCCandidates
  Fixed <- MCFixed
  Keepers <- MCKeepers
  Data <- MCData
  Requests <- MCRequests
  MaxRequests = 3
  MaxRounds = 6
SPECIFICATION Spec
CHECK_DEADLOCK FALSE
INVARIANTS TypesAreRight AbortsAreKnown
PROPERTIES PureIsPure
