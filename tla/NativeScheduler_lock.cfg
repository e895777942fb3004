SPECIFICATION FairSpec
CONSTANTS
  N = 2
  Runners <- OneRunner
  Sleep = 5
  Period = 2
PROPERTY InterruptEnds
CHECK_DEADLOCK FALSE
