SPECIFICATION FairSpec
CONSTANTS
  N = 3
  Runners <- TwoRunners
  Sleep = 9
  Period = 2
INVARIANTS TypeOK SleepersRest
PROPERTIES ImplementsProcesses SleepersWake EveryoneRuns
CHECK_DEADLOCK FALSE
