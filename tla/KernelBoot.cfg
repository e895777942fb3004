SPECIFICATION FairSpec
CONSTANTS
  Main <- MainsOf
  Inocaps <- InocapsOf
  Preamble <- PreambleOf
  Resources <- ResourcesOf
  MaxKeys = 1
  None = None
  Nothing = Nothing
INVARIANTS PanicsAreKnown MainRunsOnce PrintsInOrder RefsAreRight
PROPERTIES ProgramsRun
CHECK_DEADLOCK FALSE
