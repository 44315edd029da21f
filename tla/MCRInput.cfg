CONSTANTS
  NULL = NULL
  SAMPLE_COUNT = 2
  MaxInput = 3
SPECIFICATION FairSpec
INVARIANTS TypeOK MovementIsKept CvarTellsTheTruth
PROPERTIES QuitIsForTheThread WaitingEnds
CHECK_DEADLOCK FALSE
