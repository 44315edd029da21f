CONSTANTS
  Thread = {t1, t2}  NULL = NULL
  ALARM = 1  CALM = 0  ClockWrap = 3  MaxFreeze = 2
SPECIFICATION FairSpec
INVARIANTS TypeOK EveryWatchdogIsKnown
PROPERTIES AlarmHasCause HangIsReported DisablingEnds
CHECK_DEADLOCK FALSE
