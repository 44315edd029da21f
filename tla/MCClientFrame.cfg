CONSTANTS
  MaxConsoleLines = 2  MaxText = 6
  Protocol = 2
  MinFps = 125  MaxFps = 250  OriginalMaxFps = 1000
  FpsValues = {85, 125, 333}
SPECIFICATION FairSpec
INVARIANTS TypeOK CommandLineIsSplit  ClipFixIsServers
PROPERTIES LimitIsLifted
