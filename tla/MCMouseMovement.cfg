CONSTANTS
  Desktop = 7  Width = 5  MenuWidth = 3
  Lefts <- MCLefts
  Steps <- MCSteps
  MaxMoved = 3  MaxInbox = 2
SPECIFICATION FairSpec
INVARIANTS TypeOK
PROPERTIES ViewFollowsMouse CursorIsFree CursorIsReleased
