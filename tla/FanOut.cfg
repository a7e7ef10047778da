SPECIFICATION FairSpec
CONSTANTS
  Trees <- Various
  Sels = {x, y}
  None = None
  MaxFaults = 1
INVARIANTS FanOutTypeOK TriggersOnce NoOrphans WinnerStands ConflictSeen RepliesInOrder
PROPERTIES GroupEndsAtLast
CHECK_DEADLOCK FALSE
