SPECIFICATION FairSpec
CONSTANTS
  MaxTokens = 2
INVARIANTS StreamTypeOK NoMissedWake SeenIsReply WholeAnswer
PROPERTIES RequestEnds StreamDrains
CHECK_DEADLOCK FALSE
