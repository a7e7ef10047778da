SPECIFICATION Spec
CONSTANTS
  MaxTokens = 2
INVARIANTS RecordedWhole
CHECK_DEADLOCK FALSE
