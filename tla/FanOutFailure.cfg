SPECIFICATION Spec
CONSTANTS
  Trees <- Race
  Sels = {}
  None = None
  MaxFaults = 0
INVARIANTS OneOutlivesFailure
CHECK_DEADLOCK FALSE
