SPECIFICATION Spec
CONSTANTS
  a = a
  b = b
  boot = boot
  w1 = w1
  w2 = w2
  Workers = {w1, w2}
  None = None
  Requests = {a, b}
  Scripts <- MCScripts
  At = 1
  Threshold = 2
  Horizon = 3
  MaxFails = 4
  MaxRestarts = 2
  MaxFaults = 1
INVARIANTS
  JobTypeOK
  StepOnce
  WaitsResumed
  OnceFires
CONSTRAINT Followed
SYMMETRY Symmetry
CHECK_DEADLOCK FALSE
