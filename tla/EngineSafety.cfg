SPECIFICATION Spec
CONSTANTS
  a = a
  b = b
  c1 = c1
  w1 = w1
  w2 = w2
  NoRun = NoRun
  Fresh = {a, b}
  Named = {}
  Tickers = {}
  Renamed = {a, b}
  Seeded = {}
  Clients = {c1}
  Workers = {w1, w2}
  Horizon = 1
  MaxAttempt = 1
  MaxCalls = 2
  MaxRestarts = 1
  MaxFaults = 1
SYMMETRY Symmetry
INVARIANTS TypeOK SingleHolder NoLostWakeup SettledIsFinal RecordBacksRun
PROPERTIES NotEarly
CHECK_DEADLOCK FALSE
