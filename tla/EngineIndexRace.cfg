SPECIFICATION Spec
CONSTANTS
  a = a
  b = b
  c1 = c1
  c2 = c2
  w1 = w1
  NoRun = NoRun
  Fresh = {a, b}
  Named = {}
  Tickers = {}
  Renamed = {}
  Seeded = {}
  Clients = {c1, c2}
  Workers = {w1}
  Horizon = 1
  MaxAttempt = 1
  MaxCalls = 2
  MaxRestarts = 0
  MaxFaults = 0
SYMMETRY Symmetry
INVARIANTS Durable
CHECK_DEADLOCK FALSE
