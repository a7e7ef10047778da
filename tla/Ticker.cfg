SPECIFICATION TickerSpec
CONSTANTS
  a = a
  b = b
  m = m
  c = c
  k = k
  w1 = w1
  w2 = w2
  NoRun = NoRun
  Fresh = {a, b}
  Named = {k}
  Tickers = {k}
  Renamed = {}
  Seeded = {}
  Clients = {m, c}
  Workers = {w1}
  Horizon = 3
  MaxAttempt = 0
  MaxCalls = 4
  MaxRestarts = 1
  MaxFaults = 1
  tick = k
  main = m
  Minutes = {1}
  Year = 1
  CatchUp = TRUE
SYMMETRY Symmetry
INVARIANTS TickerTypeOK TickerAlive TickOnce
PROPERTIES CancelledStops
CHECK_DEADLOCK FALSE
