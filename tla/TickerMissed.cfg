SPECIFICATION TickerSpec
CONSTANTS
  a = a
  b = b
  m = m
  c = c
  k = k
  w1 = w1
  w2 = w2
  NoRun = NoRun
  Fresh = {a, b}
  Named = {k}
  Tickers = {k}
  Renamed = {}
  Seeded = {}
  Clients = {m}
  Workers = {w1}
  Horizon = 3
  MaxAttempt = 0
  MaxCalls = 6
  MaxRestarts = 1
  MaxFaults = 0
  tick = k
  main = m
  Minutes = {1, 2, 3}
  Year = 3
  CatchUp = FALSE
SYMMETRY Symmetry
INVARIANTS MissedTickFires
CHECK_DEADLOCK FALSE
