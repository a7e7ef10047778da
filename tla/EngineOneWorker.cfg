SPECIFICATION FairSpec
CONSTANTS
  a = a
  k = k
  b = b
  w1 = w1
  NoRun = NoRun
  Fresh = {a, b}
  Named = {k}
  Tickers = {k}
  Renamed = {}
  Seeded = {a}
  Clients = {}
  Workers = {w1}
  Horizon = 1
  MaxAttempt = 1
  MaxCalls = 2
  MaxRestarts = 1
  MaxFaults = 0
INVARIANTS Durable
PROPERTIES EventuallyReturns
CHECK_DEADLOCK FALSE
