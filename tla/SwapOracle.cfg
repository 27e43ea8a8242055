\* Two requests that share the cache; a cached rate outlives its prices
\* (CacheTTL > MaxPriceAge), and the clock passes both limits.
CONSTANTS
  healthCheckAttemptsToClose = 1
  Requests = {r1, r2}
  Checks = {h1}
  Feeds = {sol, twoz}
  maxRetries = 1
  MaxPriceAge = 1
  CacheTTL = 2
  MaxClock = 2
  NoTime = no_time
  NoRate = no_rate
  NoData = no_data
SYMMETRY OracleSymmetry
SPECIFICATION OracleSpec
INVARIANTS
  AttestedRateWasFresh
  OracleInv
PROPERTY LegacyRatesRunOut
