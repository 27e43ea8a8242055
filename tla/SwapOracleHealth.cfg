\* One request, two overlapping health checks, the breaker's own threshold, and
\* retries: who opens the breaker, when it closes, and that requests end.
CONSTANTS
  healthCheckAttemptsToClose = 3
  Requests = {r1}
  Checks = {h1, h2}
  Feeds = {sol, twoz}
  maxRetries = 2
  MaxPriceAge = 0
  CacheTTL = 1
  MaxClock = 1
  NoTime = no_time
  NoRate = no_rate
  NoData = no_data
SPECIFICATION OracleFairSpec
INVARIANTS
  ClosedWhenRecovered
  UnhealthyMeansOpen
PROPERTIES
  OpensOnOutage
  RequestsAnswered
  BreakerRecovers
