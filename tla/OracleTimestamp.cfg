\* A cached rate is attested with the time of the answer, not that of the rate.
CONSTANTS
  healthCheckAttemptsToClose = 1
  Requests = {r1}
  Checks = {h1}
  Feeds = {sol, twoz}
  maxRetries = 1
  MaxPriceAge = 1
  CacheTTL = 1
  MaxClock = 1
  NoTime = no_time
  NoRate = no_rate
  NoData = no_data
SPECIFICATION OracleSpec
INVARIANT TimestampIsGenerationTime
