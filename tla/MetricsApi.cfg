\* Pages of two rows; half of the amounts instead of 95 in 100, so that few rows tell the ranks apart.
CONSTANTS
  Trades = {1, 2, 3}
  Dequeues = {4, 5}
  BlockTime <- MCBlockTime
  SolDequeued <- MCSolDequeued
  SECONDS = 2
  PERCENT = 50
  PageSize = 2
  Days = {1, 2}
SPECIFICATION MetricsSpec
INVARIANTS
  StandingRowsAreCounted
  RowsAreCountedOnce
  BucketsHoldAllRows
  PercentileIsNearestRank

