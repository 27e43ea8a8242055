\* Three slots and four trades: the ring wraps, and u64 totals up to 14 overflow.
CONSTANTS
  MAX_FILLS_QUEUE_SIZE = 3
  U64_MAX = 14
  SolAmounts = {0, 2, 5}
  TokenAmounts = {0, 3, 7}
  DequeueLimits = {0, 1, 3, 14}
  MaxTrades = 4
SPECIFICATION RegistryFairSpec
INVARIANTS
  QueueHoldsUndequeuedTrades
  NoArithmeticError
  PendingTotalsMatchQueue
PROPERTIES
  DequeueTakesExactly
  ImplementsLedger
  DequeueReturns
