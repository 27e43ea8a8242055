\* Recovery over pages of one and of two signatures, with errors and restarts.
CONSTANTS
  Transactions <- OneTrade
  PageLimit = 2
  concurrency = 1
  MaxTx = 4
SPECIFICATION IndexerFairSpec
INVARIANTS
  RecoveryComplete
  IndexerInv
PROPERTY RecoveryReturns
