\* Both sources at work on three transactions, two of them in the pool at a time.
CONSTANTS
  Transactions <- MCTransactions
  PageLimit = 2
  concurrency = 2
  MaxTx = 3
SPECIFICATION IndexerSpec
INVARIANT NothingElseIsLost
PROPERTY ImplementsTables
