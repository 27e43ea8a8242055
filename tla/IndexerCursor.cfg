\* The cursor names a transaction that the node did not know.
CONSTANTS
  Transactions <- OneTrade
  PageLimit = 2
  concurrency = 1
  MaxTx = 2
SPECIFICATION IndexerSpec
INVARIANT CursorIsProcessed
