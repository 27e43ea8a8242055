\* Two buyers of whom one is also every authority, two trades, a registry of one fill:
\* it is full after a trade, and a dequeue of 2 takes a fill of 2 and splits one of 3.
CONSTANTS
  MAX_FILLS_QUEUE_SIZE = 1
  U64_MAX = 12
  SolAmounts = {2, 3}
  TokenAmounts <- MCTokenAmounts
  DequeueLimits = {2}
  MaxTrades = 2
  COEFFICIENT_SCALE = 8
  RATE_SCALE = 8
  LAMPORTS_PER_SOL = 3
  Accounts = {authority, buyer}
  Officers = {authority}
  UpgradeAuthority = authority
  DefaultKey = default
  OracleKeys = {oracle}
  SolQuantities = {2, 3}
  MaximumAges = {1}
  Coefficients = {1}
  DiscountRates = {2, 5}
  None = none
  MAX_DENY_LIST_SIZE = 1
  MaxUpdateCount = 1
  SwapRates = {0, 5}
  BidPrices = {2, 4}
  Wallet = 9
  Deposits = {5}
  MaxFunded = 5
  MaxSlot = 3
  MaxTime = 2
  NoTrade = no_trade
  NoQuote = no_quote
SPECIFICATION ConverterSpec
INVARIANTS
  ConverterTypeOK
  
  AtMostOneTradePerSlot
  QuoteStaysGood
PROPERTIES
  SolLeavesForAllowedTrades
  TradesWithinBidAndRates
  ImplementsRegistry
CHECK_DEADLOCK FALSE
