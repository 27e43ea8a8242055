\* Every valid configuration at a coarse scale, up to and past the slot of the cap.
CONSTANTS
  COEFFICIENT_SCALE = 6
  RATE_SCALE = 4
  LAMPORTS_PER_SOL = 7
  AuctionRates = {1, 5, 12, 37}
  FirstSlots = {0, 1}
  LastSlot = 9
SPECIFICATION AuctionSpec
INVARIANT DiscountAsCommented
PROPERTY AskOnlyFalls
CHECK_DEADLOCK FALSE
