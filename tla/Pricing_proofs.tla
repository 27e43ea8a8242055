--------------------------- MODULE Pricing_proofs ---------------------------
(***************************************************************************)
(* What the converter program accepts as its configuration, who may change *)
(* it, whom the deny list denies, for every set of accounts, keys and      *)
(* inputs; and what the price formula makes of such a configuration, for   *)
(* every scale, swap rate and number of slots.                             *)
(***************************************************************************)
EXTENDS SystemManagement, Auction, SharedLemmas, TLAPS

-----------------------------------------------------------------------------
(* The price *)

\* The types of the quantities a discount is made of.
LEMMA DiscountParts ==
  ASSUME NEW c, IsPricing(c), ValidPricing(c),
         NEW s_last \in Nat, NEW s_now \in Nat, s_last <= s_now
  PROVE  /\ MinDiscount(c) \in Nat /\ MaxDiscount(c) \in Nat
         /\ GrownDiscount(c, s_last, s_now) \in Nat
         /\ MinDiscount(c) <= GrownDiscount(c, s_last, s_now)
         /\ MinDiscount(c) <= MaxDiscount(c)
         /\ MaxDiscount(c) <= DISCOUNT_SCALE
         /\ DISCOUNT_SCALE \in Nat \ {0}
<1> USE ScaleAssumption
<1>1. /\ c.coefficient \in Nat /\ c.min_discount_rate \in Nat /\ c.max_discount_rate \in Nat
      /\ c.min_discount_rate <= c.max_discount_rate /\ c.max_discount_rate <= RATE_SCALE
      /\ s_now - s_last \in Nat
  BY DEF IsPricing, ValidPricing
<1>2. MinDiscount(c) \in Nat /\ MaxDiscount(c) \in Nat
  BY <1>1 DEF MinDiscount, MaxDiscount
<1>3. c.coefficient * (s_now - s_last) * RATE_SCALE \in Nat
  <2>1. c.coefficient * (s_now - s_last) \in Nat
    BY <1>1
  <2>2. QED
    BY <2>1
<1>4. /\ GrownDiscount(c, s_last, s_now) \in Nat
      /\ MinDiscount(c) <= GrownDiscount(c, s_last, s_now)
  BY <1>2, <1>3 DEF GrownDiscount
<1>5. /\ COEFFICIENT_SCALE * c.min_discount_rate <= COEFFICIENT_SCALE * c.max_discount_rate
      /\ COEFFICIENT_SCALE * c.max_discount_rate <= COEFFICIENT_SCALE * RATE_SCALE
  BY <1>1, ProductMonotone
<1>6. MinDiscount(c) <= MaxDiscount(c) /\ MaxDiscount(c) <= DISCOUNT_SCALE
  BY <1>1, <1>5 DEF MinDiscount, MaxDiscount, DISCOUNT_SCALE
<1>7. DISCOUNT_SCALE \in Nat \ {0}
  BY DEF DISCOUNT_SCALE
<1>8. QED
  BY <1>2, <1>4, <1>6, <1>7

\* The discount lies between the two discount rates, whatever the coefficient and
\* however many slots have passed (calculate_ask_price.rs:89-92).
THEOREM DiscountWithinRates ==
  ASSUME NEW c, IsPricing(c), ValidPricing(c),
         NEW s_last \in Nat, NEW s_now \in Nat, s_last <= s_now
  PROVE  /\ Discount(c, s_last, s_now) \in Nat
         /\ MinDiscount(c) <= Discount(c, s_last, s_now)
         /\ Discount(c, s_last, s_now) <= MaxDiscount(c)
  BY DiscountParts DEF Discount

\* The discount is a fraction.
LEMMA DiscountWithinScale ==
  ASSUME NEW c, IsPricing(c), ValidPricing(c),
         NEW s_last \in Nat, NEW s_now \in Nat, s_last <= s_now
  PROVE  Discount(c, s_last, s_now) \in Nat /\ Discount(c, s_last, s_now) <= DISCOUNT_SCALE
<1>1. Discount(c, s_last, s_now) \in Nat /\ Discount(c, s_last, s_now) <= MaxDiscount(c)
  BY DiscountWithinRates
<1>2. MaxDiscount(c) \in Nat /\ MaxDiscount(c) <= DISCOUNT_SCALE /\ DISCOUNT_SCALE \in Nat
  BY DiscountParts
<1>3. QED
  BY <1>1, <1>2

\* Under every configuration that the two instructions accept, the code's formula
\* gives the discount of the comment at calculate_ask_price.rs:76: the outer maximum
\* that the code leaves out never matters.
THEOREM DiscountIsAsCommented ==
  ASSUME NEW c, IsPricing(c), ValidPricing(c),
         NEW s_last \in Nat, NEW s_now \in Nat, s_last <= s_now
  PROVE  Discount(c, s_last, s_now) = CommentedDiscount(c, s_last, s_now)
<1>1. MinDiscount(c) \in Nat /\ Discount(c, s_last, s_now) \in Nat
  BY DiscountParts, DiscountWithinRates
<1>2. MinDiscount(c) <= Discount(c, s_last, s_now)
  BY DiscountWithinRates
<1>3. Discount(c, s_last, s_now) <= MinDiscount(c) => MinDiscount(c) = Discount(c, s_last, s_now)
  BY <1>1, <1>2
<1>4. CommentedDiscount(c, s_last, s_now)
        = IF Discount(c, s_last, s_now) <= MinDiscount(c)
          THEN MinDiscount(c) ELSE Discount(c, s_last, s_now)
  BY DEF CommentedDiscount, Discount
<1>5. QED
  BY <1>3, <1>4

\* Without a trade the discount never shrinks.
LEMMA DiscountGrows ==
  ASSUME NEW c, IsPricing(c), ValidPricing(c),
         NEW s_last \in Nat, NEW s \in Nat, NEW s_now \in Nat, s_last <= s, s <= s_now
  PROVE  Discount(c, s_last, s) <= Discount(c, s_last, s_now)
<1> USE ScaleAssumption
<1>1. c.coefficient \in Nat /\ s - s_last \in Nat /\ s_now - s_last \in Nat
  BY DEF IsPricing
<1>2. c.coefficient * (s - s_last) <= c.coefficient * (s_now - s_last)
  BY <1>1, ProductMonotone
<1>3. c.coefficient * (s - s_last) \in Nat /\ c.coefficient * (s_now - s_last) \in Nat
  BY <1>1
<1> DEFINE x == c.coefficient * (s - s_last)
           y == c.coefficient * (s_now - s_last)
<1>4. RATE_SCALE * x <= RATE_SCALE * y
  BY <1>2, <1>3, ProductMonotone
<1>5. x * RATE_SCALE <= y * RATE_SCALE /\ x * RATE_SCALE \in Nat /\ y * RATE_SCALE \in Nat
  <2> HIDE DEF x, y
  <2>1. x \in Nat /\ y \in Nat
    BY <1>3 DEF x, y
  <2>2. QED
    BY <1>4, <2>1
<1>6. MinDiscount(c) \in Nat /\ MaxDiscount(c) \in Nat
  BY DiscountParts
<1>7. GrownDiscount(c, s_last, s) <= GrownDiscount(c, s_last, s_now)
  BY <1>5, <1>6 DEF GrownDiscount
<1>8. GrownDiscount(c, s_last, s) \in Nat /\ GrownDiscount(c, s_last, s_now) \in Nat
  <2>1. s_last <= s_now
    OBVIOUS
  <2>2. QED
    BY <2>1, DiscountParts
<1>9. QED
  BY <1>6, <1>7, <1>8 DEF Discount

\* What a smaller or greater discount does to the price.
LEMMA PriceFalls ==
  ASSUME NEW swap_rate \in Nat, NEW d \in Nat, NEW e \in Nat,
         d <= e, e <= DISCOUNT_SCALE, DISCOUNT_SCALE \in Nat \ {0}
  PROVE  /\ (swap_rate * (DISCOUNT_SCALE - e)) \div DISCOUNT_SCALE
              <= (swap_rate * (DISCOUNT_SCALE - d)) \div DISCOUNT_SCALE
         /\ (swap_rate * (DISCOUNT_SCALE - e)) \div DISCOUNT_SCALE \in Nat
<1>1. /\ DISCOUNT_SCALE - e \in Nat /\ DISCOUNT_SCALE - d \in Nat
      /\ DISCOUNT_SCALE - e <= DISCOUNT_SCALE - d
  OBVIOUS
<1>2. swap_rate * (DISCOUNT_SCALE - e) <= swap_rate * (DISCOUNT_SCALE - d)
  BY <1>1, ProductMonotone
<1>3. swap_rate * (DISCOUNT_SCALE - e) \in Nat /\ swap_rate * (DISCOUNT_SCALE - d) \in Nat
  BY <1>1
<1>4. QED
  BY <1>2, <1>3, QuotientMonotone, DivisionBounds

\* A quote stays good: while no trade happens and the configuration stands, the
\* ask price for a given swap rate never rises from one slot to a later one.
THEOREM AskNeverRises ==
  ASSUME NEW c, IsPricing(c), ValidPricing(c), NEW swap_rate \in Nat,
         NEW s_last \in Nat, NEW s \in Nat, NEW s_now \in Nat, s_last <= s, s <= s_now
  PROVE  ConversionRate(swap_rate, c, s_last, s_now) <= ConversionRate(swap_rate, c, s_last, s)
<1>1. s_last <= s_now
  OBVIOUS
<1>2. /\ Discount(c, s_last, s) \in Nat /\ Discount(c, s_last, s_now) \in Nat
      /\ Discount(c, s_last, s_now) <= DISCOUNT_SCALE /\ DISCOUNT_SCALE \in Nat \ {0}
  <2>1. Discount(c, s_last, s) \in Nat
    BY DiscountWithinRates
  <2>2. Discount(c, s_last, s_now) \in Nat /\ Discount(c, s_last, s_now) <= DISCOUNT_SCALE
    BY <1>1, DiscountWithinScale
  <2>3. DISCOUNT_SCALE \in Nat \ {0}
    BY DiscountParts
  <2>4. QED
    BY <2>1, <2>2, <2>3
<1>3. Discount(c, s_last, s) <= Discount(c, s_last, s_now)
  BY DiscountGrows
<1>4. QED
  BY <1>2, <1>3, PriceFalls DEF ConversionRate

\* The ask price lies between the swap rate at the maximum discount and the swap
\* rate at the minimum discount, and never above the swap rate.
THEOREM AskWithinRates ==
  ASSUME NEW c, IsPricing(c), ValidPricing(c), NEW swap_rate \in Nat,
         NEW s_last \in Nat, NEW s_now \in Nat, s_last <= s_now
  PROVE  LET ask == ConversionRate(swap_rate, c, s_last, s_now)
         IN  /\ ask \in Nat
             /\ (swap_rate * (DISCOUNT_SCALE - MaxDiscount(c))) \div DISCOUNT_SCALE <= ask
             /\ ask <= (swap_rate * (DISCOUNT_SCALE - MinDiscount(c))) \div DISCOUNT_SCALE
             /\ ask <= swap_rate
<1>1. /\ Discount(c, s_last, s_now) \in Nat /\ Discount(c, s_last, s_now) <= DISCOUNT_SCALE
      /\ MinDiscount(c) <= Discount(c, s_last, s_now)
      /\ Discount(c, s_last, s_now) <= MaxDiscount(c)
      /\ MinDiscount(c) \in Nat /\ MaxDiscount(c) \in Nat /\ MaxDiscount(c) <= DISCOUNT_SCALE
      /\ DISCOUNT_SCALE \in Nat \ {0}
  <2>1. Discount(c, s_last, s_now) \in Nat /\ Discount(c, s_last, s_now) <= DISCOUNT_SCALE
    BY DiscountWithinScale
  <2>2. /\ MinDiscount(c) <= Discount(c, s_last, s_now)
        /\ Discount(c, s_last, s_now) <= MaxDiscount(c)
    BY DiscountWithinRates
  <2>3. /\ MinDiscount(c) \in Nat /\ MaxDiscount(c) \in Nat /\ MaxDiscount(c) <= DISCOUNT_SCALE
        /\ DISCOUNT_SCALE \in Nat \ {0}
    BY DiscountParts
  <2>4. QED
    BY <2>1, <2>2, <2>3
<1>2. /\ (swap_rate * (DISCOUNT_SCALE - MaxDiscount(c))) \div DISCOUNT_SCALE
           <= ConversionRate(swap_rate, c, s_last, s_now)
      /\ ConversionRate(swap_rate, c, s_last, s_now)
           <= (swap_rate * (DISCOUNT_SCALE - MinDiscount(c))) \div DISCOUNT_SCALE
      /\ ConversionRate(swap_rate, c, s_last, s_now) \in Nat
  BY <1>1, PriceFalls DEF ConversionRate
<1>3. (swap_rate * (DISCOUNT_SCALE - 0)) \div DISCOUNT_SCALE = swap_rate
  <2> DEFINE q == (swap_rate * DISCOUNT_SCALE) \div DISCOUNT_SCALE
  <2>1. swap_rate * DISCOUNT_SCALE \in Nat
    BY <1>1
  <2>2. q \in Nat /\ q * DISCOUNT_SCALE <= swap_rate * DISCOUNT_SCALE
        /\ swap_rate * DISCOUNT_SCALE < q * DISCOUNT_SCALE + DISCOUNT_SCALE
    BY <1>1, <2>1, DivisionBounds
  <2> HIDE DEF q
  <2>3. q = swap_rate
    BY <1>1, <2>2
  <2>4. QED
    BY <1>1, <2>3 DEF q
<1>4. ConversionRate(swap_rate, c, s_last, s_now) <= swap_rate
  BY <1>1, <1>3, PriceFalls DEF ConversionRate
<1>5. QED
  BY <1>2, <1>4

\* What a buyer pays never exceeds the bid: buy_sol rejects a bid below the ask and
\* charges the ask, rounded down.
THEOREM TokensWithinBid ==
  ASSUME NEW sol_quantity \in Nat, NEW ask_price \in Nat, NEW bid_price \in Nat,
         ask_price <= bid_price
  PROVE  /\ TokensRequired(sol_quantity, ask_price) \in Nat
         /\ TokensRequired(sol_quantity, ask_price) * LAMPORTS_PER_SOL <= sol_quantity * bid_price
         /\ TokensRequired(0, ask_price) = 0
<1> USE ScaleAssumption
<1>1. sol_quantity * ask_price \in Nat /\ sol_quantity * bid_price \in Nat
  OBVIOUS
<1>2. sol_quantity * ask_price <= sol_quantity * bid_price
  BY ProductMonotone
<1>3. /\ TokensRequired(sol_quantity, ask_price) \in Nat
      /\ TokensRequired(sol_quantity, ask_price) * LAMPORTS_PER_SOL <= sol_quantity * ask_price
  BY <1>1, DivisionBounds DEF TokensRequired
<1>4. TokensRequired(sol_quantity, ask_price) * LAMPORTS_PER_SOL <= sol_quantity * bid_price
  <2>1. TokensRequired(sol_quantity, ask_price) * LAMPORTS_PER_SOL \in Nat
    BY <1>3
  <2>2. QED
    BY <1>1, <1>2, <1>3, <2>1
<1>5. TokensRequired(0, ask_price) = 0
  <2>1. 0 * ask_price = 0
    OBVIOUS
  <2>2. QED
    BY <2>1 DEF TokensRequired
<1>6. QED
  BY <1>3, <1>4, <1>5

LEMMA TokensAreNatural ==
  ASSUME NEW sol_quantity \in Nat, NEW ask_price \in Nat
  PROVE  TokensRequired(sol_quantity, ask_price) \in Nat
<1>1. ask_price <= ask_price
  OBVIOUS
<1>2. QED
  BY <1>1, TokensWithinBid

(***************************************************************************)
(* Two truncations, of the price and of the amount, cost less than a unit  *)
(* each: what a buyer pays for sol_quantity lamports is at most the swap   *)
(* rate at the minimum discount, and at least the swap rate at the maximum *)
(* discount, less a unit of 2Z and one of the price.                       *)
(***************************************************************************)
LEMMA TokensWithinRates ==
  ASSUME NEW c, IsPricing(c), ValidPricing(c), NEW swap_rate \in Nat, NEW sol_quantity \in Nat,
         NEW s_last \in Nat, NEW s_now \in Nat, s_last <= s_now,
         NEW ask, ask = ConversionRate(swap_rate, c, s_last, s_now),
         NEW tokens, tokens = TokensRequired(sol_quantity, ask)
  PROVE  LET paid(rate) == sol_quantity * swap_rate * (RATE_SCALE - rate)
             scale      == LAMPORTS_PER_SOL * RATE_SCALE
         IN  /\ tokens * scale <= paid(c.min_discount_rate)
             /\ paid(c.max_discount_rate) < (tokens + 1) * scale + sol_quantity * RATE_SCALE
<1> USE ScaleAssumption
<1> DEFINE C == COEFFICIENT_SCALE
           R == RATE_SCALE
           L == LAMPORTS_PER_SOL
           d == Discount(c, s_last, s_now)
           lo == c.min_discount_rate
           hi == c.max_discount_rate
           n == swap_rate * (DISCOUNT_SCALE - d)
<1>1. /\ C \in Nat \ {0} /\ R \in Nat \ {0} /\ L \in Nat \ {0}
      /\ lo \in Nat /\ hi \in Nat /\ lo < hi /\ hi <= R
  BY DEF IsPricing, ValidPricing
<1>2. /\ d \in Nat /\ lo * C <= d /\ d <= hi * C
      /\ DISCOUNT_SCALE = C * R /\ DISCOUNT_SCALE \in Nat \ {0} /\ d <= DISCOUNT_SCALE
  BY DiscountWithinRates, DiscountWithinScale, DiscountParts
  DEF MinDiscount, MaxDiscount, DISCOUNT_SCALE
<1>3. ask = n \div DISCOUNT_SCALE /\ tokens = (sol_quantity * ask) \div L
  BY DEF ConversionRate, TokensRequired
<1> HIDE DEF C, R, L, lo, hi, d
<1>4. /\ R - lo \in Nat /\ R - hi \in Nat
      /\ DISCOUNT_SCALE - d \in Nat
      /\ DISCOUNT_SCALE - d <= (R - lo) * C
      /\ (R - hi) * C <= DISCOUNT_SCALE - d
  <2>1. /\ (R - lo) * C = C * R - lo * C /\ (R - hi) * C = C * R - hi * C
        /\ lo * C \in Nat /\ hi * C \in Nat
    BY <1>1
  <2>2. QED
    BY <1>1, <1>2, <2>1
<1>5. n \in Nat
  BY <1>4
<1>6. ask \in Nat /\ ask * DISCOUNT_SCALE <= n /\ n < ask * DISCOUNT_SCALE + DISCOUNT_SCALE
  BY <1>2, <1>3, <1>5, DivisionBounds
<1>7. /\ tokens \in Nat /\ tokens * L <= sol_quantity * ask
      /\ sol_quantity * ask < tokens * L + L
  <2>1. sol_quantity * ask \in Nat
    BY <1>6
  <2>2. QED
    BY <1>1, <1>3, <2>1, DivisionBounds
<1>8. n <= (swap_rate * (R - lo)) * C /\ (swap_rate * (R - hi)) * C <= n
  <2>1. swap_rate * (DISCOUNT_SCALE - d) <= swap_rate * ((R - lo) * C)
    BY <1>1, <1>4, ProductMonotone
  <2>2. swap_rate * ((R - hi) * C) <= swap_rate * (DISCOUNT_SCALE - d)
    BY <1>1, <1>4, ProductMonotone
  <2>3. /\ swap_rate * ((R - lo) * C) = (swap_rate * (R - lo)) * C
        /\ swap_rate * ((R - hi) * C) = (swap_rate * (R - hi)) * C
    BY <1>1
  <2>4. QED
    BY <2>1, <2>2, <2>3
<1> HIDE DEF n
<1>9. ask * R <= swap_rate * (R - lo) /\ swap_rate * (R - hi) < (ask + 1) * R
  <2>1. /\ (ask * R) * C = ask * DISCOUNT_SCALE
        /\ ((ask + 1) * R) * C = ask * DISCOUNT_SCALE + DISCOUNT_SCALE
    BY <1>1, <1>2, <1>6
  <2>2. /\ swap_rate * (R - lo) \in Int /\ swap_rate * (R - hi) \in Int
        /\ ask * R \in Int /\ (ask + 1) * R \in Int /\ ask * DISCOUNT_SCALE \in Int
        /\ (swap_rate * (R - lo)) * C \in Int /\ (swap_rate * (R - hi)) * C \in Int
    BY <1>1, <1>2, <1>6
  <2>3. /\ (ask * R) * C <= (swap_rate * (R - lo)) * C
        /\ (swap_rate * (R - hi)) * C < ((ask + 1) * R) * C
    BY <1>2, <1>5, <1>6, <1>8, <2>1, <2>2
  <2>4. QED
    BY <1>1, <2>2, <2>3, FactorCancelled
<1>10. tokens * (L * R) <= sol_quantity * swap_rate * (R - lo)
  <2>1. R * (tokens * L) <= R * (sol_quantity * ask)
    <3>1. tokens * L \in Nat /\ sol_quantity * ask \in Nat
      BY <1>1, <1>6, <1>7
    <3>2. QED
      BY <1>1, <1>7, <3>1, ProductMonotone
  <2>2. sol_quantity * (ask * R) <= sol_quantity * (swap_rate * (R - lo))
    <3>1. ask * R \in Nat /\ swap_rate * (R - lo) \in Nat
      BY <1>1, <1>4, <1>6
    <3>2. QED
      BY <1>9, <3>1, ProductMonotone
  <2>3. /\ R * (tokens * L) = tokens * (L * R) /\ R * (sol_quantity * ask) = sol_quantity * (ask * R)
        /\ sol_quantity * (swap_rate * (R - lo)) = sol_quantity * swap_rate * (R - lo)
        /\ tokens * (L * R) \in Int /\ sol_quantity * (ask * R) \in Int
        /\ sol_quantity * swap_rate * (R - lo) \in Int
    BY <1>1, <1>4, <1>6, <1>7
  <2>4. QED
    BY <2>1, <2>2, <2>3
<1>11. sol_quantity * swap_rate * (R - hi) < (tokens + 1) * (L * R) + sol_quantity * R
  <2>1. sol_quantity * (swap_rate * (R - hi)) <= sol_quantity * ((ask + 1) * R)
    <3>1. swap_rate * (R - hi) \in Nat /\ (ask + 1) * R \in Nat
      BY <1>1, <1>4, <1>6
    <3>2. QED
      BY <1>9, <3>1, ProductMonotone
  <2>2. (sol_quantity * ask) * R < ((tokens + 1) * L) * R
    <3>1. /\ sol_quantity * ask \in Nat /\ (tokens + 1) * L \in Nat
          /\ (tokens + 1) * L = tokens * L + L
      BY <1>1, <1>6, <1>7
    <3>2. QED
      BY <1>1, <1>7, <3>1, StrictFactor
  <2>3. /\ sol_quantity * (swap_rate * (R - hi)) = sol_quantity * swap_rate * (R - hi)
        /\ sol_quantity * ((ask + 1) * R) = (sol_quantity * ask) * R + sol_quantity * R
        /\ ((tokens + 1) * L) * R = (tokens + 1) * (L * R)
    BY <1>1, <1>4, <1>6, <1>7
  <2>4. /\ sol_quantity * swap_rate * (R - hi) \in Int /\ (sol_quantity * ask) * R \in Int
        /\ sol_quantity * R \in Int /\ (tokens + 1) * (L * R) \in Int
    BY <1>1, <1>4, <1>6, <1>7
  <2>5. QED
    BY <2>1, <2>2, <2>3, <2>4
<1>12. QED
  BY <1>10, <1>11 DEF R, L, lo, hi

-----------------------------------------------------------------------------
(* An auction, slot after slot *)

AuctionInv ==
  /\ IsPricing(pricing) /\ ValidPricing(pricing) /\ attested_rate \in Nat
  /\ trade_slot \in Nat /\ current_slot \in Nat /\ trade_slot <= current_slot

LEMMA AuctionInvariant == AuctionSpec => []AuctionInv
<1>1. AuctionInit => AuctionInv
  BY ScaleAssumption, AuctionAssumption DEF AuctionInit, AuctionInv, Configurations, IsPricing
<1>2. AuctionInv /\ [NextSlot]_auctionVars => AuctionInv'
  BY DEF AuctionInv, NextSlot, auctionVars, IsPricing, ValidPricing
<1>3. QED
  BY <1>1, <1>2, PTL DEF AuctionSpec

\* The maximum that the comment at calculate_ask_price.rs:76 adds is never the larger
\* one: the code may leave it out, for every valid configuration and in every slot.
THEOREM AuctionDiscountAsCommented == AuctionSpec => []DiscountAsCommented
<1>1. AuctionInv => DiscountAsCommented
  BY DiscountIsAsCommented DEF AuctionInv, DiscountAsCommented
<1>2. QED
  BY <1>1, AuctionInvariant, PTL

\* From one slot to the next the price of an auction does not rise
\* (calculate_ask_price.rs, calculate_conversion_rate).
THEOREM AuctionAskOnlyFalls == AuctionSpec => AskOnlyFalls
<1>1. AuctionInv /\ [NextSlot]_auctionVars => [Ask' <= Ask]_auctionVars
  <2> SUFFICES ASSUME AuctionInv, NextSlot PROVE Ask' <= Ask
    OBVIOUS
  <2>1. /\ IsPricing(pricing) /\ ValidPricing(pricing) /\ attested_rate \in Nat
        /\ trade_slot \in Nat /\ current_slot \in Nat /\ trade_slot <= current_slot
    BY DEF AuctionInv
  <2>2. current_slot' = current_slot + 1 /\ UNCHANGED <<pricing, attested_rate, trade_slot>>
    BY DEF NextSlot
  <2>3. current_slot' \in Nat /\ current_slot <= current_slot'
    BY <2>1, <2>2
  <2>4. ConversionRate(attested_rate, pricing, trade_slot, current_slot')
          <= ConversionRate(attested_rate, pricing, trade_slot, current_slot)
    BY <2>1, <2>3, AskNeverRises
  <2>5. QED
    BY <2>2, <2>4 DEF Ask
<1>2. QED
  BY <1>1, AuctionInvariant, PTL DEF AuctionSpec, AskOnlyFalls

-----------------------------------------------------------------------------
(* The configuration *)

\* The inductive invariant: what the rates are compared with are numbers.
ConfigurationInv ==
  /\ config \in Configuration
  /\ ConfigurationStaysValid
  /\ initialized => config.sol_quantity \in SolQuantities

LEMMA InitHasConfiguration == SystemInit => ConfigurationInv
<1> SUFFICES ASSUME SystemInit PROVE ConfigurationInv
  OBVIOUS
<1>1. config = [oracle_pubkey |-> DefaultKey, sol_quantity |-> 0, price_maximum_age |-> 0,
                fills_consumer |-> DefaultKey, coefficient |-> 0,
                max_discount_rate |-> 0, min_discount_rate |-> 0] /\ ~initialized
  BY DEF SystemInit
<1>2. config \in Configuration
  BY <1>1 DEF Configuration
<1>3. QED
  BY <1>1, <1>2 DEF ConfigurationInv, ConfigurationStaysValid

\* initialize_system checks every field that the pricing depends on.
LEMMA InitializeKeepsConfiguration == InitializeAny => ConfigurationInv'
<1> SUFFICES ASSUME NEW signer \in Accounts, NEW key \in OracleKeys, NEW sol \in SolQuantities,
                    NEW age \in MaximumAges, NEW coefficient \in Coefficients,
                    NEW max \in DiscountRates, NEW min \in DiscountRates,
                    InitializeSystem(signer, key, sol, age, coefficient, max, min)
             PROVE  ConfigurationInv'
  BY DEF InitializeAny
<1>1. /\ sol \in Nat /\ age \in Int /\ coefficient \in Nat /\ max \in Nat /\ min \in Nat
  BY ConfigurationInputsAssumption
<1>2. /\ max <= RATE_SCALE /\ coefficient <= COEFFICIENT_SCALE /\ min < max /\ age > 0
      /\ config' = [oracle_pubkey |-> key, sol_quantity |-> sol, price_maximum_age |-> age,
                    fills_consumer |-> DefaultKey, coefficient |-> coefficient,
                    max_discount_rate |-> max, min_discount_rate |-> min]
  BY DEF InitializeSystem
<1>3. config' \in Configuration
  BY <1>1, <1>2 DEF Configuration
<1>4. ValidPricing(config') /\ config'.price_maximum_age > 0
  BY <1>2 DEF ValidPricing
<1>5. config'.sol_quantity \in SolQuantities
  BY <1>2
<1>6. QED
  BY <1>3, <1>4, <1>5 DEF ConfigurationInv, ConfigurationStaysValid

\* What process_update accepts leaves a valid configuration, whichever fields it names.
LEMMA UpdateKeepsConfiguration ==
  ASSUME ConfigurationInv, NEW signer \in Accounts, NEW input \in ConfigurationInput,
         UpdateConfiguration(signer, input)
  PROVE  ConfigurationInv'
<1>1. initialized /\ config \in Configuration /\ ValidPricing(config)
      /\ config.price_maximum_age > 0 /\ config.sol_quantity \in SolQuantities
  BY DEF UpdateConfiguration, ConfigurationInv, ConfigurationStaysValid
<1>2. InputAccepted(input) /\ config' = Updated(input)
  BY DEF UpdateConfiguration
<1> DEFINE age == UnwrapOr(input.price_maximum_age, config.price_maximum_age)
           coefficient == UnwrapOr(input.coefficient, config.coefficient)
           max == UnwrapOr(input.max_discount_rate, config.max_discount_rate)
           min == UnwrapOr(input.min_discount_rate, config.min_discount_rate)
<1>3. /\ input.oracle_pubkey \in OracleKeys \cup {None}
      /\ input.sol_quantity \in Nat \cup {None} /\ input.price_maximum_age \in Int \cup {None}
      /\ input.coefficient \in Nat \cup {None}
      /\ input.max_discount_rate \in Nat \cup {None} /\ input.min_discount_rate \in Nat \cup {None}
  BY ConfigurationInputsAssumption DEF ConfigurationInput
<1>4. /\ config.oracle_pubkey \in OracleKeys \cup {DefaultKey}
      /\ config.sol_quantity \in Nat /\ config.price_maximum_age \in Int
      /\ config.coefficient \in Nat
      /\ config.max_discount_rate \in Nat /\ config.min_discount_rate \in Nat
      /\ config.fills_consumer \in Accounts \cup {DefaultKey}
  BY <1>1 DEF Configuration
<1>5. /\ age \in Int /\ coefficient \in Nat /\ max \in Nat /\ min \in Nat
      /\ UnwrapOr(input.oracle_pubkey, config.oracle_pubkey) \in OracleKeys \cup {DefaultKey}
      /\ UnwrapOr(input.sol_quantity, config.sol_quantity) \in Nat
  BY <1>3, <1>4 DEF UnwrapOr
<1>6. config' = [oracle_pubkey |-> UnwrapOr(input.oracle_pubkey, config.oracle_pubkey),
                 sol_quantity |-> UnwrapOr(input.sol_quantity, config.sol_quantity),
                 price_maximum_age |-> age, fills_consumer |-> config.fills_consumer,
                 coefficient |-> coefficient,
                 max_discount_rate |-> max, min_discount_rate |-> min]
  BY <1>1, <1>2 DEF Updated, Configuration
<1>7. age > 0 /\ coefficient <= COEFFICIENT_SCALE
  BY <1>1, <1>2 DEF InputAccepted, UnwrapOr, ValidPricing
<1>8. max <= RATE_SCALE
  BY <1>1, <1>2 DEF InputAccepted, UnwrapOr, ValidPricing
<1>9. min < max
  <2>1. CASE input.max_discount_rate # None
    <3>1. max = input.max_discount_rate /\ max > min
      BY <1>2, <2>1 DEF InputAccepted, UnwrapOr
    <3>2. QED
      BY <1>5, <3>1
  <2>2. CASE input.max_discount_rate = None /\ input.min_discount_rate # None
    BY <1>2, <2>2 DEF InputAccepted, UnwrapOr
  <2>3. CASE input.max_discount_rate = None /\ input.min_discount_rate = None
    BY <1>1, <2>3 DEF UnwrapOr, ValidPricing
  <2>4. QED
    BY <2>1, <2>2, <2>3
<1> HIDE DEF age, coefficient, max, min
<1>10. config' \in Configuration
  BY <1>4, <1>5, <1>6 DEF Configuration
<1>11. ValidPricing(config') /\ config'.price_maximum_age > 0
  BY <1>6, <1>7, <1>8, <1>9 DEF ValidPricing
<1>12. UnwrapOr(input.sol_quantity, config.sol_quantity) \in SolQuantities
  BY <1>1 DEF ConfigurationInput, UnwrapOr
<1>13. config'.sol_quantity \in SolQuantities
  BY <1>6, <1>12
<1>14. QED
  BY <1>10, <1>11, <1>13 DEF ConfigurationInv, ConfigurationStaysValid

\* set_fills_consumer leaves the pricing alone.
LEMMA SetConsumerKeepsConfiguration ==
  ASSUME ConfigurationInv, NEW signer \in Accounts, NEW account \in Accounts,
         SetFillsConsumer(signer, account)
  PROVE  ConfigurationInv'
<1>1. /\ initialized
      /\ config' = [config EXCEPT !.fills_consumer = account]
  BY DEF SetFillsConsumer
<1>2. /\ config \in Configuration /\ ValidPricing(config) /\ config.price_maximum_age > 0
      /\ config.sol_quantity \in SolQuantities
  BY <1>1 DEF ConfigurationInv, ConfigurationStaysValid
<1>3. config' \in Configuration
  BY <1>1, <1>2 DEF Configuration
<1>4. /\ config'.coefficient = config.coefficient
      /\ config'.max_discount_rate = config.max_discount_rate
      /\ config'.min_discount_rate = config.min_discount_rate
      /\ config'.price_maximum_age = config.price_maximum_age
      /\ config'.sol_quantity = config.sol_quantity
  BY <1>1, <1>2 DEF Configuration
<1>5. QED
  BY <1>2, <1>3, <1>4 DEF ConfigurationInv, ConfigurationStaysValid, ValidPricing

\* Any other step leaves the configuration as it was.
LEMMA SameConfiguration ==
  ConfigurationInv /\ UNCHANGED <<initialized, config>> => ConfigurationInv'
  BY DEF ConfigurationInv, ConfigurationStaysValid

LEMMA StepKeepsConfiguration ==
  ConfigurationInv /\ [SystemNext]_systemVars => ConfigurationInv'
<1> SUFFICES ASSUME ConfigurationInv, [SystemNext]_systemVars PROVE ConfigurationInv'
  OBVIOUS
<1>1. CASE InitializeAny
  BY <1>1, InitializeKeepsConfiguration
<1>2. CASE Administer
  <2>1. PICK signer \in Accounts :
          \/ \E input \in ConfigurationInput : UpdateConfiguration(signer, input)
          \/ \E account \in Officers :
               \/ SetFillsConsumer(signer, account)
               \/ SetAdmin(signer, account)
               \/ SetDenyListAuthority(signer, account)
          \/ \E address \in Accounts :
               \/ AddToDenyList(signer, address)
               \/ RemoveFromDenyList(signer, address)
          \/ \E set_to \in BOOLEAN : ToggleSystemState(signer, set_to)
    BY <1>2 DEF Administer
  <2>2. CASE \E input \in ConfigurationInput : UpdateConfiguration(signer, input)
    BY <2>2, UpdateKeepsConfiguration
  <2>3. CASE \E account \in Officers : SetFillsConsumer(signer, account)
    BY <2>3, SetConsumerKeepsConfiguration, AccountsAssumption
  <2>4. CASE \E account \in Officers : SetAdmin(signer, account)
                                       \/ SetDenyListAuthority(signer, account)
    BY <2>4, SameConfiguration DEF SetAdmin, SetDenyListAuthority
  <2>5. CASE \E address \in Accounts : AddToDenyList(signer, address)
                                       \/ RemoveFromDenyList(signer, address)
    BY <2>5, SameConfiguration DEF AddToDenyList, RemoveFromDenyList
  <2>6. CASE \E set_to \in BOOLEAN : ToggleSystemState(signer, set_to)
    BY <2>6, SameConfiguration DEF ToggleSystemState
  <2>7. QED
    BY <2>1, <2>2, <2>3, <2>4, <2>5, <2>6
<1>3. CASE UNCHANGED systemVars
  BY <1>3, SameConfiguration DEF systemVars
<1>4. QED
  BY <1>1, <1>2, <1>3 DEF SystemNext

LEMMA ConfigurationInvariant == SystemSpec => []ConfigurationInv
<1>1. SystemInit => ConfigurationInv
  BY InitHasConfiguration
<1>2. ConfigurationInv /\ [SystemNext]_systemVars => ConfigurationInv'
  BY StepKeepsConfiguration
<1>3. QED
  BY <1>1, <1>2, PTL DEF SystemSpec

\* However many partial updates an admin makes, the rates stay ordered and within
\* 100%, the coefficient within 1 and the maximum age positive: the price of
\* calculate_ask_price.rs is defined in every reachable state.
THEOREM ConfigurationIsAlwaysValid == SystemSpec => []ConfigurationStaysValid
<1>1. ConfigurationInv => ConfigurationStaysValid
  BY DEF ConfigurationInv
<1>2. QED
  BY <1>1, ConfigurationInvariant, PTL

-----------------------------------------------------------------------------
(* The deny list *)

\* No value occurs twice in the sequence.
Distinct(s) == \A i, j \in 1..Len(s) : s[i] = s[j] => i = j

\* What Vec::push does.
LEMMA AppendAdds ==
  ASSUME NEW S, NEW s \in Seq(S), NEW e \in S
  PROVE  /\ Append(s, e) \in Seq(S) /\ Len(Append(s, e)) = Len(s) + 1
         /\ \A x : Contains(Append(s, e), x) <=> (Contains(s, x) \/ x = e)
         /\ Distinct(s) /\ ~Contains(s, e) => Distinct(Append(s, e))
  BY DEF Contains, Distinct

\* What Vec::remove does at the place that position() finds, in a list without repetitions.
LEMMA RemoveFirstRemoves ==
  ASSUME NEW S, NEW s \in Seq(S), NEW e, Contains(s, e), Distinct(s)
  PROVE  /\ RemoveFirst(s, e) \in Seq(S) /\ Len(RemoveFirst(s, e)) = Len(s) - 1
         /\ Distinct(RemoveFirst(s, e))
         /\ \A x : Contains(RemoveFirst(s, e), x) <=> (Contains(s, x) /\ x # e)
<1> DEFINE at == SelectInSeq(s, LAMBDA v : v = e)
<1>1. PICK k \in 1..Len(s) : s[k] = e
  BY DEF Contains
<1>2. {i \in 1..Len(s) : s[i] = e} = {k}
  BY <1>1 DEF Distinct
<1>3. Min({k}) = k
  BY <1>1 DEF Min
<1>4. at = k
  BY <1>2, <1>3 DEF SelectInSeq
<1> HIDE DEF at
<1> DEFINE front == SubSeq(s, 1, k - 1)
           back  == SubSeq(s, k + 1, Len(s))
           t     == front \o back
<1>5. RemoveFirst(s, e) = t
  BY <1>1, <1>4 DEF RemoveFirst, RemoveAt, at
<1>6. /\ front \in Seq(S) /\ Len(front) = k - 1 /\ \A i \in 1..k - 1 : front[i] = s[i]
      /\ back \in Seq(S) /\ Len(back) = Len(s) - k /\ \A i \in 1..Len(s) - k : back[i] = s[i + k]
  BY <1>1
<1> HIDE DEF front, back
<1>7. /\ t \in Seq(S) /\ Len(t) = Len(s) - 1
      /\ \A i \in 1..k - 1 : t[i] = s[i]
      /\ \A i \in k..Len(s) - 1 : t[i] = s[i + 1]
  <2>1. t \in Seq(S) /\ Len(t) = Len(s) - 1
    <3>1. front \in Seq(S) /\ back \in Seq(S)
      BY <1>6
    <3>2. t \in Seq(S) /\ Len(t) = Len(front) + Len(back)
      BY <3>1
    <3>3. QED
      BY <1>1, <1>6, <3>2
  <2>2. ASSUME NEW i \in 1..k - 1 PROVE t[i] = s[i]
    BY <1>1, <1>6
  <2>3. ASSUME NEW i \in k..Len(s) - 1 PROVE t[i] = s[i + 1]
    <3>1. i - (k - 1) \in 1..Len(s) - k /\ i \in 1..Len(front) + Len(back) /\ i > Len(front)
      BY <1>1, <1>6
    <3>2. t[i] = back[i - Len(front)]
      <4>1. front \in Seq(S) /\ back \in Seq(S)
        BY <1>6
      <4>2. QED
        BY ONLY <3>1, <4>1 DEF t
    <3>3. QED
      BY <1>1, <1>6, <3>1, <3>2
  <2>4. QED
    BY <2>1, <2>2, <2>3
<1> HIDE DEF t
<1>8. Distinct(t)
  <2>1. ASSUME NEW i \in 1..Len(t) PROVE \E m \in 1..Len(s) : t[i] = s[m] /\ m = (IF i < k THEN i ELSE i + 1)
    BY <1>1, <1>7
  <2>2. \A i, j \in 1..Len(s) : s[i] = s[j] => i = j
    BY DEF Distinct
  <2>3. ASSUME NEW i \in 1..Len(t), NEW j \in 1..Len(t), t[i] = t[j] PROVE i = j
    <3>1. PICK m \in 1..Len(s) : t[i] = s[m] /\ m = (IF i < k THEN i ELSE i + 1)
      BY <2>1
    <3>2. PICK n \in 1..Len(s) : t[j] = s[n] /\ n = (IF j < k THEN j ELSE j + 1)
      BY <2>1
    <3>3. m = n
      BY <2>2, <2>3, <3>1, <3>2
    <3>4. QED
      BY <1>1, <3>1, <3>2, <3>3
  <2>4. QED
    BY <2>3 DEF Distinct
<1>9. ASSUME NEW x PROVE Contains(t, x) <=> (Contains(s, x) /\ x # e)
  <2>1. ASSUME Contains(t, x) PROVE Contains(s, x) /\ x # e
    <3>1. PICK i \in 1..Len(t) : t[i] = x
      BY <2>1 DEF Contains
    <3>2. PICK m \in 1..Len(s) : s[m] = x /\ m # k
      <4>1. CASE i < k
        <5>1. i \in 1..k - 1 /\ i \in 1..Len(s) /\ i # k
          BY <1>1, <1>7, <4>1
        <5>2. QED
          BY <1>7, <3>1, <5>1
      <4>2. CASE ~(i < k)
        <5>1. i \in k..Len(s) - 1 /\ i + 1 \in 1..Len(s) /\ i + 1 # k
          BY <1>1, <1>7, <4>2
        <5>2. QED
          BY <1>7, <3>1, <5>1
      <4>3. QED
        BY <4>1, <4>2
    <3>3. s[m] # s[k]
      BY <1>1, <3>2 DEF Distinct
    <3>4. QED
      BY <1>1, <3>2, <3>3 DEF Contains
  <2>2. ASSUME Contains(s, x), x # e PROVE Contains(t, x)
    <3>1. PICK i \in 1..Len(s) : s[i] = x
      BY <2>2 DEF Contains
    <3>2. CASE i < k
      <4>1. i \in 1..k - 1 /\ i \in 1..Len(t)
        BY <1>1, <1>7, <3>1, <3>2
      <4>2. QED
        BY <1>7, <3>1, <4>1 DEF Contains
    <3>3. CASE i > k
      <4>1. i - 1 \in k..Len(s) - 1 /\ t[i - 1] = x
        BY <1>1, <1>7, <3>1, <3>3
      <4>2. QED
        <5>1. i - 1 \in 1..Len(t)
          BY <1>1, <1>7, <4>1
        <5>2. QED
          BY <4>1, <5>1 DEF Contains
    <3>4. QED
      BY <1>1, <2>2, <3>1, <3>2, <3>3
  <2>3. QED
    BY <2>1, <2>2
<1>10. QED
  BY <1>5, <1>7, <1>8, <1>9

(***************************************************************************)
(* The deny list follows its events because it never holds an address      *)
(* twice: if it did, one removal would leave the other entry, and the      *)
(* address would stay denied.                                              *)
(***************************************************************************)
DenyListInv ==
  /\ denied_addresses \in Seq(Accounts) /\ Len(denied_addresses) <= MAX_DENY_LIST_SIZE
  /\ Distinct(denied_addresses)
  /\ ruling \in [Accounts -> BOOLEAN] /\ update_count \in Nat
  /\ DenyListFollowsEvents

LEMMA DenyListInvInit == SystemInit => DenyListInv
<1> SUFFICES ASSUME SystemInit PROVE DenyListInv
  OBVIOUS
<1>1. denied_addresses = <<>> /\ update_count = 0 /\ ruling = [a \in Accounts |-> FALSE]
  BY DEF SystemInit
<1>2. Len(denied_addresses) = 0
  BY <1>1
<1>3. QED
  BY <1>1, <1>2, DenyListAssumption DEF DenyListInv, Distinct, DenyListFollowsEvents, Denied, Contains

LEMMA AddKeepsDenyList ==
  ASSUME DenyListInv, NEW signer \in Accounts, NEW address \in Accounts,
         AddToDenyList(signer, address)
  PROVE  DenyListInv'
<1>1. /\ ~Contains(denied_addresses, address)
      /\ Len(denied_addresses) < MAX_DENY_LIST_SIZE
      /\ denied_addresses' = Append(denied_addresses, address)
      /\ update_count' = update_count + 1
      /\ ruling' = [ruling EXCEPT ![address] = TRUE]
  BY DEF AddToDenyList, Denied
<1>2. /\ denied_addresses \in Seq(Accounts) /\ Distinct(denied_addresses)
      /\ ruling \in [Accounts -> BOOLEAN] /\ update_count \in Nat
      /\ \A a \in Accounts : Contains(denied_addresses, a) <=> ruling[a]
  BY DEF DenyListInv, DenyListFollowsEvents, Denied
<1>3. /\ denied_addresses' \in Seq(Accounts) /\ Len(denied_addresses') = Len(denied_addresses) + 1
      /\ \A x : Contains(denied_addresses', x) <=> (Contains(denied_addresses, x) \/ x = address)
      /\ Distinct(denied_addresses')
  BY <1>1, <1>2, AppendAdds
<1>4. Len(denied_addresses') <= MAX_DENY_LIST_SIZE
  BY <1>1, <1>2, <1>3, DenyListAssumption
<1>5. ruling' \in [Accounts -> BOOLEAN] /\ update_count' \in Nat
  BY <1>1, <1>2
<1>6. \A a \in Accounts : Contains(denied_addresses', a) <=> ruling'[a]
  BY <1>1, <1>2, <1>3
<1>7. QED
  BY <1>3, <1>4, <1>5, <1>6 DEF DenyListInv, DenyListFollowsEvents, Denied

LEMMA RemoveKeepsDenyList ==
  ASSUME DenyListInv, NEW signer \in Accounts, NEW address \in Accounts,
         RemoveFromDenyList(signer, address)
  PROVE  DenyListInv'
<1>1. /\ Contains(denied_addresses, address)
      /\ denied_addresses' = RemoveFirst(denied_addresses, address)
      /\ update_count' = update_count + 1
      /\ ruling' = [ruling EXCEPT ![address] = FALSE]
  BY DEF RemoveFromDenyList, Denied
<1>2. /\ denied_addresses \in Seq(Accounts) /\ Distinct(denied_addresses)
      /\ Len(denied_addresses) <= MAX_DENY_LIST_SIZE
      /\ ruling \in [Accounts -> BOOLEAN] /\ update_count \in Nat
      /\ \A a \in Accounts : Contains(denied_addresses, a) <=> ruling[a]
  BY DEF DenyListInv, DenyListFollowsEvents, Denied
<1>3. /\ denied_addresses' \in Seq(Accounts) /\ Len(denied_addresses') = Len(denied_addresses) - 1
      /\ Distinct(denied_addresses')
      /\ \A x : Contains(denied_addresses', x) <=> (Contains(denied_addresses, x) /\ x # address)
  BY <1>1, <1>2, RemoveFirstRemoves
<1>4. Len(denied_addresses') <= MAX_DENY_LIST_SIZE
  BY <1>2, <1>3, DenyListAssumption
<1>5. ruling' \in [Accounts -> BOOLEAN] /\ update_count' \in Nat
  BY <1>1, <1>2
<1>6. \A a \in Accounts : Contains(denied_addresses', a) <=> ruling'[a]
  BY <1>1, <1>2, <1>3
<1>7. QED
  BY <1>3, <1>4, <1>5, <1>6 DEF DenyListInv, DenyListFollowsEvents, Denied

\* Any other step leaves the deny list and its events alone.
LEMMA SameDenyList == DenyListInv /\ UNCHANGED denyListVars => DenyListInv'
  BY DEF DenyListInv, DenyListFollowsEvents, Denied, denyListVars

LEMMA StepKeepsDenyList == DenyListInv /\ [SystemNext]_systemVars => DenyListInv'
<1> SUFFICES ASSUME DenyListInv, [SystemNext]_systemVars PROVE DenyListInv'
  OBVIOUS
<1>1. CASE InitializeAny
  BY <1>1, SameDenyList DEF InitializeAny, InitializeSystem
<1>2. CASE Administer
  <2>1. CASE \E signer \in Accounts, address \in Accounts : AddToDenyList(signer, address)
    BY <2>1, AddKeepsDenyList
  <2>2. CASE \E signer \in Accounts, address \in Accounts : RemoveFromDenyList(signer, address)
    BY <2>2, RemoveKeepsDenyList
  <2>3. CASE UNCHANGED denyListVars
    BY <2>3, SameDenyList
  <2>4. QED
    BY <1>2, <2>1, <2>2, <2>3 DEF Administer, UpdateConfiguration, SetFillsConsumer, SetAdmin,
       SetDenyListAuthority, ToggleSystemState
<1>3. CASE UNCHANGED systemVars
  BY <1>3, SameDenyList DEF systemVars
<1>4. QED
  BY <1>1, <1>2, <1>3 DEF SystemNext

LEMMA DenyListInvariant == SystemSpec => []DenyListInv
<1>1. QED
  BY DenyListInvInit, StepKeepsDenyList, PTL DEF SystemSpec

\* Through any sequence of additions and removals the vector holds exactly the
\* addresses whose latest event added them (deny_list_registry.rs, denied_addresses).
THEOREM DenyListIsItsEvents == SystemSpec => []DenyListFollowsEvents
<1>1. DenyListInv => DenyListFollowsEvents
  BY DEF DenyListInv
<1>2. QED
  BY <1>1, DenyListInvariant, PTL

-----------------------------------------------------------------------------
(* Types *)

\* The authorities are accounts, before initialize_system the default key.
AuthorityInv ==
  /\ initialized \in BOOLEAN /\ is_halted \in BOOLEAN
  /\ admin \in Accounts \cup {DefaultKey}
  /\ deny_list_authority \in Accounts \cup {DefaultKey}

LEMMA StepKeepsAuthorities == AuthorityInv /\ [SystemNext]_systemVars => AuthorityInv'
<1> SUFFICES ASSUME AuthorityInv, [SystemNext]_systemVars PROVE AuthorityInv'
  OBVIOUS
<1> USE DEF AuthorityInv
<1>1. CASE InitializeAny
  BY <1>1 DEF InitializeAny, InitializeSystem
<1>2. CASE Administer
  <2>1. CASE \E signer \in Accounts, account \in Officers :
               SetAdmin(signer, account) \/ SetDenyListAuthority(signer, account)
    BY <2>1, AccountsAssumption DEF SetAdmin, SetDenyListAuthority
  <2>2. CASE \E signer \in Accounts, set_to \in BOOLEAN : ToggleSystemState(signer, set_to)
    BY <2>2 DEF ToggleSystemState, authorityVars
  <2>3. CASE UNCHANGED <<initialized, authorityVars, is_halted>>
    BY <2>3 DEF authorityVars
  <2>4. QED
    BY <1>2, <2>1, <2>2, <2>3 DEF Administer, UpdateConfiguration, SetFillsConsumer,
       AddToDenyList, RemoveFromDenyList
<1>3. CASE UNCHANGED systemVars
  BY <1>3 DEF systemVars, authorityVars
<1>4. QED
  BY <1>1, <1>2, <1>3 DEF SystemNext

\* Every account of the administration has its type, the deny list its limit
\* (system_management/, common/: the account structs).
THEOREM SystemTypeCorrect == SystemSpec => []SystemTypeOK
<1>1. SystemInit => AuthorityInv
  BY DEF SystemInit, AuthorityInv
<1>2. AuthorityInv /\ ConfigurationInv /\ DenyListInv => SystemTypeOK
  BY DEF AuthorityInv, ConfigurationInv, DenyListInv, SystemTypeOK
<1>3. QED
  BY <1>1, <1>2, StepKeepsAuthorities, ConfigurationInvariant, DenyListInvariant, PTL DEF SystemSpec
=============================================================================
