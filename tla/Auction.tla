------------------------------ MODULE Auction ------------------------------
(***************************************************************************)
(* One auction at a time: some valid configuration, some swap rate, and    *)
(* the slots after a trade, one after the other.                           *)
(***************************************************************************)
EXTENDS AskPrice

CONSTANTS
  AuctionRates,   \* swap rates the oracle attests
  FirstSlots,     \* slots a trade may have been in
  LastSlot        \* bound on the slots

ASSUME AuctionAssumption ==
  AuctionRates \subseteq Nat /\ FirstSlots \subseteq Nat /\ LastSlot \in Nat

VARIABLES
  pricing,        \* the configuration in force
  attested_rate,  \* the swap rate
  trade_slot,     \* the slot of the last trade
  current_slot

auctionVars == <<pricing, attested_rate, trade_slot, current_slot>>

Configurations ==
  {c \in [coefficient : 0..COEFFICIENT_SCALE,
          max_discount_rate : 0..RATE_SCALE,
          min_discount_rate : 0..RATE_SCALE] : ValidPricing(c)}

AuctionInit ==
  /\ pricing \in Configurations
  /\ attested_rate \in AuctionRates
  /\ trade_slot \in FirstSlots
  /\ current_slot = trade_slot

NextSlot ==
  /\ current_slot < LastSlot
  /\ current_slot' = current_slot + 1
  /\ UNCHANGED <<pricing, attested_rate, trade_slot>>

AuctionSpec == AuctionInit /\ [][NextSlot]_auctionVars

Ask == ConversionRate(attested_rate, pricing, trade_slot, current_slot)

\* calculate_ask_price.rs:76 states the discount with an outer maximum that the code
\* leaves out; the discount the code computes is the one of the comment.
DiscountAsCommented ==
  Discount(pricing, trade_slot, current_slot)
    = CommentedDiscount(pricing, trade_slot, current_slot)

\* Without a trade the ask price for a swap rate never rises from slot to slot, so
\* that a bid that was enough stays enough.
AskOnlyFalls == [][Ask' <= Ask]_auctionVars
=============================================================================
