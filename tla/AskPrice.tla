------------------------------ MODULE AskPrice ------------------------------
(***************************************************************************)
(* The Dutch auction of the converter program (calculate_ask_price.rs).    *)
(*                                                                         *)
(* The discount on the oracle's swap rate grows with the slots since the   *)
(* last trade, from the minimum to the maximum discount rate.  The code    *)
(* computes with 28-digit decimals: the coefficient has 8 decimals and the *)
(* rates have 4, so that every product is exact and the only rounding is   *)
(* the truncation of the ask price.  Discounts are therefore modelled as   *)
(* integers: a discount d stands for the fraction d / DISCOUNT_SCALE.      *)
(***************************************************************************)
EXTENDS Integers

CONSTANTS
  COEFFICIENT_SCALE,  \* 100_000_000 in the program: a coefficient of 1
  RATE_SCALE,         \* BPS * 100 = 10_000 in the program: a discount rate of 100%
  LAMPORTS_PER_SOL    \* 10^9 in the program

ASSUME ScaleAssumption ==
  /\ COEFFICIENT_SCALE \in Nat \ {0}
  /\ RATE_SCALE \in Nat \ {0}
  /\ LAMPORTS_PER_SOL \in Nat \ {0}

DISCOUNT_SCALE == COEFFICIENT_SCALE * RATE_SCALE

\* The fields of the configuration that the price depends on.
IsPricing(c) ==
  c.coefficient \in Nat /\ c.max_discount_rate \in Nat /\ c.min_discount_rate \in Nat

\* What initialize_system and update_configuration_registry let through.
ValidPricing(c) ==
  /\ c.coefficient <= COEFFICIENT_SCALE
  /\ c.min_discount_rate < c.max_discount_rate
  /\ c.max_discount_rate <= RATE_SCALE

MinDiscount(c) == c.min_discount_rate * COEFFICIENT_SCALE
MaxDiscount(c) == c.max_discount_rate * COEFFICIENT_SCALE

\* Mutant of GrownDiscount: the slots since the last trade are kept in two bits.
GrownDiscountNarrow(c, s_last, s_now) ==
  c.coefficient * ((s_now - s_last) % 4) * RATE_SCALE + MinDiscount(c)

\* coefficient * (s_now - s_last) + min_discount_rate, before it is capped.
GrownDiscount(c, s_last, s_now) ==
  c.coefficient * (s_now - s_last) * RATE_SCALE + MinDiscount(c)

\* Mutant of Discount: the minimum discount rate is left out.
DiscountFromZero(c, s_last, s_now) ==
  LET grown == c.coefficient * (s_now - s_last) * RATE_SCALE
  IN  IF grown <= MaxDiscount(c) THEN grown ELSE MaxDiscount(c)

Discount(c, s_last, s_now) ==
  IF GrownDiscount(c, s_last, s_now) <= MaxDiscount(c)
  THEN GrownDiscount(c, s_last, s_now) ELSE MaxDiscount(c)

\* The discount as the comment at calculate_ask_price.rs:76 states it, with an outer
\* maximum that the code leaves out: max(min(growth + Dmin, Dmax), Dmin).
CommentedDiscount(c, s_last, s_now) ==
  LET capped == IF GrownDiscount(c, s_last, s_now) <= MaxDiscount(c)
                THEN GrownDiscount(c, s_last, s_now) ELSE MaxDiscount(c)
  IN  IF capped <= MinDiscount(c) THEN MinDiscount(c) ELSE capped

\* calculate_conversion_rate: swap_rate * (1 - discount_rate), truncated.
ConversionRate(swap_rate, c, s_last, s_now) ==
  (swap_rate * (DISCOUNT_SCALE - Discount(c, s_last, s_now))) \div DISCOUNT_SCALE

\* The 2Z that buy_sol asks for sol_quantity lamports.
TokensRequired(sol_quantity, ask_price) ==
  (sol_quantity * ask_price) \div LAMPORTS_PER_SOL
=============================================================================
