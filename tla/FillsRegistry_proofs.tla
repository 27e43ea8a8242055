------------------------ MODULE FillsRegistry_proofs ------------------------
(***************************************************************************)
(* Theorems about FillsRegistry for every queue size, word size, set of    *)
(* amounts and number of trades.                                           *)
(*                                                                         *)
(* RegistryTypeOK is inductive by itself.  RegistryInv strengthens it with *)
(* the line of trades (LedgerOrdered), the totals, and what each slot of   *)
(* the ring holds; the other properties follow from it.                    *)
(***************************************************************************)
EXTENDS FillsRegistry, SharedLemmas, TLAPS

\* The wrap of an index, without the modulus.
LEMMA NextIndexWraps ==
  ASSUME NEW i \in 0..MAX_FILLS_QUEUE_SIZE - 1
  PROVE  /\ NextIndex(i) = IF i + 1 = MAX_FILLS_QUEUE_SIZE THEN 0 ELSE i + 1
         /\ NextIndex(i) \in 0..MAX_FILLS_QUEUE_SIZE - 1
  BY QueueSizeAssumption DEF NextIndex

\* The share of a split is a natural number, at most the fill's 2Z, and rounded down.
LEMMA PartialTokensBounds ==
  ASSUME NEW fill \in [sol_in : Nat, token_2z_out : Nat],
         NEW sol \in Nat, sol <= fill.sol_in, fill.sol_in > 0
  PROVE  /\ PartialTokens(fill, sol) \in Nat
         /\ PartialTokens(fill, sol) <= fill.token_2z_out
         /\ PartialTokens(fill, sol) * fill.sol_in <= fill.token_2z_out * sol
<1> DEFINE S == fill.sol_in
           T == fill.token_2z_out
           q == PartialTokens(fill, sol)
<1>1. S \in Nat \ {0} /\ T \in Nat /\ T * sol \in Nat
  OBVIOUS
<1>2. q \in Nat /\ q * S <= T * sol
  <2> HIDE DEF S, T
  <2>1. q = (T * sol) \div S
    BY DEF PartialTokens, S, T
  <2>2. QED
    BY <1>1, <2>1, DivisionBounds
<1>3. T * sol <= T * S
  BY <1>1, ProductMonotone
<1>4. q <= T
  <2> HIDE DEF q, S, T
  <2>1. q * S <= T * S
    BY <1>1, <1>2, <1>3
  <2>2. QED
    BY <1>1, <1>2, <2>1, FactorCancelled
<1>5. QED
  BY <1>2, <1>4

-----------------------------------------------------------------------------
(* Type correctness *)

LEMMA PartialTokensOfEntry ==
  ASSUME RegistryTypeOK, count > 0, sol_dequeued < max_sol_amount,
         NextEntry.sol_in > RemainingSol
  PROVE  /\ NextEntry \in Fill
         /\ RemainingSol \in Nat \ {0}
         /\ PartialTokens(NextEntry, RemainingSol) \in Nat
         /\ PartialTokens(NextEntry, RemainingSol) <= NextEntry.token_2z_out
         /\ PartialTokens(NextEntry, RemainingSol) * NextEntry.sol_in
               <= NextEntry.token_2z_out * RemainingSol
<1>1. NextEntry \in [sol_in : Nat, token_2z_out : Nat] /\ NextEntry \in Fill
  BY U64Assumption DEF RegistryTypeOK, NextEntry, Fill, U64
<1>2. RemainingSol \in Nat \ {0}
  BY U64Assumption DEF RegistryTypeOK, RemainingSol, U64
<1>3. QED
  BY <1>1, <1>2, PartialTokensBounds

LEMMA TradesInRange ==
  ASSUME NEW t \in Trades
  PROVE  /\ t[1] \in U64 /\ t[2] \in U64
         /\ t[1] = 0 => t[2] = 0
  BY AmountsAssumption DEF Trades, U64

\* A checked_add that succeeds stays within u64.
LEMMA CheckedSum ==
  ASSUME NEW a \in Nat, NEW b \in Nat, a + b <= U64_MAX
  PROVE  a + b \in U64
  BY U64Assumption DEF U64

LEMMA EnqueueKeepsTypes ==
  ASSUME RegistryTypeOK, NEW sol \in U64, NEW token \in U64, EnqueueFill(sol, token)
  PROVE  RegistryTypeOK'
<1> USE QueueSizeAssumption, U64Assumption, MaxTradesAssumption
<1>1. NextIndex(tail) \in 0..MAX_FILLS_QUEUE_SIZE - 1
  <2>1. tail \in 0..MAX_FILLS_QUEUE_SIZE - 1
    BY DEF RegistryTypeOK
  <2>2. QED
    BY <2>1, NextIndexWraps
<1>2. fills' \in [0..MAX_FILLS_QUEUE_SIZE - 1 -> Fill]
  <2>1. [sol_in |-> sol, token_2z_out |-> token] \in Fill
    BY DEF Fill
  <2>2. fills' = [fills EXCEPT ![tail] = [sol_in |-> sol, token_2z_out |-> token]]
    BY DEF EnqueueFill
  <2>3. QED
    BY <2>1, <2>2 DEF RegistryTypeOK
<1>3. sol \in Nat /\ token \in Nat
  BY DEF U64
<1>4. sold' \in 0..MaxTrades
  BY DEF RegistryTypeOK, EnqueueFill
<1>5. solSold' \in [0..MaxTrades -> Nat]
  <2>1. solSold[sold] + sol \in Nat
    <3>1. solSold[sold] \in Nat
      BY DEF RegistryTypeOK
    <3>2. QED
      BY <1>3, <3>1
  <2>2. solSold' = [solSold EXCEPT ![sold + 1] = solSold[sold] + sol]
    BY DEF EnqueueFill
  <2>3. QED
    BY <2>1, <2>2 DEF RegistryTypeOK
<1>6. tokenSold' \in [0..MaxTrades -> Nat]
  <2>1. tokenSold[sold] + token \in Nat
    <3>1. tokenSold[sold] \in Nat
      BY DEF RegistryTypeOK
    <3>2. QED
      BY <1>3, <3>1
  <2>2. tokenSold' = [tokenSold EXCEPT ![sold + 1] = tokenSold[sold] + token]
    BY DEF EnqueueFill
  <2>3. QED
    BY <2>1, <2>2 DEF RegistryTypeOK
<1>7. total_sol_pending' \in U64 /\ total_2z_pending' \in U64
  <2>1. /\ total_sol_pending' = total_sol_pending + sol
        /\ total_2z_pending' = total_2z_pending + token
        /\ total_sol_pending + sol <= U64_MAX
        /\ total_2z_pending + token <= U64_MAX
    BY DEF EnqueueFill
  <2>2. total_sol_pending \in Nat /\ total_2z_pending \in Nat
    BY DEF RegistryTypeOK, U64
  <2>3. total_sol_pending + sol \in U64
    BY <1>3, <2>1, <2>2, CheckedSum
  <2>4. total_2z_pending + token \in U64
    BY <1>3, <2>1, <2>2, CheckedSum
  <2>5. QED
    BY <2>1, <2>3, <2>4
<1>8. tail' = NextIndex(tail) /\ count' \in 0..MAX_FILLS_QUEUE_SIZE
  BY DEF RegistryTypeOK, EnqueueFill
<1>9. UNCHANGED <<head, loopVars, paidVars>>
  BY DEF EnqueueFill
<1>10. QED
  BY <1>1, <1>2, <1>4, <1>5, <1>6, <1>7, <1>8, <1>9 DEF RegistryTypeOK, loopVars, paidVars

\* The types are kept by every step of the registry.
LEMMA RegistryTypeStep == RegistryTypeOK /\ [RegistryNext]_registryVars => RegistryTypeOK'
<1> SUFFICES ASSUME RegistryTypeOK, [RegistryNext]_registryVars PROVE RegistryTypeOK'
  OBVIOUS
<1> USE QueueSizeAssumption, U64Assumption, MaxTradesAssumption
<1>1. ASSUME NEW t \in Trades, EnqueueFill(t[1], t[2]) PROVE RegistryTypeOK'
  BY <1>1, TradesInRange, EnqueueKeepsTypes
<1>2. ASSUME NEW max \in DequeueLimits, DequeueStart(max) PROVE RegistryTypeOK'
  BY <1>2, AmountsAssumption
     DEF RegistryTypeOK, DequeueStart, queueVars, totalVars, soldVars, paidVars, U64
<1>3. CASE DequeueFull
  <2>1. NextIndex(head) \in 0..MAX_FILLS_QUEUE_SIZE - 1
    BY NextIndexWraps DEF RegistryTypeOK
  <2>2. NextEntry.sol_in \in Nat /\ NextEntry.token_2z_out \in Nat
    BY DEF RegistryTypeOK, NextEntry, Fill, U64
  <2>3. sol_dequeued' \in U64 /\ token_2z_dequeued' \in U64
    <3>1. /\ sol_dequeued' = sol_dequeued + NextEntry.sol_in
          /\ token_2z_dequeued' = token_2z_dequeued + NextEntry.token_2z_out
          /\ sol_dequeued + NextEntry.sol_in <= U64_MAX
          /\ token_2z_dequeued + NextEntry.token_2z_out <= U64_MAX
      BY <1>3 DEF DequeueFull, Accumulate
    <3>2. sol_dequeued \in Nat /\ token_2z_dequeued \in Nat
      BY DEF RegistryTypeOK, U64
    <3> DEFINE s == NextEntry.sol_in
               t == NextEntry.token_2z_out
    <3>3. s \in Nat /\ t \in Nat
      BY <2>2
    <3>4. sol_dequeued' = sol_dequeued + s /\ sol_dequeued + s <= U64_MAX
      BY <3>1
    <3>5. token_2z_dequeued' = token_2z_dequeued + t /\ token_2z_dequeued + t <= U64_MAX
      BY <3>1
    <3> HIDE DEF s, t
    <3>6. sol_dequeued' \in U64
      BY <3>2, <3>3, <3>4, CheckedSum
    <3>7. token_2z_dequeued' \in U64
      BY <3>2, <3>3, <3>5, CheckedSum
    <3>8. QED
      BY <3>6, <3>7
  <2>4. count' \in 0..MAX_FILLS_QUEUE_SIZE /\ fills_consumed' \in Nat
    BY <1>3 DEF RegistryTypeOK, DequeueFull, LoopContinues
  <2>5. QED
    BY <1>3, <2>1, <2>3, <2>4 DEF RegistryTypeOK, DequeueFull, totalVars, soldVars, paidVars
<1>4. CASE DequeuePartial
  <2> DEFINE token == PartialTokens(NextEntry, RemainingSol)
             rest == [sol_in |-> NextEntry.sol_in - RemainingSol,
                      token_2z_out |-> NextEntry.token_2z_out - token]
  <2>1. /\ NextEntry \in Fill /\ RemainingSol \in Nat \ {0}
        /\ token \in Nat /\ token <= NextEntry.token_2z_out
    BY <1>4, PartialTokensOfEntry DEF DequeuePartial, LoopContinues
  <2>2. rest \in Fill
    <3> HIDE DEF token
    <3>1. NextEntry.sol_in - RemainingSol \in U64
      BY <1>4, <2>1 DEF DequeuePartial, Fill, U64
    <3>2. NextEntry.token_2z_out - token \in U64
      BY <2>1 DEF Fill, U64
    <3>3. QED
      BY <3>1, <3>2 DEF Fill
  <2>3. fills' = [fills EXCEPT ![head] = rest]
    BY <1>4 DEF DequeuePartial
  <2>4. fills' \in [0..MAX_FILLS_QUEUE_SIZE - 1 -> Fill]
    <3> HIDE DEF rest
    <3>1. QED
      BY <2>2, <2>3 DEF RegistryTypeOK
  <2>5. sol_dequeued' \in U64 /\ token_2z_dequeued' \in U64
    <3> HIDE DEF token
    <3>1. /\ sol_dequeued' = sol_dequeued + RemainingSol
          /\ token_2z_dequeued' = token_2z_dequeued + token
          /\ sol_dequeued + RemainingSol <= U64_MAX
          /\ token_2z_dequeued + token <= U64_MAX
      BY <1>4 DEF DequeuePartial, Accumulate, token
    <3>2. QED
      BY <3>1, <2>1 DEF RegistryTypeOK, U64
  <2>6. QED
    BY <1>4, <2>4, <2>5 DEF RegistryTypeOK, DequeuePartial, totalVars, soldVars, paidVars
<1>5. CASE DequeueCommit
  BY <1>5 DEF RegistryTypeOK, DequeueCommit, queueVars, soldVars, U64
<1>6. CASE UNCHANGED registryVars
  BY <1>6 DEF RegistryTypeOK, registryVars, queueVars, totalVars, loopVars, soldVars, paidVars
<1>7. QED
  BY <1>1, <1>2, <1>3, <1>4, <1>5, <1>6 DEF RegistryNext, DequeueLoop, DequeueEmpty

LEMMA RegistryTypeInit == RegistryInit => RegistryTypeOK
  BY QueueSizeAssumption, U64Assumption, MaxTradesAssumption DEF RegistryInit, RegistryTypeOK, Fill, U64

\* Every variable of the registry keeps its type: indices stay inside the array,
\* totals and fills within a u64 (fills_registry.rs:4-18).
THEOREM RegistryTypeCorrect == RegistrySpec => []RegistryTypeOK
  BY RegistryTypeInit, RegistryTypeStep, PTL DEF RegistrySpec

-----------------------------------------------------------------------------
(* The inductive invariant *)

\* Slots of the ring are distinct, and the successor of a slot is the next slot.
LEMMA SlotArithmetic ==
  ASSUME head \in 0..MAX_FILLS_QUEUE_SIZE - 1
  PROVE  /\ Slot(0) = head
         /\ \A i \in 0..MAX_FILLS_QUEUE_SIZE : Slot(i) \in 0..MAX_FILLS_QUEUE_SIZE - 1
         /\ \A i \in 0..MAX_FILLS_QUEUE_SIZE - 1 : NextIndex(Slot(i)) = Slot(i + 1)
         /\ \A i, j \in 0..MAX_FILLS_QUEUE_SIZE - 1 : i # j => Slot(i) # Slot(j)
<1> USE QueueSizeAssumption
<1>1. \A i \in 0..MAX_FILLS_QUEUE_SIZE : Slot(i) \in 0..MAX_FILLS_QUEUE_SIZE - 1
  BY DEF Slot
<1>2. ASSUME NEW i \in 0..MAX_FILLS_QUEUE_SIZE - 1
      PROVE  NextIndex(Slot(i)) = Slot(i + 1)
  <2>1. NextIndex(Slot(i)) = IF Slot(i) + 1 = MAX_FILLS_QUEUE_SIZE THEN 0 ELSE Slot(i) + 1
    BY <1>1, NextIndexWraps
  <2>2. QED
    BY <2>1 DEF Slot
<1>3. QED
  BY <1>1, <1>2 DEF Slot

\* What is left of a split fill is worth at least the price of its trade.
LEMMA SplitKeepsPrice ==
  ASSUME NEW T \in Nat, NEW S \in Nat,              \* the trade
         NEW t \in Nat, NEW s \in Nat, T * s <= t * S,  \* what is left of it
         NEW r \in Nat, r < s,                       \* the lamports taken
         NEW q \in Nat, q <= t, q * s <= t * r       \* the 2Z credited
  PROVE  T * (s - r) <= (t - q) * S
<1>1. s \in Nat \ {0} /\ s - r \in Nat /\ t - q \in Nat
  OBVIOUS
<1>2. (T * s) * (s - r) <= (t * S) * (s - r)
  <2>1. T * s \in Nat /\ t * S \in Nat
    OBVIOUS
  <2>2. (s - r) * (T * s) <= (s - r) * (t * S)
    BY <1>1, <2>1, ProductMonotone
  <2>3. QED
    BY <1>1, <2>1, <2>2
<1>3. t * (s - r) <= (t - q) * s
  <2>1. t * (s - r) = t * s - t * r /\ (t - q) * s = t * s - q * s
    OBVIOUS
  <2>2. t * s \in Int /\ t * r \in Int /\ q * s \in Int
    OBVIOUS
  <2>3. QED
    BY <2>1, <2>2
<1>4. (t * (s - r)) * S <= ((t - q) * s) * S
  <2>1. t * (s - r) \in Nat /\ (t - q) * s \in Nat
    BY <1>1
  <2>2. S * (t * (s - r)) <= S * ((t - q) * s)
    BY <1>3, <2>1, ProductMonotone
  <2>3. QED
    BY <2>1, <2>2
<1>5. (T * (s - r)) * s <= ((t - q) * S) * s
  <2>1. (T * (s - r)) * s = (T * s) * (s - r)
    BY <1>1
  <2>2. (t * S) * (s - r) = (t * (s - r)) * S
    BY <1>1
  <2>3. ((t - q) * s) * S = ((t - q) * S) * s
    BY <1>1
  <2>4. (T * s) * (s - r) \in Int /\ (t * S) * (s - r) \in Int /\ ((t - q) * s) * S \in Int
    BY <1>1
  <2>5. QED
    BY <1>2, <1>4, <2>1, <2>2, <2>3, <2>4
<1>6. T * (s - r) \in Int /\ (t - q) * S \in Int
  BY <1>1
<1>7. QED
  BY <1>1, <1>5, <1>6, FactorCancelled

LEMMA RegistryInvInit == RegistryInit => RegistryInv
<1> SUFFICES ASSUME RegistryInit PROVE RegistryInv
  OBVIOUS
<1>1. RegistryTypeOK
  BY RegistryTypeInit
<1>2. LedgerOrdered /\ TotalsMatchLedger /\ LoopWithinLimit
  BY MaxTradesAssumption DEF RegistryInit, LedgerOrdered, TotalsMatchLedger, LoopWithinLimit
<1>3. QueueHoldsUndequeuedTrades
  BY QueueSizeAssumption, MaxTradesAssumption
     DEF RegistryInit, QueueHoldsUndequeuedTrades, FillsGone, SolTaken, TokenTaken, Slot
<1>4. NeverOverCredited
  BY DEF RegistryInit, NeverOverCredited
<1>5. QED
  BY <1>1, <1>2, <1>3, <1>4 DEF RegistryInv

\* Facts about the current state that the steps below share.
LEMMA RegistryFacts ==
  ASSUME RegistryInv
  PROVE  /\ head \in 0..MAX_FILLS_QUEUE_SIZE - 1 /\ tail \in 0..MAX_FILLS_QUEUE_SIZE - 1
         /\ count \in 0..MAX_FILLS_QUEUE_SIZE
         /\ FillsGone \in Nat /\ FillsGone + count = sold /\ sold \in 0..MaxTrades
         /\ SolTaken \in Nat /\ TokenTaken \in Nat
         /\ \A k \in 0..sold : solSold[k] \in Nat /\ tokenSold[k] \in Nat
         /\ fills[head].sol_in \in Nat /\ fills[head].token_2z_out \in Nat
         /\ sol_dequeued \in Nat /\ token_2z_dequeued \in Nat /\ fills_consumed \in Nat
         /\ max_sol_amount \in Nat /\ max_sol_amount <= U64_MAX
         /\ consumed \in Nat /\ solPaid \in Nat /\ tokenPaid \in Nat
         /\ total_sol_pending \in Nat /\ total_sol_pending <= U64_MAX
         /\ total_2z_pending \in Nat /\ total_2z_pending <= U64_MAX
<1> USE QueueSizeAssumption, U64Assumption, MaxTradesAssumption DEF RegistryInv
<1>1. /\ head \in 0..MAX_FILLS_QUEUE_SIZE - 1 /\ tail \in 0..MAX_FILLS_QUEUE_SIZE - 1
      /\ count \in 0..MAX_FILLS_QUEUE_SIZE /\ sold \in 0..MaxTrades
  BY DEF RegistryTypeOK
<1>2. FillsGone \in Nat /\ SolTaken \in Nat /\ TokenTaken \in Nat
  BY DEF RegistryTypeOK, FillsGone, SolTaken, TokenTaken, U64
<1>3. FillsGone + count = sold
  BY <1>1, <1>2 DEF QueueHoldsUndequeuedTrades
<1>4. \A k \in 0..sold : solSold[k] \in Nat /\ tokenSold[k] \in Nat
  BY DEF RegistryTypeOK
<1>5. fills[head].sol_in \in Nat /\ fills[head].token_2z_out \in Nat
  BY DEF RegistryTypeOK, Fill, U64
<1>6. /\ sol_dequeued \in Nat /\ token_2z_dequeued \in Nat /\ fills_consumed \in Nat
      /\ max_sol_amount \in Nat /\ max_sol_amount <= U64_MAX
  BY DEF RegistryTypeOK, U64
<1>7. /\ consumed \in Nat /\ solPaid \in Nat /\ tokenPaid \in Nat
      /\ total_sol_pending \in Nat /\ total_sol_pending <= U64_MAX
      /\ total_2z_pending \in Nat /\ total_2z_pending <= U64_MAX
  BY DEF RegistryTypeOK, U64
<1>8. QED
  BY <1>1, <1>2, <1>3, <1>4, <1>5, <1>6, <1>7

\* buy_sol's append keeps the invariant.
LEMMA EnqueueKeepsInv ==
  ASSUME RegistryInv, NEW sol \in U64, NEW token \in U64, sol = 0 => token = 0,
         EnqueueFill(sol, token)
  PROVE  RegistryInv'
<1> USE QueueSizeAssumption, U64Assumption, MaxTradesAssumption
<1> DEFINE new == [sol_in |-> sol, token_2z_out |-> token]
           TradeAfter(k) == [sol_in |-> solSold'[k] - solSold'[k-1],
                             token_2z_out |-> tokenSold'[k] - tokenSold'[k-1]]
<1>1. RegistryTypeOK /\ RegistryTypeOK'
  BY EnqueueKeepsTypes DEF RegistryInv
<1>2. sol \in Nat /\ token \in Nat
  BY DEF U64
<1>3. /\ pc = "idle" /\ sold < MaxTrades /\ count < MAX_FILLS_QUEUE_SIZE
      /\ fills' = [fills EXCEPT ![tail] = new]
      /\ tail' = NextIndex(tail) /\ count' = count + 1 /\ sold' = sold + 1
      /\ total_sol_pending' = total_sol_pending + sol
      /\ total_2z_pending' = total_2z_pending + token
      /\ solSold' = [solSold EXCEPT ![sold + 1] = solSold[sold] + sol]
      /\ tokenSold' = [tokenSold EXCEPT ![sold + 1] = tokenSold[sold] + token]
      /\ head' = head /\ pc' = pc /\ max_sol_amount' = max_sol_amount
      /\ sol_dequeued' = sol_dequeued /\ token_2z_dequeued' = token_2z_dequeued
      /\ fills_consumed' = fills_consumed
      /\ consumed' = consumed /\ solPaid' = solPaid /\ tokenPaid' = tokenPaid
  BY DEF EnqueueFill, loopVars, paidVars
<1>4. /\ \A k \in 0..sold : solSold'[k] = solSold[k] /\ tokenSold'[k] = tokenSold[k]
      /\ solSold'[sold + 1] = solSold[sold] + sol
      /\ tokenSold'[sold + 1] = tokenSold[sold] + token
  <2>1. /\ solSold \in [0..MaxTrades -> Nat] /\ tokenSold \in [0..MaxTrades -> Nat]
        /\ sold \in 0..MaxTrades /\ sold + 1 \in 0..MaxTrades
    BY <1>1, <1>3 DEF RegistryTypeOK
  <2>2. /\ solSold'[sold + 1] = solSold[sold] + sol
        /\ tokenSold'[sold + 1] = tokenSold[sold] + token
    BY <1>3, <2>1
  <2>3. ASSUME NEW k \in 0..sold
        PROVE  solSold'[k] = solSold[k] /\ tokenSold'[k] = tokenSold[k]
    <3>1. k \in 0..MaxTrades /\ k # sold + 1
      BY <2>1
    <3>2. QED
      BY <1>3, <2>1, <3>1
  <2>4. QED
    BY <2>2, <2>3
<1>5. FillsGone' = FillsGone /\ SolTaken' = SolTaken /\ TokenTaken' = TokenTaken
  BY <1>3 DEF FillsGone, SolTaken, TokenTaken
<1>7. LedgerOrdered'
  <2>1. \A k \in 0..sold : /\ solSold[k] \in Nat /\ tokenSold[k] \in Nat
                           /\ solSold[k] <= solSold[sold] /\ tokenSold[k] <= tokenSold[sold]
                           /\ solSold[k] = solSold[sold] => tokenSold[k] = tokenSold[sold]
    BY RegistryFacts DEF RegistryInv, LedgerOrdered
  <2>2. solSold'[0] = 0 /\ tokenSold'[0] = 0
    <3>1. 0 \in 0..sold
      BY <1>1 DEF RegistryTypeOK
    <3>2. solSold[0] = 0 /\ tokenSold[0] = 0
      BY DEF RegistryInv, LedgerOrdered
    <3>3. solSold'[0] = solSold[0] /\ tokenSold'[0] = tokenSold[0]
      BY <1>4, <3>1
    <3>4. QED
      BY <3>2, <3>3
  <2>3. ASSUME NEW i \in 0..sold + 1, NEW j \in 0..sold + 1, i <= j
        PROVE  /\ solSold'[i] <= solSold'[j] /\ tokenSold'[i] <= tokenSold'[j]
               /\ solSold'[i] = solSold'[j] => tokenSold'[i] = tokenSold'[j]
    <3>1. CASE j <= sold
      <4>1. i \in 0..sold /\ j \in 0..sold
        BY <1>1, <2>3, <3>1 DEF RegistryTypeOK
      <4>2. QED
        BY <1>4, <2>3, <4>1 DEF RegistryInv, LedgerOrdered
    <3>2. CASE j = sold + 1 /\ i <= sold
      <4>1. i \in 0..sold /\ sold \in 0..sold
        BY <1>1, <2>3, <3>2 DEF RegistryTypeOK
      <4>2. /\ solSold'[i] = solSold[i] /\ tokenSold'[i] = tokenSold[i]
            /\ solSold'[j] = solSold[sold] + sol /\ tokenSold'[j] = tokenSold[sold] + token
        BY <1>4, <3>2, <4>1
      <4>3. /\ solSold[i] \in Nat /\ tokenSold[i] \in Nat
            /\ solSold[sold] \in Nat /\ tokenSold[sold] \in Nat
            /\ solSold[i] <= solSold[sold] /\ tokenSold[i] <= tokenSold[sold]
            /\ solSold[i] = solSold[sold] => tokenSold[i] = tokenSold[sold]
        BY <2>1, <4>1
      <4>4. solSold[i] <= solSold[sold] + sol /\ tokenSold[i] <= tokenSold[sold] + token
        BY ONLY <1>2, <4>3
      <4>5. ASSUME solSold[i] = solSold[sold] + sol
            PROVE  tokenSold[i] = tokenSold[sold] + token
        <5>1. sol = 0 /\ solSold[i] = solSold[sold]
          BY ONLY <1>2, <4>3, <4>5
        <5>2. token = 0 /\ tokenSold[i] = tokenSold[sold]
          BY <4>3, <5>1
        <5>3. QED
          BY <4>3, <5>2
      <4>6. QED
        BY ONLY <4>2, <4>4, <4>5
    <3>3. CASE i = sold + 1 /\ j = sold + 1
      <4>1. solSold[sold] \in Nat /\ tokenSold[sold] \in Nat
        BY RegistryFacts
      <4>2. solSold'[sold + 1] \in Nat /\ tokenSold'[sold + 1] \in Nat
        BY <1>2, <1>4, <4>1
      <4>3. i = j /\ solSold'[j] \in Nat /\ tokenSold'[j] \in Nat
        BY ONLY <3>3, <4>2
      <4>4. solSold'[i] = solSold'[j] /\ tokenSold'[i] = tokenSold'[j]
        BY ONLY <4>3
      <4>5. solSold'[i] <= solSold'[j] /\ tokenSold'[i] <= tokenSold'[j]
        BY ONLY <4>3, <4>4
      <4>6. QED
        BY ONLY <4>4, <4>5
    <3>4. sold \in Nat
      BY <1>1 DEF RegistryTypeOK
    <3>5. j <= sold \/ (j = sold + 1 /\ i <= sold) \/ (i = sold + 1 /\ j = sold + 1)
      BY ONLY i \in 0..sold + 1, j \in 0..sold + 1, i <= j, <3>4
    <3>6. QED
      BY ONLY <3>1, <3>2, <3>3, <3>5
  <2>4. QED
    BY <1>3, <2>2, <2>3 DEF LedgerOrdered
<1>8. TotalsMatchLedger'
  <2>1. /\ total_sol_pending = solSold[sold] - solPaid
        /\ total_2z_pending = tokenSold[sold] - tokenPaid
    BY DEF RegistryInv, TotalsMatchLedger
  <2>2. /\ solSold[sold] \in Nat /\ tokenSold[sold] \in Nat
        /\ solPaid \in Nat /\ tokenPaid \in Nat
    BY <1>1, RegistryFacts DEF RegistryTypeOK
  <2>3. /\ solSold'[sold'] = solSold[sold] + sol /\ tokenSold'[sold'] = tokenSold[sold] + token
    BY <1>3, <1>4
  <2>4. /\ total_sol_pending' = solSold'[sold'] - solPaid
        /\ total_2z_pending' = tokenSold'[sold'] - tokenPaid
    BY <1>2, <1>3, <2>1, <2>2, <2>3
  <2>5. QED
    BY <1>3, <2>4 DEF TotalsMatchLedger
<1>9. LoopWithinLimit'
  BY <1>3 DEF RegistryInv, LoopWithinLimit
<1>10. /\ tail = Slot(count)
       /\ \A i \in 0..count - 1 : Slot(i) # tail
  BY RegistryFacts, SlotArithmetic, <1>3 DEF RegistryInv, QueueHoldsUndequeuedTrades
<1>11. /\ fills'[tail] = new
       /\ \A i \in 0..count - 1 : fills'[Slot(i)] = fills[Slot(i)]
  BY <1>1, <1>3, <1>10, RegistryFacts, SlotArithmetic DEF RegistryTypeOK
<1>12. \A k \in 1..sold : TradeAfter(k) = Trade(k)
  <2> SUFFICES ASSUME NEW k \in 1..sold PROVE TradeAfter(k) = Trade(k)
    OBVIOUS
  <2>1. k \in 0..sold /\ k - 1 \in 0..sold
    BY RegistryFacts
  <2>2. QED
    BY <1>4, <2>1 DEF Trade
<1>13. TradeAfter(sold + 1) = new
  <2>1. sold + 1 - 1 = sold /\ sold \in 0..sold
    BY RegistryFacts
  <2>2. /\ solSold'[sold + 1] - solSold'[sold] = sol
        /\ tokenSold'[sold + 1] - tokenSold'[sold] = token
    BY <1>2, <1>4, <2>1, RegistryFacts
  <2>3. QED
    BY <2>1, <2>2
<1>14. QueueHoldsUndequeuedTrades'
  <2>1. sold' = FillsGone' + count'
    BY <1>3, <1>5, RegistryFacts
  <2>2. tail' = Slot(count + 1)
    BY <1>3, <1>10, RegistryFacts, SlotArithmetic
  <2>3. ASSUME NEW i \in 1..count
        PROVE  fills'[Slot(i)] = TradeAfter(FillsGone + i + 1)
    <3>1. CASE i < count
      <4>1. /\ i \in 1..count - 1 /\ i \in 0..count - 1
            /\ FillsGone + i + 1 \in 1..sold
        BY <2>3, <3>1, RegistryFacts
      <4>2. fills[Slot(i)] = Trade(FillsGone + i + 1)
        BY <4>1 DEF RegistryInv, QueueHoldsUndequeuedTrades
      <4>3. TradeAfter(FillsGone + i + 1) = Trade(FillsGone + i + 1)
        BY <1>12, <4>1
      <4>4. QED
        BY <1>11, <4>1, <4>2, <4>3
    <3>2. CASE i = count
      <4>1. FillsGone + i + 1 = sold + 1
        BY <3>2, RegistryFacts
      <4>2. QED
        BY <1>10, <1>11, <1>13, <3>2, <4>1
    <3>3. QED
      BY <2>3, <3>1, <3>2, RegistryFacts
  <2>5. /\ fills'[head].sol_in = solSold'[FillsGone + 1] - SolTaken
        /\ fills'[head].token_2z_out = tokenSold'[FillsGone + 1] - TokenTaken
        /\ solSold'[FillsGone] <= SolTaken
        /\ tokenSold'[FillsGone] <= TokenTaken
        /\ fills'[head].sol_in = 0 => SolTaken = solSold'[FillsGone]
    <3>1. CASE count = 0
      <4>1. /\ FillsGone = sold /\ head = tail
            /\ SolTaken = solSold[sold] /\ TokenTaken = tokenSold[sold]
        BY <1>10, <3>1, RegistryFacts, SlotArithmetic DEF RegistryInv, QueueHoldsUndequeuedTrades
      <4>2. QED
        BY <1>2, <1>4, <1>11, <4>1, RegistryFacts
    <3>2. CASE count > 0
      <4>1. 0 \in 0..count - 1 /\ FillsGone \in 0..sold /\ FillsGone + 1 \in 0..sold
        BY <3>2, RegistryFacts
      <4>2. fills'[head] = fills[head]
        BY <1>11, <4>1, RegistryFacts, SlotArithmetic
      <4>3. QED
        BY <1>4, <3>2, <4>1, <4>2 DEF RegistryInv, QueueHoldsUndequeuedTrades
    <3>3. QED
      BY <3>1, <3>2, RegistryFacts
  <2>6. count' - 1 = count /\ count' # 0
    BY <1>3, RegistryFacts
  <2>7. \A i \in 1..count' - 1 : fills'[Slot(i)] = TradeAfter(FillsGone + i + 1)
    BY <2>3, <2>6
  <2>8. QED
    BY <1>3, <1>5, <2>1, <2>2, <2>5, <2>6, <2>7
       DEF QueueHoldsUndequeuedTrades, Trade, Slot
<1>15. NeverOverCredited'
  <2>1. CASE count = 0
    <3>1. FillsGone = sold /\ head = tail
      BY <1>10, <2>1, RegistryFacts, SlotArithmetic
    <3>2. HeadTrade' = new /\ fills'[head'] = new
      <4>1. HeadTrade' = TradeAfter(FillsGone + 1)
        BY <1>5 DEF HeadTrade, Trade
      <4>2. QED
        BY <1>3, <1>11, <1>13, <3>1, <4>1
    <3>3. QED
      BY <1>2, <3>2 DEF NeverOverCredited
  <2>2. CASE count > 0
    <3>1. 0 \in 0..count - 1 /\ FillsGone + 1 \in 1..sold
      BY <2>2, RegistryFacts
    <3>2. fills'[head'] = fills[head]
      BY <1>3, <1>11, <3>1, RegistryFacts, SlotArithmetic
    <3>3. HeadTrade' = HeadTrade
      <4>1. HeadTrade' = TradeAfter(FillsGone + 1)
        BY <1>5 DEF HeadTrade, Trade
      <4>2. QED
        BY <1>12, <3>1, <4>1 DEF HeadTrade
    <3>4. QED
      BY <2>2, <3>2, <3>3 DEF RegistryInv, NeverOverCredited
  <2>3. QED
    BY <2>1, <2>2, RegistryFacts
<1>16. QED
  BY <1>1, <1>7, <1>8, <1>9, <1>14, <1>15 DEF RegistryInv

LEMMA StartKeepsInv ==
  ASSUME RegistryInv, RegistryTypeOK', NEW max \in DequeueLimits, DequeueStart(max)
  PROVE  RegistryInv'
<1>1. /\ max > 0 /\ pc = "idle" /\ pc' = "loop" /\ max_sol_amount' = max
      /\ UNCHANGED <<queueVars, totalVars, sol_dequeued, token_2z_dequeued,
                     fills_consumed, soldVars, paidVars>>
  BY DEF DequeueStart
<1>2. max \in Nat
  BY AmountsAssumption, U64Assumption
<1>3. LoopWithinLimit'
  BY <1>1, <1>2 DEF RegistryInv, LoopWithinLimit
<1>4. LedgerOrdered' /\ TotalsMatchLedger'
  BY <1>1 DEF RegistryInv, LedgerOrdered, TotalsMatchLedger, soldVars, totalVars, paidVars
<1>5. QueueHoldsUndequeuedTrades'
  BY <1>1 DEF RegistryInv, QueueHoldsUndequeuedTrades, FillsGone, SolTaken, TokenTaken, Slot, Trade,
              queueVars, soldVars, paidVars
<1>6. NeverOverCredited'
  BY <1>1 DEF RegistryInv, NeverOverCredited, HeadTrade, Trade, FillsGone,
              queueVars, soldVars, paidVars
<1>7. QED
  BY <1>3, <1>4, <1>5, <1>6 DEF RegistryInv

\* Taking the whole fill at the head keeps the invariant.
LEMMA FullKeepsInv ==
  ASSUME RegistryInv, RegistryTypeOK', DequeueFull
  PROVE  RegistryInv'
<1> USE QueueSizeAssumption, U64Assumption, MaxTradesAssumption
<1> DEFINE S == fills[head].sol_in
           T == fills[head].token_2z_out
           SlotAfter(i) == IF head' + i < MAX_FILLS_QUEUE_SIZE
                           THEN head' + i ELSE head' + i - MAX_FILLS_QUEUE_SIZE
<1>1. /\ pc = "loop" /\ count > 0 /\ S <= max_sol_amount - sol_dequeued
      /\ head' = NextIndex(head) /\ count' = count - 1
      /\ fills_consumed' = fills_consumed + 1
      /\ sol_dequeued' = sol_dequeued + S
      /\ token_2z_dequeued' = token_2z_dequeued + T
      /\ fills' = fills /\ tail' = tail /\ pc' = pc /\ max_sol_amount' = max_sol_amount
      /\ UNCHANGED <<totalVars, soldVars, paidVars>>
  BY DEF DequeueFull, LoopContinues, NextEntry, RemainingSol, Accumulate
<1>2. /\ S \in Nat /\ T \in Nat
      /\ sol_dequeued \in Nat /\ token_2z_dequeued \in Nat /\ fills_consumed \in Nat
      /\ consumed \in Nat /\ solPaid \in Nat /\ tokenPaid \in Nat /\ max_sol_amount \in Nat
  BY RegistryFacts
<1>3. /\ FillsGone' = FillsGone + 1
      /\ SolTaken' = SolTaken + S
      /\ TokenTaken' = TokenTaken + T
  <2>1. consumed' = consumed /\ solPaid' = solPaid /\ tokenPaid' = tokenPaid
    BY <1>1 DEF paidVars
  <2>2. QED
    BY <1>1, <1>2, <2>1 DEF FillsGone, SolTaken, TokenTaken
<1>4. /\ FillsGone \in 0..sold /\ FillsGone + 1 \in 0..sold
      /\ solSold[FillsGone + 1] \in Nat /\ tokenSold[FillsGone + 1] \in Nat
  BY <1>1, RegistryFacts
<1>5. /\ SolTaken' = solSold[FillsGone + 1]
      /\ TokenTaken' = tokenSold[FillsGone + 1]
  <2>1. S = solSold[FillsGone + 1] - SolTaken /\ T = tokenSold[FillsGone + 1] - TokenTaken
    BY <1>1 DEF RegistryInv, QueueHoldsUndequeuedTrades
  <2>2. QED
    BY <1>3, <1>4, <2>1, RegistryFacts
<1>6. solSold' = solSold /\ tokenSold' = tokenSold /\ sold' = sold
  BY <1>1 DEF soldVars
<1>7. /\ head' = Slot(1)
      /\ \A i \in 0..count - 1 : SlotAfter(i) = Slot(i + 1)
  <2>1. head' = Slot(1)
    BY <1>1, RegistryFacts, SlotArithmetic
  <2>2. ASSUME NEW i \in 0..count - 1 PROVE SlotAfter(i) = Slot(i + 1)
    BY <2>1, RegistryFacts DEF Slot
  <2>3. QED
    BY <2>1, <2>2
<1>8. \A i \in 1..count - 1 : fills[Slot(i)] = Trade(FillsGone + i + 1)
  BY DEF RegistryInv, QueueHoldsUndequeuedTrades
<1>9. count > 1 => fills[head'] = Trade(FillsGone + 2)
  <2> SUFFICES ASSUME count > 1 PROVE fills[head'] = Trade(FillsGone + 2)
    OBVIOUS
  <2>1. 1 \in 1..count - 1 /\ FillsGone + 1 + 1 = FillsGone + 2
    BY RegistryFacts
  <2>2. QED
    BY <1>7, <1>8, <2>1
<1>10. LedgerOrdered' /\ TotalsMatchLedger'
  BY <1>1 DEF RegistryInv, LedgerOrdered, TotalsMatchLedger, soldVars, totalVars, paidVars
<1>11. LoopWithinLimit'
  BY <1>1, <1>2 DEF RegistryInv, LoopWithinLimit
<1>12. QueueHoldsUndequeuedTrades'
  <2>1. sold' = FillsGone' + count'
    BY <1>1, <1>3, <1>6, RegistryFacts
  <2>2. tail' = SlotAfter(count')
    <3>1. count - 1 \in 0..count - 1 /\ count - 1 + 1 = count
      BY <1>1, RegistryFacts
    <3>2. tail = Slot(count)
      BY DEF RegistryInv, QueueHoldsUndequeuedTrades
    <3>3. QED
      BY <1>1, <1>7, <3>1, <3>2
  <2>3. ASSUME NEW i \in 1..count' - 1
        PROVE  fills'[SlotAfter(i)] = Trade(FillsGone + 1 + i + 1)
    <3>1. /\ i \in 0..count - 1 /\ i + 1 \in 1..count - 1
          /\ FillsGone + (i + 1) + 1 = FillsGone + 1 + i + 1
      BY <1>1, <2>3, RegistryFacts
    <3>2. QED
      BY <1>1, <1>7, <1>8, <3>1
  <2>4. count' > 0 =>
          /\ fills'[head'].sol_in = solSold[FillsGone + 1 + 1] - SolTaken'
          /\ fills'[head'].token_2z_out = tokenSold[FillsGone + 1 + 1] - TokenTaken'
          /\ solSold[FillsGone + 1] <= SolTaken'
          /\ tokenSold[FillsGone + 1] <= TokenTaken'
          /\ fills'[head'].sol_in = 0 => SolTaken' = solSold[FillsGone + 1]
    <3>1. /\ FillsGone + 1 + 1 = FillsGone + 2 /\ FillsGone + 2 - 1 = FillsGone + 1
          /\ count' > 0 => count > 1
      BY <1>1, RegistryFacts
    <3>2. count' > 0 => fills'[head'] = Trade(FillsGone + 2)
      BY <1>1, <1>9, <3>1
    <3>3. QED
      BY <1>4, <1>5, <3>1, <3>2 DEF Trade
  <2>5. count' = 0 => /\ SolTaken' = solSold[sold]
                      /\ TokenTaken' = tokenSold[sold]
    <3>1. count' = 0 => FillsGone + 1 = sold
      BY <1>1, RegistryFacts
    <3>2. QED
      BY <1>5, <3>1
  <2>6. QED
    BY <1>3, <1>6, <2>1, <2>2, <2>3, <2>4, <2>5
       DEF QueueHoldsUndequeuedTrades, Trade, Slot
<1>13. NeverOverCredited'
  <2> SUFFICES ASSUME count' > 0
               PROVE  HeadTrade'.token_2z_out * fills'[head'].sol_in
                        <= fills'[head'].token_2z_out * HeadTrade'.sol_in
    BY DEF NeverOverCredited
  <2>1. count > 1 /\ FillsGone + 1 + 1 = FillsGone + 2
    BY <1>1, RegistryFacts
  <2>2. HeadTrade' = Trade(FillsGone + 2)
    BY <1>3, <1>6, <2>1 DEF HeadTrade, Trade
  <2>3. HeadTrade' = fills'[head']
    BY <1>1, <1>9, <2>1, <2>2
  <2>4. HeadTrade'.sol_in \in Int /\ HeadTrade'.token_2z_out \in Int
    <3>1. FillsGone + 1 \in 0..sold /\ FillsGone + 2 \in 0..sold
      BY <2>1, RegistryFacts
    <3>2. QED
      BY <2>1, <2>2, <3>1, RegistryFacts DEF Trade
  <2>5. QED
    BY <2>3, <2>4
<1>14. QED
  BY <1>10, <1>11, <1>12, <1>13 DEF RegistryInv

\* Splitting the fill at the head keeps the invariant.
LEMMA PartialKeepsInv ==
  ASSUME RegistryInv, RegistryTypeOK', DequeuePartial
  PROVE  RegistryInv'
<1> USE QueueSizeAssumption, U64Assumption, MaxTradesAssumption
<1> DEFINE s == fills[head].sol_in
           t == fills[head].token_2z_out
           r == RemainingSol
           q == PartialTokens(NextEntry, RemainingSol)
           rest == [sol_in |-> s - r, token_2z_out |-> t - q]
<1>1. /\ pc = "loop" /\ count > 0 /\ sol_dequeued < max_sol_amount /\ s > r
      /\ fills' = [fills EXCEPT ![head] = rest]
      /\ sol_dequeued' = sol_dequeued + r
      /\ token_2z_dequeued' = token_2z_dequeued + q
      /\ UNCHANGED <<head, tail, count, totalVars, pc, max_sol_amount,
                     fills_consumed, soldVars, paidVars>>
  BY DEF DequeuePartial, LoopContinues, NextEntry, Accumulate
<1>2. /\ s \in Nat /\ t \in Nat /\ r \in Nat \ {0} /\ q \in Nat /\ q <= t /\ q * s <= t * r
      /\ r = max_sol_amount - sol_dequeued
  <2>1. RegistryTypeOK /\ NextEntry.sol_in > RemainingSol
    BY <1>1 DEF RegistryInv, NextEntry
  <2>2. QED
    BY <1>1, <2>1, RegistryFacts, PartialTokensOfEntry DEF NextEntry, RemainingSol
<1> HIDE DEF q, r
<1>3. /\ fills'[head] = rest
      /\ \A i \in 1..count - 1 : fills'[Slot(i)] = fills[Slot(i)]
  <2>1. fills \in [0..MAX_FILLS_QUEUE_SIZE - 1 -> Fill] /\ head \in 0..MAX_FILLS_QUEUE_SIZE - 1
    BY DEF RegistryInv, RegistryTypeOK
  <2>2. ASSUME NEW i \in 1..count - 1 PROVE Slot(i) # head /\ Slot(i) \in 0..MAX_FILLS_QUEUE_SIZE - 1
    <3>1. i \in 0..MAX_FILLS_QUEUE_SIZE - 1 /\ i # 0 /\ 0 \in 0..MAX_FILLS_QUEUE_SIZE - 1
      BY RegistryFacts
    <3>2. QED
      BY <2>1, <3>1, SlotArithmetic
  <2>3. QED
    BY <1>1, <2>1, <2>2
<1>4. /\ FillsGone' = FillsGone
      /\ SolTaken' = SolTaken + r
      /\ TokenTaken' = TokenTaken + q
  BY <1>1, <1>2, RegistryFacts DEF FillsGone, SolTaken, TokenTaken, paidVars
<1>5. /\ sold' = sold /\ solSold' = solSold /\ tokenSold' = tokenSold
      /\ head' = head /\ tail' = tail /\ count' = count
  BY <1>1 DEF soldVars
<1>6. /\ FillsGone \in 0..sold /\ FillsGone + 1 \in 0..sold /\ FillsGone + 1 - 1 = FillsGone
      /\ solSold[FillsGone] \in Nat /\ tokenSold[FillsGone] \in Nat
      /\ solSold[FillsGone + 1] \in Nat /\ tokenSold[FillsGone + 1] \in Nat
  BY <1>1, RegistryFacts
<1>7. LedgerOrdered' /\ TotalsMatchLedger'
  BY <1>1 DEF RegistryInv, LedgerOrdered, TotalsMatchLedger, soldVars, totalVars, paidVars
<1>8. LoopWithinLimit'
  BY <1>1, <1>2, RegistryFacts DEF RegistryInv, LoopWithinLimit
<1>9. QueueHoldsUndequeuedTrades'
  <2>1. \A i \in 1..count - 1 : fills'[Slot(i)] = Trade(FillsGone + i + 1)
    BY <1>3 DEF RegistryInv, QueueHoldsUndequeuedTrades
  <2>2. /\ s = solSold[FillsGone + 1] - SolTaken
        /\ t = tokenSold[FillsGone + 1] - TokenTaken
        /\ solSold[FillsGone] <= SolTaken /\ tokenSold[FillsGone] <= TokenTaken
        /\ sold = FillsGone + count /\ tail = Slot(count)
    BY <1>1 DEF RegistryInv, QueueHoldsUndequeuedTrades
  <2>3. /\ fills'[head].sol_in = solSold[FillsGone + 1] - (SolTaken + r)
        /\ fills'[head].token_2z_out = tokenSold[FillsGone + 1] - (TokenTaken + q)
        /\ solSold[FillsGone] <= SolTaken + r /\ tokenSold[FillsGone] <= TokenTaken + q
        /\ fills'[head].sol_in # 0
    BY <1>1, <1>2, <1>3, <1>6, <2>2, RegistryFacts
  <2>4. QED
    BY <1>1, <1>4, <1>5, <2>1, <2>2, <2>3 DEF QueueHoldsUndequeuedTrades, Trade, Slot
<1>10. NeverOverCredited'
  <2> DEFINE T == HeadTrade.token_2z_out
             S == HeadTrade.sol_in
  <2>1. T \in Nat /\ S \in Nat
    <3>1. /\ solSold[FillsGone] <= solSold[FillsGone + 1]
          /\ tokenSold[FillsGone] <= tokenSold[FillsGone + 1]
      BY <1>6 DEF RegistryInv, LedgerOrdered
    <3>2. QED
      BY <1>6, <3>1 DEF HeadTrade, Trade
  <2>2. HeadTrade' = HeadTrade
    BY <1>4, <1>5 DEF HeadTrade, Trade
  <2>3. T * s <= t * S
    BY <1>1 DEF RegistryInv, NeverOverCredited
  <2>4. T * (s - r) <= (t - q) * S
    <3> HIDE DEF T, S, s, t
    <3>1. QED
      BY <1>1, <1>2, <2>1, <2>3, SplitKeepsPrice
  <2>5. fills'[head'].sol_in = s - r /\ fills'[head'].token_2z_out = t - q
    BY <1>3, <1>5
  <2>6. QED
    BY <2>2, <2>4, <2>5 DEF NeverOverCredited
<1>11. QED
  BY <1>7, <1>8, <1>9, <1>10 DEF RegistryInv

\* The end of dequeue_fills keeps the invariant.
LEMMA CommitKeepsInv ==
  ASSUME RegistryInv, RegistryTypeOK', DequeueCommit
  PROVE  RegistryInv'
<1>1. /\ total_sol_pending' = total_sol_pending - sol_dequeued
      /\ total_2z_pending' = total_2z_pending - token_2z_dequeued
      /\ consumed' = consumed + fills_consumed
      /\ solPaid' = solPaid + sol_dequeued
      /\ tokenPaid' = tokenPaid + token_2z_dequeued
      /\ pc' = "idle" /\ max_sol_amount' = 0
      /\ sol_dequeued' = 0 /\ token_2z_dequeued' = 0 /\ fills_consumed' = 0
      /\ UNCHANGED <<queueVars, soldVars>>
  BY DEF DequeueCommit
<1>2. FillsGone' = FillsGone /\ SolTaken' = SolTaken /\ TokenTaken' = TokenTaken
  BY <1>1, RegistryFacts DEF FillsGone, SolTaken, TokenTaken
<1>3. LedgerOrdered' /\ LoopWithinLimit'
  BY <1>1 DEF RegistryInv, LedgerOrdered, LoopWithinLimit, soldVars
<1>4. TotalsMatchLedger'
  <2>1. solSold[sold] \in Nat /\ tokenSold[sold] \in Nat
    BY RegistryFacts
  <2>2. QED
    BY <1>1, <2>1, RegistryFacts DEF RegistryInv, TotalsMatchLedger, soldVars
<1>5. QueueHoldsUndequeuedTrades'
  BY <1>1, <1>2 DEF RegistryInv, QueueHoldsUndequeuedTrades, Trade, Slot, queueVars, soldVars
<1>6. NeverOverCredited'
  BY <1>1, <1>2 DEF RegistryInv, NeverOverCredited, HeadTrade, Trade, queueVars, soldVars
<1>7. QED
  BY <1>3, <1>4, <1>5, <1>6 DEF RegistryInv

LEMMA RegistryInvStep == RegistryInv /\ [RegistryNext]_registryVars => RegistryInv'
<1> SUFFICES ASSUME RegistryInv, [RegistryNext]_registryVars PROVE RegistryInv'
  OBVIOUS
<1>1. RegistryTypeOK'
  BY RegistryTypeStep DEF RegistryInv
<1>2. ASSUME NEW t \in Trades, EnqueueFill(t[1], t[2]) PROVE RegistryInv'
  BY <1>2, TradesInRange, EnqueueKeepsInv
<1>3. ASSUME NEW max \in DequeueLimits, DequeueStart(max) PROVE RegistryInv'
  BY <1>1, <1>3, StartKeepsInv
<1>4. CASE DequeueFull
  BY <1>1, <1>4, FullKeepsInv
<1>5. CASE DequeuePartial
  BY <1>1, <1>5, PartialKeepsInv
<1>6. CASE DequeueCommit
  BY <1>1, <1>6, CommitKeepsInv
<1>7. CASE UNCHANGED registryVars
  BY <1>1, <1>7
     DEF RegistryInv, LedgerOrdered, TotalsMatchLedger, LoopWithinLimit, QueueHoldsUndequeuedTrades,
         NeverOverCredited, HeadTrade, Trade, Slot, FillsGone, SolTaken, TokenTaken,
         registryVars, queueVars, totalVars, loopVars, soldVars, paidVars
<1>8. QED
  BY <1>2, <1>3, <1>4, <1>5, <1>6, <1>7 DEF RegistryNext, DequeueLoop, DequeueEmpty

\* The strengthened invariant: every slot of the ring is accounted for by the
\* trades buy_sol recorded and the SOL and 2Z that dequeue_fills has removed.
THEOREM RegistryInvariant == RegistrySpec => []RegistryInv
  BY RegistryInvInit, RegistryInvStep, PTL DEF RegistrySpec

-----------------------------------------------------------------------------
(* What the invariant implies *)

\* Where the consumer stands on the line of trades.
LEMMA Position ==
  ASSUME RegistryInv
  PROVE  /\ SolTaken <= solSold[sold] /\ TokenTaken <= tokenSold[sold]
         /\ solSold[FillsGone] <= SolTaken /\ tokenSold[FillsGone] <= TokenTaken
         /\ count > 0 =>
              /\ SolTaken + fills[head].sol_in = solSold[FillsGone + 1]
              /\ TokenTaken + fills[head].token_2z_out = tokenSold[FillsGone + 1]
              /\ solSold[FillsGone + 1] <= solSold[sold]
              /\ tokenSold[FillsGone + 1] <= tokenSold[sold]
              /\ fills[head].sol_in = 0 => fills[head].token_2z_out = 0
<1>1. CASE count = 0
  <2>1. FillsGone = sold
    BY <1>1, RegistryFacts
  <2>2. SolTaken = solSold[sold] /\ TokenTaken = tokenSold[sold] /\ solSold[sold] \in Nat /\ tokenSold[sold] \in Nat
    BY <1>1, RegistryFacts DEF RegistryInv, QueueHoldsUndequeuedTrades
  <2>3. ~(count > 0) /\ SolTaken <= SolTaken /\ TokenTaken <= TokenTaken
    BY <1>1, RegistryFacts
  <2>4. QED
    BY <2>1, <2>2, <2>3
<1>2. CASE count > 0
  <2>1. /\ FillsGone \in 0..sold /\ FillsGone + 1 \in 0..sold /\ sold \in 0..sold
        /\ FillsGone <= FillsGone + 1 /\ FillsGone + 1 <= sold
    BY <1>2, RegistryFacts
  <2>2. /\ solSold[FillsGone] \in Nat /\ solSold[FillsGone + 1] \in Nat /\ solSold[sold] \in Nat
        /\ tokenSold[FillsGone] \in Nat /\ tokenSold[FillsGone + 1] \in Nat
        /\ tokenSold[sold] \in Nat
    BY <2>1, RegistryFacts
  <2>3. /\ fills[head].sol_in = solSold[FillsGone + 1] - SolTaken
        /\ fills[head].token_2z_out = tokenSold[FillsGone + 1] - TokenTaken
        /\ solSold[FillsGone] <= SolTaken /\ tokenSold[FillsGone] <= TokenTaken
        /\ fills[head].sol_in = 0 => SolTaken = solSold[FillsGone]
    BY <1>2 DEF RegistryInv, QueueHoldsUndequeuedTrades
  <2>4. /\ solSold[FillsGone + 1] <= solSold[sold]
        /\ tokenSold[FillsGone + 1] <= tokenSold[sold]
        /\ solSold[FillsGone] = solSold[FillsGone + 1] =>
             tokenSold[FillsGone] = tokenSold[FillsGone + 1]
    BY <2>1 DEF RegistryInv, LedgerOrdered
  <2>5. SolTaken \in Nat /\ TokenTaken \in Nat
    BY RegistryFacts
  <2>6. /\ SolTaken + fills[head].sol_in = solSold[FillsGone + 1]
        /\ TokenTaken + fills[head].token_2z_out = tokenSold[FillsGone + 1]
    BY <2>2, <2>3, <2>5
  <2>7. fills[head].sol_in \in Nat /\ fills[head].token_2z_out \in Nat
    BY RegistryFacts
  <2>8. fills[head].sol_in = 0 => fills[head].token_2z_out = 0
    BY <2>2, <2>3, <2>4, <2>5, <2>7
  <2>9. SolTaken <= solSold[sold] /\ TokenTaken <= tokenSold[sold]
    BY <2>2, <2>4, <2>5, <2>6, <2>7
  <2>10. QED
    BY <2>3, <2>4, <2>6, <2>8, <2>9
<1>3. QED
  BY <1>1, <1>2, RegistryFacts

LEMMA ArithmeticIsSafe == RegistryInv => NoArithmeticError
<1> SUFFICES ASSUME RegistryInv PROVE NoArithmeticError
  OBVIOUS
<1>1. /\ total_sol_pending = solSold[sold] - solPaid
      /\ total_2z_pending = tokenSold[sold] - tokenPaid
      /\ solSold[sold] \in Nat /\ tokenSold[sold] \in Nat
  BY RegistryFacts DEF RegistryInv, TotalsMatchLedger
<1>2. sol_dequeued <= total_sol_pending /\ token_2z_dequeued <= total_2z_pending
  BY <1>1, Position, RegistryFacts DEF SolTaken, TokenTaken
<1>3. count > 0 => /\ sol_dequeued + fills[head].sol_in <= U64_MAX
                   /\ token_2z_dequeued + fills[head].token_2z_out <= U64_MAX
  <2> SUFFICES ASSUME count > 0
               PROVE  /\ sol_dequeued + fills[head].sol_in <= U64_MAX
                      /\ token_2z_dequeued + fills[head].token_2z_out <= U64_MAX
    OBVIOUS
  <2>1. /\ solSold[FillsGone + 1] \in Nat /\ tokenSold[FillsGone + 1] \in Nat
    BY RegistryFacts
  <2>2. /\ solPaid + sol_dequeued + fills[head].sol_in <= solSold[sold]
        /\ tokenPaid + token_2z_dequeued + fills[head].token_2z_out <= tokenSold[sold]
    BY Position DEF SolTaken, TokenTaken
  <2>3. QED
    BY <1>1, <2>2, U64Assumption, RegistryFacts
<1>4. CASE LoopContinues /\ NextEntry.sol_in > RemainingSol
  <2> DEFINE q == PartialTokens(NextEntry, RemainingSol)
  <2>1. q \in Nat /\ q <= fills[head].token_2z_out /\ RemainingSol \in Nat
    BY <1>4, PartialTokensOfEntry DEF LoopContinues, RegistryInv, NextEntry
  <2> HIDE DEF q
  <2>2. q \in 0..NextEntry.token_2z_out
    BY <2>1, RegistryFacts DEF NextEntry
  <2>3. sol_dequeued + RemainingSol <= U64_MAX /\ token_2z_dequeued + q <= U64_MAX
    BY <1>3, <1>4, <2>1, U64Assumption, RegistryFacts DEF LoopContinues, NextEntry
  <2>4. QED
    BY <1>2, <1>4, <2>2, <2>3, RegistryFacts DEF NoArithmeticError, q, NextEntry, RemainingSol
<1>5. CASE ~(LoopContinues /\ NextEntry.sol_in > RemainingSol)
  BY <1>2, <1>3, <1>5 DEF NoArithmeticError, LoopContinues, NextEntry
<1>6. QED
  BY <1>4, <1>5

LEMMA DrainIsComplete == RegistryInv => DrainedPaysAll
<1> SUFFICES ASSUME RegistryInv, pc = "idle", total_sol_pending = 0
             PROVE  total_2z_pending = 0 /\ tokenPaid = tokenSold[sold]
  BY DEF DrainedPaysAll
<1>1. SolTaken = solPaid /\ TokenTaken = tokenPaid
  BY RegistryFacts DEF RegistryInv, LoopWithinLimit, SolTaken, TokenTaken
<1>2. /\ solSold[sold] = SolTaken /\ solSold[sold] \in Nat /\ tokenSold[sold] \in Nat
      /\ total_2z_pending = tokenSold[sold] - tokenPaid
  BY <1>1, RegistryFacts DEF RegistryInv, TotalsMatchLedger
<1>3. TokenTaken = tokenSold[sold]
  <2>1. CASE count = 0
    BY <2>1 DEF RegistryInv, QueueHoldsUndequeuedTrades
  <2>2. CASE count > 0
    <3>1. /\ FillsGone + 1 \in 0..sold /\ sold \in 0..sold /\ FillsGone + 1 <= sold
          /\ solSold[FillsGone + 1] \in Nat /\ tokenSold[FillsGone + 1] \in Nat
      BY <2>2, RegistryFacts
    <3>2. fills[head].sol_in = 0 /\ solSold[FillsGone + 1] = solSold[sold]
      BY <1>2, <2>2, <3>1, Position, RegistryFacts
    <3>3. tokenSold[FillsGone + 1] = tokenSold[sold]
      BY <3>1, <3>2 DEF RegistryInv, LedgerOrdered
    <3>4. QED
      BY <2>2, <3>2, <3>3, Position, RegistryFacts
  <2>3. QED
    BY <2>1, <2>2, RegistryFacts
<1>4. QED
  BY <1>1, <1>2, <1>3, RegistryFacts

LEMMA CommitTakesExactly ==
  ASSUME RegistryInv, DequeueCommit
  PROVE  sol_dequeued = IF max_sol_amount <= total_sol_pending
                        THEN max_sol_amount ELSE total_sol_pending
<1>1. ~LoopContinues /\ sol_dequeued <= max_sol_amount /\ sol_dequeued <= total_sol_pending
  BY DEF DequeueCommit, RegistryInv, LoopWithinLimit
<1>2. CASE count = 0
  <2>1. SolTaken = solSold[sold] /\ total_sol_pending = solSold[sold] - solPaid /\ solSold[sold] \in Nat
    BY <1>2, RegistryFacts DEF RegistryInv, QueueHoldsUndequeuedTrades, TotalsMatchLedger
  <2>2. sol_dequeued = total_sol_pending
    BY <2>1, RegistryFacts DEF SolTaken
  <2>3. QED
    BY <1>1, <2>2, RegistryFacts
<1>3. CASE count > 0
  BY <1>1, <1>3, RegistryFacts DEF LoopContinues
<1>4. QED
  BY <1>2, <1>3, RegistryFacts

\* The ring buffer is a FIFO queue of the trades not yet dequeued, for every
\* size of the array and every number of wraps.
THEOREM QueueIsFifo == RegistrySpec => []QueueHoldsUndequeuedTrades
<1>1. RegistryInv => QueueHoldsUndequeuedTrades
  BY DEF RegistryInv
<1>2. QED
  BY <1>1, RegistryInvariant, PTL

\* No sequence of splits credits the consumer with more than the pro-rata share.
THEOREM FairCredit == RegistrySpec => []NeverOverCredited
<1>1. RegistryInv => NeverOverCredited
  BY DEF RegistryInv
<1>2. QED
  BY <1>1, RegistryInvariant, PTL

\* ArithmeticError is unreachable once dequeue_fills has entered its loop.
THEOREM DequeueNeverAborts == RegistrySpec => []NoArithmeticError
  BY ArithmeticIsSafe, RegistryInvariant, PTL

\* Draining all SOL drains all 2Z.
THEOREM DrainLeavesNoDust == RegistrySpec => []DrainedPaysAll
  BY DrainIsComplete, RegistryInvariant, PTL

\* The index of a fill in the listing of view_fills.rs, without the modulus.
LEMMA ListedSlot ==
  ASSUME head \in 0..MAX_FILLS_QUEUE_SIZE - 1, NEW i \in 1..MAX_FILLS_QUEUE_SIZE
  PROVE  (head + i - 1) % MAX_FILLS_QUEUE_SIZE = Slot(i - 1)
<1> DEFINE n == head + i - 1
<1>1. n \in Nat /\ n < 2 * MAX_FILLS_QUEUE_SIZE
  BY QueueSizeAssumption
<1>2. n % MAX_FILLS_QUEUE_SIZE = IF n < MAX_FILLS_QUEUE_SIZE THEN n ELSE n - MAX_FILLS_QUEUE_SIZE
  <2> HIDE DEF n
  <2>1. QED
    BY <1>1, QueueSizeAssumption
<1>3. QED
  BY <1>2, QueueSizeAssumption DEF Slot

\* The fills listed are the stretches of the line of trades from the consumer's position on.
LEMMA LiveFillsAreTrades ==
  ASSUME RegistryInv, NEW i \in 1..count
  PROVE  /\ LiveFills[i].sol_in
              = solSold[FillsGone + i] - (IF i = 1 THEN SolTaken ELSE solSold[FillsGone + i - 1])
         /\ LiveFills[i].token_2z_out
              = tokenSold[FillsGone + i] - (IF i = 1 THEN TokenTaken ELSE tokenSold[FillsGone + i - 1])
<1> USE QueueSizeAssumption
<1>1. /\ head \in 0..MAX_FILLS_QUEUE_SIZE - 1 /\ count \in 0..MAX_FILLS_QUEUE_SIZE
      /\ FillsGone \in Nat
  BY RegistryFacts
<1>2. LiveFills[i] = fills[Slot(i - 1)]
  <2>1. LiveFills[i] = fills[(head + i - 1) % MAX_FILLS_QUEUE_SIZE]
    BY DEF LiveFills
  <2>2. i \in 1..MAX_FILLS_QUEUE_SIZE
    BY <1>1
  <2>3. QED
    BY <1>1, <2>1, <2>2, ListedSlot
<1>3. CASE i = 1
  <2>1. Slot(i - 1) = head /\ count > 0
    BY <1>1, <1>3 DEF Slot
  <2>2. QED
    BY <1>2, <1>3, <2>1 DEF RegistryInv, QueueHoldsUndequeuedTrades
<1>4. CASE i # 1
  <2>1. i - 1 \in 1..count - 1 /\ FillsGone + (i - 1) + 1 = FillsGone + i
        /\ (FillsGone + i) - 1 = FillsGone + i - 1
    BY <1>1, <1>4
  <2>2. fills[Slot(i - 1)] = Trade(FillsGone + i)
    BY <2>1 DEF RegistryInv, QueueHoldsUndequeuedTrades
  <2>3. /\ Trade(FillsGone + i).sol_in = solSold[FillsGone + i] - solSold[FillsGone + i - 1]
        /\ Trade(FillsGone + i).token_2z_out = tokenSold[FillsGone + i] - tokenSold[FillsGone + i - 1]
    BY <2>1 DEF Trade
  <2>4. LiveFills[i] = Trade(FillsGone + i)
    BY <1>2, <2>2
  <2>5. QED
    BY <1>4, <2>3, <2>4
<1>5. QED
  BY <1>3, <1>4

\* The totals between instructions are the sums over the listed fills (buy_sol.rs:221,
\* dequeue_fills.rs:102), for every size of the array and every number of splits.
THEOREM PendingTotalsAreSums == RegistrySpec => []PendingTotalsMatchQueue
<1>1. ASSUME RegistryInv, pc = "idle"
      PROVE  /\ total_sol_pending = SumFunction([i \in 1..count |-> LiveFills[i].sol_in])
             /\ total_2z_pending = SumFunction([i \in 1..count |-> LiveFills[i].token_2z_out])
  <2>1. /\ count \in Nat /\ FillsGone \in Nat /\ FillsGone + count = sold
        /\ SolTaken \in Nat /\ TokenTaken \in Nat
        /\ \A k \in 0..sold : solSold[k] \in Nat /\ tokenSold[k] \in Nat
    BY <1>1, RegistryFacts
  <2>2. /\ total_sol_pending = solSold[sold] - SolTaken
        /\ total_2z_pending = tokenSold[sold] - TokenTaken
    BY <1>1, RegistryFacts
       DEF RegistryInv, TotalsMatchLedger, LoopWithinLimit, SolTaken, TokenTaken
  <2>3. count = 0 => SolTaken = solSold[sold] /\ TokenTaken = tokenSold[sold]
    BY <1>1 DEF RegistryInv, QueueHoldsUndequeuedTrades
  <2> DEFINE sols   == [k \in 0..count |-> IF k = 0 THEN SolTaken ELSE solSold[FillsGone + k]]
             tokens == [k \in 0..count |-> IF k = 0 THEN TokenTaken ELSE tokenSold[FillsGone + k]]
             solIn    == [i \in 1..count |-> LiveFills[i].sol_in]
             tokenOut == [i \in 1..count |-> LiveFills[i].token_2z_out]
  <2>4. ASSUME NEW k \in 0..count PROVE sols[k] \in Int /\ tokens[k] \in Int
    BY <2>1
  <2>5. ASSUME NEW i \in 1..count
        PROVE  solIn[i] = sols[i] - sols[i-1] /\ tokenOut[i] = tokens[i] - tokens[i-1]
    <3>1. i \in 0..count /\ i - 1 \in 0..count /\ i # 0 /\ (i - 1 = 0 <=> i = 1)
          /\ FillsGone + (i - 1) = FillsGone + i - 1
      BY <2>1
    <3>2. /\ sols[i] = solSold[FillsGone + i]
          /\ sols[i-1] = IF i = 1 THEN SolTaken ELSE solSold[FillsGone + i - 1]
          /\ tokens[i] = tokenSold[FillsGone + i]
          /\ tokens[i-1] = IF i = 1 THEN TokenTaken ELSE tokenSold[FillsGone + i - 1]
      BY <3>1
    <3>3. /\ solIn[i] = LiveFills[i].sol_in /\ tokenOut[i] = LiveFills[i].token_2z_out
      OBVIOUS
    <3> HIDE DEF sols, tokens, solIn, tokenOut
    <3>4. QED
      BY <1>1, <3>2, <3>3, LiveFillsAreTrades
  <2>6. /\ SumFunction(solIn) = SumFunctionOnSet(solIn, 1..count)
        /\ SumFunction(tokenOut) = SumFunctionOnSet(tokenOut, 1..count)
    BY DEF SumFunction
  <2>7. /\ sols[count] - sols[0] = solSold[sold] - SolTaken
        /\ tokens[count] - tokens[0] = tokenSold[sold] - TokenTaken
    BY <2>1, <2>3
  <2> HIDE DEF sols, tokens, solIn, tokenOut
  <2>8. /\ SumFunctionOnSet(solIn, 1..count) = sols[count] - sols[0]
        /\ SumFunctionOnSet(tokenOut, 1..count) = tokens[count] - tokens[0]
    BY <2>1, <2>4, <2>5, SumTelescopes
  <2>9. SumFunction(solIn) = total_sol_pending /\ SumFunction(tokenOut) = total_2z_pending
    BY <2>2, <2>6, <2>7, <2>8
  <2>10. QED
    BY <2>9 DEF solIn, tokenOut
<1>2. RegistryInv => PendingTotalsMatchQueue
  BY <1>1 DEF PendingTotalsMatchQueue
<1>3. QED
  BY <1>2, RegistryInvariant, PTL

\* Every dequeue reports exactly min(max_sol_amount, total_sol_pending) lamports.
THEOREM DequeueIsExact == RegistrySpec => DequeueTakesExactly
<1>1. RegistryInv /\ [RegistryNext]_registryVars =>
        [DequeueCommit =>
           sol_dequeued = IF max_sol_amount <= total_sol_pending
                          THEN max_sol_amount ELSE total_sol_pending]_registryVars
  BY CommitTakesExactly
<1>2. QED
  BY <1>1, RegistryInvariant, PTL DEF RegistrySpec, DequeueTakesExactly

-----------------------------------------------------------------------------
(* Refinement *)

\* The consumer's position is a fair credit at every moment, inside the loop too.
LEMMA PositionIsSettled == RegistryInv => Ledger!Settled(SolTaken, TokenTaken)
<1> SUFFICES ASSUME RegistryInv, NEW i \in 1..sold
             PROVE  /\ solSold[i] <= SolTaken => tokenSold[i] <= TokenTaken
                    /\ SolTaken <= solSold[i-1] => TokenTaken <= tokenSold[i-1]
                    /\ solSold[i-1] <= SolTaken /\ SolTaken < solSold[i] =>
                         (TokenTaken - tokenSold[i-1]) * (solSold[i] - solSold[i-1])
                           <= (tokenSold[i] - tokenSold[i-1]) * (SolTaken - solSold[i-1])
  BY DEF Ledger!Settled
<1> DEFINE g == FillsGone
           s == fills[head].sol_in
           t == fills[head].token_2z_out
<1>1. /\ i \in 0..sold /\ i - 1 \in 0..sold /\ g \in 0..sold /\ sold \in 0..sold
      /\ count \in Nat /\ g + count = sold
  BY RegistryFacts
<1>2. /\ SolTaken \in Nat /\ TokenTaken \in Nat /\ s \in Nat /\ t \in Nat
      /\ \A k \in 0..sold : solSold[k] \in Nat /\ tokenSold[k] \in Nat
  BY RegistryFacts
<1>3. \A j, k \in 0..sold :
        j <= k => /\ solSold[j] <= solSold[k] /\ tokenSold[j] <= tokenSold[k]
                  /\ solSold[j] = solSold[k] => tokenSold[j] = tokenSold[k]
  BY DEF RegistryInv, LedgerOrdered
<1>4. solSold[g] <= SolTaken /\ tokenSold[g] <= TokenTaken
  BY Position
<1>5. count > 0 => /\ SolTaken + s = solSold[g + 1] /\ TokenTaken + t = tokenSold[g + 1]
                   /\ s = 0 => t = 0
  BY Position
<1>6. count = 0 => SolTaken = solSold[g] /\ TokenTaken = tokenSold[g]
  BY <1>1 DEF RegistryInv, QueueHoldsUndequeuedTrades
<1>7. count > 0 => (tokenSold[g + 1] - tokenSold[g]) * s <= t * (solSold[g + 1] - solSold[g])
  <2>2. /\ HeadTrade.sol_in = solSold[g + 1] - solSold[g]
        /\ HeadTrade.token_2z_out = tokenSold[g + 1] - tokenSold[g]
    <3>1. FillsGone \in Int
      BY RegistryFacts
    <3>2. QED
      BY <3>1 DEF HeadTrade, Trade
  <2>3. QED
    BY <2>2 DEF RegistryInv, NeverOverCredited
<1> HIDE DEF g, s, t
\* At a boundary between trades the credit is exact.
<1>8. SolTaken = solSold[g] => TokenTaken = tokenSold[g]
  <2> SUFFICES ASSUME SolTaken = solSold[g], count > 0 PROVE TokenTaken = tokenSold[g]
    BY <1>1, <1>6
  <2> DEFINE T == tokenSold[g + 1] - tokenSold[g]
  <2>1. g + 1 \in 0..sold /\ g <= g + 1
    BY <1>1
  <2>2. /\ solSold[g] \in Nat /\ solSold[g + 1] \in Nat
        /\ tokenSold[g] \in Nat /\ tokenSold[g + 1] \in Nat
        /\ solSold[g] = solSold[g + 1] => tokenSold[g] = tokenSold[g + 1]
    BY <1>1, <1>2, <1>3, <2>1
  <2>3. s = solSold[g + 1] - solSold[g] /\ t = tokenSold[g + 1] - TokenTaken
    BY <1>2, <1>5, <2>2
  <2>4. CASE s = 0
    <3>1. t = 0 /\ solSold[g] = solSold[g + 1]
      BY <1>5, <2>2, <2>3, <2>4
    <3>2. QED
      BY <1>2, <2>2, <2>3, <3>1
  <2>5. CASE s # 0
    <3>1. T * s <= t * s /\ s \in Nat \ {0} /\ T \in Int
      BY <1>2, <1>7, <2>2, <2>3, <2>5
    <3>2. T <= t
      BY <1>2, <3>1, FactorCancelled
    <3>3. QED
      BY <1>2, <1>4, <2>2, <2>3, <3>2
  <2>6. QED
    BY <2>4, <2>5
<1>9. count > 0 /\ SolTaken = solSold[g + 1] => TokenTaken = tokenSold[g + 1]
  <2> SUFFICES ASSUME count > 0, SolTaken = solSold[g + 1] PROVE TokenTaken = tokenSold[g + 1]
    OBVIOUS
  <2>1. solSold[g + 1] \in Nat /\ tokenSold[g + 1] \in Nat
    BY <1>1, <1>2
  <2>2. QED
    BY <1>2, <1>5, <2>1
<1>10. CASE i <= g
  <2>1. /\ solSold[i] <= solSold[g] /\ tokenSold[i] <= tokenSold[g]
        /\ solSold[i-1] <= solSold[g] /\ tokenSold[i-1] <= tokenSold[g]
        /\ solSold[i-1] = solSold[g] => tokenSold[i-1] = tokenSold[g]
    BY <1>1, <1>3, <1>10
  <2>2. /\ solSold[i] \in Nat /\ tokenSold[i] \in Nat /\ solSold[i-1] \in Nat
        /\ tokenSold[i-1] \in Nat /\ solSold[g] \in Nat /\ tokenSold[g] \in Nat
    BY <1>1, <1>2
  <2>3. SolTaken <= solSold[i-1] => TokenTaken <= tokenSold[i-1]
    BY <1>2, <1>4, <1>8, <2>1, <2>2
  <2>4. tokenSold[i] <= TokenTaken /\ ~(SolTaken < solSold[i])
    BY <1>2, <1>4, <2>1, <2>2
  <2>5. QED
    BY <2>3, <2>4
<1>11. CASE i = g + 1
  <2>1. count > 0 /\ i - 1 = g
    BY <1>1, <1>11
  <2>2. /\ solSold[g] \in Nat /\ solSold[g + 1] \in Nat
        /\ tokenSold[g] \in Nat /\ tokenSold[g + 1] \in Nat
    BY <1>1, <1>2, <1>11
  <2>3. solSold[g + 1] <= SolTaken => tokenSold[g + 1] <= TokenTaken
    BY <1>2, <1>5, <1>9, <2>1, <2>2
  <2>4. SolTaken <= solSold[g] => TokenTaken <= tokenSold[g]
    BY <1>2, <1>4, <1>8, <2>2
  <2>5. (TokenTaken - tokenSold[g]) * (solSold[g + 1] - solSold[g])
          <= (tokenSold[g + 1] - tokenSold[g]) * (SolTaken - solSold[g])
    <3> DEFINE S == solSold[g + 1] - solSold[g]
               T == tokenSold[g + 1] - tokenSold[g]
               x == SolTaken - solSold[g]
               y == TokenTaken - tokenSold[g]
    <3>1. /\ S \in Int /\ T \in Int /\ x \in Int /\ y \in Int
          /\ s = S - x /\ t = T - y
      BY <1>2, <1>5, <2>1, <2>2
    <3>2. T * s <= t * S
      BY <1>7, <2>1
    <3> HIDE DEF S, T, x, y
    <3>3. /\ T * s = T * S - T * x /\ t * S = T * S - y * S
          /\ T * S \in Int /\ T * x \in Int /\ y * S \in Int
      BY <3>1
    <3>4. y * S <= T * x
      BY <3>2, <3>3
    <3>5. QED
      BY <3>4 DEF S, T, x, y
  <2>6. QED
    BY <1>11, <2>1, <2>3, <2>4, <2>5
<1>12. CASE i > g + 1
  <2>1. count > 0 /\ g + 1 \in 0..sold /\ g + 1 <= i - 1 /\ g + 1 <= i
    BY <1>1, <1>12
  <2>2. /\ solSold[g + 1] <= solSold[i-1] /\ tokenSold[g + 1] <= tokenSold[i-1]
        /\ solSold[g + 1] = solSold[i-1] => tokenSold[g + 1] = tokenSold[i-1]
        /\ solSold[g + 1] <= solSold[i] /\ tokenSold[i-1] <= tokenSold[i]
        /\ solSold[g + 1] = solSold[i] => tokenSold[g + 1] = tokenSold[i]
    BY <1>1, <1>3, <2>1
  <2>3. /\ solSold[i] \in Nat /\ tokenSold[i] \in Nat /\ solSold[i-1] \in Nat
        /\ tokenSold[i-1] \in Nat /\ solSold[g + 1] \in Nat /\ tokenSold[g + 1] \in Nat
    BY <1>1, <1>2, <2>1
  <2>4. SolTaken <= solSold[g + 1] /\ TokenTaken <= tokenSold[g + 1]
    BY <1>2, <1>5, <2>1, <2>3
  <2>5. solSold[i] <= SolTaken => tokenSold[i] <= TokenTaken
    BY <1>2, <1>9, <2>1, <2>2, <2>3, <2>4
  <2>6. TokenTaken <= tokenSold[i-1]
    BY <1>2, <2>2, <2>3, <2>4
  <2>7. solSold[i-1] <= SolTaken =>
          SolTaken - solSold[i-1] = 0 /\ TokenTaken - tokenSold[i-1] = 0
    BY <1>2, <1>9, <2>1, <2>2, <2>3, <2>4
  <2>8. solSold[i] - solSold[i-1] \in Int /\ tokenSold[i] - tokenSold[i-1] \in Int
    BY <2>3
  <2>9. QED
    BY <2>5, <2>6, <2>7, <2>8
<1>13. QED
  BY <1>1, <1>10, <1>11, <1>12

\* The end of a dequeue is one payment of the ledger.
LEMMA CommitIsPay ==
  ASSUME RegistryInv, RegistryInv', DequeueCommit
  PROVE  Ledger!Pay(max_sol_amount)
<1>1. /\ solPaid' = SolTaken /\ tokenPaid' = TokenTaken
      /\ UNCHANGED <<sold, solSold, tokenSold>>
  BY DEF DequeueCommit, SolTaken, TokenTaken, soldVars
<1>2. total_sol_pending = solSold[sold] - solPaid /\ solSold[sold] \in Nat
  BY RegistryFacts DEF RegistryInv, TotalsMatchLedger
<1>3. SolTaken = IF solPaid + max_sol_amount <= solSold[sold]
                 THEN solPaid + max_sol_amount ELSE solSold[sold]
  BY <1>2, CommitTakesExactly, RegistryFacts DEF SolTaken
<1>4. tokenPaid <= TokenTaken /\ TokenTaken <= tokenSold[sold]
  BY Position, RegistryFacts DEF TokenTaken
<1>5. Ledger!Settled(solPaid', tokenPaid')
  BY <1>1, PositionIsSettled
<1>6. QED
  BY <1>1, <1>3, <1>4, <1>5 DEF Ledger!Pay

\* The registry implements the ledger: with the ring, the splits and the totals
\* hidden, buy_sol and dequeue_fills only ever append a trade and pay in order.
THEOREM RegistryImplementsLedger == RegistrySpec => ImplementsLedger
<1>1. RegistryInit => Ledger!Init
  BY DEF RegistryInit, Ledger!Init
<1>2. RegistryInv /\ RegistryInv' /\ [RegistryNext]_registryVars => [Ledger!Next]_(Ledger!ledgerVars)
  <2> SUFFICES ASSUME RegistryInv, RegistryInv', [RegistryNext]_registryVars
               PROVE  [Ledger!Next]_(Ledger!ledgerVars)
    OBVIOUS
  <2>1. ASSUME NEW u \in Trades, EnqueueFill(u[1], u[2])
        PROVE  Ledger!Next
    <3>1. u[1] \in SolAmounts /\ u[2] \in TokenAmounts
      BY DEF Trades
    <3>2. Ledger!Sell(u[1], u[2])
      BY <2>1 DEF EnqueueFill, Ledger!Sell, paidVars
    <3>3. QED
      BY <3>1, <3>2 DEF Ledger!Next
  <2>2. CASE DequeueCommit
    <3>1. max_sol_amount \in DequeueLimits
      BY <2>2 DEF RegistryInv, LoopWithinLimit, DequeueCommit
    <3>2. QED
      BY <2>2, <3>1, CommitIsPay DEF Ledger!Next
  <2>3. ASSUME NEW max \in DequeueLimits, DequeueStart(max)
        PROVE  UNCHANGED Ledger!ledgerVars
    BY <2>3 DEF DequeueStart, soldVars, paidVars, Ledger!ledgerVars
  <2>4. CASE DequeueFull \/ DequeuePartial
    BY <2>4 DEF DequeueFull, DequeuePartial, soldVars, paidVars, Ledger!ledgerVars
  <2>5. CASE UNCHANGED registryVars
    BY <2>5 DEF registryVars, soldVars, paidVars, Ledger!ledgerVars
  <2>6. QED
    BY <2>1, <2>2, <2>3, <2>4, <2>5 DEF RegistryNext, DequeueLoop, DequeueEmpty
<1>3. QED
  BY <1>1, <1>2, RegistryInvariant, PTL DEF RegistrySpec, ImplementsLedger, Ledger!Spec
=============================================================================
