---------------------------- MODULE FillsRegistry ----------------------------
(***************************************************************************)
(* The fills registry of the converter program: a ring buffer of fills.    *)
(*                                                                         *)
(* buy_sol appends a fill at the tail (buy_sol.rs).  dequeue_fills removes *)
(* fills from the head until max_sol_amount lamports are collected, and    *)
(* splits the fill that crosses the limit (dequeue_fills.rs).  The loop of *)
(* dequeue_fills is modelled one iteration per step; both instructions     *)
(* take the registry account for writing, so the runtime lets no other     *)
(* instruction touch it while the loop runs (pc = "loop").                 *)
(*                                                                         *)
(* The history variables are the running totals of the two events that     *)
(* the program emits: TradeEvent and FillsDequeued.                        *)
(***************************************************************************)
EXTENDS Integers, Functions

CONSTANTS
  MAX_FILLS_QUEUE_SIZE,  \* 650000 in the program
  U64_MAX,               \* 2^64 - 1 in the program
  SolAmounts,            \* lamports a trade may carry (sol_quantity)
  TokenAmounts,          \* 2Z units a trade may carry (tokens_required)
  DequeueLimits,         \* max_sol_amount arguments of dequeue_fills
  MaxTrades              \* bound on the trades of a behaviour

ASSUME QueueSizeAssumption == MAX_FILLS_QUEUE_SIZE \in Nat \ {0}
ASSUME U64Assumption == U64_MAX \in Nat
ASSUME AmountsAssumption ==
  /\ SolAmounts \subseteq 0..U64_MAX
  /\ TokenAmounts \subseteq 0..U64_MAX
  /\ DequeueLimits \subseteq 0..U64_MAX
ASSUME MaxTradesAssumption == MaxTrades \in Nat

VARIABLES
  total_sol_pending, total_2z_pending, fills, head, tail, count,  \* the account
  pc,                   \* "idle", or "loop" inside dequeue_fills
  max_sol_amount,       \* the argument of the running dequeue_fills
  sol_dequeued, token_2z_dequeued, fills_consumed,     \* its local variables
  sold, solSold, tokenSold,      \* history: totals of the TradeEvents so far
  consumed, solPaid, tokenPaid   \* history: totals of the FillsDequeued events

queueVars == <<fills, head, tail, count>>
totalVars == <<total_sol_pending, total_2z_pending>>
loopVars == <<pc, max_sol_amount, sol_dequeued, token_2z_dequeued, fills_consumed>>
soldVars == <<sold, solSold, tokenSold>>
paidVars == <<consumed, solPaid, tokenPaid>>
registryVars == <<queueVars, totalVars, loopVars, soldVars, paidVars>>

U64 == 0..U64_MAX
Fill == [sol_in : U64, token_2z_out : U64]

-----------------------------------------------------------------------------
RegistryInit ==
  /\ fills = [i \in 0..MAX_FILLS_QUEUE_SIZE - 1 |-> [sol_in |-> 0, token_2z_out |-> 0]]
  /\ head = 0 /\ tail = 0 /\ count = 0
  /\ total_sol_pending = 0 /\ total_2z_pending = 0
  /\ pc = "idle"
  /\ max_sol_amount = 0
  /\ sol_dequeued = 0 /\ token_2z_dequeued = 0 /\ fills_consumed = 0
  /\ sold = 0
  /\ solSold = [i \in 0..MaxTrades |-> 0]
  /\ tokenSold = [i \in 0..MaxTrades |-> 0]
  /\ consumed = 0 /\ solPaid = 0 /\ tokenPaid = 0

NextIndex(i) == (i + 1) % MAX_FILLS_QUEUE_SIZE

(***************************************************************************)
(* The last part of buy_sol: the new fill goes to the tail.  RegistryFull  *)
(* and an overflow of a total abort the transaction, which leaves the      *)
(* state as it was.                                                        *)
(***************************************************************************)
EnqueueFill(sol_quantity, tokens_required) ==
  /\ pc = "idle"
  /\ sold < MaxTrades
  /\ count < MAX_FILLS_QUEUE_SIZE
  /\ total_sol_pending + sol_quantity <= U64_MAX
  /\ total_2z_pending + tokens_required <= U64_MAX
  /\ fills' = [fills EXCEPT ![tail] =
                 [sol_in |-> sol_quantity, token_2z_out |-> tokens_required]]
  /\ tail' = NextIndex(tail)
  /\ count' = count + 1
  /\ total_sol_pending' = total_sol_pending + sol_quantity
  /\ total_2z_pending' = total_2z_pending + tokens_required
  /\ sold' = sold + 1
  /\ solSold' = [solSold EXCEPT ![sold + 1] = solSold[sold] + sol_quantity]
  /\ tokenSold' = [tokenSold EXCEPT ![sold + 1] = tokenSold[sold] + tokens_required]
  /\ UNCHANGED <<head, loopVars, paidVars>>

-----------------------------------------------------------------------------
\* dequeue_fills passes its checks and enters the loop.
DequeueStart(max) ==
  /\ pc = "idle"
  /\ max > 0
  /\ count > 0
  /\ pc' = "loop"
  /\ max_sol_amount' = max
  /\ UNCHANGED <<queueVars, totalVars, sol_dequeued, token_2z_dequeued,
                 fills_consumed, soldVars, paidVars>>

\* EmptyFillsRegistry: the call fails and changes nothing.
DequeueEmpty ==
  /\ pc = "idle"
  /\ count = 0
  /\ UNCHANGED registryVars

NextEntry == fills[head]
\* Mutant of RemainingSol: every iteration may take the whole limit.
WholeLimit == max_sol_amount

RemainingSol == max_sol_amount - sol_dequeued
\* Mutant of LoopContinues: one iteration too many.
LoopContinuesAtLimit == count > 0 /\ sol_dequeued <= max_sol_amount

LoopContinues == count > 0 /\ sol_dequeued < max_sol_amount

\* The checked additions at the end of an iteration.
Accumulate(sol, token) ==
  /\ sol_dequeued + sol <= U64_MAX
  /\ token_2z_dequeued + token <= U64_MAX
  /\ sol_dequeued' = sol_dequeued + sol
  /\ token_2z_dequeued' = token_2z_dequeued + token

\* Mutant of DequeueFull: the newest fill goes first.
DequeueNewest ==
  LET newest == fills[(head + count - 1) % MAX_FILLS_QUEUE_SIZE]
  IN  /\ pc = "loop"
      /\ LoopContinues
      /\ newest.sol_in <= RemainingSol
      /\ tail' = (head + count - 1) % MAX_FILLS_QUEUE_SIZE
      /\ count' = count - 1
      /\ fills_consumed' = fills_consumed + 1
      /\ Accumulate(newest.sol_in, newest.token_2z_out)
      /\ UNCHANGED <<fills, head, totalVars, pc, max_sol_amount, soldVars, paidVars>>

\* An iteration that takes the whole fill at the head.
DequeueFull ==
  /\ pc = "loop"
  /\ LoopContinues
  /\ NextEntry.sol_in <= RemainingSol
  /\ head' = NextIndex(head)
  /\ count' = count - 1
  /\ fills_consumed' = fills_consumed + 1
  /\ Accumulate(NextEntry.sol_in, NextEntry.token_2z_out)
  /\ UNCHANGED <<fills, tail, totalVars, pc, max_sol_amount, soldVars, paidVars>>

\* Mutant of PartialTokens: the share is rounded up.
PartialTokensUp(fill, sol) ==
  (fill.token_2z_out * sol + fill.sol_in - 1) \div fill.sol_in

\* The 2Z share of the lamports taken from a fill, rounded down.
PartialTokens(fill, sol) == (fill.token_2z_out * sol) \div fill.sol_in

\* Mutant of DequeuePartial: the remainder is not written back.
DequeuePartialKeepsFill ==
  /\ pc = "loop"
  /\ LoopContinues
  /\ NextEntry.sol_in > RemainingSol
  /\ Accumulate(RemainingSol, PartialTokens(NextEntry, RemainingSol))
  /\ UNCHANGED <<queueVars, totalVars, pc, max_sol_amount, fills_consumed, soldVars, paidVars>>

\* An iteration that splits the fill at the head and leaves the remainder there.
DequeuePartial ==
  LET token == PartialTokens(NextEntry, RemainingSol)
  IN  /\ pc = "loop"
      /\ LoopContinues
      /\ NextEntry.sol_in > RemainingSol
      /\ token <= NextEntry.token_2z_out
      /\ fills' = [fills EXCEPT ![head] =
                     [sol_in |-> NextEntry.sol_in - RemainingSol,
                      token_2z_out |-> NextEntry.token_2z_out - token]]
      /\ Accumulate(RemainingSol, token)
      /\ UNCHANGED <<head, tail, count, totalVars, pc, max_sol_amount,
                     fills_consumed, soldVars, paidVars>>

\* Mutant of DequeueCommit: the 2Z total is left alone.
DequeueCommitKeeps2Z ==
  /\ pc = "loop"
  /\ ~LoopContinues
  /\ sol_dequeued <= total_sol_pending
  /\ total_sol_pending' = total_sol_pending - sol_dequeued
  /\ consumed' = consumed + fills_consumed
  /\ solPaid' = solPaid + sol_dequeued
  /\ tokenPaid' = tokenPaid + token_2z_dequeued
  /\ pc' = "idle"
  /\ max_sol_amount' = 0
  /\ sol_dequeued' = 0 /\ token_2z_dequeued' = 0 /\ fills_consumed' = 0
  /\ UNCHANGED <<total_2z_pending, queueVars, soldVars>>

\* After the loop: the checked subtractions, the event and the return.
DequeueCommit ==
  /\ pc = "loop"
  /\ ~LoopContinues
  /\ sol_dequeued <= total_sol_pending
  /\ token_2z_dequeued <= total_2z_pending
  /\ total_sol_pending' = total_sol_pending - sol_dequeued
  /\ total_2z_pending' = total_2z_pending - token_2z_dequeued
  /\ consumed' = consumed + fills_consumed
  /\ solPaid' = solPaid + sol_dequeued
  /\ tokenPaid' = tokenPaid + token_2z_dequeued
  /\ pc' = "idle"
  /\ max_sol_amount' = 0
  /\ sol_dequeued' = 0 /\ token_2z_dequeued' = 0 /\ fills_consumed' = 0
  /\ UNCHANGED <<queueVars, soldVars>>

DequeueLoop == DequeueFull \/ DequeuePartial \/ DequeueCommit

(***************************************************************************)
(* buy_sol computes tokens_required as a multiple of sol_quantity, so a    *)
(* trade of no SOL carries no 2Z.                                          *)
(***************************************************************************)
Trades == {t \in SolAmounts \X TokenAmounts : t[1] = 0 => t[2] = 0}

RegistryNext ==
  \/ \E t \in Trades : EnqueueFill(t[1], t[2])
  \/ \E max \in DequeueLimits : DequeueStart(max)
  \/ DequeueEmpty
  \/ DequeueLoop

RegistrySpec == RegistryInit /\ [][RegistryNext]_registryVars

\* The runtime executes an instruction it has started to its end.
RegistryFairSpec == RegistrySpec /\ WF_registryVars(DequeueLoop)

-----------------------------------------------------------------------------
(* Correctness *)

RegistryTypeOK ==
  /\ fills \in [0..MAX_FILLS_QUEUE_SIZE - 1 -> Fill]
  /\ head \in 0..MAX_FILLS_QUEUE_SIZE - 1
  /\ tail \in 0..MAX_FILLS_QUEUE_SIZE - 1
  /\ count \in 0..MAX_FILLS_QUEUE_SIZE
  /\ total_sol_pending \in U64 /\ total_2z_pending \in U64
  /\ pc \in {"idle", "loop"}
  /\ max_sol_amount \in U64
  /\ sol_dequeued \in U64 /\ token_2z_dequeued \in U64
  /\ fills_consumed \in Nat
  /\ sold \in 0..MaxTrades
  /\ solSold \in [0..MaxTrades -> Nat]
  /\ tokenSold \in [0..MaxTrades -> Nat]
  /\ consumed \in Nat /\ solPaid \in Nat /\ tokenPaid \in Nat

\* What the consumer has received, the running dequeue_fills included.
FillsGone == consumed + fills_consumed
SolTaken == solPaid + sol_dequeued
TokenTaken == tokenPaid + token_2z_dequeued

\* The k-th trade, as buy_sol recorded it.
Trade(k) == [sol_in |-> solSold[k] - solSold[k-1],
             token_2z_out |-> tokenSold[k] - tokenSold[k-1]]

\* The array index of the i-th fill of the queue, counted from 0 at the head.
Slot(i) == IF head + i < MAX_FILLS_QUEUE_SIZE
           THEN head + i ELSE head + i - MAX_FILLS_QUEUE_SIZE

\* The trade that the fill at the head comes from.
HeadTrade == Trade(FillsGone + 1)

(***************************************************************************)
(* The queue holds the trades not yet dequeued, oldest first, through      *)
(* every wrap of the array: none is lost, repeated, overwritten or out of  *)
(* order, and only the fill at the head may have been split.               *)
(***************************************************************************)
QueueHoldsUndequeuedTrades ==
  /\ sold = FillsGone + count
  /\ tail = Slot(count)
  /\ \A i \in 1..count - 1 : fills[Slot(i)] = Trade(FillsGone + i + 1)
  /\ count > 0 =>
       /\ fills[head].sol_in = solSold[FillsGone + 1] - SolTaken
       /\ fills[head].token_2z_out = tokenSold[FillsGone + 1] - TokenTaken
       /\ solSold[FillsGone] <= SolTaken
       /\ tokenSold[FillsGone] <= TokenTaken
       /\ fills[head].sol_in = 0 => SolTaken = solSold[FillsGone]
  /\ count = 0 =>
       /\ SolTaken = solSold[sold]
       /\ TokenTaken = tokenSold[sold]

\* The fills of the queue from the head on, as view_fills.rs lists them.
LiveFills == [i \in 1..count |-> fills[(head + i - 1) % MAX_FILLS_QUEUE_SIZE]]

(***************************************************************************)
(* Between instructions the two totals are the sums over the fills in the  *)
(* queue.                                                                  *)
(***************************************************************************)
PendingTotalsMatchQueue ==
  pc = "idle" =>
    /\ total_sol_pending = SumFunction([i \in 1..count |-> LiveFills[i].sol_in])
    /\ total_2z_pending = SumFunction([i \in 1..count |-> LiveFills[i].token_2z_out])

(***************************************************************************)
(* A dequeue_fills that has entered its loop never aborts: the additions   *)
(* of the loop, the 2Z share of a split and the two checked subtractions   *)
(* after the loop all stay within a u64 (ArithmeticError is unreachable).  *)
(***************************************************************************)
NoArithmeticError ==
  pc = "loop" =>
    /\ LoopContinues /\ NextEntry.sol_in <= RemainingSol =>
         /\ sol_dequeued + NextEntry.sol_in <= U64_MAX
         /\ token_2z_dequeued + NextEntry.token_2z_out <= U64_MAX
    /\ LoopContinues /\ NextEntry.sol_in > RemainingSol =>
         LET token == PartialTokens(NextEntry, RemainingSol)
         IN  /\ token \in 0..NextEntry.token_2z_out
             /\ sol_dequeued + RemainingSol <= U64_MAX
             /\ token_2z_dequeued + token <= U64_MAX
    /\ ~LoopContinues =>
         /\ sol_dequeued <= total_sol_pending
         /\ token_2z_dequeued <= total_2z_pending

(***************************************************************************)
(* Splitting a fill again and again never credits the consumer with more   *)
(* 2Z than the pro-rata share of the SOL taken from it: what is left of    *)
(* the fill at the head is worth at least the price it was sold at.        *)
(***************************************************************************)
NeverOverCredited ==
  count > 0 =>
    HeadTrade.token_2z_out * fills[head].sol_in
      <= fills[head].token_2z_out * HeadTrade.sol_in

(***************************************************************************)
(* When all SOL has been dequeued all 2Z has been: no dust of a split is   *)
(* left behind in the total.                                               *)
(***************************************************************************)
DrainedPaysAll ==
  pc = "idle" /\ total_sol_pending = 0 => total_2z_pending = 0 /\ tokenPaid = tokenSold[sold]

(***************************************************************************)
(* dequeue_fills reports the limit it was given, or everything that was    *)
(* pending when that is less.                                              *)
(***************************************************************************)
DequeueTakesExactly ==
  [][DequeueCommit =>
       sol_dequeued = IF max_sol_amount <= total_sol_pending
                      THEN max_sol_amount ELSE total_sol_pending]_registryVars

\* The loop of dequeue_fills ends, also over fills of no SOL.
DequeueReturns == (pc = "loop") ~> (pc = "idle")

-----------------------------------------------------------------------------
(* The inductive invariant *)

\* The trades lie on a line: the running totals grow, the 2Z only with the SOL.
LedgerOrdered ==
  /\ solSold[0] = 0 /\ tokenSold[0] = 0
  /\ \A i, j \in 0..sold :
       i <= j => /\ solSold[i] <= solSold[j]
                 /\ tokenSold[i] <= tokenSold[j]
                 /\ solSold[i] = solSold[j] => tokenSold[i] = tokenSold[j]

\* The totals of the account are what was sold and has not been paid out.
TotalsMatchLedger ==
  /\ total_sol_pending = solSold[sold] - solPaid
  /\ total_2z_pending = tokenSold[sold] - tokenPaid

LoopWithinLimit ==
  /\ pc = "idle" => /\ max_sol_amount = 0 /\ sol_dequeued = 0
                    /\ token_2z_dequeued = 0 /\ fills_consumed = 0
  /\ pc = "loop" => max_sol_amount \in DequeueLimits
  /\ sol_dequeued <= max_sol_amount

RegistryInv ==
  /\ RegistryTypeOK
  /\ LedgerOrdered
  /\ TotalsMatchLedger
  /\ LoopWithinLimit
  /\ QueueHoldsUndequeuedTrades
  /\ NeverOverCredited

(***************************************************************************)
(* The registry implements the ledger: selling appends to the line,        *)
(* DequeueCommit pays, the iterations of the loop are invisible.           *)
(***************************************************************************)
Ledger == INSTANCE FillsLedger WITH
  sold <- sold, solSold <- solSold, tokenSold <- tokenSold,
  solPaid <- solPaid, tokenPaid <- tokenPaid
ImplementsLedger == Ledger!Spec
=============================================================================
