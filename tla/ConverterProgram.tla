-------------------------- MODULE ConverterProgram --------------------------
(***************************************************************************)
(* The converter program as a whole: the administration, the Dutch         *)
(* auction, the fills registry, and the money that buy_sol moves.          *)
(*                                                                         *)
(* A transaction is atomic: when a check, a transfer or an arithmetic      *)
(* operation of it fails, all of it is undone.  A failing call is          *)
(* therefore no step.  Only dequeue_fills is spread over steps (the        *)
(* iterations of its loop), and no other instruction runs between them:    *)
(* it holds the write lock of the fills registry, and the instructions     *)
(* that do not touch the registry do not read what the loop changes.       *)
(*                                                                         *)
(* External, modelled from their use in buy_sol.rs: the token program      *)
(* (Transfer2Z), the revenue distribution program that owns the journal    *)
(* (WithdrawSol), the deposits into the journal, the clock, and the        *)
(* signature check of an attestation.                                      *)
(***************************************************************************)
EXTENDS FillsRegistry, SystemManagement

CONSTANTS
  SwapRates,   \* swap rates an oracle key signs
  BidPrices,   \* bids of the buyers
  Wallet,      \* 2Z a buyer starts with
  Deposits,    \* lamports deposited into the journal at a time
  MaxFunded,   \* bound on the lamports deposited
  MaxSlot,     \* bound on the slots
  MaxTime,     \* bound on the unix time
  NoTrade,     \* there has been no TradeEvent yet
  NoQuote      \* there is no standing quote

ASSUME ConverterAssumption ==
  /\ SolQuantities \subseteq SolAmounts /\ TokenAmounts = U64
  /\ SwapRates \subseteq Nat /\ BidPrices \subseteq Nat /\ Deposits \subseteq Nat
  /\ Wallet \in Nat /\ MaxFunded \in Nat /\ MaxSlot \in Nat /\ MaxTime \in Nat

VARIABLES
  slot, unix_timestamp,  \* the clock
  last_trade_slot,       \* program_state.last_trade_slot
  journal,               \* lamports of the journal
  treasury,              \* 2Z of the protocol treasury
  user2Z, userSol,       \* 2Z and lamports of the accounts
  trade_event,           \* history: the latest TradeEvent
  quote,                 \* history: the latest answer of get_conversion_rate
                         \* with no trade and no configuration update since
  init_slot, funded      \* history: the slot of initialize_system, all deposits

clockVars == <<slot, unix_timestamp>>
moneyVars == <<journal, treasury, user2Z, userSol, funded>>
tradeVars == <<last_trade_slot, trade_event, init_slot>>
converterVars ==
  <<registryVars, systemVars, clockVars, moneyVars, tradeVars, quote>>

ConverterInit ==
  /\ RegistryInit
  /\ SystemInit
  /\ slot = 0 /\ unix_timestamp = 0
  /\ last_trade_slot = 0 /\ init_slot = 0
  /\ journal = 0 /\ funded = 0 /\ treasury = 0
  /\ user2Z = [a \in Accounts |-> Wallet]
  /\ userSol = [a \in Accounts |-> 0]
  /\ trade_event = NoTrade
  /\ quote = NoQuote

-----------------------------------------------------------------------------
(* The surroundings *)

\* Slots follow each other; the unix time moves at its own pace.
Tick ==
  /\ pc = "idle"
  /\ slot < MaxSlot
  /\ slot' = slot + 1
  /\ unix_timestamp' \in {t \in unix_timestamp..unix_timestamp + 1 : t <= MaxTime}
  /\ UNCHANGED <<registryVars, systemVars, moneyVars, tradeVars, quote>>

\* Revenue reaches the journal.
FundJournal(amount) ==
  /\ pc = "idle"
  /\ funded + amount <= MaxFunded
  /\ journal' = journal + amount
  /\ funded' = funded + amount
  /\ UNCHANGED <<registryVars, systemVars, clockVars, treasury, user2Z, userSol,
                 tradeVars, quote>>

-----------------------------------------------------------------------------
(* The instructions *)

\* Mutant of Initialize: it can be called again, and clears the fills registry.
InitializeTwice ==
  /\ pc = "idle"
  /\ InitializeAny \/ (initialized /\ UNCHANGED systemVars)
  /\ head' = 0 /\ tail' = 0 /\ count' = 0
  /\ last_trade_slot' = slot
  /\ init_slot' = slot
  /\ UNCHANGED <<fills, totalVars, loopVars, soldVars, paidVars, clockVars, moneyVars,
                 trade_event, quote>>

\* initialize_system, which also takes the current slot for the last trade's.
Initialize ==
  /\ pc = "idle"
  /\ InitializeAny
  /\ last_trade_slot' = slot
  /\ init_slot' = slot
  /\ UNCHANGED <<registryVars, clockVars, moneyVars, trade_event, quote>>

\* The other instructions of SystemManagement; a quote stands as long as the
\* configuration does.
Manage ==
  /\ pc = "idle"
  /\ Administer
  /\ quote' = IF config' = config THEN quote ELSE NoQuote
  /\ UNCHANGED <<registryVars, clockVars, moneyVars, tradeVars>>

Attestation == [swap_rate : SwapRates, timestamp : 0..MaxTime, signed_by : OracleKeys]

Distance(a, b) == IF a <= b THEN b - a ELSE a - b

\* verify_attestation, with the key that signed in place of the signature.
Verified(oracle_price_data) ==
  /\ oracle_price_data.signed_by = config.oracle_pubkey
  /\ oracle_price_data.swap_rate > 0
  /\ Distance(unix_timestamp, oracle_price_data.timestamp) <= config.price_maximum_age

CurrentAsk(oracle_price_data) ==
  ConversionRate(oracle_price_data.swap_rate, config, last_trade_slot, slot)

\* transfer_checked by the token program: the buyer must own the tokens.
Transfer2Z(signer, tokens) ==
  /\ tokens <= user2Z[signer]
  /\ user2Z' = [user2Z EXCEPT ![signer] = @ - tokens]
  /\ treasury' = treasury + tokens

\* Mutant of WithdrawSol: the journal's balance is not checked.
WithdrawSolUnchecked(signer, sol_quantity) ==
  /\ journal' = journal - sol_quantity
  /\ userSol' = [userSol EXCEPT ![signer] = @ + sol_quantity]

\* withdraw_sol by the revenue distribution program: the journal must own the SOL.
WithdrawSol(signer, sol_quantity) ==
  /\ sol_quantity <= journal
  /\ journal' = journal - sol_quantity
  /\ userSol' = [userSol EXCEPT ![signer] = @ + sol_quantity]

\* Mutant of TradeAllowed: a second trade in the slot of the last one.
TradeAllowedAgain(signer) ==
  ~is_halted /\ ~Denied(signer) /\ slot >= last_trade_slot

\* Mutant of TradeAllowed: the deny list is not read.
TradeAllowedToAll(signer) == ~is_halted /\ slot > last_trade_slot

\* The first three checks of buy_sol.
TradeAllowed(signer) == ~is_halted /\ ~Denied(signer) /\ slot > last_trade_slot

\* Mutant of BuySol: the fill is recorded at the bid price.
BuySolRecordsBid(signer, bid_price, oracle_price_data) ==
  LET ask_price       == CurrentAsk(oracle_price_data)
      sol_quantity    == config.sol_quantity
      tokens_required == TokensRequired(sol_quantity, ask_price)
  IN  /\ initialized
      /\ TradeAllowed(signer)
      /\ Verified(oracle_price_data)
      /\ bid_price >= ask_price
      /\ tokens_required <= U64_MAX
      /\ Transfer2Z(signer, tokens_required)
      /\ WithdrawSol(signer, sol_quantity)
      /\ EnqueueFill(sol_quantity, TokensRequired(sol_quantity, bid_price))
      /\ last_trade_slot' = slot
      /\ trade_event' = [sol_amount |-> sol_quantity, token_amount |-> tokens_required,
                         bid_price |-> bid_price, buyer |-> signer,
                         swap_rate |-> oracle_price_data.swap_rate]
      /\ quote' = NoQuote
      /\ UNCHANGED <<systemVars, clockVars, funded, init_slot>>

(***************************************************************************)
(* buy_sol: the 2Z of the buyer for the SOL of the journal, at the ask     *)
(* price, and a fill for the consumer.  The event also has the swap rate,  *)
(* which the program's event leaves out.                                   *)
(***************************************************************************)
BuySol(signer, bid_price, oracle_price_data) ==
  LET ask_price       == CurrentAsk(oracle_price_data)
      sol_quantity    == config.sol_quantity
      tokens_required == TokensRequired(sol_quantity, ask_price)
  IN  /\ initialized
      /\ TradeAllowed(signer)
      /\ Verified(oracle_price_data)
      /\ bid_price >= ask_price
      /\ tokens_required <= U64_MAX
      /\ Transfer2Z(signer, tokens_required)
      /\ WithdrawSol(signer, sol_quantity)
      /\ EnqueueFill(sol_quantity, tokens_required)
      /\ last_trade_slot' = slot
      /\ trade_event' = [sol_amount |-> sol_quantity, token_amount |-> tokens_required,
                         bid_price |-> bid_price, buyer |-> signer,
                         swap_rate |-> oracle_price_data.swap_rate]
      /\ quote' = NoQuote
      /\ UNCHANGED <<systemVars, clockVars, funded, init_slot>>

\* Mutant of GetConversionRate: the slots are counted from genesis.
GetConversionRateFromGenesis(oracle_price_data) ==
  /\ pc = "idle"
  /\ initialized
  /\ Verified(oracle_price_data)
  /\ quote' = [swap_rate |-> oracle_price_data.swap_rate,
               ask_price |-> ConversionRate(oracle_price_data.swap_rate, config, 0, slot)]
  /\ UNCHANGED <<registryVars, systemVars, clockVars, moneyVars, tradeVars>>

\* get_conversion_rate: the answer is all there is to it.
GetConversionRate(oracle_price_data) ==
  /\ pc = "idle"
  /\ initialized
  /\ Verified(oracle_price_data)
  /\ quote' = [swap_rate |-> oracle_price_data.swap_rate,
               ask_price |-> CurrentAsk(oracle_price_data)]
  /\ UNCHANGED <<registryVars, systemVars, clockVars, moneyVars, tradeVars>>

\* dequeue_fills: only the fills consumer of the configuration may call it.
DequeueFills(signer, max) ==
  /\ initialized
  /\ signer = config.fills_consumer
  /\ DequeueStart(max)
  /\ UNCHANGED <<systemVars, clockVars, moneyVars, tradeVars, quote>>

DequeueFillsStep ==
  /\ DequeueLoop
  /\ UNCHANGED <<systemVars, clockVars, moneyVars, tradeVars, quote>>

ConverterNext ==
  \/ Tick
  \/ \E amount \in Deposits : FundJournal(amount)
  \/ Initialize
  \/ Manage
  \/ \E signer \in Accounts, bid_price \in BidPrices, data \in Attestation :
       BuySol(signer, bid_price, data)
  \/ \E data \in Attestation : GetConversionRate(data)
  \/ \E signer \in Accounts, max \in DequeueLimits : DequeueFills(signer, max)
  \/ DequeueFillsStep

ConverterSpec == ConverterInit /\ [][ConverterNext]_converterVars

-----------------------------------------------------------------------------
(* Correctness *)

ConverterTypeOK ==
  /\ RegistryTypeOK
  /\ SystemTypeOK
  /\ slot \in Nat /\ unix_timestamp \in Nat
  /\ last_trade_slot \in 0..slot /\ init_slot \in 0..slot
  /\ journal \in Nat /\ treasury \in Nat /\ funded \in Nat
  /\ user2Z \in [Accounts -> Nat] /\ userSol \in [Accounts -> Nat]
  /\ trade_event = NoTrade \/
       trade_event \in [sol_amount : Nat, token_amount : Nat, bid_price : Nat,
                        buyer : Accounts, swap_rate : Nat]
  /\ quote = NoQuote \/ quote \in [swap_rate : Nat, ask_price : Nat]

(***************************************************************************)
(* The money agrees with the books, to the unit: the treasury holds the 2Z *)
(* of all fills, pending or dequeued, and what the journal has paid out is *)
(* the SOL of all fills, pending or dequeued.                              *)
(***************************************************************************)
MoneyMatchesRegistry ==
  /\ treasury = total_2z_pending + tokenPaid
  /\ funded - journal = total_sol_pending + solPaid

(***************************************************************************)
(* One trade per slot at most, and none in the slot of initialize_system:  *)
(* the trades since then fit into the slots up to the last trade's.        *)
(***************************************************************************)
AtMostOneTradePerSlot == sold <= last_trade_slot - init_slot

(***************************************************************************)
(* A price quoted by get_conversion_rate stays good: until a trade or a    *)
(* configuration update, a bid at the quoted price is not too low in any   *)
(* later slot, for the same swap rate.                                     *)
(***************************************************************************)
QuoteStaysGood ==
  quote # NoQuote =>
    ConversionRate(quote.swap_rate, config, last_trade_slot, slot) <= quote.ask_price

(***************************************************************************)
(* No SOL leaves the journal but for one buyer, who is not on the deny     *)
(* list, while the system is not halted, with a new fill in the registry.  *)
(***************************************************************************)
SolLeavesForAllowedTrades ==
  [][journal' < journal =>
       /\ ~is_halted
       /\ sold' = sold + 1
       /\ \E a \in Accounts :
            /\ ~ruling[a]
            /\ userSol' = [userSol EXCEPT ![a] = @ + journal - journal']]_converterVars

(***************************************************************************)
(* Every trade is priced between the attested swap rate at the maximum     *)
(* discount and the swap rate at the minimum discount of the configuration *)
(* in force, both rounded in the buyer's favour by at most a unit each;    *)
(* and at no more than the bid, the buyer's limit on a price that moves    *)
(* between the quote and the trade.                                        *)
(***************************************************************************)
TradesWithinBidAndRates ==
  [][sold' # sold =>
       LET paid(rate) == trade_event'.sol_amount * trade_event'.swap_rate * (RATE_SCALE - rate)
           scale      == LAMPORTS_PER_SOL * RATE_SCALE
           tokens     == trade_event'.token_amount
       IN  /\ tokens * LAMPORTS_PER_SOL <= trade_event'.sol_amount * trade_event'.bid_price
           /\ tokens * scale <= paid(config.min_discount_rate)
           /\ paid(config.max_discount_rate)
                < (tokens + 1) * scale + trade_event'.sol_amount * RATE_SCALE]_converterVars

(***************************************************************************)
(* Nothing the program does outside buy_sol and dequeue_fills reaches the  *)
(* fills registry, and what these two do are steps of its specification.   *)
(***************************************************************************)
ImplementsRegistry == RegistrySpec
=============================================================================
