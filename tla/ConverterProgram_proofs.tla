----------------------- MODULE ConverterProgram_proofs -----------------------
(***************************************************************************)
(* Theorems about the converter program, in layers.  Seen alone, its       *)
(* administration is SystemManagement, so the configuration is always      *)
(* valid.  With that, and with the order of the slots (ClockInv), its fills *)
(* registry is FillsRegistry, so the theorems about the registry hold of   *)
(* the program.  With the types these give, the money, the trade slots and *)
(* the quotes follow.                                                      *)
(***************************************************************************)
EXTENDS ConverterProgram, FillsRegistry_proofs, Pricing_proofs

-----------------------------------------------------------------------------
(* The administration *)

LEMMA ConverterSystemStep == [ConverterNext]_converterVars => [SystemNext]_systemVars
<1> SUFFICES ASSUME [ConverterNext]_converterVars PROVE [SystemNext]_systemVars
  OBVIOUS
<1>1. CASE Initialize
  BY <1>1 DEF Initialize, SystemNext
<1>2. CASE Manage
  BY <1>2 DEF Manage, SystemNext
<1>3. CASE Tick \/ \E amount \in Deposits : FundJournal(amount)
  BY <1>3 DEF Tick, FundJournal
<1>4. CASE \E signer \in Accounts, bid_price \in BidPrices, data \in Attestation :
             BuySol(signer, bid_price, data)
  BY <1>4 DEF BuySol
<1>5. CASE \E data \in Attestation : GetConversionRate(data)
  BY <1>5 DEF GetConversionRate
<1>6. CASE \E signer \in Accounts, max \in DequeueLimits : DequeueFills(signer, max)
  BY <1>6 DEF DequeueFills
<1>7. CASE DequeueFillsStep
  BY <1>7 DEF DequeueFillsStep
<1>8. CASE UNCHANGED converterVars
  BY <1>8 DEF converterVars
<1>9. QED
  BY <1>1, <1>2, <1>3, <1>4, <1>5, <1>6, <1>7, <1>8 DEF ConverterNext

LEMMA ConverterIsSystem == ConverterSpec => SystemSpec
<1>1. ConverterInit => SystemInit
  BY DEF ConverterInit
<1>2. QED
  BY <1>1, ConverterSystemStep, PTL DEF ConverterSpec, SystemSpec

LEMMA ConverterConfiguration == ConverterSpec => []ConfigurationInv
  BY ConverterIsSystem, ConfigurationInvariant, PTL

-----------------------------------------------------------------------------
(* The slots *)

ClockInv ==
  /\ slot \in Nat /\ last_trade_slot \in Nat /\ init_slot \in Nat
  /\ init_slot <= last_trade_slot /\ last_trade_slot <= slot

LEMMA ClockInvInit == ConverterInit => ClockInv
  BY DEF ConverterInit, ClockInv

LEMMA ClockInvStep == ClockInv /\ [ConverterNext]_converterVars => ClockInv'
<1> SUFFICES ASSUME ClockInv, [ConverterNext]_converterVars PROVE ClockInv'
  OBVIOUS
<1>1. CASE Initialize
  BY <1>1 DEF Initialize, ClockInv, clockVars
<1>2. CASE Manage
  BY <1>2 DEF Manage, ClockInv, clockVars, tradeVars
<1>3. CASE Tick
  BY <1>3 DEF Tick, ClockInv, tradeVars
<1>4. CASE \E amount \in Deposits : FundJournal(amount)
  BY <1>4 DEF FundJournal, ClockInv, clockVars, tradeVars
<1>5. CASE \E signer \in Accounts, bid_price \in BidPrices, data \in Attestation :
             BuySol(signer, bid_price, data)
  <2>1. /\ slot > last_trade_slot /\ last_trade_slot' = slot
        /\ UNCHANGED <<slot, init_slot>>
    BY <1>5 DEF BuySol, TradeAllowed, clockVars
  <2>2. QED
    BY <2>1 DEF ClockInv
<1>6. CASE \E data \in Attestation : GetConversionRate(data)
  BY <1>6 DEF GetConversionRate, ClockInv, clockVars, tradeVars
<1>7. CASE \E signer \in Accounts, max \in DequeueLimits : DequeueFills(signer, max)
  BY <1>7 DEF DequeueFills, ClockInv, clockVars, tradeVars
<1>8. CASE DequeueFillsStep
  BY <1>8 DEF DequeueFillsStep, ClockInv, clockVars, tradeVars
<1>9. CASE UNCHANGED converterVars
  BY <1>9 DEF converterVars, ClockInv, clockVars, tradeVars
<1>10. QED
  BY <1>1, <1>2, <1>3, <1>4, <1>5, <1>6, <1>7, <1>8, <1>9 DEF ConverterNext

LEMMA ConverterClock == ConverterSpec => []ClockInv
  BY ClockInvInit, ClockInvStep, PTL DEF ConverterSpec

-----------------------------------------------------------------------------
(* The registry *)

\* What the configuration and the clock say of an ask price.
LEMMA AskIsDefined ==
  ASSUME ConfigurationInv, ClockInv, initialized, NEW data \in Attestation
  PROVE  /\ IsPricing(config) /\ ValidPricing(config) /\ data.swap_rate \in Nat
         /\ config.sol_quantity \in Nat /\ config.sol_quantity \in SolAmounts
         /\ CurrentAsk(data) \in Nat
<1>1. /\ IsPricing(config) /\ config.sol_quantity \in Nat
  BY DEF ConfigurationInv, Configuration, IsPricing
<1>2. ValidPricing(config) /\ config.sol_quantity \in SolAmounts
  BY ConverterAssumption DEF ConfigurationInv, ConfigurationStaysValid
<1>3. data.swap_rate \in Nat
  BY ConverterAssumption DEF Attestation
<1>4. ConversionRate(data.swap_rate, config, last_trade_slot, slot) \in Nat
  BY <1>1, <1>2, <1>3, AskWithinRates DEF ClockInv
<1>5. QED
  BY <1>1, <1>2, <1>3, <1>4 DEF CurrentAsk

\* A trade of buy_sol is one that the registry's specification expects.
LEMMA BuySolEnqueues ==
  ASSUME ConfigurationInv, ClockInv,
         NEW signer \in Accounts, NEW bid_price \in BidPrices, NEW data \in Attestation,
         BuySol(signer, bid_price, data)
  PROVE  \E t \in Trades : EnqueueFill(t[1], t[2])
<1> DEFINE sol == config.sol_quantity
           tokens == TokensRequired(sol, CurrentAsk(data))
<1>1. /\ initialized /\ tokens <= U64_MAX /\ EnqueueFill(sol, tokens)
  BY DEF BuySol
<1>2. /\ sol \in Nat /\ sol \in SolAmounts /\ CurrentAsk(data) \in Nat
  BY <1>1, AskIsDefined
<1>3. tokens \in Nat /\ (sol = 0 => tokens = 0)
  <2>1. /\ TokensRequired(sol, CurrentAsk(data)) \in Nat
        /\ TokensRequired(0, CurrentAsk(data)) = 0
    BY <1>2, TokensWithinBid
  <2>2. QED
    BY <2>1
<1> HIDE DEF tokens
<1>4. tokens \in TokenAmounts
  BY <1>1, <1>3, ConverterAssumption, U64Assumption DEF U64
<1>5. <<sol, tokens>> \in Trades
  BY <1>2, <1>3, <1>4 DEF Trades
<1>6. QED
  BY <1>1, <1>5

LEMMA ConverterRegistryStep ==
  ConfigurationInv /\ ClockInv /\ [ConverterNext]_converterVars => [RegistryNext]_registryVars
<1> SUFFICES ASSUME ConfigurationInv, ClockInv, [ConverterNext]_converterVars
             PROVE  [RegistryNext]_registryVars
  OBVIOUS
<1>1. CASE \E signer \in Accounts, bid_price \in BidPrices, data \in Attestation :
             BuySol(signer, bid_price, data)
  BY <1>1, BuySolEnqueues DEF RegistryNext
<1>2. CASE \E signer \in Accounts, max \in DequeueLimits : DequeueFills(signer, max)
  BY <1>2 DEF DequeueFills, RegistryNext
<1>3. CASE DequeueFillsStep
  BY <1>3 DEF DequeueFillsStep, RegistryNext
<1>4. CASE Tick \/ \E amount \in Deposits : FundJournal(amount)
  BY <1>4 DEF Tick, FundJournal
<1>5. CASE Initialize \/ Manage
  BY <1>5 DEF Initialize, Manage
<1>6. CASE \E data \in Attestation : GetConversionRate(data)
  BY <1>6 DEF GetConversionRate
<1>7. CASE UNCHANGED converterVars
  BY <1>7 DEF converterVars
<1>8. QED
  BY <1>1, <1>2, <1>3, <1>4, <1>5, <1>6, <1>7 DEF ConverterNext

\* The program's fills registry behaves as FillsRegistry says, whatever the admins,
\* the oracle and the buyers do (buy_sol.rs, dequeue_fills.rs).
THEOREM ConverterImplementsRegistry == ConverterSpec => ImplementsRegistry
<1>1. ConverterInit => RegistryInit
  BY DEF ConverterInit
<1>2. QED
  BY <1>1, ConverterConfiguration, ConverterClock, ConverterRegistryStep, PTL
  DEF ConverterSpec, RegistrySpec, ImplementsRegistry

LEMMA ConverterRegistryTypes == ConverterSpec => []RegistryTypeOK
  BY ConverterImplementsRegistry, RegistryTypeCorrect, PTL DEF ImplementsRegistry

-----------------------------------------------------------------------------
(* The money *)

MoneyInv ==
  /\ MoneyMatchesRegistry
  /\ treasury \in Nat /\ journal \in Int /\ funded \in Nat

LEMMA MoneyInvInit == ConverterInit => MoneyInv
  BY DEF ConverterInit, RegistryInit, MoneyInv, MoneyMatchesRegistry

\* buy_sol adds to the registry what it moves.
LEMMA BuySolMovesMoney ==
  ASSUME ConfigurationInv, ClockInv, RegistryTypeOK, MoneyInv,
         NEW signer \in Accounts, NEW bid_price \in BidPrices, NEW data \in Attestation,
         BuySol(signer, bid_price, data)
  PROVE  MoneyInv'
<1> DEFINE sol == config.sol_quantity
           tokens == TokensRequired(sol, CurrentAsk(data))
<1>1. /\ initialized /\ EnqueueFill(sol, tokens) /\ funded' = funded
      /\ Transfer2Z(signer, tokens) /\ WithdrawSol(signer, sol)
  BY DEF BuySol
<1>2. /\ treasury' = treasury + tokens /\ journal' = journal - sol
  BY <1>1 DEF Transfer2Z, WithdrawSol
<1>3. /\ total_sol_pending' = total_sol_pending + sol
      /\ total_2z_pending' = total_2z_pending + tokens
      /\ solPaid' = solPaid /\ tokenPaid' = tokenPaid
  BY <1>1 DEF EnqueueFill, paidVars
<1>4. sol \in Nat /\ CurrentAsk(data) \in Nat
  BY <1>1, AskIsDefined
<1>5. tokens \in Nat
  BY <1>4, TokensWithinBid
<1> HIDE DEF sol, tokens
<1>6. /\ total_sol_pending \in Nat /\ total_2z_pending \in Nat
      /\ solPaid \in Nat /\ tokenPaid \in Nat
  BY U64Assumption DEF RegistryTypeOK, U64
<1>7. QED
  BY <1>2, <1>3, <1>4, <1>5, <1>6, <1>1 DEF MoneyInv, MoneyMatchesRegistry

\* The totals move from pending to paid when dequeue_fills returns.
LEMMA DequeueKeepsMoney ==
  ASSUME RegistryTypeOK, MoneyInv, DequeueLoop, UNCHANGED moneyVars
  PROVE  MoneyInv'
<1>1. /\ total_sol_pending \in Nat /\ total_2z_pending \in Nat
      /\ solPaid \in Nat /\ tokenPaid \in Nat
      /\ sol_dequeued \in Nat /\ token_2z_dequeued \in Nat
  BY U64Assumption DEF RegistryTypeOK, U64
<1>2. UNCHANGED <<treasury, journal, funded>>
  BY DEF moneyVars
<1>3. CASE DequeueCommit
  <2>1. /\ total_sol_pending' = total_sol_pending - sol_dequeued
        /\ total_2z_pending' = total_2z_pending - token_2z_dequeued
        /\ solPaid' = solPaid + sol_dequeued
        /\ tokenPaid' = tokenPaid + token_2z_dequeued
    BY <1>3 DEF DequeueCommit
  <2>2. QED
    BY <1>1, <1>2, <2>1 DEF MoneyInv, MoneyMatchesRegistry
<1>4. CASE DequeueFull \/ DequeuePartial
  <2>1. UNCHANGED <<total_sol_pending, total_2z_pending, solPaid, tokenPaid>>
    BY <1>4 DEF DequeueFull, DequeuePartial, totalVars, paidVars
  <2>2. QED
    BY <1>2, <2>1 DEF MoneyInv, MoneyMatchesRegistry
<1>5. QED
  BY <1>3, <1>4 DEF DequeueLoop

\* Steps that touch neither money nor totals.
LEMMA SameMoney ==
  MoneyInv /\ UNCHANGED <<treasury, journal, funded, total_sol_pending, total_2z_pending,
                          solPaid, tokenPaid>> => MoneyInv'
  BY DEF MoneyInv, MoneyMatchesRegistry

LEMMA MoneyInvStep ==
  /\ ConfigurationInv /\ ClockInv /\ RegistryTypeOK
  /\ MoneyInv
  /\ [ConverterNext]_converterVars
  => MoneyInv'
<1> SUFFICES ASSUME ConfigurationInv, ClockInv, RegistryTypeOK, MoneyInv,
                    [ConverterNext]_converterVars
             PROVE  MoneyInv'
  OBVIOUS
<1>1. CASE \E signer \in Accounts, bid_price \in BidPrices, data \in Attestation :
             BuySol(signer, bid_price, data)
  BY <1>1, BuySolMovesMoney
<1>2. CASE DequeueFillsStep
  BY <1>2, DequeueKeepsMoney DEF DequeueFillsStep
<1>3. CASE \E amount \in Deposits : FundJournal(amount)
  <2>1. PICK amount \in Deposits : FundJournal(amount)
    BY <1>3
  <2>2. /\ journal' = journal + amount /\ funded' = funded + amount /\ treasury' = treasury
        /\ UNCHANGED <<total_sol_pending, total_2z_pending, solPaid, tokenPaid>>
        /\ amount \in Nat
    BY <2>1, ConverterAssumption DEF FundJournal, registryVars, totalVars, paidVars
  <2>3. QED
    BY <2>2 DEF MoneyInv, MoneyMatchesRegistry
<1>4. CASE \E signer \in Accounts, max \in DequeueLimits : DequeueFills(signer, max)
  BY <1>4, SameMoney DEF DequeueFills, DequeueStart, moneyVars, totalVars, paidVars
<1>5. CASE Tick \/ Manage
  BY <1>5, SameMoney DEF Tick, Manage, moneyVars, registryVars, totalVars, paidVars
<1>6. CASE Initialize
  BY <1>6, SameMoney DEF Initialize, moneyVars, registryVars, totalVars, paidVars
<1>7. CASE \E data \in Attestation : GetConversionRate(data)
  BY <1>7, SameMoney DEF GetConversionRate, moneyVars, registryVars, totalVars, paidVars
<1>8. CASE UNCHANGED converterVars
  BY <1>8, SameMoney DEF converterVars, moneyVars, registryVars, totalVars, paidVars
<1>9. QED
  BY <1>1, <1>2, <1>3, <1>4, <1>5, <1>6, <1>7, <1>8 DEF ConverterNext

\* The treasury and the journal agree with the fills registry to the unit in every
\* reachable state, through any number of split fills and whatever failed in between.
THEOREM MoneyMatches == ConverterSpec => []MoneyMatchesRegistry
<1>1. MoneyInv => MoneyMatchesRegistry
  BY DEF MoneyInv
<1>2. QED
  BY <1>1, MoneyInvInit, MoneyInvStep, ConverterConfiguration, ConverterClock,
     ConverterRegistryTypes, PTL DEF ConverterSpec

-----------------------------------------------------------------------------
(* Trades and slots *)

\* Nothing is sold before initialize_system has set the slot to count from.
TradeSlotInv ==
  /\ AtMostOneTradePerSlot
  /\ ~initialized => sold = 0

LEMMA TradeSlotStep ==
  /\ ClockInv /\ RegistryTypeOK
  /\ TradeSlotInv
  /\ [ConverterNext]_converterVars
  => TradeSlotInv'
<1> SUFFICES ASSUME ClockInv, RegistryTypeOK, TradeSlotInv, [ConverterNext]_converterVars
             PROVE  TradeSlotInv'
  OBVIOUS
<1>1. /\ slot \in Nat /\ last_trade_slot \in Nat /\ init_slot \in Nat /\ sold \in Nat
  BY MaxTradesAssumption DEF ClockInv, RegistryTypeOK
<1>2. CASE \E signer \in Accounts, bid_price \in BidPrices, data \in Attestation :
             BuySol(signer, bid_price, data)
  <2>1. /\ slot > last_trade_slot /\ last_trade_slot' = slot /\ init_slot' = init_slot
        /\ sold' = sold + 1 /\ initialized /\ initialized' = initialized
    <3>1. PICK signer \in Accounts, bid_price \in BidPrices, data \in Attestation :
            BuySol(signer, bid_price, data)
      BY <1>2
    <3>2. /\ initialized /\ TradeAllowed(signer)
          /\ EnqueueFill(config.sol_quantity, TokensRequired(config.sol_quantity, CurrentAsk(data)))
      BY <3>1 DEF BuySol
    <3>3. last_trade_slot' = slot /\ init_slot' = init_slot /\ initialized' = initialized
      BY <3>1 DEF BuySol, systemVars
    <3>4. QED
      BY <3>2, <3>3 DEF TradeAllowed, EnqueueFill
  <2>2. QED
    BY <1>1, <2>1 DEF TradeSlotInv, AtMostOneTradePerSlot
<1>3. CASE Initialize
  <2>1. /\ ~initialized /\ initialized' /\ sold' = sold
        /\ last_trade_slot' = slot /\ init_slot' = slot
    BY <1>3 DEF Initialize, InitializeAny, InitializeSystem, registryVars, soldVars
  <2>2. QED
    BY <1>1, <2>1 DEF TradeSlotInv, AtMostOneTradePerSlot
<1>4. CASE Manage
  <2>1. UNCHANGED <<sold, last_trade_slot, init_slot>> /\ initialized
    BY <1>4 DEF Manage, Administer, UpdateConfiguration, SetFillsConsumer, AddToDenyList,
       RemoveFromDenyList, SetAdmin, SetDenyListAuthority, ToggleSystemState,
       registryVars, soldVars, tradeVars
  <2>2. initialized'
    BY <1>4, <2>1 DEF Manage, Administer, UpdateConfiguration, SetFillsConsumer,
       AddToDenyList, RemoveFromDenyList, SetAdmin, SetDenyListAuthority, ToggleSystemState
  <2>3. QED
    BY <2>1, <2>2 DEF TradeSlotInv, AtMostOneTradePerSlot
<1>5. SUFFICES ASSUME UNCHANGED <<sold, last_trade_slot, init_slot, initialized>>
               PROVE  TradeSlotInv'
  <2>1. CASE Tick \/ \E amount \in Deposits : FundJournal(amount)
    BY <2>1 DEF Tick, FundJournal, registryVars, soldVars, tradeVars, systemVars,
       TradeSlotInv, AtMostOneTradePerSlot
  <2>2. CASE \E data \in Attestation : GetConversionRate(data)
    BY <2>2 DEF GetConversionRate, registryVars, soldVars, tradeVars, systemVars
  <2>3. CASE \E signer \in Accounts, max \in DequeueLimits : DequeueFills(signer, max)
    BY <2>3 DEF DequeueFills, DequeueStart, soldVars, tradeVars, systemVars
  <2>4. CASE DequeueFillsStep
    BY <2>4 DEF DequeueFillsStep, DequeueLoop, DequeueFull, DequeuePartial, DequeueCommit,
       soldVars, tradeVars, systemVars
  <2>5. CASE UNCHANGED converterVars
    BY <2>5 DEF converterVars, registryVars, soldVars, tradeVars, systemVars
  <2>6. QED
    BY <1>2, <1>3, <1>4, <2>1, <2>2, <2>3, <2>4, <2>5 DEF ConverterNext
<1>6. QED
  BY <1>5 DEF TradeSlotInv, AtMostOneTradePerSlot

\* However the transactions are ordered within the slots, there are no more trades
\* than slots since initialize_system (buy_sol.rs:105-108, init_system.rs:89).
THEOREM OneTradePerSlot == ConverterSpec => []AtMostOneTradePerSlot
<1>1. ConverterInit => TradeSlotInv
  BY DEF ConverterInit, RegistryInit, TradeSlotInv, AtMostOneTradePerSlot
<1>2. TradeSlotInv => AtMostOneTradePerSlot
  BY DEF TradeSlotInv
<1>3. QED
  BY <1>1, <1>2, TradeSlotStep, ConverterClock, ConverterRegistryTypes, PTL DEF ConverterSpec

-----------------------------------------------------------------------------
(* Quotes *)

QuoteInv ==
  /\ QuoteStaysGood
  /\ quote # NoQuote => initialized /\ quote.swap_rate \in Nat /\ quote.ask_price \in Nat

\* A quote and what it depends on stand while slots go by.
LEMMA QuoteOutlivesSlots ==
  ASSUME ConfigurationInv, ClockInv, ClockInv', QuoteInv,
         quote' = quote, config' = config, initialized' = initialized,
         last_trade_slot' = last_trade_slot, slot <= slot'
  PROVE  QuoteInv'
<1> SUFFICES ASSUME quote # NoQuote
             PROVE  ConversionRate(quote.swap_rate, config, last_trade_slot, slot')
                      <= quote.ask_price
  BY DEF QuoteInv, QuoteStaysGood
<1>1. /\ initialized /\ quote.swap_rate \in Nat /\ quote.ask_price \in Nat
      /\ ConversionRate(quote.swap_rate, config, last_trade_slot, slot) <= quote.ask_price
  BY DEF QuoteInv, QuoteStaysGood
<1>2. IsPricing(config) /\ ValidPricing(config)
  BY <1>1 DEF ConfigurationInv, ConfigurationStaysValid, Configuration, IsPricing
<1>3. /\ slot \in Nat /\ slot' \in Nat /\ last_trade_slot \in Nat
      /\ last_trade_slot <= slot /\ last_trade_slot <= slot'
  BY DEF ClockInv
<1>4. ConversionRate(quote.swap_rate, config, last_trade_slot, slot')
        <= ConversionRate(quote.swap_rate, config, last_trade_slot, slot)
  BY <1>1, <1>2, <1>3, AskNeverRises
<1>5. /\ ConversionRate(quote.swap_rate, config, last_trade_slot, slot) \in Nat
      /\ ConversionRate(quote.swap_rate, config, last_trade_slot, slot') \in Nat
  BY <1>1, <1>2, <1>3, AskWithinRates
<1>6. QED
  BY <1>1, <1>4, <1>5

LEMMA QuoteInvStep ==
  /\ ConfigurationInv /\ ClockInv /\ ClockInv'
  /\ QuoteInv
  /\ [ConverterNext]_converterVars
  => QuoteInv'
<1> SUFFICES ASSUME ConfigurationInv, ClockInv, ClockInv', QuoteInv,
                    [ConverterNext]_converterVars
             PROVE  QuoteInv'
  OBVIOUS
<1> USE DEF ClockInv
<1>1. CASE \E data \in Attestation : GetConversionRate(data)
  <2>1. PICK data \in Attestation : GetConversionRate(data)
    BY <1>1
  <2>2. /\ initialized
        /\ quote' = [swap_rate |-> data.swap_rate, ask_price |-> CurrentAsk(data)]
        /\ UNCHANGED <<config, initialized, last_trade_slot, slot>>
    BY <2>1 DEF GetConversionRate, systemVars, tradeVars, clockVars
  <2>3. data.swap_rate \in Nat /\ CurrentAsk(data) \in Nat
    BY <2>2, AskIsDefined
  <2>4. ConversionRate(data.swap_rate, config, last_trade_slot, slot) = CurrentAsk(data)
    BY DEF CurrentAsk
  <2>5. QED
    BY <2>2, <2>3, <2>4 DEF QuoteInv, QuoteStaysGood
<1>2. CASE quote' = NoQuote
  BY <1>2 DEF QuoteInv, QuoteStaysGood
<1>3. CASE \E signer \in Accounts, bid_price \in BidPrices, data \in Attestation :
             BuySol(signer, bid_price, data)
  BY <1>2, <1>3 DEF BuySol
<1>4. CASE Initialize
  <2>1. ~initialized /\ quote' = quote
    BY <1>4 DEF Initialize, InitializeAny, InitializeSystem
  <2>2. quote' = NoQuote
    BY <2>1 DEF QuoteInv
  <2>3. QED
    BY <1>2, <2>2
<1>5. CASE Manage
  <2>1. CASE config' = config
    <3>1. quote' = quote /\ UNCHANGED <<last_trade_slot, slot>>
      BY <1>5, <2>1 DEF Manage, tradeVars, clockVars
    <3>2. initialized' = initialized
      BY <1>5 DEF Manage, Administer, UpdateConfiguration, SetFillsConsumer, AddToDenyList,
         RemoveFromDenyList, SetAdmin, SetDenyListAuthority, ToggleSystemState
    <3>3. QED
      BY <2>1, <3>1, <3>2, QuoteOutlivesSlots
  <2>2. CASE config' # config
    BY <1>2, <1>5, <2>2 DEF Manage
  <2>3. QED
    BY <2>1, <2>2
<1>6. CASE Tick
  <2>1. /\ UNCHANGED <<quote, config, initialized, last_trade_slot>>
        /\ slot <= slot'
    BY <1>6 DEF Tick, systemVars, tradeVars
  <2>2. QED
    BY <2>1, QuoteOutlivesSlots
<1>7. CASE \/ \E amount \in Deposits : FundJournal(amount)
           \/ \E signer \in Accounts, max \in DequeueLimits : DequeueFills(signer, max)
           \/ DequeueFillsStep
           \/ UNCHANGED converterVars
  <2>1. UNCHANGED <<quote, config, initialized, last_trade_slot, slot>>
    BY <1>7 DEF FundJournal, DequeueFills, DequeueFillsStep, converterVars, systemVars,
       tradeVars, clockVars
  <2>2. slot <= slot'
    BY <2>1
  <2>3. QED
    BY <2>1, <2>2, QuoteOutlivesSlots
<1>8. QED
  BY <1>1, <1>3, <1>4, <1>5, <1>6, <1>7 DEF ConverterNext

\* A quoted price is honoured in every later slot up to the next trade or
\* configuration update (calculate_ask_price.rs:42-108, buy_sol.rs:120-133).
THEOREM QuotesStayGood == ConverterSpec => []QuoteStaysGood
<1>1. ConverterInit => QuoteInv
  BY DEF ConverterInit, QuoteInv, QuoteStaysGood
<1>2. QuoteInv => QuoteStaysGood
  BY DEF QuoteInv
<1>3. QED
  BY <1>1, <1>2, QuoteInvStep, ConverterConfiguration, ConverterClock, PTL DEF ConverterSpec

-----------------------------------------------------------------------------
(* Types, and what the wallets hold *)

\* A withdrawal is covered by the journal, a payment by the buyer's tokens.
WalletInv ==
  /\ unix_timestamp \in Nat /\ journal \in Nat /\ treasury \in Nat /\ funded \in Nat
  /\ user2Z \in [Accounts -> Nat] /\ userSol \in [Accounts -> Nat]
  /\ trade_event = NoTrade \/
       trade_event \in [sol_amount : Nat, token_amount : Nat, bid_price : Nat,
                        buyer : Accounts, swap_rate : Nat]
  /\ quote = NoQuote \/ quote \in [swap_rate : Nat, ask_price : Nat]

LEMMA BuySolKeepsWallets ==
  ASSUME ConfigurationInv, ClockInv, WalletInv,
         NEW signer \in Accounts, NEW bid_price \in BidPrices, NEW data \in Attestation,
         BuySol(signer, bid_price, data)
  PROVE  WalletInv'
<1> DEFINE sol == config.sol_quantity
           tokens == TokensRequired(sol, CurrentAsk(data))
<1>1. /\ initialized /\ Transfer2Z(signer, tokens) /\ WithdrawSol(signer, sol)
      /\ trade_event' = [sol_amount |-> sol, token_amount |-> tokens, bid_price |-> bid_price,
                         buyer |-> signer, swap_rate |-> data.swap_rate]
      /\ quote' = NoQuote /\ UNCHANGED <<unix_timestamp, funded>>
  BY DEF BuySol, clockVars
<1>2. sol \in Nat /\ CurrentAsk(data) \in Nat /\ data.swap_rate \in Nat /\ bid_price \in Nat
  BY <1>1, AskIsDefined, ConverterAssumption
<1>3. tokens \in Nat
  BY <1>2, TokensAreNatural
<1> HIDE DEF sol, tokens
<1>4. /\ journal \in Nat /\ treasury \in Nat
      /\ user2Z \in [Accounts -> Nat] /\ userSol \in [Accounts -> Nat]
  BY DEF WalletInv
<1>5. /\ tokens <= user2Z[signer] /\ user2Z' = [user2Z EXCEPT ![signer] = @ - tokens]
      /\ treasury' = treasury + tokens
      /\ sol <= journal /\ journal' = journal - sol
      /\ userSol' = [userSol EXCEPT ![signer] = @ + sol]
  BY <1>1 DEF Transfer2Z, WithdrawSol
<1>6. journal' \in Nat /\ treasury' \in Nat
  BY <1>2, <1>3, <1>4, <1>5
<1>7. user2Z[signer] - tokens \in Nat /\ userSol[signer] + sol \in Nat
  BY <1>2, <1>3, <1>4, <1>5
<1>8. user2Z' \in [Accounts -> Nat] /\ userSol' \in [Accounts -> Nat]
  BY <1>4, <1>5, <1>7
<1>9. trade_event' \in [sol_amount : Nat, token_amount : Nat, bid_price : Nat,
                        buyer : Accounts, swap_rate : Nat]
  BY <1>1, <1>2, <1>3
<1>10. QED
  BY <1>1, <1>6, <1>8, <1>9 DEF WalletInv

\* Steps that leave wallets and history alone, and may end a quote.
LEMMA SameWallets ==
  WalletInv /\ UNCHANGED <<unix_timestamp, moneyVars, trade_event>> /\ quote' \in {quote, NoQuote}
  => WalletInv'
  BY DEF WalletInv, moneyVars

LEMMA WalletInvStep ==
  ConfigurationInv /\ ClockInv /\ WalletInv /\ [ConverterNext]_converterVars => WalletInv'
<1> SUFFICES ASSUME ConfigurationInv, ClockInv, WalletInv, [ConverterNext]_converterVars
             PROVE  WalletInv'
  OBVIOUS
<1>1. CASE \E signer \in Accounts, bid_price \in BidPrices, data \in Attestation :
             BuySol(signer, bid_price, data)
  BY <1>1, BuySolKeepsWallets
<1>2. CASE \E data \in Attestation : GetConversionRate(data)
  <2>1. PICK data \in Attestation : GetConversionRate(data)
    BY <1>2
  <2>2. /\ initialized /\ UNCHANGED <<unix_timestamp, moneyVars, trade_event>>
        /\ quote' = [swap_rate |-> data.swap_rate, ask_price |-> CurrentAsk(data)]
    BY <2>1 DEF GetConversionRate, clockVars, tradeVars
  <2>3. quote' \in [swap_rate : Nat, ask_price : Nat]
    BY <2>2, AskIsDefined
  <2>4. QED
    BY <2>2, <2>3 DEF WalletInv, moneyVars
<1>3. CASE Tick
  <2>1. UNCHANGED <<moneyVars, trade_event, quote>>
        /\ unix_timestamp' \in unix_timestamp..unix_timestamp + 1
    BY <1>3 DEF Tick, tradeVars
  <2>2. unix_timestamp' \in Nat
    BY <2>1 DEF WalletInv
  <2>3. QED
    BY <2>1, <2>2 DEF WalletInv, moneyVars
<1>4. CASE \E amount \in Deposits : FundJournal(amount)
  <2>1. PICK amount \in Deposits : FundJournal(amount)
    BY <1>4
  <2>2. /\ journal' = journal + amount /\ funded' = funded + amount /\ amount \in Nat
        /\ UNCHANGED <<unix_timestamp, treasury, user2Z, userSol, trade_event, quote>>
    BY <2>1, ConverterAssumption DEF FundJournal, clockVars, tradeVars
  <2>3. QED
    BY <2>2 DEF WalletInv
<1>5. CASE Initialize \/ Manage
  BY <1>5, SameWallets DEF Initialize, Manage, clockVars, tradeVars
<1>6. CASE \/ \E signer \in Accounts, max \in DequeueLimits : DequeueFills(signer, max)
           \/ DequeueFillsStep
           \/ UNCHANGED converterVars
  BY <1>6, SameWallets DEF DequeueFills, DequeueFillsStep, converterVars, clockVars, tradeVars
<1>7. QED
  BY <1>1, <1>2, <1>3, <1>4, <1>5, <1>6 DEF ConverterNext

LEMMA ConverterWallets == ConverterSpec => []WalletInv
<1>1. ConverterInit => WalletInv
  BY ConverterAssumption DEF ConverterInit, WalletInv
<1>2. QED
  BY <1>1, WalletInvStep, ConverterConfiguration, ConverterClock, PTL DEF ConverterSpec

\* Every account of the program has its type; in particular neither the journal nor a
\* buyer's wallet is ever overdrawn (buy_sol.rs, transfer_checked and withdraw_sol).
THEOREM ConverterTypeCorrect == ConverterSpec => []ConverterTypeOK
<1>1. RegistryTypeOK /\ SystemTypeOK /\ ClockInv /\ WalletInv => ConverterTypeOK
  BY DEF ClockInv, WalletInv, ConverterTypeOK
<1>2. QED
  BY <1>1, ConverterRegistryTypes, ConverterIsSystem, SystemTypeCorrect, ConverterClock,
     ConverterWallets, PTL

-----------------------------------------------------------------------------
(* Who gets SOL, and at which price *)

LEMMA ConverterDenyList == ConverterSpec => []DenyListInv
  BY ConverterIsSystem, DenyListInvariant, PTL

\* Only buy_sol takes SOL from the journal.
LEMMA JournalFallsByTrades ==
  ASSUME WalletInv, [ConverterNext]_converterVars, journal' < journal
  PROVE  \E signer \in Accounts, bid_price \in BidPrices, data \in Attestation :
           BuySol(signer, bid_price, data)
<1> USE DEF WalletInv
<1>1. CASE \E amount \in Deposits : FundJournal(amount)
  BY <1>1, ConverterAssumption DEF FundJournal
<1>2. CASE UNCHANGED journal
  BY <1>2
<1>3. QED
  BY <1>1, <1>2 DEF ConverterNext, converterVars, moneyVars, Tick, Initialize, Manage,
     GetConversionRate, DequeueFills, DequeueFillsStep

\* Whatever the order of pauses, denials and trades, SOL leaves the journal only for a
\* buyer who is not denied, while the program is not halted, and with a fill in the
\* registry (buy_sol.rs:86-108, 188-221).
THEOREM SolLeavesOnlyForAllowedTrades == ConverterSpec => SolLeavesForAllowedTrades
<1> DEFINE Allowed ==
      journal' < journal =>
        /\ ~is_halted
        /\ sold' = sold + 1
        /\ \E a \in Accounts :
             /\ ~ruling[a]
             /\ userSol' = [userSol EXCEPT ![a] = @ + journal - journal']
<1>1. ConfigurationInv /\ ClockInv /\ WalletInv /\ DenyListInv /\ [ConverterNext]_converterVars
      => Allowed
  <2> SUFFICES ASSUME ConfigurationInv, ClockInv, WalletInv, DenyListInv,
                      [ConverterNext]_converterVars, journal' < journal
               PROVE  Allowed
    OBVIOUS
  <2>1. PICK signer \in Accounts, bid_price \in BidPrices, data \in Attestation :
          BuySol(signer, bid_price, data)
    BY JournalFallsByTrades
  <2>2. /\ initialized /\ ~is_halted /\ ~Denied(signer) /\ sold' = sold + 1
        /\ journal' = journal - config.sol_quantity
        /\ userSol' = [userSol EXCEPT ![signer] = @ + config.sol_quantity]
    BY <2>1 DEF BuySol, TradeAllowed, EnqueueFill, WithdrawSol
  <2>3. ~ruling[signer]
    BY <2>2 DEF DenyListInv, DenyListFollowsEvents
  <2>4. config.sol_quantity \in Nat
    BY <2>2, AskIsDefined
  <2>5. journal \in Nat /\ userSol \in [Accounts -> Nat]
    BY DEF WalletInv
  <2>6. userSol[signer] + config.sol_quantity = userSol[signer] + journal - journal'
    BY <2>2, <2>4, <2>5
  <2>7. userSol' = [userSol EXCEPT ![signer] = @ + journal - journal']
    BY <2>2, <2>6
  <2>8. QED
    BY <2>2, <2>3, <2>7
<1>2. QED
  BY <1>1, ConverterConfiguration, ConverterClock, ConverterWallets, ConverterDenyList, PTL
  DEF ConverterSpec, SolLeavesForAllowedTrades

\* Only buy_sol records a trade.
LEMMA OnlyTradesAreSold ==
  ASSUME [ConverterNext]_converterVars, sold' # sold
  PROVE  \E signer \in Accounts, bid_price \in BidPrices, data \in Attestation :
           BuySol(signer, bid_price, data)
  BY DEF ConverterNext, converterVars, registryVars, soldVars, Tick, FundJournal, Initialize,
     Manage, GetConversionRate, DequeueFills, DequeueStart, DequeueFillsStep, DequeueLoop,
     DequeueFull, DequeuePartial, DequeueCommit

\* What a trade costs lies between the swap rate at the two discounts of the
\* configuration in force, to a unit of each truncation, and within the bid
\* (calculate_ask_price.rs, buy_sol.rs:120-146).
THEOREM TradesArePricedWithinBidAndRates == ConverterSpec => TradesWithinBidAndRates
<1> DEFINE Paid(rate) == trade_event'.sol_amount * trade_event'.swap_rate * (RATE_SCALE - rate)
           Scale      == LAMPORTS_PER_SOL * RATE_SCALE
           Tokens     == trade_event'.token_amount
           Priced ==
             sold' # sold =>
               /\ Tokens * LAMPORTS_PER_SOL <= trade_event'.sol_amount * trade_event'.bid_price
               /\ Tokens * Scale <= Paid(config.min_discount_rate)
               /\ Paid(config.max_discount_rate)
                    < (Tokens + 1) * Scale + trade_event'.sol_amount * RATE_SCALE
<1>1. ConfigurationInv /\ ClockInv /\ [ConverterNext]_converterVars => Priced
  <2> SUFFICES ASSUME ConfigurationInv, ClockInv, [ConverterNext]_converterVars, sold' # sold
               PROVE  Priced
    OBVIOUS
  <2>1. PICK signer \in Accounts, bid_price \in BidPrices, data \in Attestation :
          BuySol(signer, bid_price, data)
    BY OnlyTradesAreSold
  <2> DEFINE sol == config.sol_quantity
             ask == CurrentAsk(data)
             tokens == TokensRequired(sol, ask)
             rate == data.swap_rate
  <2>2. /\ initialized /\ bid_price >= ask
        /\ trade_event' = [sol_amount |-> sol, token_amount |-> tokens, bid_price |-> bid_price,
                           buyer |-> signer, swap_rate |-> rate]
    BY <2>1 DEF BuySol
  <2>3. /\ IsPricing(config) /\ ValidPricing(config) /\ rate \in Nat /\ sol \in Nat /\ ask \in Nat
        /\ bid_price \in Nat /\ slot \in Nat /\ last_trade_slot \in Nat /\ last_trade_slot <= slot
    BY <2>2, AskIsDefined, ConverterAssumption DEF ClockInv
  <2>4. /\ trade_event'.sol_amount = sol /\ trade_event'.token_amount = tokens
        /\ trade_event'.bid_price = bid_price /\ trade_event'.swap_rate = rate
    BY <2>2
  <2>5. ask = ConversionRate(rate, config, last_trade_slot, slot)
    BY DEF CurrentAsk
  <2> HIDE DEF sol, ask, rate
  <2>6. tokens * LAMPORTS_PER_SOL <= sol * bid_price
    BY <2>2, <2>3, TokensWithinBid
  <2>7. /\ tokens * (LAMPORTS_PER_SOL * RATE_SCALE)
             <= sol * rate * (RATE_SCALE - config.min_discount_rate)
        /\ sol * rate * (RATE_SCALE - config.max_discount_rate)
             < (tokens + 1) * (LAMPORTS_PER_SOL * RATE_SCALE) + sol * RATE_SCALE
    BY <2>3, <2>5, TokensWithinRates
  <2>8. QED
    BY <2>4, <2>6, <2>7
<1>2. QED
  BY <1>1, ConverterConfiguration, ConverterClock, PTL
  DEF ConverterSpec, TradesWithinBidAndRates
=============================================================================
