# A TLA+ model of the SOL/2Z conversion system

The repository lets holders of 2Z buy SOL from the DoubleZero journal at a price
set by a Dutch auction on an oracle's swap rate, and lets an integrating program
(the fills consumer) collect the resulting fills. This directory models the
on-chain program, the swap oracle service, the indexer service with its metrics
API, and the command line tools, checks them with TLC on
small instances and proves their main properties with TLAPS for all values of the constants. Paths below are relative to the repository;
`converter-program/` stands for `on-chain/programs/converter-program/src/`,
`oracle/` for `off-chain/swap-oracle-service/src/` and `indexer/` for
`off-chain/indexer-service/src/`; `cli-common/`, `user-cli/`, `integration-cli/` and
`admin-cli/` for the `src/` of these.

## 1. The system

| Component | State it keeps | Operations | Interacts with |
|---|---|---|---|
| Fills registry (`converter-program/fills_registry/`) | ring buffer `fills`, `head`, `tail`, `count`, two totals | append (end of `buy_sol`), `dequeue_fills` | the converter program writes it, the fills consumer drains it, the CLIs list it |
| Ask price (`calculate_ask_price.rs`) | none | `calculate_conversion_rate` | called by `buy_sol` and `get_conversion_rate` |
| Administration (`init_system.rs`, `configuration_registry/`, `deny_list_registry.rs`, `system_management/`) | admin, deny list authority, halt flag, configuration, deny list | `initialize_system`, `update_configuration_registry`, `set_fills_consumer`, `add_to_deny_list`, `remove_from_deny_list`, `set_admin`, `set_deny_list_authority`, `toggle_system_state` | read by `buy_sol` and `dequeue_fills` |
| Converter program (`buy_sol.rs`, `lib.rs`) | `last_trade_slot` and all of the above | `buy_sol`, `get_conversion_rate` and the others | CPI to the token program (2Z) and to the revenue distribution program (SOL of the journal) |
| Mock DoubleZero program (`mock-double-zero-program/`) | journal, treasury, mint | `withdraw_sol`, `mint_2z`, initialize | stands in for the revenue distribution program in tests |
| Swap oracle service (`off-chain/swap-oracle-service/`) | price cache (Redis), circuit breaker, latest health data | swap rate and health requests, periodic health checks | Pyth, Redis; its attestations are the input of `buy_sol` |
| Indexer service (`off-chain/indexer-service/src/core`) | cursor, `recovering` flag, DynamoDB tables | log callback, history recovery | Solana RPC, DynamoDB |
| Metrics API (`off-chain/indexer-service/src/metrics-api`) | none | queries over the tables | DynamoDB |
| Commands that trade (`user-cli/`, `integration-cli/`, `cli-common/transaction_executor.rs`) | none between commands | look up, sign, send, confirm, read the returned data | the program, the oracle, a Solana node |
| Admin CLI (`admin-cli/`) | none | one instruction a command, through the same executor | the program |

What makes each correct, and what is hard about it:

* **Fills registry.** Every trade leaves the queue exactly once, oldest first, to
  the unit. Hard: indices that wrap independently, a fill split by several calls,
  rounding at every split, totals kept apart from the fills, the end of a loop
  over fills of no SOL, u64 limits.
* **Ask price.** The price stays between the two discounts and falls until the
  next trade. Hard: the discount is capped from above only, so it is right only
  together with the checks of the administration.
* **Administration.** A configuration that is valid whatever partial updates are
  accepted; a vector that behaves as a set. Hard: each field is checked against a
  mix of new and stored fields in the middle of an update.
* **Converter program.** 2Z and SOL move together with the books; the bid is the
  limit; one trade a slot. Hard: buyers, admins, the clock and dequeues
  interleave between a quote and the trade it was for.
* **Swap oracle.** Nothing older than the limits is signed, and nothing while the
  service is unhealthy. Hard: checks before awaits, overlapping health checks, a
  cached price that is signed with the present time.
* **Indexer.** Every successful transaction is stored once, and restarts resume
  where they left off. Hard: concurrent callbacks that move the cursor, restarts,
  two overlapping sources, writes that share a key.
* **Metrics API.** Each stored event is counted once, on its day. Hard: a request
  reads in pages while rows are written, replaced and moved in the index; the
  range of the query and the days of the answer are computed apart.
* **Commands.** What a command reports is what happened, once, and an
  error tells whether anything may have happened. Hard: the answer can be lost
  after the transaction has landed, commands are repeated, two equal commands under
  one block hash are one transaction, and a pause that was given up may land after the
  activation that followed it.

`PROJECT.json` lists the hazards at their lines, with the properties that cover
them or the reason that none does.

## 2. The modules

```
FillsLedger        abstract: trades on a line, a consumer that moves along it
   ^ implements
FillsRegistry      the ring buffer              AskPrice     the auction's arithmetic
   |                                               |
   |                                            SystemManagement   the administration
   +------------------ ConverterProgram -----------+

CircuitBreaker     closed or open, and the count that closes it
   |
SwapOracle         requests, health checks, cache, clock and feeds

EventTables        abstract: rows that are stored, a cursor, and what is lost
   ^ implements
Indexer            log callbacks, history recovery, tables and cursor
MetricsApi         requests over those tables, page by page

TransactionClient  commands of one payer, a node, and the transactions executed
```

* **FillsLedger** says what the registry promises without a queue. Trade *i*
  covers a stretch of a line of SOL and carries some 2Z; `Pay(max)` moves the
  consumer by exactly `max`, or to the end. The 2Z credited is exact at the end of
  every trade and at most the pro-rata share inside one (`Settled`).
* **FillsRegistry** implements it through the mapping
  `Ledger == INSTANCE FillsLedger WITH sold <- sold, ...` (`ImplementsLedger`), and
  ConverterProgram implements FillsRegistry (`ImplementsRegistry`). It is the account and the two pieces of code that write it.
  `EnqueueFill` is the end of `buy_sol`; `DequeueStart`, `DequeueFull`,
  `DequeuePartial` and `DequeueCommit` are the entry, the two kinds of iteration
  and the end of `dequeue_fills`, one iteration a step, with the local variables
  of the loop as variables of the model. The guards of `Accumulate` and
  `DequeueCommit` are the program's overflow checks. Six history variables sum
  up the program's TradeEvent and FillsDequeued events.
* **AskPrice** holds the arithmetic of `calculate_conversion_rate` and of
  `tokens_required`. The code computes with decimals of 28 digits: coefficients
  have 8 and rates 4, so for any u64 input the products are exact and the only
  rounding is the truncation of the price; the model computes in integers scaled
  by `DISCOUNT_SCALE`.
* **SystemManagement** has one action per administrative instruction. An optional
  field left out is `None`. The deny list is a sequence, as in the code; the
  history variable `ruling` remembers the latest event for each address.
* **ConverterProgram** extends all of these and adds the clock, the money, the
  attestations, `buy_sol` (`BuySol`, all guards in one transaction),
  `get_conversion_rate` and the authorised `dequeue_fills`. A transaction that
  fails is undone by the runtime, so it is no step. `BuySol` keeps the event's
  swap rate as history, and `quote` keeps the latest answer of
  `get_conversion_rate` until a trade or an update.

* **CircuitBreaker** is `circuitBreaker.ts`: the reports that open it, the counter
  that closes it, and two histories the counter is compared with.
* **SwapOracle** extends it with the service around it. A request is a chain of
  awaits in `swapRateController.ts`, and `phase` says at which one it is: between
  any two steps other requests, overlapping health checks, the clock, the feeds
  and a restart may come. Prices are their publish times; `published` keeps both
  times of a rate (`solPublishTime`, `twozPublishTime`). The outcome of the
  confidence check is a choice (`RejectPrices`), and so is each failure of Redis,
  CloudWatch, Hermes and the parameter store. The cache survives a restart and
  may hold an entry of a release that stored no publish times (`LegacyRate`).
* **EventTables** says what the indexer promises of its tables, with no callbacks, pages
  or pool: the events of a transaction are stored one by one in their order, no
  transaction loses the rows it has, a transaction that was taken up is owed until it is
  stored or lost, and the cursor is saved only for what is settled. `Crash` names the
  one way in which a crash loses anything: the cursor is already past it, or not yet set.
* **Indexer** implements it through `Tables == INSTANCE EventTables WITH taken <- seen,
  ...` (`ImplementsTables`). It is `indexer/core` with the tables it writes. `chain` holds the
  confirmed transactions, whose positions serve as signatures. Two callers process
  a transaction, the callback of the subscription ("live") and the recovery
  ("history"), possibly the same one at the same time; `work` says at which await
  each call is, and `stage` where `recoverHistory` is. Reports of the subscription
  (`notifications`) come in any order or never, and do not come for what is
  confirmed before the subscription has reached the node. Every call to the node
  or to DynamoDB may fail, a write also after it was done. An error in a callback
  ends the process (nobody handles the rejection; `user_data.sh.tpl` starts the
  container with `--restart unless-stopped`), so it is part of `Restart`; an error
  in recovery does not, but the calls of the pool that are in flight go on. The
  tables are sets of rows with the keys of `deployment/modules/dynamodb/main.tf`.

* **MetricsApi** is the lambda over two of the tables, with the indexer as `PutRow`: it
  may store any event at any time, again, and with the time 0 that it stores for an
  unknown block time (`processor.ts:21`). A trade's key does not hold the time, so that
  a second writing moves its row in the index; a dequeue's does, so that it gets a
  second row. `ReadPage` is one Query or Scan: at most a page, in the order of the
  index or of the hashed key, after the last key. DynamoDB may hand out less than a
  page, and a last key although nothing follows. What it shows may lag behind what
  was written: `rows` is what it shows. `standing` remembers the rows that were there
  all through the request. A page is a set (`IsPage`), whose rows are added to the items
  in any order: counts, sums and ranks do not depend on it, and `Ascending` stands for
  the sorting of `dequeues.ts:45`.
* **TransactionClient** is `transaction_executor.rs` with the commands that trade, mint,
  or set one of two switches: the halt of the system and the payer's own entry in the
  deny list. A transaction is the record of its instruction and its block hash (`Tx`), as
  its signature is a function of these: two equal commands that got the same hash are
  one transaction, which the cluster executes at most once and only while the hash is
  valid. A call goes through the stages of `Stages`; each request to the node or the
  oracle can fail, and `Submit` can fail although the node has taken the transaction.
  Failed commands are repeated as further calls. Other payers buy meanwhile; the payer
  is the only one to set the switches. `Accepts`, `Moves` and `Effect` say what the
  program does: of the fills only the SOL that is bought and dequeued is kept, for
  FillsRegistry has the rest, and it may refuse anything for reasons not modelled here.

* **Auction** puts the operators of AskPrice into a small state machine: any valid
  configuration, a swap rate, and the slots that pass after a trade.

`MCSystemManagement`, `MCConverterProgram`, `MCSwapOracle`, `MCIndexer` and
`MCMetricsApi` are the instances for TLC; FillsRegistry, Auction and TransactionClient
need only constants and are checked directly. The modules `*_proofs` hold the theorems,
and `SharedLemmas` what several of them need.

Correspondence with the code that is not by name:

| Model | Code |
|---|---|
| `pc = "loop"` | `dequeue_fills` is running; it holds the write lock of the registry account, so no other instruction of the model runs |
| `initialized` | the accounts of the program exist (the `init` constraints) |
| `signer` parameters | the signer constraints and `require_keys_eq!` checks |
| `signed_by` of an attestation | the key under which `sig_verify` succeeds |
| `DefaultKey` | `Pubkey::default()`, the fills consumer until one is set |
| phase `found` | the cached entry has been read and not yet been judged |
| phase `fetching` | `fetchPrice` of both feeds runs, `fetched` counts the attempts |
| phases `metering`, `caching`, `signing` | the awaits of CloudWatch, Redis and the parameter store |
| phases `unavailable`, `error` | the answers 503 and 500 |
| call steps `fetch`, `write`, `save` | awaiting `getTransaction` (and the block time), a PutCommand of an event, the PutCommand of the cursor |
| stages `listing`, `pool` | between two pages, inside `promisePool` |
| stage `failed` | `recoverHistory` has thrown; the flag of `state.ts` is still set |
| `seen`, `lost`, `upTo` | histories: what processing was ever started for, what was given up, how far the first page reached |
| `probe[h]` | what `getHealth` has found in a check that has not yet stored its result |
| errors `unsent`, `refused`, `doubt`, `unread` of a call | an error before the submission; a failed preflight or a transaction confirmed as failed; the submission or the confirmation failed otherwise; confirmed but not read back |
| `after` of a call | history: the calls that had ended when the command was entered |
| kind `create` | the transaction that creates the associated token account (`token_utils.rs:33`) |
| request `status` | the HTTP status, 0 before the answer |
| definitions commented "Mutant of X" | plausible bugs; each breaks a property of the run it belongs to |

### Assumptions on the surroundings

* The token program moves tokens between the buyer and the treasury token account
  that the shipped client derives. `buy_sol` itself constrains that account by
  its mint only and leaves the rest to the revenue distribution program.
* `withdraw_sol` is modelled as the mock program does it.
* Arithmetic overflow aborts: the release profile sets `overflow-checks`.
* The upgrade authority is fixed. Fees, rent, compute units and account creation
  are left out.
* Slots grow by one; the unix time grows independently, by at most one per slot.
* The oracle runs one pricing service, the only one its factory knows, so that
  `selectMostFavorableRate` has nothing to select. Stale prices are answered like
  uncertain ones: `PriceStalenessError` is a `PriceServiceUnavailableError`, and
  `getSwapRate` throws a new one in its place, so the handler's own branch for
  staleness is never taken.
* A node answers a payer consistently: preflight, status and `get_transaction` all see
  its confirmed state (`transaction_executor.rs:112` and `:127` ask for `confirmed`),
  and what is confirmed is not rolled back.
* The metrics API reads rows that DynamoDB may show late but not out of the order of
  its index. Its days are UTC: Lambda runs in that time zone, which `setDate`
  (`helpers/date.ts:28`) uses.
* Instances of the service share nothing but the cache, so several of them look to
  the cache like one with more requests.

## 3. What the runs check

| Run | Instance and bounds | Shows |
|---|---|---|
| `registry` (`FillsRegistry.cfg`) | 3 slots, 4 trades of 0, 2 or 5 SOL and 0, 3 or 7 2Z, limits 0, 1, 3, 14, u64 up to 14 | the invariants below, `DequeueTakesExactly`, the refinement of FillsLedger; a dequeue that has started returns |
| `ask_price` (`Auction.cfg`) | every valid configuration at scales 6 and 4, 4 rates, 9 slots | the price against the commented formula, slot by slot |
| `administration` (`SystemManagement.cfg`) | 3 accounts, every combination of optional fields, inputs at, inside and beyond each limit, a deny list of 2, 4 deny list changes | the configuration and the deny list |
| `converter` (`Converter.cfg`) | 2 buyers, 2 trades, a registry of 1, 3 slots, ages 0 to 2 against a maximum of 1, one deposit of 5 | the whole program |
| `oracle` (`SwapOracle.cfg`) | 2 requests, 1 health check, 1 attempt, ages up to 1, entries that live 2, a clock up to 2 | the freshness of what is attested, the entries of an earlier release, the inductive invariant |
| `oracle_health` (`SwapOracleHealth.cfg`) | 1 request with 2 attempts, 2 overlapping health checks, 3 passes to close | when the breaker opens and closes; requests are answered |
| `indexer` (`Indexer.cfg`) | 3 transactions of 3 kinds (failed, two events under one key, two tables), pages of 2, 2 at a time | the refinement of EventTables, and what can be lost |
| `indexer_pages` (`IndexerPages.cfg`) | 4 transactions of one event, pages of 2, one at a time | recovery is complete, keeps the limit of the pool and ends; the inductive invariant |
| `indexer_cursor` (`IndexerCursor.cfg`) | 2 transactions | a comment that the code does not follow |
| `oracle_timestamp` (`OracleTimestamp.cfg`) | 1 request, 1 health check | a sentence of the API description that the code does not follow |
| `clients` (`TransactionClient.cfg`) | 2 commands of any kind, 1 switch, 2 attempts to read, hashes good for 2 blocks, 1 trade of another payer, trades of 3 SOL against limits of 2 | what commands report, and that they end |
| `metrics` (`MetricsApi.cfg`) | 3 trades and 2 dequeues around a midnight, days of 2 seconds, pages of 2, the 50th percentile | what a request counts while the tables change |

Why these bounds are enough to see the interesting cases:

* `registry`: four trades in three slots wrap both indices and meet a full queue;
  amounts 2 and 5 against limits 1 and 3 split a fill once, several times, and
  across the end of the one before; 3 and 7 do not divide evenly, so every split
  rounds; two trades of 7 reach the u64 limit and a third exceeds it; trades of
  no SOL stand anywhere in the queue. The proofs remove all of these bounds.
* `ask_price`: 9 slots at a coefficient of up to one pass the slot at which the
  cap takes over, for every coefficient but 0.
* `administration`: five rates around a scale of 3 include equal, crossed and
  excessive pairs; two updates in a row reach every valid pair from every other.
* `converter`: two trades suffice for one buyer to spoil another's quote, for a
  second trade in a slot and for a full registry; the limit 2 takes a fill of 2
  whole and splits one of 3. `SetAdmin` and its like hand authority to one
  account only here, because `administration` explores the rest.
* `oracle`: the two requests can both miss, fetch different prices and write the
  cache in either order, and one can read what the other wrote. The two feeds may
  publish at different times. An entry outlives its prices (2 against 1), and the
  clock passes the limit of each by one. Requests, checks and feeds are
  interchangeable, hence the symmetry; the run has no temporal properties.
* `oracle_health`: three passes are the threshold of the code, and two checks can
  overtake each other on the way. Time matters little here: a maximum age of 0 and
  one tick make prices both fresh and stale. There is no symmetry.
* `indexer`: three transactions let two callbacks overtake each other around a
  cursor, let both sources work on one transaction, and fill a page of two and
  one of one. Restarts are not counted: any number of them may happen.
* `indexer_pages`: with the cursor at 1, three transactions make a full page, a
  shorter one and the empty one that ends recovery, while more are confirmed.
* `clients`: two commands suffice for one to repeat the other after any failure, or to
  run beside it under the same block hash. A trade of 3 against a limit of 2 takes two
  dequeues, the second one partial; with no trade a dequeue is refused. A hash expires
  at the second block, before or after the execution. A command with its account creation sends two transactions.
* `metrics`: a day boundary lies between two adjacent seconds with events on both
  sides; three trades make a full and a partial page, and rewriting a trade moves it
  from before the page to after it. Half in place of 95 in 100 makes the ranks of two
  amounts differ.

The properties, by run:

* `QueueHoldsUndequeuedTrades`: the queue is the list of trades not yet dequeued,
  in order, only its head possibly split.
* `PendingTotalsMatchQueue`: between instructions the totals are sums over the queue.
* `NoArithmeticError`: the loop never aborts once entered.
* `DequeueTakesExactly`: a call reports its limit or all there was.
* `ImplementsLedger`: every dequeue pays what the ledger of trades says, never above pro
  rata and without loss at the end of a trade.
* `DequeueReturns`: liveness, see below.
* `DiscountAsCommented`: the formula at `calculate_ask_price.rs:76` has an outer
  maximum that the code drops; under a valid configuration it makes no difference.
* `AskOnlyFalls`: the price for a swap rate never rises from slot to slot.
* `ConfigurationStaysValid`, `DenyListFollowsEvents`: section 1.
* `ConverterTypeOK`: the types of registry, administration and program together, among
  them that no balance becomes negative.
* `MoneyMatchesRegistry`: treasury and journal agree with the registry's totals
  and the amounts paid out, to the unit.
* `AtMostOneTradePerSlot`: no more trades than slots since initialization.
* `QuoteStaysGood`: a quote is good until the next trade or update.
* `SolLeavesForAllowedTrades`: SOL leaves the journal only for a buyer whose
  latest deny list event is no addition, while not halted, with a new fill.
* `TradesWithinBidAndRates`: each trade against the exact band of its configuration, and
  against the bid, which protects a buyer when a quote no longer does.
* `ImplementsRegistry`: the program's steps are steps of FillsRegistry.
* `AttestedRateWasFresh`: neither price of an attested rate was older than the
  maximum when the rate was calculated, and not at the time it attests either when
  it came from the cache. A rate that did not come from the cache may be older at
  that time: the metric and the cache are awaited in between.
* `OracleInv`: besides the types, every rate in a request or in the cache was made
  of fresh prices and is dated by the older one.
* `LegacyRatesRunOut`: a cached rate without publish times is attested whatever its
  age, but it can be found only while the entry of the earlier release lives: no
  request writes it back or prolongs it, restarts included.
* `ClosedWhenRecovered`: the breaker is closed exactly when enough checks have
  passed since it opened.
* `UnhealthyMeansOpen`: the stored result and the breaker never disagree in the
  dangerous direction, whatever the order in which checks end.
* `OpensOnOutage`: stale or uncertain prices do not open the breaker. A metric that
  cannot be stored does.
* `ImplementsTables`: whatever callbacks and recovery do side by side, with failures and
  restarts, is a step of EventTables. In particular both sources write a transaction's
  events in their order, and the cursor is saved only for a transaction that is in the
  tables or was given up.
* `NothingElseIsLost`: a transaction that was ever taken up is indexed, in
  progress, ahead of a cursor from which recovery will redo it, or lost for one of
  two causes: the node did not return it, or the process ended while it was in
  flight and the cursor was already past it or not yet set. Neither an error of the
  recovery nor any order of the callbacks adds a third. The causes are real: what
  the service cannot promise is stated here and not hidden.
* `RecoveryComplete`: a recovery that has ended by itself has taken up everything
  from its cursor to the newest transaction of its first page. What is confirmed
  after that page was listed and before the subscription reaches the node is taken
  up by nobody: the model contains this gap and no property denies it.
* `IndexerInv`: besides these, that the tables hold only events of successful
  transactions, each under a key of its own transaction, and one row for each key
  (`RowsAreEvents`), what each call has written so far, and that cursor and flag stand
  still while recovery works.
* `AnswersAreReceipts`: a command reports what its own transaction returned, and that
  transaction succeeded, however often it had to ask.
* `PaymentsAreKnownOrInDoubt`: every trade, dequeue or mint of the payer belongs to a command
  that reports it, is under way, or ended in an error of confirmation or reading. All
  other errors are safe to repeat. The doubtful ones are not: the code repeats with a
  new block hash, and a dequeue whose answer was lost is paid and not reported.
* `SerialAnswersDiffer`: commands that follow each other never report the same
  transaction, because the preflight refuses one that has been executed. Commands side
  by side may: both then report the same fills.
* `ReportedSwitchStands`: a reported pause or denial stands unless a command to the
  contrary has been reported since, is under way, or ended in doubt. The last case is
  real: an activation whose command has given up can land after a reported pause, until
  its block hash has expired.
* `PaymentHasItsAccount`: any failure to look the token account up leads to its creation,
  and still a purchase from it, or a mint to it, is prepared only when it exists.
* `StandingRowsAreCounted`, `RowsAreCountedOnce`: a response has every row of its range
  that was there throughout, and none twice, though pages may be empty in the middle
  and rows move. A row that is written meanwhile may be missing; so may a trade that
  moves backwards past the reader, as it is not one row throughout.
* `BucketsHoldAllRows`: the range of the query ends at 23:59:59 and the buckets at
  midnight, and nothing falls between.
* `PercentileIsNearestRank`: the percentile against its definition by counting.
* `RequestsAnswered`, `BreakerRecovers`, `RecoveryReturns`, `CommandsEnd`: liveness, see below.

`Auction.cfg`, `Converter.cfg` and `TransactionClient.cfg` switch deadlock checking
off: slots, time, deposits, trades and commands are bounded there, so a behaviour ends. In
the other instances some call is always possible.

### Fairness

* `DequeueReturns`: weak fairness of the loop of `dequeue_fills`, because the
  runtime executes an instruction it has started.
* `RequestsAnswered`: weak fairness of the steps of each request, that is, every
  awaited call returns or fails. This leaves out a Redis client that reconnects
  for ever, which queues its commands meanwhile.
* `BreakerRecovers` also needs weak fairness of each health check, because
  `setInterval` starts them without end. Requests may go on failing.
* `CommandsEnd`: weak fairness of the steps of each command, that is, each request
  ends well or badly, and of `NextHash`: blocks go on. That a submitted transaction is
  ever executed is not assumed.
* `RecoveryReturns`: weak fairness of the steps of recovery: what it awaits returns
  or fails. Callbacks, the subscription and the chain may do anything meanwhile.

Nothing is assumed of buyers, admins, the consumer, the feeds or Hermes.

### The divergences

* `api/api-doc.yaml:29` of the oracle calls the timestamp of an answer the time
  "when the rate was generated". `swapRateController.ts:53` takes the time of the
  answer. `oracle_timestamp` shows a rate that is attested a second after it was
  calculated.
* The comment at `realtime.ts:11` says that a callback processes the transaction and
  updates the last processed signature. `processor.ts:17` returns without an error
  when the node does not have the transaction, and the cursor moves on to it.
  `indexer_cursor` shows a cursor that names a transaction without its row.

Some more, which no run shows by a counterexample:

* `README.md:565` and the help text at `user-cli/command.rs:7` say that a trade executes
  at the bid price. `buy_sol.rs:145-150` charges the ask price when the bid is at least
  the ask (`TradesWithinBidAndRates`).
* `circuitBreaker.ts:7` and `:23` call the count that closes the breaker one of
  consecutive passes. A failed check does not reset it while the breaker is open
  (`ClosedWhenRecovered` counts the passes since it opened).
* `api/metrics.openapi.yaml:163` calls the count of the dequeues an event count.
  It counts rows: two dequeues of one transaction are one row, and a dequeue that was
  also stored with the time 0 has a second one, on the first day of 1970.

After a recovery that failed, the flag of `state.ts:3` is never cleared: each callback
returns at `realtime.ts:23` and the cursor stands still until a restart, although
`indexer/index.ts:45` logs that "Real-time indexing continues normally". Events are
still written, and because of the standing cursor nothing is lost (`NothingElseIsLost`).

## 4. What is proved

All proofs hold for every value of the constants that satisfies the named
assumptions of the modules (`QueueSizeAssumption`, `U64Assumption`,
`AmountsAssumption`, `MaxTradesAssumption`, `ScaleAssumption`, `AuctionAssumption`,
`AccountsAssumption`, `ConfigurationInputsAssumption`, `DenyListAssumption`,
`ConverterAssumption`; for the oracle `AttemptsAssumption`, `RetriesAssumption`, `TimesAssumption`,
`FeedsAssumption` and the three on the values that stand for nothing; for the
indexer `TransactionsAssumption` and `LimitsAssumption`; for the commands `ClientAssumption`;
for the metrics `MetricsAssumption`). Every invariant and every action property that a
passing run checks is a theorem.

* **SharedLemmas.** Quotients and products; sums over finite sets (`SumFunction` of the
  community modules picks the elements in an order of its own, `SumRemove` takes out any
  element, so the order does not matter); a finite set can be sorted (`SortingExists`)
  and counted in parts (`SumOfParts`). These are inductions over naturals and finite
  sets, done by a least counterexample: a nonempty set of naturals has a least element
  and a nonempty collection of finite sets a minimal one (`LeastNatural`, `MinimalSet`,
  from the well-founded orders of the library).

* **FillsRegistry_proofs.** `RegistryTypeOK` is inductive. The queue property is
  not: a step from a state with wrong totals, or with 2Z on a stretch without
  SOL, would break it. `RegistryInv` adds that the trades lie on a line
  (`LedgerOrdered`), that the totals are sold minus paid (`TotalsMatchLedger`),
  that the loop stays within its limit (`LoopWithinLimit`) and that the head keeps
  its price (`NeverOverCredited`). Each action has a lemma; the queue's elements
  are followed through the ring without the modulus (`NextIndexWraps`,
  `SlotArithmetic`). `NoArithmeticError`, `DrainedPaysAll` and
  `DequeueTakesExactly` follow from `RegistryInv`. `PendingTotalsAreSums`: each live
  fill is the rest of its trade (`LiveFillsAreTrades`), a difference of two points of
  the line, so the sum telescopes to sold minus paid, which the invariant says the
  totals are. `RegistryImplementsLedger` maps
  `DequeueCommit` to `Pay`: the loop ends with the limit reached or the queue
  empty (`CommitTakesExactly`), at a settled position (`PositionIsSettled`).
* **Pricing_proofs.** The price: bounds and monotonicity of the truncated quotient give
  `AskWithinRates`, `AskNeverRises`, `DiscountIsAsCommented` and `TokensWithinBid`, and
  with them `AuctionAskOnlyFalls` and `AuctionDiscountAsCommented`. The configuration:
  `ConfigurationIsAlwaysValid`, where the type of the configuration makes the
  comparisons meaningful and is needed in the invariant; the update is split on which of
  the two rates are given. The deny list: `DenyListIsItsEvents` is not inductive, as a
  removal takes out one occurrence; `DenyListInv` adds that no address occurs twice, and
  `AppendAdds` and `RemoveFirstRemoves` say what push and remove do to such a list.
  `SystemTypeCorrect` has the authorities and the limit of the list.
* **ConverterProgram_proofs.** In layers: seen alone the administration behaves as
  SystemManagement, hence the configuration is valid and the deny list exact; with the
  order of the slots the ask price is a natural number, so a trade is one that
  FillsRegistry expects and `ConverterImplementsRegistry` holds. That carries the
  theorems about the registry over to the program, and its types serve `MoneyMatches`
  (inductive with its types), `OneTradePerSlot` (needs that nothing is sold before
  initialization) and `QuotesStayGood` (from `AskNeverRises`). `ConverterTypeCorrect`
  adds the wallets and the journal (`WalletInv`): no balance becomes negative.
  `SolLeavesOnlyForAllowedTrades` rests on the exact deny list and on the only action
  that takes lamports from the journal (`JournalFallsByTrades`);
  `TradesArePricedWithinBidAndRates` on the band of the discount carried through both
  truncations (`TokensWithinRates`).
* **SwapOracle_proofs.** `AttestedRateWasFresh` is not inductive: a rate reaches a
  request from the cache, where another request put it. `OracleInv` says of every
  rate, wherever it is, that it is sound: its prices were fresh at its calculation
  and its publish time is no later than any of theirs. It is proved in layers
  (breaker, world, requests, rates), one step per action. `ClosedWhenRecovered`
  needs that the counter equals the history while the breaker is open;
  `OnlyOutagesOpen` follows from the actions with the types. The number of
  requests, checks and feeds, the limits and the threshold are arbitrary.
  `LegacyRatesExpire` needs that an entry of the earlier release keeps the expiry it
  had at the start (`LegacyEntryExpires`), and that no rate of a calculation is one.
* **Indexer_proofs.** None of the properties is inductive alone. `IndexerInv` ties
  them together: `CallInv` says that a call has written the rows before its place
  in the transaction, and that while a call of recovery runs the flag is set and
  the transaction ahead of the cursor; `StageInv` says that everything from the
  page's place to the end of the first page is handled; `SavedInv` says that neither
  the cursor nor a callback about to save it names a transaction that is not settled.
  The lemmas follow one transaction through a step: rows are replaced but never removed
  (`PutKeepsKeys`), so an indexed transaction stays indexed (`IndexedStays`);
  whatever one call does keeps it handled unless the process restarts or recovery
  fails on it (`HandledStays`), and in these two cases it is lost for a known
  cause or ahead of the cursor. `CallInStep` reduces each step to its effect on
  one call (`CallGoesOn` follows a call until its transaction is indexed or lost).
  `IndexerImplementsTables` maps each step to one of EventTables or to none: a write is
  a `Store` because `CallInv` says that the events before it are there, a save is a
  `Save` by `SavedInv`, and a restart is a `Crash` by `NothingElseIsLost`, as what is
  owed and not lost by it must be ahead of the cursor. `CursorIsSettled` is the
  counterpart of the finding `CursorIsProcessed`: the cursor may name a transaction the
  node did not know, but never one that is neither stored nor given up.
  `IndexedForGood` says that replacing rows takes no transaction out of the tables. The
  length of the chain, the page size, the limit of the pool and the events of a
  transaction are arbitrary.
* **TransactionClient_proofs.** None of the properties is inductive. `ClientInv` follows
  a transaction from its submission to its receipt: a submitted transaction that has not
  failed has a command that accounts for it (`SubmittedInv`), a confirmed one has a
  receipt and each transaction at most one (`CallInv`, `ReceiptsInv`), a command that
  followed another one has another transaction (`AfterInv`), and a switch that is not
  where a successful command has put it was moved by one that still answers for it
  (`SwitchInv`). Each of the stages of a command writes into its own record only, so the
  steps are summed up once, in `CommandMoves`, from which the parts of the invariant
  follow; the execution of a transaction by the cluster is the other case. The number of
  commands, switches, attempts and block hashes is arbitrary.
* **MetricsApi_proofs.** `MetricsInv` follows a request from page to page: what has
  stood since the first page is counted or ahead of the last key, everything counted is
  at most that key in the order of the table (`ReadingInv`), hence a new page repeats
  nothing (`PageIsNew`). That gives `StandingCounted` and `CountedOnce`. `RangeIsDays`
  says that the range of the query and the days of the buckets agree, for any length of a
  day; with it each counted row is on one day, and `BucketsAddUp` adds up the parts.
  `PercentileIndexIsNearestRank` bounds the rank from both sides, and
  `PercentilesAreRanks` counts the amounts below and up to it in the sorted order.

Only model-checked: `DequeueReturns`, `RequestsAnswered`, `BreakerRecovers`,
`RecoveryReturns` and `CommandsEnd`, which are liveness properties: they need fairness
and ENABLED, which the prover does not reason about.

## 5. Not modelled, and the plan

Not modelled:

* The commands of the admin CLI that overwrite a setting (`update-config`,
  `set-fills-consumer`, `set-admin`, `set-deny-authority`) or create accounts. Each builds
  one transaction from its arguments and sends it through the executor that
  TransactionClient models; what the instructions do is SystemManagement. One thing is
  worth knowing: `update_config` sends every field of the configuration file, so a stale
  file overwrites what another admin has changed.
* `get_quantity` and `view_fills`, which read an account and print it (the ring
  indexing of `view_fills` is `LiveFills` in FillsRegistry), and the parsing of amounts.
* `queryDenyListActions`, which no handler calls, and the formatting of the metrics.
* Floating point: the confidence ratio at prices of zero (NaN passes the comparison at
  `PythSwapRateService.ts:91`), and `swapRate * TWOZ_PRECISION` at
  `swapRateController.ts:54`, which need not be an integer. To a client an answer it
  cannot parse is a failed request, which TransactionClient has.
* The command queue inside the Redis client while it reconnects.
* Terraform and provisioning, the e2e tests, logging, account derivation (PDAs, bumps),
  account formats, compute units, the cryptography of attestations, and the set-up of the
  mock program.

Every module of section 2 is done. Left:

* **ConversionSystem**: SwapOracle composed with ConverterProgram, for how old the price
  of a trade can be from end to end. The two modules measure time by clocks of their own,
  so the composition must first say how far the two may differ.
