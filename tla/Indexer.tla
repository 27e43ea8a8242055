------------------------------ MODULE Indexer ------------------------------
(***************************************************************************)
(* The indexer service (off-chain/indexer-service): it stores the events   *)
(* of the program's transactions in DynamoDB and keeps the signature of    *)
(* the last processed transaction, its cursor, to resume from.             *)
(*                                                                         *)
(* Two sources feed processTx at the same time: the callbacks of the log   *)
(* subscription, one per transaction and all concurrent, and the recovery  *)
(* of what happened since the cursor, which pages backwards.  Every await  *)
(* is a step boundary.  The signature of a transaction is its position in  *)
(* the chain, and position 0 is no signature.                              *)
(***************************************************************************)
EXTENDS Integers, Sequences, FiniteSets

CONSTANTS
  Transactions,  \* what a transaction may have done: its error flag and its events
  PageLimit,     \* signatures per page: 1000
  concurrency,   \* transactions that recovery processes at a time: 8
  MaxTx          \* bound on the length of the chain

Tx == 1..MaxTx
EventTypes == {"TradeEvent", "FillsDequeued", "DenyListAddressAdded", "DenyListAddressRemoved"}

Event == [name : EventTypes, data : Nat]

ASSUME TransactionsAssumption ==
  \A tx \in Transactions : tx.failed \in BOOLEAN /\ tx.events \in Seq(Event)
ASSUME LimitsAssumption ==
  PageLimit \in Nat \ {0} /\ concurrency \in Nat \ {0} /\ MaxTx \in Nat

VARIABLES
  chain,          \* the confirmed transactions of the program
  rows,           \* the rows of the three event tables
  cursor,         \* lastProcessedSignature
  subscribed,     \* the log subscription has reached the RPC node
  notifications,  \* transactions the subscription has yet to report
  work,           \* the calls of processTx, by caller and transaction
  recovering,     \* the flag of state.ts
  stage,          \* where recoverHistory is
  until,          \* the cursor it read
  before,         \* the last signature of its latest page
  next,           \* the signature of the page to be processed next
  upTo,           \* history: the newest signature its first page could hold
  seen,           \* history: transactions whose processing was ever started
  lost            \* history: transactions given up where nothing retries them

processVars == <<subscribed, notifications, work>>
recoveryVars == <<recovering, stage, until, before, next, upTo>>
tableVars == <<rows, cursor>>
historyVars == <<seen, lost>>
indexerVars == <<chain, tableVars, processVars, recoveryVars, historyVars>>

\* The key of the row that an event is written under.  A timestamp is the block
\* time, or zero when the node does not know it.
Table(name) ==
  CASE name = "FillsDequeued" -> "fill-dequeue"
    [] name \in {"DenyListAddressAdded", "DenyListAddressRemoved"} -> "deny-list-action"
    [] OTHER -> "solana-event"

Timestamps == {"blockTime", "zero"}
Key(t, event, timestamp) ==
  [table |-> Table(event.name), tx |-> t,
   sort |-> IF Table(event.name) = "solana-event" THEN event.name ELSE timestamp]

\* PutCommand replaces the row with the same key.
Put(key, event) == {row \in rows : row.key # key} \cup {[key |-> key, event |-> event]}

Callers == {"live", "history"}
Idle == [step |-> "idle", next |-> 0, timestamp |-> "zero"]
Busy(caller, t) == work[caller][t].step \in {"fetch", "write"}
InFlight(t) == \E caller \in Callers : Busy(caller, t)
Pool == {t \in Tx : Busy("history", t)}
-----------------------------------------------------------------------------
\* A new process has called nothing yet.
NoCalls == [caller \in Callers |-> [t \in Tx |-> Idle]]

IndexerInit ==
  /\ chain = <<>>
  /\ rows = {}
  /\ cursor = 0
  /\ subscribed = FALSE
  /\ notifications = {}
  /\ work = NoCalls
  /\ recovering = TRUE
  /\ stage = "starting"
  /\ until = 0 /\ before = 0 /\ next = 0 /\ upTo = 0
  /\ seen = {}
  /\ lost = {}

\* A transaction is confirmed, and reported if the subscription is there.
Confirm(tx) ==
  /\ Len(chain) < MaxTx
  /\ chain' = Append(chain, tx)
  /\ notifications' = IF subscribed THEN notifications \cup {Len(chain) + 1} ELSE notifications
  /\ UNCHANGED <<tableVars, subscribed, work, recoveryVars, historyVars>>

\* onLogs opens its connection in the background.
Subscribe ==
  /\ ~subscribed
  /\ subscribed' = TRUE
  /\ UNCHANGED <<chain, tableVars, notifications, work, recoveryVars, historyVars>>

StartProcessing(caller, t) ==
  /\ work' = [work EXCEPT ![caller][t] = [step |-> "fetch", next |-> 0, timestamp |-> "zero"]]
  /\ seen' = seen \cup {t}

\* A report that is never taken is lost; the reports come in any order.
OnLogs(t) ==
  /\ t \in notifications
  /\ notifications' = notifications \ {t}
  /\ StartProcessing("live", t)
  /\ UNCHANGED <<chain, tableVars, subscribed, recoveryVars, lost>>

\* processTx returns.  A callback then asks whether recovery is over.
AfterProcessing(caller) ==
  IF caller = "live" /\ ~recovering THEN [Idle EXCEPT !.step = "save"] ELSE Idle

\* What a call of processTx has to write.
Due(t) == IF chain[t].failed THEN <<>> ELSE chain[t].events

\* The node does not have the transaction: processTx returns as if it were done.
TransactionUnknown(caller, t) ==
  /\ work[caller][t].step = "fetch"
  /\ work' = [work EXCEPT ![caller][t] = AfterProcessing(caller)]
  /\ lost' = lost \cup {t}
  /\ UNCHANGED <<chain, tableVars, subscribed, notifications, recoveryVars, seen>>

NothingToWrite(caller, t) ==
  /\ work[caller][t].step = "fetch" /\ Due(t) = <<>>
  /\ work' = [work EXCEPT ![caller][t] = AfterProcessing(caller)]
  /\ UNCHANGED <<chain, tableVars, subscribed, notifications, recoveryVars, historyVars>>

ParseEvents(caller, t) ==
  /\ work[caller][t].step = "fetch" /\ Due(t) # <<>>
  /\ \E timestamp \in Timestamps :
       work' = [work EXCEPT ![caller][t] =
                  [step |-> "write", next |-> 1, timestamp |-> timestamp]]
  /\ UNCHANGED <<chain, tableVars, subscribed, notifications, recoveryVars, historyVars>>

Written(caller, t) ==
  LET call == work[caller][t]
      event == Due(t)[call.next]
  IN  Put(Key(t, event, call.timestamp), event)

\* Mutant of AfterWrite: processTx returns after its first event.
AfterFirstWrite(caller, t) == AfterProcessing(caller)

AfterWrite(caller, t) ==
  LET call == work[caller][t]
  IN  IF call.next = Len(Due(t)) THEN AfterProcessing(caller) ELSE [call EXCEPT !.next = @ + 1]

WriteEvent(caller, t) ==
  /\ work[caller][t].step = "write"
  /\ rows' = Written(caller, t)
  /\ work' = [work EXCEPT ![caller][t] = AfterWrite(caller, t)]
  /\ UNCHANGED <<chain, cursor, subscribed, notifications, recoveryVars, historyVars>>

SaveLastSignature(t) ==
  /\ work["live"][t].step = "save"
  /\ cursor' = t
  /\ work' = [work EXCEPT !["live"][t] = Idle]
  /\ UNCHANGED <<chain, rows, subscribed, notifications, recoveryVars, historyVars>>
-----------------------------------------------------------------------------
\* recoverHistory reads the cursor.
SkipRecovery ==
  /\ stage = "starting" /\ cursor = 0
  /\ stage' = "done"
  /\ recovering' = FALSE
  /\ UNCHANGED <<chain, tableVars, processVars, until, before, next, upTo, historyVars>>

StartRecovery ==
  /\ stage = "starting" /\ cursor # 0
  /\ stage' = "listing"
  /\ until' = cursor
  /\ UNCHANGED <<chain, tableVars, processVars, recovering, before, next, upTo, historyVars>>

\* Mutant of Newest: the signature before the last one of the page is left out.
NewestAfterNext == IF before = 0 THEN Len(chain) ELSE before - 2

\* Mutant of Newest: every page is asked for from the newest signature.
NewestAgain == Len(chain)

\* getSignaturesForAddress: the signatures between until and before, newest first.
Newest == IF before = 0 THEN Len(chain) ELSE before - 1
OldestOfPage == IF Newest - PageLimit > until THEN Newest - PageLimit + 1 ELSE until + 1
FirstPage == IF before = 0 THEN Len(chain) ELSE upTo

ListPage ==
  /\ stage = "listing" /\ Newest > until
  /\ stage' = "pool"
  /\ next' = Newest
  /\ before' = OldestOfPage
  /\ upTo' = FirstPage
  /\ UNCHANGED <<chain, tableVars, processVars, recovering, until, historyVars>>

EndRecovery ==
  /\ stage = "listing" /\ Newest <= until
  /\ stage' = "done"
  /\ recovering' = FALSE
  /\ upTo' = FirstPage
  /\ UNCHANGED <<chain, tableVars, processVars, until, before, next, historyVars>>

PoolHasRoom == Cardinality(Pool) < concurrency

\* promisePool starts the page's transactions in order, at most concurrency at a time.
TakeFromPage ==
  /\ stage = "pool" /\ next >= before /\ PoolHasRoom
  /\ StartProcessing("history", next)
  /\ next' = next - 1
  /\ UNCHANGED <<chain, tableVars, subscribed, notifications,
                 recovering, stage, until, before, upTo, lost>>

PageDone ==
  /\ stage = "pool" /\ next < before /\ Pool = {}
  /\ stage' = "listing"
  /\ UNCHANGED <<chain, tableVars, processVars,
                 recovering, until, before, next, upTo, historyVars>>

\* A call to DynamoDB or the node fails: recoverHistory ends, and the flag stays set.
RecoveryCallFails ==
  /\ stage \in {"starting", "listing"}
  /\ stage' = "failed"
  /\ UNCHANGED <<chain, tableVars, processVars,
                 recovering, until, before, next, upTo, historyVars>>

\* Mutant of HistoryTxFails: recovery ends in any case, as in a finally clause.
HistoryTxFailsEnding(t) ==
  /\ Busy("history", t)
  /\ work' = [work EXCEPT !["history"][t] = Idle]
  /\ stage' = "failed"
  /\ recovering' = FALSE
  /\ UNCHANGED <<chain, tableVars, subscribed, notifications, until, before, next, upTo, historyVars>>

\* One processTx of the pool throws: the pool is given up, but what is in flight goes
\* on.  A failed write may have been done.
HistoryTxFails(t) ==
  /\ Busy("history", t)
  /\ \/ UNCHANGED rows
     \/ work["history"][t].step = "write" /\ rows' = Written("history", t)
  /\ work' = [work EXCEPT !["history"][t] = Idle]
  /\ stage' = "failed"
  /\ UNCHANGED <<chain, cursor, subscribed, notifications,
                 recovering, until, before, next, upTo, historyVars>>

\* What is in flight when the process ends is lost if the next recovery does not
\* reach back to it.
NotRecovered(t) == cursor = 0 \/ t <= cursor

\* The process ends, also because a callback threw (a rejection that nobody handles
\* ends it), and is started again.
Restart ==
  /\ subscribed' = FALSE
  /\ notifications' = {}
  /\ work' = NoCalls
  /\ recovering' = TRUE
  /\ stage' = "starting"
  /\ until' = 0 /\ before' = 0 /\ next' = 0 /\ upTo' = 0
  /\ lost' = lost \cup {t \in Tx : InFlight(t) /\ NotRecovered(t)}
  /\ UNCHANGED <<chain, tableVars, seen>>

ProcessTx(caller, t) ==
  \/ TransactionUnknown(caller, t) \/ NothingToWrite(caller, t)
  \/ ParseEvents(caller, t) \/ WriteEvent(caller, t)

RecoverHistory ==
  \/ SkipRecovery \/ StartRecovery \/ ListPage \/ EndRecovery
  \/ TakeFromPage \/ PageDone \/ RecoveryCallFails
  \/ \E t \in Tx : ProcessTx("history", t) \/ HistoryTxFails(t)

TailRealTime == Subscribe \/ \E t \in Tx : OnLogs(t) \/ ProcessTx("live", t) \/ SaveLastSignature(t)

IndexerNext ==
  \/ \E tx \in Transactions : Confirm(tx)
  \/ TailRealTime
  \/ RecoverHistory
  \/ Restart

IndexerSpec == IndexerInit /\ [][IndexerNext]_indexerVars

\* Every call that recovery awaits returns or fails in the end.
IndexerFairSpec == IndexerSpec /\ WF_indexerVars(RecoverHistory)
-----------------------------------------------------------------------------
Row == [key : [table : {"solana-event", "fill-dequeue", "deny-list-action"}, tx : Tx,
               sort : EventTypes \cup Timestamps],
        event : Event]
Call == [step : {"idle", "fetch", "write", "save"}, next : Nat, timestamp : Timestamps]
Stages == {"starting", "listing", "pool", "done", "failed"}

IndexerTypeOK ==
  /\ chain \in Seq(Transactions) /\ Len(chain) <= MaxTx
  /\ rows \subseteq Row
  /\ cursor \in 0..Len(chain)
  /\ subscribed \in BOOLEAN
  /\ notifications \subseteq 1..Len(chain)
  /\ work \in [Callers -> [Tx -> Call]]
  /\ recovering \in BOOLEAN
  /\ stage \in Stages
  /\ until \in 0..Len(chain) /\ before \in 0..Len(chain)
  /\ next \in 0..Len(chain) /\ upTo \in 0..Len(chain)
  /\ seen \subseteq 1..Len(chain)
  /\ lost \subseteq 1..Len(chain)
  /\ Cardinality(Pool) <= concurrency   \* promisePool's limit

(***************************************************************************)
(* The tables hold nothing but events of transactions that succeeded, each *)
(* under a key of its own transaction and kind, and one row for each key   *)
(* (processTx, writeSolanaEvent and the others).                           *)
(***************************************************************************)
RowsAreEvents ==
  /\ \A row \in rows :
       LET t == row.key.tx IN
       /\ t \in 1..Len(chain) /\ ~chain[t].failed
       /\ \E i \in 1..Len(chain[t].events) : row.event = chain[t].events[i]
       /\ \E timestamp \in Timestamps : row.key = Key(t, row.event, timestamp)
  /\ \A row, other \in rows : row.key = other.key => row = other

\* There is a row for each event of the transaction, though events of one
\* transaction and table may share it.
HasRows(t, n, timestamp) ==
  \A i \in 1..n : \E row \in rows : row.key = Key(t, Due(t)[i], timestamp)
Indexed(t) == \E timestamp \in Timestamps : HasRows(t, Len(Due(t)), timestamp)

Handled(t) == Indexed(t) \/ InFlight(t) \/ t \in lost

\* The cursor is behind, and recovery not over: this or the next one will redo it.
ToBeRecovered(t) == recovering /\ 0 < cursor /\ cursor < t

(***************************************************************************)
(* A transaction that was ever taken up is indexed, or still being         *)
(* processed, or will be recovered, or lost for one of two causes: the     *)
(* node did not know it, or the process ended while it was in flight with  *)
(* the cursor already past it or not yet set.  Errors of recovery          *)
(* (promisePool, recoverHistory) lose nothing, because the cursor then     *)
(* stays where it is (realtime.ts).                                        *)
(***************************************************************************)
NothingElseIsLost ==
  \A t \in seen : Handled(t) \/ ToBeRecovered(t)

(***************************************************************************)
(* When recovery ends it has taken up every transaction from the cursor to *)
(* the newest one of its first page, whatever the pages, the pool and the  *)
(* callbacks did meanwhile (recoverHistory, promisePool).                  *)
(***************************************************************************)
RecoveryComplete ==
  stage = "done" /\ until # 0 =>
    \A t \in until + 1..upTo : Handled(t)

(***************************************************************************)
(* The inductive invariant: what a call of processTx has written so far,   *)
(* what recovery has taken up so far, that the cursor stands still and     *)
(* callbacks leave it alone until recovery is done, and that it is saved   *)
(* only for what is in the tables or lost.                                 *)
(***************************************************************************)
CallInv(caller, t) ==
  LET call == work[caller][t] IN
  /\ call.step # "idle" => t \in seen
  /\ call.step = "write" => /\ call.next \in 1..Len(Due(t))
                            /\ HasRows(t, call.next - 1, call.timestamp)
  /\ call.step = "save" => caller = "live" /\ ~recovering
  /\ Busy("history", t) => ToBeRecovered(t) /\ stage \in {"pool", "failed"}

\* The transactions from this one to upTo have been taken up by recovery.
TakenFrom == IF stage = "pool" THEN next + 1 ELSE before

StageInv ==
  /\ recovering <=> stage # "done"
  /\ stage \in {"listing", "pool"} => 0 < cursor /\ until = cursor
  /\ stage = "starting" => before = 0 /\ until = 0
  /\ stage = "pool" => before # 0 /\ before <= next + 1 /\ next <= upTo
  /\ stage \in {"listing", "pool"} /\ before # 0 =>
       /\ until < before /\ before <= upTo + 1
       /\ \A t \in TakenFrom..upTo : Handled(t)
       /\ \A t \in seen : t > upTo => Handled(t)

\* Neither the cursor nor a callback about to save it names a transaction that is not settled.
SavedInv ==
  /\ cursor # 0 => Indexed(cursor) \/ cursor \in lost
  /\ \A t \in Tx : work["live"][t].step = "save" => Indexed(t) \/ t \in lost

IndexerInv ==
  /\ IndexerTypeOK
  /\ RowsAreEvents
  /\ \A caller \in Callers, t \in Tx : CallInv(caller, t)
  /\ StageInv
  /\ SavedInv
  /\ NothingElseIsLost
  /\ RecoveryComplete

(***************************************************************************)
(* The indexer implements EventTables: no row is ever taken away, a        *)
(* transaction's events are stored in their order, what was taken up stays *)
(* owed until it is stored or lost for one of two causes, and the cursor   *)
(* is saved only for settled transactions (writeEvent, processTx,          *)
(* tailRealTime, recoverHistory).                                          *)
(***************************************************************************)
Tables == INSTANCE EventTables WITH Times <- Timestamps, taken <- seen
ImplementsTables == Tables!Spec

(***************************************************************************)
(* recoverHistory comes to an end, by itself or by an error, unless the    *)
(* process ends first: its pages only move backwards.                      *)
(***************************************************************************)
RecoveryReturns == stage \in {"listing", "pool"} ~> stage \in {"starting", "done", "failed"}

(***************************************************************************)
(* The comment of tailRealTime says that it "processes the transaction,    *)
(* and updates last Processed signature": the transaction that the cursor  *)
(* names has been processed.                                               *)
(***************************************************************************)
CursorIsProcessed == cursor # 0 => Indexed(cursor)
=============================================================================
