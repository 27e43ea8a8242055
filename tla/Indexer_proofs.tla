--------------------------- MODULE Indexer_proofs ---------------------------
(***************************************************************************)
(* Proofs about the indexer: what its tables hold, what a finished         *)
(* recovery has taken up, and what can be lost, for every chain, page      *)
(* size and concurrency.                                                   *)
(***************************************************************************)
EXTENDS Indexer, FiniteSetTheorems, TLAPS

LEMMA DueIsSequence ==
  ASSUME chain \in Seq(Transactions), NEW t \in 1..Len(chain)
  PROVE  Due(t) \in Seq(Event) /\ (Due(t) # <<>> => Len(Due(t)) >= 1)
<1>1. chain[t] \in Transactions
  OBVIOUS
<1>2. chain[t].failed \in BOOLEAN /\ chain[t].events \in Seq(Event)
  BY <1>1, TransactionsAssumption
<1>3. <<>> \in Seq(Event) /\ Len(<<>>) = 0
  OBVIOUS
<1>4. Due(t) \in Seq(Event)
  BY <1>2, <1>3 DEF Due
<1>5. Due(t) # <<>> => Len(Due(t)) >= 1
  BY <1>4
<1> QED BY <1>4, <1>5

\* What a step does to the chain: it may only grow at its end.
LEMMA ChainGrows ==
  ASSUME chain \in Seq(Transactions), IndexerNext \/ UNCHANGED indexerVars
  PROVE  /\ chain' \in Seq(Transactions)
         /\ Len(chain) <= Len(chain')
         /\ \A t \in 1..Len(chain) : chain'[t] = chain[t]
<1>1. CASE \E tx \in Transactions : Confirm(tx)
  BY <1>1 DEF Confirm
<1>2. CASE UNCHANGED chain
  BY <1>2
<1>3. TailRealTime \/ RecoverHistory \/ Restart \/ UNCHANGED indexerVars => UNCHANGED chain
  BY DEF TailRealTime, RecoverHistory, Restart, indexerVars, Subscribe, OnLogs, ProcessTx,
         TransactionUnknown, NothingToWrite, ParseEvents, WriteEvent, SaveLastSignature,
         SkipRecovery, StartRecovery, ListPage, EndRecovery, TakeFromPage, PageDone,
         RecoveryCallFails, HistoryTxFails
<1> QED BY <1>1, <1>2, <1>3 DEF IndexerNext

LEMMA DueStays ==
  ASSUME chain \in Seq(Transactions), IndexerNext \/ UNCHANGED indexerVars, NEW t \in 1..Len(chain)
  PROVE  Due(t)' = Due(t)
BY ChainGrows DEF Due

\* What a step does to the rows: nothing, or it writes the event a call has come to.
LEMMA RowsInStep ==
  ASSUME IndexerNext \/ UNCHANGED indexerVars
  PROVE  \/ rows' = rows
         \/ \E caller \in Callers, t \in Tx :
              work[caller][t].step = "write" /\ rows' = Written(caller, t)
<1>1. CASE RecoverHistory
  <2>1. CASE \E t \in Tx : ProcessTx("history", t)
    BY <2>1 DEF ProcessTx, TransactionUnknown, NothingToWrite, ParseEvents, WriteEvent, tableVars,
                Callers
  <2>2. CASE \E t \in Tx : HistoryTxFails(t)
    BY <2>2 DEF HistoryTxFails, Callers
  <2>3. SkipRecovery \/ StartRecovery \/ ListPage \/ EndRecovery \/ TakeFromPage \/ PageDone
          \/ RecoveryCallFails => rows' = rows
    BY DEF SkipRecovery, StartRecovery, ListPage, EndRecovery, TakeFromPage, PageDone,
           RecoveryCallFails, tableVars
  <2> QED BY <1>1, <2>1, <2>2, <2>3 DEF RecoverHistory
<1>2. CASE TailRealTime
  BY <1>2 DEF TailRealTime, Subscribe, OnLogs, ProcessTx, TransactionUnknown, NothingToWrite,
              ParseEvents, WriteEvent, SaveLastSignature, tableVars, Callers
<1>3. CASE (\E tx \in Transactions : Confirm(tx)) \/ Restart \/ UNCHANGED indexerVars
  BY <1>3 DEF Confirm, Restart, indexerVars, tableVars
<1> QED BY <1>1, <1>2, <1>3 DEF IndexerNext

\* PutCommand replaces rows, and removes no key.
LEMMA PutKeepsKeys ==
  ASSUME NEW key, NEW event, rows' = Put(key, event)
  PROVE  /\ \E row \in rows' : row.key = key
         /\ \A other : (\E row \in rows : row.key = other) => \E row \in rows' : row.key = other
<1>1. [key |-> key, event |-> event] \in rows' /\ [key |-> key, event |-> event].key = key
  BY DEF Put
<1>2. ASSUME NEW other, NEW row \in rows, row.key = other
      PROVE  \E kept \in rows' : kept.key = other
  <2>1. CASE other = key
    BY <1>1, <2>1
  <2>2. CASE other # key
    BY <1>2, <2>2 DEF Put
  <2> QED BY <2>1, <2>2
<1> QED BY <1>1, <1>2

\* A transaction keeps the rows it has.
LEMMA HasRowsStays ==
  ASSUME chain \in Seq(Transactions), IndexerNext \/ UNCHANGED indexerVars,
         NEW t \in 1..Len(chain), NEW n, NEW timestamp, HasRows(t, n, timestamp)
  PROVE  HasRows(t, n, timestamp)'
<1>1. \A key : (\E row \in rows : row.key = key) => \E row \in rows' : row.key = key
  BY RowsInStep, PutKeepsKeys DEF Written
<1>2. Due(t)' = Due(t)
  BY DueStays
<1>3. \A i : Key(t, Due(t)[i], timestamp)' = Key(t, Due(t)[i], timestamp)
  BY <1>2 DEF Key, Table
<1> QED BY <1>1, <1>2, <1>3 DEF HasRows, Key, Table

LEMMA IndexedStays ==
  ASSUME chain \in Seq(Transactions), IndexerNext \/ UNCHANGED indexerVars,
         NEW t \in 1..Len(chain), Indexed(t)
  PROVE  Indexed(t)'
<1>1. PICK timestamp \in Timestamps : HasRows(t, Len(Due(t)), timestamp)
  BY DEF Indexed
<1>2. PICK n : n = Len(Due(t))
  OBVIOUS
<1>3. HasRows(t, n, timestamp)'
  BY <1>1, <1>2, HasRowsStays
<1>4. Due(t)' = Due(t)
  BY DueStays
<1> QED BY <1>2, <1>3, <1>4 DEF Indexed
-----------------------------------------------------------------------------
\* Types, without the limit of the pool.
IndexerTypes ==
  /\ chain \in Seq(Transactions) /\ Len(chain) <= MaxTx
  /\ rows \subseteq Row
  /\ cursor \in 0..Len(chain)
  /\ subscribed \in BOOLEAN
  /\ notifications \subseteq 1..Len(chain)
  /\ work \in [Callers -> [Tx -> Call]]
  /\ recovering \in BOOLEAN
  /\ stage \in Stages
  /\ until \in 0..Len(chain) /\ before \in 0..Len(chain)
  /\ next \in 0..Len(chain) /\ upTo \in 0..Len(chain)
  /\ seen \subseteq 1..Len(chain)
  /\ lost \subseteq 1..Len(chain)

CallsRight == \A caller \in Callers, t \in Tx : CallInv(caller, t)

LEMMA CallsTyped ==
  /\ Idle \in Call
  /\ \A caller \in Callers : AfterProcessing(caller) \in Call
  /\ NoCalls \in [Callers -> [Tx -> Call]]
BY DEF Idle, Call, AfterProcessing, NoCalls, Timestamps

LEMMA CallUpdated ==
  ASSUME NEW calls \in [Callers -> [Tx -> Call]], NEW caller \in Callers, NEW t \in Tx,
         NEW call \in Call
  PROVE  [calls EXCEPT ![caller][t] = call] \in [Callers -> [Tx -> Call]]
OBVIOUS

LEMMA NextWrite == \A call \in Call : [call EXCEPT !.next = @ + 1] \in Call
BY DEF Call

LEMMA WrittenTyped ==
  ASSUME IndexerTypes, CallsRight, NEW caller \in Callers, NEW t \in Tx,
         work[caller][t].step = "write"
  PROVE  Written(caller, t) \subseteq Row /\ t \in 1..Len(chain)
<1>1. t \in 1..Len(chain) /\ work[caller][t].next \in 1..Len(Due(t))
  BY DEF CallsRight, CallInv, IndexerTypes
<1>2. Due(t)[work[caller][t].next] \in Event
  BY <1>1, DueIsSequence DEF IndexerTypes
<1>3. work[caller][t].timestamp \in Timestamps
  BY DEF IndexerTypes, Call
<1>4. ASSUME NEW event \in Event, NEW timestamp \in Timestamps
      PROVE  Key(t, event, timestamp) \in
               [table : {"solana-event", "fill-dequeue", "deny-list-action"}, tx : Tx,
                sort : EventTypes \cup Timestamps]
  BY <1>4 DEF Key, Table, Event, EventTypes
<1>5. \A event \in Event, timestamp \in Timestamps : Put(Key(t, event, timestamp), event) \subseteq Row
  BY <1>4 DEF Put, Row, IndexerTypes
<1> QED BY <1>1, <1>2, <1>3, <1>5 DEF Written

LEMMA TypesStay ==
  ASSUME IndexerTypes, CallsRight, StageInv, IndexerNext \/ UNCHANGED indexerVars,
         LimitsAssumption
  PROVE  IndexerTypes'
<1> USE DEF IndexerTypes
<1>1. ASSUME NEW tx \in Transactions, Confirm(tx)
      PROVE  IndexerTypes'
  <2>1. Len(chain') = Len(chain) + 1 /\ chain' \in Seq(Transactions)
    BY <1>1 DEF Confirm
  <2>2. 1..Len(chain) \subseteq 1..Len(chain') /\ Len(chain) + 1 \in 1..Len(chain')
    BY <2>1
  <2>3. notifications' \subseteq 1..Len(chain')
    BY <1>1, <2>2 DEF Confirm
  <2> QED BY <1>1, <2>1, <2>2, <2>3, LimitsAssumption DEF Confirm, tableVars, recoveryVars, historyVars
<1>2. CASE Subscribe
  BY <1>2 DEF Subscribe, tableVars, recoveryVars, historyVars
<1>3. ASSUME NEW t \in Tx, OnLogs(t)
      PROVE  IndexerTypes'
  BY <1>3 DEF OnLogs, StartProcessing, Call, Timestamps, tableVars, recoveryVars
<1>4. ASSUME NEW caller \in Callers, NEW t \in Tx, ProcessTx(caller, t)
      PROVE  IndexerTypes'
  <2>1. work[caller][t].step # "idle" => t \in 1..Len(chain)
    BY DEF CallsRight, CallInv
  <2>2. ASSUME NEW call \in Call, work' = [work EXCEPT ![caller][t] = call]
        PROVE  work' \in [Callers -> [Tx -> Call]]
    BY <2>2, CallUpdated
  <2>3. CASE TransactionUnknown(caller, t)
    BY <2>1, <2>2, <2>3, CallsTyped DEF TransactionUnknown, tableVars, recoveryVars
  <2>4. CASE NothingToWrite(caller, t)
    BY <2>2, <2>4, CallsTyped DEF NothingToWrite, tableVars, recoveryVars, historyVars
  <2>5. CASE ParseEvents(caller, t)
    <3>1. \A timestamp \in Timestamps :
            [step |-> "write", next |-> 1, timestamp |-> timestamp] \in Call
      BY DEF Call
    <3> QED BY <2>2, <2>5, <3>1 DEF ParseEvents, tableVars, recoveryVars, historyVars
  <2>6. CASE WriteEvent(caller, t)
    <3>1. work[caller][t] \in Call
      OBVIOUS
    <3>2. AfterWrite(caller, t) \in Call
      BY <3>1, NextWrite, CallsTyped DEF AfterWrite
    <3>5. work' \in [Callers -> [Tx -> Call]]
      BY <2>2, <2>6, <3>2 DEF WriteEvent
    <3>3. rows' \subseteq Row
      BY <2>6, WrittenTyped DEF WriteEvent
    <3> QED BY <2>6, <3>5, <3>3 DEF WriteEvent, recoveryVars, historyVars
  <2> QED BY <1>4, <2>3, <2>4, <2>5, <2>6 DEF ProcessTx
<1>5. ASSUME NEW t \in Tx, SaveLastSignature(t)
      PROVE  IndexerTypes'
  <2>1. t \in 1..Len(chain)
    BY <1>5 DEF SaveLastSignature, CallsRight, CallInv, Callers
  <2>2. work' \in [Callers -> [Tx -> Call]]
    BY <1>5, CallsTyped, CallUpdated DEF SaveLastSignature, Callers
  <2> QED BY <1>5, <2>1, <2>2 DEF SaveLastSignature, recoveryVars, historyVars
<1>6. CASE SkipRecovery \/ StartRecovery \/ PageDone \/ RecoveryCallFails
  BY <1>6 DEF SkipRecovery, StartRecovery, PageDone, RecoveryCallFails, tableVars, processVars,
              historyVars, Stages
<1>7. CASE ListPage \/ EndRecovery
  <2>1. Newest <= Len(chain) /\ Newest \in Int
    BY DEF Newest
  <2>2. ListPage => Newest \in 0..Len(chain) /\ OldestOfPage \in 0..Len(chain)
    BY <2>1, LimitsAssumption DEF ListPage, OldestOfPage
  <2>3. FirstPage \in 0..Len(chain)
    BY DEF FirstPage
  <2> QED BY <1>7, <2>2, <2>3 DEF ListPage, EndRecovery, tableVars, processVars, historyVars, Stages
<1>8. CASE TakeFromPage
  <2>1. next \in 1..Len(chain) /\ next - 1 \in 0..Len(chain)
    BY <1>8 DEF TakeFromPage, StageInv
  <2> QED BY <1>8, <2>1 DEF TakeFromPage, StartProcessing, Call, Timestamps, tableVars
<1>9. ASSUME NEW t \in Tx, HistoryTxFails(t)
      PROVE  IndexerTypes'
  <2>1. rows' \subseteq Row
    BY <1>9, WrittenTyped DEF HistoryTxFails, Callers
  <2>2. work' \in [Callers -> [Tx -> Call]]
    BY <1>9, CallsTyped, CallUpdated DEF HistoryTxFails, Callers
  <2> QED BY <1>9, <2>1, <2>2 DEF HistoryTxFails, historyVars, Stages
<1>10. CASE Restart
  <2>1. {t \in Tx : InFlight(t) /\ NotRecovered(t)} \subseteq 1..Len(chain)
    BY DEF InFlight, Busy, CallsRight, CallInv
  <2>2. lost' \subseteq 1..Len(chain')
    BY <1>10, <2>1 DEF Restart
  <2>3. work' \in [Callers -> [Tx -> Call]]
    BY <1>10, CallsTyped DEF Restart
  <2>4. recovering' \in BOOLEAN /\ subscribed' \in BOOLEAN /\ stage' \in Stages
    BY <1>10 DEF Restart, Stages
  <2>5. /\ notifications' = {}
        /\ until' = 0 /\ before' = 0 /\ next' = 0 /\ upTo' = 0
        /\ chain' = chain /\ rows' = rows /\ cursor' = cursor /\ seen' = seen
    BY <1>10 DEF Restart, tableVars
  <2> HIDE DEF IndexerTypes
  <2>6. 0 \in 0..Len(chain)
    BY DEF IndexerTypes
  <2> QED BY <2>2, <2>3, <2>4, <2>5, <2>6 DEF IndexerTypes
<1>11. CASE UNCHANGED indexerVars
  BY <1>11 DEF indexerVars, tableVars, processVars, recoveryVars, historyVars
<1> HIDE DEF IndexerTypes
<1> QED BY <1>1, <1>2, <1>3, <1>4, <1>5, <1>6, <1>7, <1>8, <1>9, <1>10, <1>11
        DEF IndexerNext, TailRealTime, RecoverHistory, Callers
-----------------------------------------------------------------------------
LEMMA CallAt ==
  ASSUME NEW calls \in [Callers -> [Tx -> Call]], NEW caller \in Callers, NEW t \in Tx, NEW call,
         NEW other \in Callers, NEW u \in Tx
  PROVE  [calls EXCEPT ![caller][t] = call][other][u]
           = IF other = caller /\ u = t THEN call ELSE calls[other][u]
OBVIOUS

\* What can happen in a step to the call of one caller for one transaction.
LEMMA CallInStep ==
  ASSUME work \in [Callers -> [Tx -> Call]], next \in Nat, IndexerNext \/ UNCHANGED indexerVars,
         TakeFromPage => next \in Tx, NEW caller \in Callers, NEW t \in Tx
  PROVE  \/ work'[caller][t] = work[caller][t]
         \/ caller = "live" /\ OnLogs(t)
         \/ caller = "history" /\ TakeFromPage /\ t = next
         \/ ProcessTx(caller, t)
         \/ caller = "live" /\ SaveLastSignature(t)
         \/ caller = "history" /\ HistoryTxFails(t)
         \/ Restart
<1>0. "live" \in Callers /\ "history" \in Callers
  BY DEF Callers
<1>1. ASSUME NEW other \in Callers, NEW u \in Tx, ProcessTx(other, u)
      PROVE  work'[caller][t] = work[caller][t] \/ (other = caller /\ u = t)
  <2>1. PICK call : work' = [work EXCEPT ![other][u] = call]
    BY <1>1 DEF ProcessTx, TransactionUnknown, NothingToWrite, ParseEvents, WriteEvent
  <2> QED BY <2>1, CallAt
<1>2. ASSUME NEW u \in Tx, OnLogs(u) \/ SaveLastSignature(u)
      PROVE  work'[caller][t] = work[caller][t] \/ (caller = "live" /\ u = t)
  <2>1. PICK call : work' = [work EXCEPT !["live"][u] = call]
    BY <1>2 DEF OnLogs, SaveLastSignature, StartProcessing
  <2> QED BY <1>0, <2>1, CallAt
<1>3. ASSUME NEW u \in Tx, HistoryTxFails(u) \/ (TakeFromPage /\ u = next)
      PROVE  work'[caller][t] = work[caller][t] \/ (caller = "history" /\ u = t)
  <2>1. PICK call : work' = [work EXCEPT !["history"][u] = call]
    BY <1>3 DEF HistoryTxFails, TakeFromPage, StartProcessing
  <2> QED BY <1>0, <2>1, CallAt
<1>4. CASE TailRealTime
  <2>1. CASE Subscribe
    BY <2>1 DEF Subscribe
  <2>2. ASSUME NEW u \in Tx, OnLogs(u) \/ ProcessTx("live", u) \/ SaveLastSignature(u)
        PROVE  \/ work'[caller][t] = work[caller][t]
               \/ caller = "live" /\ (OnLogs(t) \/ ProcessTx("live", t) \/ SaveLastSignature(t))
    BY <1>0, <1>1, <1>2, <2>2
  <2> QED BY <1>4, <2>1, <2>2 DEF TailRealTime
<1>5. CASE RecoverHistory
  <2>1. SkipRecovery \/ StartRecovery \/ ListPage \/ EndRecovery \/ PageDone \/ RecoveryCallFails
          => work' = work
    BY DEF SkipRecovery, StartRecovery, ListPage, EndRecovery, PageDone, RecoveryCallFails,
           processVars
  <2>2. ASSUME NEW u \in Tx, ProcessTx("history", u) \/ HistoryTxFails(u)
        PROVE  \/ work'[caller][t] = work[caller][t]
               \/ caller = "history" /\ (ProcessTx("history", t) \/ HistoryTxFails(t))
    BY <1>0, <1>1, <1>3, <2>2
  <2>3. CASE TakeFromPage
    BY <1>3, <2>3
  <2> QED BY <1>5, <2>1, <2>2, <2>3 DEF RecoverHistory
<1>6. CASE (\E tx \in Transactions : Confirm(tx)) \/ UNCHANGED indexerVars
  BY <1>6 DEF Confirm, indexerVars, processVars
<1> QED BY <1>4, <1>5, <1>6 DEF IndexerNext

\* The page is within the chain while recovery works on it.
LEMMA PageInChain ==
  ASSUME IndexerTypes, StageInv, TakeFromPage
  PROVE  /\ next \in 1..Len(chain) /\ next \in Tx
         /\ stage = "pool" /\ recovering /\ 0 < cursor /\ until = cursor /\ cursor < next
<1>1. stage = "pool" /\ next >= before
  BY DEF TakeFromPage
<1>2. before # 0 /\ until < before /\ 0 < cursor /\ until = cursor /\ recovering
  BY <1>1 DEF StageInv
<1>3. /\ next \in 0..Len(chain) /\ before \in 0..Len(chain) /\ cursor \in 0..Len(chain)
      /\ Len(chain) \in Nat /\ Len(chain) <= MaxTx
  BY DEF IndexerTypes
<1>4. next \in 1..Len(chain) /\ cursor < next
  BY <1>1, <1>2, <1>3
<1> QED BY <1>1, <1>2, <1>3, <1>4, LimitsAssumption DEF Tx

\* While recovery processes a transaction the cursor and the flag stand still.
LEMMA RecoveryStandsStill ==
  ASSUME IndexerTypes, CallsRight, StageInv, NEW t \in Tx, Busy("history", t),
         IndexerNext \/ UNCHANGED indexerVars, ~Restart
  PROVE  recovering' /\ cursor' = cursor /\ stage' \in {"pool", "failed"}
<1>1. stage \in {"pool", "failed"} /\ recovering
  BY DEF CallsRight, CallInv, Callers, ToBeRecovered
<1>2. Pool # {}
  BY DEF Pool
<1>3. \A u \in Tx : ~SaveLastSignature(u)
  BY <1>1 DEF SaveLastSignature, CallsRight, CallInv, Callers
<1>4. CASE TailRealTime
  <2>1. CASE Subscribe
    BY <1>1, <2>1 DEF Subscribe, recoveryVars, tableVars
  <2>2. ASSUME NEW u \in Tx, OnLogs(u)
        PROVE  UNCHANGED recoveryVars /\ cursor' = cursor
    BY <2>2 DEF OnLogs, tableVars
  <2>3. ASSUME NEW u \in Tx, ProcessTx("live", u)
        PROVE  UNCHANGED recoveryVars /\ cursor' = cursor
    BY <2>3 DEF ProcessTx, TransactionUnknown, NothingToWrite, ParseEvents, WriteEvent, tableVars
  <2> QED BY <1>1, <1>3, <1>4, <2>1, <2>2, <2>3 DEF TailRealTime, recoveryVars
<1>5. CASE RecoverHistory
  <2>1. ASSUME NEW u \in Tx, ProcessTx("history", u)
        PROVE  UNCHANGED recoveryVars /\ cursor' = cursor
    BY <2>1 DEF ProcessTx, TransactionUnknown, NothingToWrite, ParseEvents, WriteEvent, tableVars
  <2>2. ASSUME NEW u \in Tx, HistoryTxFails(u)
        PROVE  recovering' = recovering /\ cursor' = cursor /\ stage' = "failed"
    BY <2>2 DEF HistoryTxFails
  <2>3. CASE TakeFromPage
    BY <1>1, <2>3 DEF TakeFromPage, tableVars
  <2>4. ~(SkipRecovery \/ StartRecovery \/ ListPage \/ EndRecovery \/ PageDone \/ RecoveryCallFails)
    BY <1>1, <1>2 DEF SkipRecovery, StartRecovery, ListPage, EndRecovery, PageDone, RecoveryCallFails
  <2> QED BY <1>1, <1>5, <2>1, <2>2, <2>3, <2>4 DEF RecoverHistory, recoveryVars
<1>6. CASE (\E tx \in Transactions : Confirm(tx)) \/ UNCHANGED indexerVars
  BY <1>1, <1>6 DEF Confirm, indexerVars, recoveryVars, tableVars
<1> QED BY <1>4, <1>5, <1>6 DEF IndexerNext

\* A call of processTx goes on until the transaction is indexed or lost.
GoesOn(caller, t) == Busy(caller, t) \/ Indexed(t) \/ t \in lost

LEMMA CallGoesOn ==
  ASSUME IndexerTypes, CallsRight, StageInv, NEW t \in Tx, NEW caller \in Callers,
         Busy(caller, t), IndexerNext \/ UNCHANGED indexerVars, ~Restart,
         ~(caller = "history" /\ HistoryTxFails(t))
  PROVE  GoesOn(caller, t)'
<1>1. t \in 1..Len(chain)
  BY DEF CallsRight, CallInv, Busy, IndexerTypes
<1>2. work \in [Callers -> [Tx -> Call]] /\ next \in Nat /\ chain \in Seq(Transactions)
  BY DEF IndexerTypes
<1>3. Due(t)' = Due(t)
  BY <1>1, <1>2, DueStays
<1>4. work'[caller][t].step \in {"fetch", "write"} => GoesOn(caller, t)'
  BY DEF GoesOn, Busy
<1>5. CASE work'[caller][t] = work[caller][t]
  BY <1>4, <1>5 DEF Busy
<1>6. CASE (caller = "live" /\ OnLogs(t)) \/ (caller = "history" /\ TakeFromPage /\ t = next)
  <2>1. work' = [work EXCEPT ![caller][t] = [step |-> "fetch", next |-> 0, timestamp |-> "zero"]]
    BY <1>6 DEF OnLogs, TakeFromPage, StartProcessing
  <2>2. work'[caller][t].step = "fetch"
    BY <1>2, <2>1
  <2> QED BY <1>4, <2>2
<1>7. CASE TransactionUnknown(caller, t)
  BY <1>7 DEF TransactionUnknown, GoesOn
<1>8. CASE NothingToWrite(caller, t)
  <2>1. Due(t)' = <<>>
    BY <1>3, <1>8 DEF NothingToWrite
  <2>2. HasRows(t, 0, "zero")'
    BY DEF HasRows
  <2> QED BY <2>1, <2>2 DEF GoesOn, Indexed, Timestamps
<1>9. CASE ParseEvents(caller, t)
  <2>1. PICK timestamp \in Timestamps :
          work' = [work EXCEPT ![caller][t] = [step |-> "write", next |-> 1, timestamp |-> timestamp]]
    BY <1>9 DEF ParseEvents
  <2>2. work'[caller][t].step = "write"
    BY <1>2, <2>1
  <2> QED BY <1>4, <2>2
<1>10. CASE WriteEvent(caller, t)
  <2> DEFINE call == work[caller][t]
  <2>1. /\ call \in Call /\ call.step = "write" /\ call.next \in 1..Len(Due(t))
        /\ HasRows(t, call.next - 1, call.timestamp)
    BY <1>2, <1>10 DEF WriteEvent, CallsRight, CallInv
  <2>2. CASE call.next = Len(Due(t))
    <3>1. rows' = Put(Key(t, Due(t)[call.next], call.timestamp), Due(t)[call.next])
      BY <1>10 DEF WriteEvent, Written
    <3>2. \E row \in rows' : row.key = Key(t, Due(t)[call.next], call.timestamp)
      BY <3>1, PutKeepsKeys
    <3>3. PICK n, timestamp : n = call.next - 1 /\ timestamp = call.timestamp /\ timestamp \in Timestamps
      BY <2>1 DEF Call
    <3>4. HasRows(t, n, timestamp)'
      BY <1>1, <1>2, <2>1, <3>3, HasRowsStays
    <3>5. \A i : Key(t, Due(t)[i], timestamp)' = Key(t, Due(t)[i], timestamp)
      BY <1>3 DEF Key, Table
    <3>6. \A i \in 1..n : \E row \in rows' : row.key = Key(t, Due(t)[i], timestamp)
      BY <1>3, <3>4, <3>5 DEF HasRows, Key, Table
    <3>7. \A i \in 1..Len(Due(t)) : i \in 1..n \/ i = call.next
      BY <2>1, <2>2, <3>3
    <3>8. \A i \in 1..Len(Due(t)) : \E row \in rows' : row.key = Key(t, Due(t)[i], timestamp)
      BY <3>2, <3>3, <3>6, <3>7
    <3>9. Indexed(t)'
      BY <1>3, <3>3, <3>8 DEF Indexed, HasRows, Key, Table
    <3> QED BY <3>9 DEF GoesOn
  <2>3. CASE call.next # Len(Due(t))
    <3>1. work' = [work EXCEPT ![caller][t] = [call EXCEPT !.next = @ + 1]]
      BY <1>10, <2>3 DEF WriteEvent, AfterWrite
    <3>2. work'[caller][t] = [call EXCEPT !.next = @ + 1]
      BY <1>2, <3>1
    <3>3. work'[caller][t].step = "write"
      BY <2>1, <3>2 DEF Call
    <3> QED BY <1>4, <3>3
  <2> QED BY <2>2, <2>3
<1>11. ~(caller = "live" /\ SaveLastSignature(t))
  BY DEF SaveLastSignature, Busy
<1>12. TakeFromPage => next \in Tx
  BY PageInChain
<1> QED BY <1>2, <1>5, <1>6, <1>7, <1>8, <1>9, <1>10, <1>11, <1>12, CallInStep DEF ProcessTx

LEMMA InFlightCall ==
  ASSUME IndexerTypes, CallsRight, StageInv, NEW t \in Tx, NEW caller \in Callers,
         Busy(caller, t), IndexerNext \/ UNCHANGED indexerVars, ~Restart, ~HistoryTxFails(t)
  PROVE  Handled(t)'
<1>1. GoesOn(caller, t)'
  BY CallGoesOn
<1> QED BY <1>1 DEF GoesOn, Handled, InFlight

LEMMA LostGrows ==
  ASSUME IndexerNext \/ UNCHANGED indexerVars
  PROVE  lost \subseteq lost'
BY DEF IndexerNext, TailRealTime, RecoverHistory, indexerVars, historyVars, Confirm, Subscribe,
       OnLogs, ProcessTx, TransactionUnknown, NothingToWrite, ParseEvents, WriteEvent,
       SaveLastSignature, SkipRecovery, StartRecovery, ListPage, EndRecovery, TakeFromPage,
       PageDone, RecoveryCallFails, HistoryTxFails, Restart

LEMMA HandledStays ==
  ASSUME IndexerTypes, CallsRight, StageInv, NEW t \in 1..Len(chain), Handled(t),
         IndexerNext \/ UNCHANGED indexerVars, ~Restart, ~HistoryTxFails(t)
  PROVE  Handled(t)'
<1>1. t \in Tx /\ chain \in Seq(Transactions)
  BY LimitsAssumption DEF IndexerTypes, Tx
<1>2. CASE Indexed(t)
  BY <1>1, <1>2, IndexedStays DEF Handled
<1>3. CASE InFlight(t)
  BY <1>1, <1>3, InFlightCall DEF InFlight
<1>4. CASE t \in lost
  BY <1>4, LostGrows DEF Handled
<1> QED BY <1>2, <1>3, <1>4 DEF Handled

LEMMA SeenGrows ==
  ASSUME IndexerTypes, StageInv, IndexerNext \/ UNCHANGED indexerVars
  PROVE  /\ seen \subseteq seen'
         /\ \A t \in seen' : t \in seen \/ OnLogs(t) \/ (TakeFromPage /\ t = next)
BY DEF IndexerNext, TailRealTime, RecoverHistory, indexerVars, historyVars, Confirm, Subscribe,
       OnLogs, StartProcessing, ProcessTx, TransactionUnknown, NothingToWrite, ParseEvents,
       WriteEvent, SaveLastSignature, SkipRecovery, StartRecovery, ListPage, EndRecovery,
       TakeFromPage, PageDone, RecoveryCallFails, HistoryTxFails, Restart

LEMMA StartedIsInFlight ==
  ASSUME IndexerTypes, StageInv, NEW t \in Tx, OnLogs(t) \/ (TakeFromPage /\ t = next)
  PROVE  /\ InFlight(t)'
         /\ t \in seen'
<1>1. PICK caller \in Callers :
        work' = [work EXCEPT ![caller][t] = [step |-> "fetch", next |-> 0, timestamp |-> "zero"]]
  BY DEF OnLogs, TakeFromPage, StartProcessing, Callers
<1>2. work'[caller][t].step = "fetch"
  BY <1>1 DEF IndexerTypes
<1> QED BY <1>2 DEF InFlight, Busy, OnLogs, TakeFromPage, StartProcessing

\* The flag is only cleared by a recovery that ends.
LEMMA FlagInStep ==
  ASSUME IndexerNext \/ UNCHANGED indexerVars
  PROVE  recovering' = recovering \/ SkipRecovery \/ EndRecovery \/ Restart
BY DEF IndexerNext, TailRealTime, RecoverHistory, indexerVars, recoveryVars, Confirm, Subscribe,
       OnLogs, ProcessTx, TransactionUnknown, NothingToWrite, ParseEvents, WriteEvent,
       SaveLastSignature, StartRecovery, ListPage, TakeFromPage, PageDone, RecoveryCallFails,
       HistoryTxFails

LEMMA CursorInStep ==
  ASSUME IndexerNext \/ UNCHANGED indexerVars
  PROVE  cursor' = cursor \/ \E t \in Tx : SaveLastSignature(t)
BY DEF IndexerNext, TailRealTime, RecoverHistory, indexerVars, tableVars, Confirm, Subscribe,
       OnLogs, ProcessTx, TransactionUnknown, NothingToWrite, ParseEvents, WriteEvent,
       SkipRecovery, StartRecovery, ListPage, EndRecovery, TakeFromPage, PageDone,
       RecoveryCallFails, HistoryTxFails, Restart

\* No callback saves the cursor before recovery is over.
LEMMA CursorStandsStill ==
  ASSUME IndexerTypes, CallsRight, recovering, IndexerNext \/ UNCHANGED indexerVars
  PROVE  cursor' = cursor
<1>1. \A t \in Tx : ~SaveLastSignature(t)
  BY DEF SaveLastSignature, CallsRight, CallInv, Callers
<1> QED BY <1>1, CursorInStep

LEMMA HistoryCallsStay ==
  ASSUME IndexerTypes, CallsRight, StageInv, IndexerNext \/ UNCHANGED indexerVars,
         NEW t \in Tx, Busy("history", t)'
  PROVE  ToBeRecovered(t)' /\ stage' \in {"pool", "failed"}
<1>1. "history" \in Callers /\ work \in [Callers -> [Tx -> Call]] /\ next \in Nat
  BY DEF Callers, IndexerTypes
<1>2. ~Restart
  BY <1>1 DEF Restart, NoCalls, Idle, Busy
<1>3. CASE Busy("history", t)
  <2>1. recovering' /\ cursor' = cursor /\ stage' \in {"pool", "failed"}
    BY <1>2, <1>3, RecoveryStandsStill
  <2>2. ToBeRecovered(t)
    BY <1>1, <1>3 DEF CallsRight, CallInv
  <2> QED BY <2>1, <2>2 DEF ToBeRecovered
<1>4. CASE TakeFromPage /\ t = next
  <2>1. stage = "pool" /\ recovering /\ 0 < cursor /\ cursor < next
    BY <1>4, PageInChain
  <2> QED BY <1>4, <2>1 DEF TakeFromPage, ToBeRecovered, tableVars
<1>5. ProcessTx("history", t) => Busy("history", t)
  BY DEF ProcessTx, TransactionUnknown, NothingToWrite, ParseEvents, WriteEvent, Busy
<1>6. HistoryTxFails(t) => Busy("history", t)
  BY DEF HistoryTxFails
<1>7. work'["history"][t] = work["history"][t] => Busy("history", t)
  BY DEF Busy
<1>8. TakeFromPage => next \in Tx
  BY PageInChain
<1> QED BY <1>1, <1>2, <1>3, <1>4, <1>5, <1>6, <1>7, <1>8, CallInStep

\* What is known of one call after a step.
LEMMA CallRightAfter ==
  ASSUME IndexerTypes, CallsRight, StageInv, IndexerNext \/ UNCHANGED indexerVars,
         NEW caller \in Callers, NEW t \in Tx
  PROVE  CallInv(caller, t)'
<1>1. work \in [Callers -> [Tx -> Call]] /\ next \in Nat /\ chain \in Seq(Transactions)
      /\ seen \subseteq 1..Len(chain) /\ CallInv(caller, t)
  BY DEF IndexerTypes, CallsRight
<1>2. (Busy("history", t) => ToBeRecovered(t) /\ stage \in {"pool", "failed"})'
  BY HistoryCallsStay
<1>3. t \in seen => t \in seen' /\ Due(t)' = Due(t)
  BY <1>1, SeenGrows, DueStays
<1>4. ASSUME work'[caller][t].step = "idle"
      PROVE  CallInv(caller, t)'
  BY <1>2, <1>4 DEF CallInv
<1>5. ASSUME work'[caller][t].step = "fetch", t \in seen'
      PROVE  CallInv(caller, t)'
  BY <1>2, <1>5 DEF CallInv
<1>6. CASE Restart
  BY <1>4, <1>6 DEF Restart, NoCalls, Idle
<1>7. ASSUME work'[caller][t] = AfterProcessing(caller), t \in seen, recovering' = recovering
      PROVE  CallInv(caller, t)'
  <2>1. CASE caller = "live" /\ ~recovering
    BY <1>2, <1>3, <1>7, <2>1 DEF AfterProcessing, Idle, CallInv
  <2>2. CASE ~(caller = "live" /\ ~recovering)
    BY <1>4, <1>7, <2>2 DEF AfterProcessing, Idle
  <2> QED BY <2>1, <2>2
<1>8. ASSUME work'[caller][t].step = "write", t \in seen,
             work'[caller][t].next \in 1..Len(Due(t)),
             NEW n, n = work'[caller][t].next - 1,
             NEW timestamp, timestamp = work'[caller][t].timestamp, HasRows(t, n, timestamp)'
      PROVE  CallInv(caller, t)'
  <2>1. HasRows(t, work[caller][t].next - 1, work[caller][t].timestamp)'
    BY <1>8 DEF HasRows, Key, Table
  <2>2. t \in seen' /\ work'[caller][t].next \in 1..Len(Due(t)')
    BY <1>3, <1>8
  <2> QED BY <1>2, <1>8, <2>1, <2>2 DEF CallInv
<1>9. CASE work'[caller][t] = work[caller][t] /\ ~Restart
  <2>1. CASE work[caller][t].step = "write"
    <3>1. PICK n : n = work[caller][t].next - 1
      OBVIOUS
    <3>2. PICK timestamp : timestamp = work[caller][t].timestamp
      OBVIOUS
    <3>3. t \in seen /\ work[caller][t].next \in 1..Len(Due(t)) /\ HasRows(t, n, timestamp)
      BY <1>1, <2>1, <3>1, <3>2 DEF CallInv
    <3>4. HasRows(t, n, timestamp)'
      BY <1>1, <3>3, HasRowsStays
    <3> QED BY <1>8, <1>9, <2>1, <3>1, <3>2, <3>3, <3>4
  <2>2. CASE work[caller][t].step = "save"
    <3>1. ~recovering /\ caller = "live" /\ t \in seen
      BY <1>1, <2>2 DEF CallInv
    <3>2. recovering' = recovering
      BY <1>9, <3>1, FlagInStep DEF SkipRecovery, EndRecovery, StageInv
    <3> QED BY <1>2, <1>3, <1>9, <2>2, <3>1, <3>2 DEF CallInv
  <2>3. CASE work[caller][t].step = "fetch"
    BY <1>1, <1>3, <1>5, <1>9, <2>3 DEF CallInv
  <2>4. work[caller][t].step \in {"idle", "fetch", "write", "save"}
    BY <1>1 DEF Call
  <2> QED BY <1>4, <1>9, <2>1, <2>2, <2>3, <2>4
<1>10. CASE (caller = "live" /\ OnLogs(t)) \/ (caller = "history" /\ TakeFromPage /\ t = next)
  <2>1. work' = [work EXCEPT ![caller][t] = [step |-> "fetch", next |-> 0, timestamp |-> "zero"]]
    BY <1>10 DEF OnLogs, TakeFromPage, StartProcessing
  <2>2. work'[caller][t].step = "fetch"
    BY <1>1, <2>1
  <2> QED BY <1>5, <1>10, <2>2, StartedIsInFlight
<1>11. CASE TransactionUnknown(caller, t) \/ NothingToWrite(caller, t)
  <2>1. /\ work' = [work EXCEPT ![caller][t] = AfterProcessing(caller)]
        /\ work[caller][t].step = "fetch" /\ recovering' = recovering
    BY <1>11 DEF TransactionUnknown, NothingToWrite, recoveryVars
  <2>2. work'[caller][t] = AfterProcessing(caller)
    BY <1>1, <2>1
  <2> QED BY <1>1, <1>7, <2>1, <2>2 DEF CallInv
<1>12. CASE ParseEvents(caller, t)
  <2>1. PICK timestamp \in Timestamps :
          work' = [work EXCEPT ![caller][t] = [step |-> "write", next |-> 1, timestamp |-> timestamp]]
    BY <1>12 DEF ParseEvents
  <2>2. work'[caller][t] = [step |-> "write", next |-> 1, timestamp |-> timestamp]
    BY <1>1, <2>1
  <2>3. t \in seen /\ Due(t) # <<>>
    BY <1>1, <1>12 DEF CallInv, ParseEvents
  <2>4. 1 \in 1..Len(Due(t))
    BY <1>1, <2>3, DueIsSequence
  <2>5. HasRows(t, 0, timestamp)'
    BY DEF HasRows
  <2> QED BY <1>8, <2>2, <2>3, <2>4, <2>5
<1>13. CASE WriteEvent(caller, t)
  <2> DEFINE call == work[caller][t]
  <2>1. /\ call \in Call /\ call.step = "write" /\ call.next \in 1..Len(Due(t))
        /\ HasRows(t, call.next - 1, call.timestamp) /\ t \in seen
    BY <1>1, <1>13 DEF WriteEvent, CallInv
  <2>2. work'[caller][t] = AfterWrite(caller, t) /\ recovering' = recovering
    BY <1>1, <1>13 DEF WriteEvent, recoveryVars
  <2>3. CASE call.next = Len(Due(t))
    BY <1>7, <2>1, <2>2, <2>3 DEF AfterWrite
  <2>4. CASE call.next # Len(Due(t))
    <3>1. work'[caller][t] = [call EXCEPT !.next = @ + 1]
      BY <2>2, <2>4 DEF AfterWrite
    <3>2. /\ work'[caller][t].step = "write" /\ work'[caller][t].next = call.next + 1
          /\ work'[caller][t].timestamp = call.timestamp
      BY <2>1, <3>1 DEF Call
    <3>3. call.next + 1 \in 1..Len(Due(t))
      BY <1>1, <2>1, <2>4, DueIsSequence
    <3>4. \E row \in rows' : row.key = Key(t, Due(t)[call.next], call.timestamp)
      BY <1>13, PutKeepsKeys DEF WriteEvent, Written
    <3>5. PICK n, m, timestamp : n = call.next - 1 /\ m = call.next /\ timestamp = call.timestamp
      OBVIOUS
    <3>6. HasRows(t, n, timestamp)'
      BY <1>1, <2>1, <3>5, HasRowsStays
    <3>7. \A i \in 1..m : i \in 1..n \/ i = m
      BY <2>1, <3>5
    <3>8. \A i : Key(t, Due(t)[i], timestamp)' = Key(t, Due(t)[i], timestamp)
      BY <1>3, <2>1 DEF Key, Table
    <3>9. \A i \in 1..n : \E row \in rows' : row.key = Key(t, Due(t)[i], timestamp)
      BY <1>3, <2>1, <3>6, <3>8 DEF HasRows, Key, Table
    <3>10. \A i \in 1..m : \E row \in rows' : row.key = Key(t, Due(t)[i], timestamp)
      BY <3>4, <3>5, <3>7, <3>9
    <3>11. HasRows(t, m, timestamp)'
      BY <1>3, <2>1, <3>10 DEF HasRows, Key, Table
    <3>12. m = work'[caller][t].next - 1 /\ timestamp = work'[caller][t].timestamp
      BY <2>1, <3>2, <3>5
    <3> QED BY <1>8, <2>1, <3>2, <3>3, <3>11, <3>12
  <2> QED BY <2>3, <2>4
<1>14. CASE caller = "live" /\ SaveLastSignature(t)
  <2>1. work'[caller][t] = Idle
    BY <1>1, <1>14 DEF SaveLastSignature
  <2> QED BY <1>4, <2>1 DEF Idle
<1>15. CASE caller = "history" /\ HistoryTxFails(t)
  <2>1. work'[caller][t] = Idle
    BY <1>1, <1>15 DEF HistoryTxFails
  <2> QED BY <1>4, <2>1 DEF Idle
<1>16. TakeFromPage => next \in Tx
  BY PageInChain
<1> QED BY <1>1, <1>6, <1>9, <1>10, <1>11, <1>12, <1>13, <1>14, <1>15, <1>16, CallInStep DEF ProcessTx
-----------------------------------------------------------------------------
\* promisePool's limit: no step but TakeFromPage adds a call to the pool.
LEMMA PoolInStep ==
  ASSUME IndexerTypes, StageInv, IndexerNext \/ UNCHANGED indexerVars
  PROVE  Pool' \subseteq Pool \/ (TakeFromPage /\ Pool' \subseteq Pool \cup {next})
<1>1. "history" \in Callers /\ work \in [Callers -> [Tx -> Call]] /\ next \in Nat
  BY DEF Callers, IndexerTypes
<1>2. TakeFromPage => next \in Tx
  BY PageInChain
<1>3. ASSUME NEW t \in Tx, Busy("history", t)'
      PROVE  Busy("history", t) \/ (TakeFromPage /\ t = next)
  <2>1. ProcessTx("history", t) \/ HistoryTxFails(t) => Busy("history", t)
    BY DEF ProcessTx, TransactionUnknown, NothingToWrite, ParseEvents, WriteEvent, Busy,
           HistoryTxFails
  <2>2. ~Restart
    BY <1>1, <1>3 DEF Restart, NoCalls, Idle, Busy
  <2>3. work'["history"][t] = work["history"][t] => Busy("history", t)
    BY <1>3 DEF Busy
  <2> QED BY <1>1, <1>2, <2>1, <2>2, <2>3, CallInStep
<1> QED BY <1>3 DEF Pool

LEMMA PoolLimitStays ==
  ASSUME IndexerTypes, StageInv, IndexerNext \/ UNCHANGED indexerVars,
         Cardinality(Pool) <= concurrency
  PROVE  Cardinality(Pool') <= concurrency
<1>1. IsFiniteSet(Pool) /\ Cardinality(Pool) \in Nat
  <2>1. IsFiniteSet(Tx)
    BY LimitsAssumption, FS_Interval DEF Tx
  <2> QED BY <2>1, FS_Subset, FS_CardinalityType DEF Pool
<1>2. CASE Pool' \subseteq Pool
  <2>1. IsFiniteSet(Pool') /\ Cardinality(Pool') <= Cardinality(Pool)
    BY <1>1, <1>2, FS_Subset
  <2>2. Cardinality(Pool') \in Nat
    BY <2>1, FS_CardinalityType
  <2> QED BY <1>1, <2>1, <2>2, LimitsAssumption
<1>3. CASE TakeFromPage /\ Pool' \subseteq Pool \cup {next}
  <2>1. Cardinality(Pool) < concurrency
    BY <1>3 DEF TakeFromPage, PoolHasRoom
  <2>2. /\ IsFiniteSet(Pool \cup {next})
        /\ Cardinality(Pool \cup {next}) = Cardinality(Pool)
             \/ Cardinality(Pool \cup {next}) = Cardinality(Pool) + 1
    BY <1>1, FS_AddElement
  <2>3. IsFiniteSet(Pool') /\ Cardinality(Pool') <= Cardinality(Pool \cup {next})
    BY <1>3, <2>2, FS_Subset
  <2>4. Cardinality(Pool') \in Nat
    BY <2>3, FS_CardinalityType
  <2> QED BY <1>1, <2>1, <2>2, <2>3, <2>4, LimitsAssumption
<1> QED BY <1>2, <1>3, PoolInStep

\* What is written is an event of a transaction that succeeded.
LEMMA RowsStayEvents ==
  ASSUME IndexerTypes, CallsRight, RowsAreEvents, IndexerNext \/ UNCHANGED indexerVars
  PROVE  RowsAreEvents'
<1> DEFINE Of(row) == LET t == row.key.tx IN
                      /\ t \in 1..Len(chain) /\ ~chain[t].failed
                      /\ \E i \in 1..Len(chain[t].events) : row.event = chain[t].events[i]
                      /\ \E timestamp \in Timestamps : row.key = Key(t, row.event, timestamp)
<1>1. /\ \A row \in rows : Of(row)
      /\ \A row, other \in rows : row.key = other.key => row = other
  BY DEF RowsAreEvents
<1>2. /\ chain' \in Seq(Transactions) /\ Len(chain) <= Len(chain')
      /\ \A t \in 1..Len(chain) : chain'[t] = chain[t]
  BY ChainGrows DEF IndexerTypes
<1>3. 1..Len(chain) \subseteq 1..Len(chain')
  BY <1>2 DEF IndexerTypes
<1>4. ASSUME NEW row, Of(row)
      PROVE  Of(row)'
  BY <1>2, <1>3, <1>4 DEF Key, Table
<1>5. CASE rows' = rows
  <2>1. \A row \in rows' : Of(row)'
    BY <1>1, <1>4, <1>5
  <2> QED BY <1>1, <1>5, <2>1 DEF RowsAreEvents
<1>6. ASSUME NEW caller \in Callers, NEW t \in Tx, work[caller][t].step = "write",
             rows' = Written(caller, t)
      PROVE  RowsAreEvents'
  <2>1. PICK i \in Nat, timestamp \in Timestamps :
          i = work[caller][t].next /\ timestamp = work[caller][t].timestamp
    BY DEF IndexerTypes, Call
  <2>2. t \in 1..Len(chain) /\ i \in 1..Len(Due(t))
    BY <1>6, <2>1 DEF CallsRight, CallInv, IndexerTypes
  <2>3. ~chain[t].failed /\ Due(t) = chain[t].events
    BY <2>2 DEF Due
  <2> DEFINE event == Due(t)[i]
             key == Key(t, event, timestamp)
             new == [key |-> key, event |-> event]
  <2>4. rows' = {row \in rows : row.key # key} \cup {new}
    BY <1>6, <2>1 DEF Written, Put
  <2>5. key.tx = t
    BY DEF Key
  <2>6. Of(new)
    BY <2>2, <2>3, <2>5
  <2>7. ASSUME NEW row \in rows'
        PROVE  Of(row)'
    <3> HIDE DEF Of, new
    <3>1. row \in rows \/ row = new
      BY <2>4
    <3>2. Of(row)
      BY <1>1, <2>6, <3>1
    <3> QED BY <1>4, <3>2
  <2>8. \A row, other \in rows' : row.key = other.key => row = other
    BY <1>1, <2>4
  <2> QED BY <2>7, <2>8 DEF RowsAreEvents
<1> QED BY <1>5, <1>6, RowsInStep
-----------------------------------------------------------------------------
\* What was taken up stays handled while recovery goes on.
LEMMA HandledInStep ==
  ASSUME IndexerTypes, CallsRight, StageInv, IndexerNext \/ UNCHANGED indexerVars,
         stage' \in {"listing", "pool", "done"}, NEW t \in 1..Len(chain), Handled(t)
  PROVE  Handled(t)'
BY HandledStays DEF HistoryTxFails, Restart

LEMMA StageStaysUnlessMoved ==
  ASSUME IndexerTypes, CallsRight, StageInv, IndexerNext \/ UNCHANGED indexerVars,
         UNCHANGED recoveryVars
  PROVE  StageInv'
<1>1. stage' = stage /\ recovering' = recovering /\ until' = until /\ before' = before
      /\ next' = next /\ upTo' = upTo
  BY DEF recoveryVars
<1>2. stage # "done" => cursor' = cursor
  BY CursorStandsStill DEF StageInv
<1>3. ASSUME stage \in {"listing", "pool"}, before # 0
      PROVE  /\ \A t \in TakenFrom..upTo : Handled(t)'
             /\ \A t \in seen' : t > upTo => Handled(t)'
  <2>1. /\ \A t \in TakenFrom..upTo : Handled(t)
        /\ \A t \in seen : t > upTo => Handled(t)
        /\ TakenFrom \in Nat \ {0}
    BY <1>3 DEF StageInv, TakenFrom, IndexerTypes
  <2>2. upTo <= Len(chain) /\ seen \subseteq 1..Len(chain) /\ Len(chain) \in Nat /\ upTo \in Nat
    BY DEF IndexerTypes
  <2>3. \A t \in TakenFrom..upTo : t \in 1..Len(chain)
    BY <2>1, <2>2
  <2>4. \A t \in TakenFrom..upTo : Handled(t)'
    BY <1>1, <1>3, <2>1, <2>3, HandledInStep
  <2>5. ASSUME NEW t \in seen', t > upTo
        PROVE  Handled(t)'
    <3>1. CASE t \in seen
      BY <1>1, <1>3, <2>1, <2>2, <2>5, <3>1, HandledInStep
    <3>2. CASE OnLogs(t) \/ (TakeFromPage /\ t = next)
      <4>1. OnLogs(t) => t \in 1..Len(chain)
        BY DEF OnLogs, IndexerTypes
      <4>2. t \in Tx
        BY <2>2, <3>2, <4>1, PageInChain, LimitsAssumption DEF IndexerTypes, Tx
      <4> QED BY <3>2, <4>2, StartedIsInFlight DEF Handled
    <3> QED BY <3>1, <3>2, SeenGrows
  <2> QED BY <2>4, <2>5
<1>4. TakenFrom' = TakenFrom
  BY <1>1 DEF TakenFrom
<1> QED BY <1>1, <1>2, <1>3, <1>4 DEF StageInv

LEMMA StageStays ==
  ASSUME IndexerTypes, CallsRight, StageInv, IndexerNext \/ UNCHANGED indexerVars
  PROVE  StageInv'
<1>1. CASE UNCHANGED recoveryVars
  BY <1>1, StageStaysUnlessMoved
<1>2. CASE stage' \in {"done", "failed", "starting"} /\ (recovering' <=> stage' # "done")
           /\ (stage' = "starting" => before' = 0 /\ until' = 0)
  BY <1>2 DEF StageInv
<1>3. CASE SkipRecovery \/ EndRecovery \/ RecoveryCallFails \/ Restart
           \/ \E t \in Tx : HistoryTxFails(t)
  <2>1. (RecoveryCallFails \/ \E t \in Tx : HistoryTxFails(t)) => recovering
    <3>1. RecoveryCallFails => recovering
      BY DEF RecoveryCallFails, StageInv
    <3>2. \A t \in Tx : HistoryTxFails(t) => recovering
      BY DEF HistoryTxFails, CallsRight, CallInv, Callers, ToBeRecovered
    <3> QED BY <3>1, <3>2
  <2> QED BY <1>2, <1>3, <2>1 DEF SkipRecovery, EndRecovery, RecoveryCallFails, Restart, HistoryTxFails
<1>4. CASE StartRecovery
  BY <1>4 DEF StartRecovery, StageInv, tableVars, IndexerTypes
<1>5. /\ next \in Nat /\ before \in Nat /\ upTo \in 0..Len(chain) /\ until \in Nat
      /\ cursor \in Nat /\ seen \subseteq 1..Len(chain) /\ Len(chain) \in Nat
  BY DEF IndexerTypes
<1>6. CASE ListPage
  <2>1. /\ stage = "listing" /\ stage' = "pool" /\ recovering' = recovering /\ until' = until
        /\ next' = Newest /\ before' = OldestOfPage /\ upTo' = FirstPage /\ cursor' = cursor
        /\ seen' = seen /\ Newest > until
    BY <1>6 DEF ListPage, tableVars, historyVars
  <2>2. recovering /\ 0 < cursor /\ until = cursor
    BY <2>1 DEF StageInv
  <2>3. /\ Newest \in Nat /\ OldestOfPage \in Nat /\ until < OldestOfPage /\ OldestOfPage <= Newest
    BY <1>5, <2>1, LimitsAssumption DEF Newest, OldestOfPage
  <2>4. Newest <= FirstPage /\ FirstPage \in 0..Len(chain)
    BY <1>5, <2>1 DEF Newest, FirstPage, StageInv
  <2>5. ASSUME NEW t \in Newest + 1..FirstPage
        PROVE  Handled(t)'
    <3>1. before # 0 /\ t \in before..upTo
      BY <1>5, <2>5 DEF Newest, FirstPage
    <3>2. Handled(t) /\ t \in 1..Len(chain)
      BY <1>5, <2>1, <3>1 DEF StageInv, TakenFrom
    <3> QED BY <2>1, <3>2, HandledInStep
  <2>6. ASSUME NEW t \in seen, t > FirstPage
        PROVE  Handled(t)'
    <3>1. before # 0 /\ t > upTo
      BY <1>5, <2>6 DEF FirstPage
    <3>2. Handled(t)
      BY <2>1, <2>6, <3>1 DEF StageInv
    <3> QED BY <1>5, <2>1, <3>2, HandledInStep
  <2>7. TakenFrom' = Newest + 1
    BY <2>1 DEF TakenFrom
  <2>8. before' # 0 /\ before' <= next' + 1 /\ next' <= upTo' /\ before' <= upTo' + 1
    BY <1>5, <2>1, <2>3, <2>4
  <2> QED BY <2>1, <2>2, <2>3, <2>4, <2>5, <2>6, <2>7, <2>8 DEF StageInv
<1>7. CASE TakeFromPage
  <2>1. /\ stage = "pool" /\ stage' = stage /\ recovering' = recovering /\ until' = until
        /\ next' = next - 1 /\ before' = before /\ upTo' = upTo /\ cursor' = cursor
        /\ next >= before
    BY <1>7 DEF TakeFromPage, tableVars
  <2>2. next \in Tx /\ next \in 1..Len(chain)
    BY <1>7, PageInChain
  <2>3. /\ recovering /\ 0 < cursor /\ until = cursor /\ before # 0 /\ next <= upTo /\ until < before
        /\ before <= upTo + 1
        /\ \A t \in next + 1..upTo : Handled(t)
        /\ \A t \in seen : t > upTo => Handled(t)
    BY <2>1 DEF StageInv, TakenFrom
  <2>4. TakenFrom' = next
    BY <1>5, <2>1 DEF TakenFrom
  <2>5. PICK taken \in Tx : taken = next
    BY <2>2
  <2>6. Handled(taken)' /\ seen' = seen \cup {taken}
    BY <1>7, <2>5, StartedIsInFlight DEF Handled, TakeFromPage, StartProcessing
  <2>7. ASSUME NEW t \in next..upTo
        PROVE  Handled(t)'
    <3>1. CASE t = taken
      BY <2>6, <3>1
    <3>2. CASE t # taken
      <4>1. t \in next + 1..upTo /\ t \in 1..Len(chain)
        BY <1>5, <2>2, <2>5, <2>7, <3>2
      <4> QED BY <2>1, <2>3, <4>1, HandledInStep
    <3> QED BY <3>1, <3>2
  <2>8. ASSUME NEW t \in seen', t > upTo
        PROVE  Handled(t)'
    <3>1. t \in seen \/ t = taken
      BY <2>6
    <3> QED BY <1>5, <2>1, <2>3, <2>8, <2>6, <3>1, HandledInStep
  <2>9. before' <= next' + 1 /\ next' <= upTo'
    BY <1>5, <2>1, <2>3
  <2> QED BY <2>1, <2>3, <2>4, <2>7, <2>8, <2>9 DEF StageInv
<1>8. CASE PageDone
  <2>1. /\ stage = "pool" /\ stage' = "listing" /\ recovering' = recovering /\ until' = until
        /\ next' = next /\ before' = before /\ upTo' = upTo /\ cursor' = cursor
        /\ seen' = seen /\ next < before
    BY <1>8 DEF PageDone, tableVars, historyVars
  <2>2. /\ recovering /\ 0 < cursor /\ until = cursor /\ before # 0 /\ until < before
        /\ before <= next + 1 /\ before <= upTo + 1
        /\ \A t \in next + 1..upTo : Handled(t)
        /\ \A t \in seen : t > upTo => Handled(t)
    BY <2>1 DEF StageInv, TakenFrom
  <2>3. TakenFrom' = before /\ before = next + 1
    BY <1>5, <2>1, <2>2 DEF TakenFrom
  <2>4. \A t \in before..upTo : Handled(t)'
    BY <1>5, <2>1, <2>2, <2>3, HandledInStep
  <2>5. \A t \in seen : t > upTo => Handled(t)'
    BY <1>5, <2>1, <2>2, HandledInStep
  <2> QED BY <2>1, <2>2, <2>3, <2>4, <2>5 DEF StageInv
<1>9. (\E tx \in Transactions : Confirm(tx)) \/ TailRealTime \/ UNCHANGED indexerVars
        => UNCHANGED recoveryVars
  BY DEF Confirm, TailRealTime, Subscribe, OnLogs, ProcessTx, TransactionUnknown, NothingToWrite,
         ParseEvents, WriteEvent, SaveLastSignature, indexerVars
<1>10. \A t \in Tx : ProcessTx("history", t) => UNCHANGED recoveryVars
  BY DEF ProcessTx, TransactionUnknown, NothingToWrite, ParseEvents, WriteEvent
<1> QED BY <1>1, <1>3, <1>4, <1>6, <1>7, <1>8, <1>9, <1>10 DEF IndexerNext, RecoverHistory

LEMMA NothingElseIsLostStays ==
  ASSUME IndexerTypes, CallsRight, StageInv, NothingElseIsLost,
         IndexerNext \/ UNCHANGED indexerVars
  PROVE  NothingElseIsLost'
<1>1. /\ before \in Nat /\ upTo \in 0..Len(chain) /\ until \in Nat /\ cursor \in Nat
      /\ seen \subseteq 1..Len(chain) /\ Len(chain) \in Nat /\ chain \in Seq(Transactions)
      /\ Len(chain) <= MaxTx
  BY DEF IndexerTypes
<1>2. ASSUME NEW t \in seen, Handled(t)
      PROVE  Handled(t)' \/ ToBeRecovered(t)'
  <2>1. t \in Tx /\ t \in 1..Len(chain)
    BY <1>1, LimitsAssumption DEF Tx
  <2>2. CASE Restart
    <3>1. lost' = lost \cup {u \in Tx : InFlight(u) /\ NotRecovered(u)}
          /\ recovering' = TRUE /\ cursor' = cursor
      BY <2>2 DEF Restart, tableVars
    <3>2. CASE InFlight(t)
      BY <1>1, <2>1, <3>1, <3>2 DEF NotRecovered, Handled, ToBeRecovered
    <3>3. CASE t \in lost
      BY <3>1, <3>3 DEF Handled
    <3>4. CASE Indexed(t)
      BY <1>1, <2>1, <3>4, IndexedStays DEF Handled
    <3> QED BY <1>2, <3>2, <3>3, <3>4 DEF Handled
  <2>3. CASE HistoryTxFails(t)
    <3>1. ToBeRecovered(t)
      BY <2>1, <2>3 DEF HistoryTxFails, CallsRight, CallInv, Callers
    <3> QED BY <2>3, <3>1 DEF HistoryTxFails, ToBeRecovered
  <2> QED BY <1>2, <2>1, <2>2, <2>3, HandledStays
<1>3. ASSUME NEW t \in seen, ToBeRecovered(t)
      PROVE  Handled(t)' \/ ToBeRecovered(t)'
  <2>1. recovering /\ 0 < cursor /\ cursor < t
    BY <1>3 DEF ToBeRecovered
  <2>2. cursor' = cursor
    BY <2>1, CursorStandsStill
  <2>3. CASE recovering' = recovering
    BY <1>3, <2>2, <2>3 DEF ToBeRecovered
  <2>4. CASE EndRecovery
    <3>1. stage = "listing" /\ Newest <= until /\ until = cursor
      BY <2>4 DEF EndRecovery, StageInv
    <3>2. before # 0
      BY <1>1, <2>1, <3>1 DEF Newest
    <3>3. before <= t
      BY <1>1, <2>1, <3>1, <3>2 DEF Newest
    <3>4. Handled(t)
      BY <1>1, <3>1, <3>2, <3>3 DEF StageInv, TakenFrom
    <3> QED BY <1>2, <3>4
  <2>5. ~SkipRecovery
    BY <1>1, <2>1 DEF SkipRecovery
  <2>6. CASE Restart
    BY <1>3, <2>2, <2>6 DEF Restart, ToBeRecovered
  <2> QED BY <2>3, <2>4, <2>5, <2>6, FlagInStep
<1>4. ASSUME NEW t, OnLogs(t) \/ (TakeFromPage /\ t = next)
      PROVE  Handled(t)'
  <2>1. OnLogs(t) => t \in 1..Len(chain)
    BY DEF OnLogs, IndexerTypes
  <2>2. t \in Tx
    BY <1>1, <1>4, <2>1, PageInChain, LimitsAssumption DEF Tx
  <2> QED BY <1>4, <2>2, StartedIsInFlight DEF Handled
<1>5. ASSUME NEW t \in seen'
      PROVE  Handled(t)' \/ ToBeRecovered(t)'
  BY <1>2, <1>3, <1>4, SeenGrows DEF NothingElseIsLost
<1> QED BY <1>5 DEF NothingElseIsLost

LEMMA RecoveryCompleteStays ==
  ASSUME IndexerTypes, CallsRight, StageInv, RecoveryComplete,
         IndexerNext \/ UNCHANGED indexerVars
  PROVE  RecoveryComplete'
<1>1. /\ before \in Nat /\ upTo \in 0..Len(chain) /\ until \in Nat /\ Len(chain) \in Nat
  BY DEF IndexerTypes
<1>2. SUFFICES ASSUME stage' = "done", until' # 0, NEW t \in until' + 1..upTo'
               PROVE  Handled(t)'
  BY DEF RecoveryComplete
<1>3. CASE stage = "done" /\ UNCHANGED recoveryVars
  <2>1. Handled(t) /\ t \in 1..Len(chain)
    BY <1>1, <1>2, <1>3 DEF RecoveryComplete, recoveryVars
  <2> QED BY <1>2, <2>1, HandledInStep
<1>4. CASE EndRecovery
  <2>1. /\ stage = "listing" /\ Newest <= until /\ until' = until /\ upTo' = FirstPage
    BY <1>4 DEF EndRecovery
  <2>2. before # 0
    BY <1>1, <1>2, <2>1 DEF Newest, FirstPage
  <2>3. t \in before..upTo
    BY <1>1, <1>2, <2>1, <2>2 DEF Newest, FirstPage
  <2>4. Handled(t) /\ t \in 1..Len(chain)
    BY <1>1, <2>1, <2>2, <2>3 DEF StageInv, TakenFrom
  <2> QED BY <1>2, <2>4, HandledInStep
<1>5. ~SkipRecovery
  BY <1>2 DEF SkipRecovery, StageInv
<1>6. (stage = "done" /\ UNCHANGED recoveryVars) \/ EndRecovery \/ SkipRecovery
  <2>1. ~(StartRecovery \/ ListPage \/ PageDone \/ TakeFromPage \/ RecoveryCallFails \/ Restart)
    BY <1>2 DEF StartRecovery, ListPage, PageDone, TakeFromPage, RecoveryCallFails, Restart
  <2>2. \A u \in Tx : ~HistoryTxFails(u)
    BY <1>2 DEF HistoryTxFails
  <2>3. \A caller \in Callers, u \in Tx : ProcessTx(caller, u) => UNCHANGED recoveryVars
    BY DEF ProcessTx, TransactionUnknown, NothingToWrite, ParseEvents, WriteEvent
  <2>4. (\E tx \in Transactions : Confirm(tx)) \/ TailRealTime \/ UNCHANGED indexerVars
          => UNCHANGED recoveryVars
    BY <2>3 DEF Confirm, TailRealTime, Subscribe, OnLogs, SaveLastSignature, indexerVars, Callers
  <2>5. RecoverHistory => UNCHANGED recoveryVars \/ EndRecovery \/ SkipRecovery
    BY <2>1, <2>2, <2>3 DEF RecoverHistory, Callers
  <2>6. UNCHANGED recoveryVars => stage = "done"
    BY <1>2 DEF recoveryVars
  <2> QED BY <2>1, <2>4, <2>5, <2>6 DEF IndexerNext
<1> QED BY <1>3, <1>4, <1>5, <1>6
-----------------------------------------------------------------------------
\* The tables look the same for the cursor and for the transaction it names.
LEMMA CursorNames ==
  ASSUME NEW t, cursor' = t
  PROVE  Indexed(cursor)' <=> Indexed(t)'
<1>1. Due(cursor)' = Due(t)'
  BY DEF Due
<1>2. \A event, time : Key(cursor, event, time)' = Key(t, event, time)'
  BY DEF Key
<1>3. \A n, time : HasRows(cursor, n, time)' <=> HasRows(t, n, time)'
  BY <1>1, <1>2 DEF HasRows
<1> QED BY <1>1, <1>3 DEF Indexed

\* What a callback is about to save is settled, and so is what it has saved.
LEMMA SavedStays ==
  ASSUME IndexerTypes, CallsRight, StageInv, SavedInv, IndexerNext \/ UNCHANGED indexerVars
  PROVE  SavedInv'
<1>1. /\ chain \in Seq(Transactions) /\ work \in [Callers -> [Tx -> Call]] /\ next \in Nat
      /\ cursor \in 0..Len(chain) /\ seen \subseteq 1..Len(chain) /\ Len(chain) \in Nat
  BY DEF IndexerTypes
<1>2. "live" \in Callers
  BY DEF Callers
<1>3. ASSUME NEW t \in 1..Len(chain), Indexed(t) \/ t \in lost
      PROVE  Indexed(t)' \/ t \in lost'
  BY <1>1, <1>3, IndexedStays, LostGrows
<1>4. ASSUME NEW t \in Tx, work["live"][t].step = "save"
      PROVE  t \in 1..Len(chain) /\ (Indexed(t) \/ t \in lost)
  BY <1>1, <1>2, <1>4 DEF CallsRight, CallInv, SavedInv
<1>5. ASSUME NEW t \in Tx, work'["live"][t].step = "save"
      PROVE  Indexed(t)' \/ t \in lost'
  <2>1. CASE work'["live"][t] = work["live"][t]
    BY <1>3, <1>4, <1>5, <2>1
  <2>2. CASE OnLogs(t)
    <3>1. work' = [work EXCEPT !["live"][t] = [step |-> "fetch", next |-> 0, timestamp |-> "zero"]]
      BY <2>2 DEF OnLogs, StartProcessing
    <3>2. work'["live"][t].step = "fetch"
      BY <1>1, <1>2, <3>1
    <3> QED BY <1>5, <3>2
  <2>3. ~Restart
    BY <1>2, <1>5 DEF Restart, NoCalls, Idle
  <2>4. CASE ProcessTx("live", t)
    <3>1. Busy("live", t)
      BY <2>4 DEF ProcessTx, TransactionUnknown, NothingToWrite, ParseEvents, WriteEvent, Busy
    <3>2. GoesOn("live", t)'
      BY <1>2, <2>3, <3>1, CallGoesOn
    <3>3. ~Busy("live", t)'
      BY <1>5 DEF Busy
    <3> QED BY <3>2, <3>3 DEF GoesOn
  <2>5. CASE SaveLastSignature(t)
    <3>1. work' = [work EXCEPT !["live"][t] = Idle]
      BY <2>5 DEF SaveLastSignature
    <3>2. work'["live"][t].step = "idle"
      BY <1>1, <1>2, <3>1 DEF Idle
    <3> QED BY <1>5, <3>2
  <2>6. TakeFromPage => next \in Tx
    BY PageInChain
  <2> QED BY <1>1, <1>2, <2>1, <2>2, <2>3, <2>4, <2>5, <2>6, CallInStep
<1>6. ASSUME cursor' # 0
      PROVE  Indexed(cursor)' \/ cursor' \in lost'
  <2>1. CASE cursor' = cursor
    <3>1. cursor \in 1..Len(chain) /\ (Indexed(cursor) \/ cursor \in lost)
      BY <1>1, <1>6, <2>1 DEF SavedInv
    <3>2. PICK t \in 1..Len(chain) : t = cursor /\ (Indexed(t) \/ t \in lost)
      BY <3>1
    <3>3. Indexed(t)' \/ t \in lost'
      BY <1>3, <3>2
    <3>4. Indexed(cursor)' <=> Indexed(t)'
      BY <2>1, <3>2, CursorNames
    <3> QED BY <2>1, <3>2, <3>3, <3>4
  <2>2. ASSUME NEW t \in Tx, SaveLastSignature(t)
        PROVE  Indexed(cursor)' \/ cursor' \in lost'
    <3>1. cursor' = t /\ work["live"][t].step = "save"
      BY <2>2 DEF SaveLastSignature
    <3>2. Indexed(t)' \/ t \in lost'
      BY <1>3, <1>4, <3>1
    <3>3. Indexed(cursor)' <=> Indexed(t)'
      BY <3>1, CursorNames
    <3> QED BY <3>1, <3>2, <3>3
  <2> QED BY <2>1, <2>2, CursorInStep
<1> QED BY <1>5, <1>6 DEF SavedInv

\* IndexerInv with the limit of the pool apart from the types.
LEMMA IndexerInvParts ==
  IndexerInv <=> /\ IndexerTypes /\ Cardinality(Pool) <= concurrency
                 /\ RowsAreEvents /\ CallsRight /\ StageInv /\ SavedInv
                 /\ NothingElseIsLost /\ RecoveryComplete
BY DEF IndexerInv, IndexerTypeOK, IndexerTypes, CallsRight

LEMMA IndexerInitial == IndexerInit => IndexerInv
<1> SUFFICES ASSUME IndexerInit
             PROVE  IndexerInv
  OBVIOUS
<1> USE DEF IndexerInit
<1>1. Len(chain) = 0 /\ 0 \in 0..Len(chain) /\ chain \in Seq(Transactions)
  OBVIOUS
<1>2. IndexerTypes
  <2>1. work \in [Callers -> [Tx -> Call]]
    BY CallsTyped
  <2>2. /\ rows = {} /\ cursor = 0 /\ subscribed \in BOOLEAN /\ notifications = {}
        /\ recovering \in BOOLEAN /\ stage \in Stages
        /\ until = 0 /\ before = 0 /\ next = 0 /\ upTo = 0 /\ seen = {} /\ lost = {}
    BY DEF Stages
  <2>3. 0 <= MaxTx
    BY LimitsAssumption
  <2> QED BY <1>1, <2>1, <2>2, <2>3 DEF IndexerTypes
<1>3. \A caller \in Callers, t \in Tx : work[caller][t].step = "idle"
  BY DEF NoCalls, Idle
<1>4. CallsRight
  BY <1>3 DEF CallsRight, CallInv, Busy, Callers
<1>5. Pool = {}
  BY <1>3 DEF Pool, Busy, Callers
<1>6. Cardinality(Pool) <= concurrency
  BY <1>5, FS_EmptySet, LimitsAssumption
<1>7. RowsAreEvents /\ StageInv /\ NothingElseIsLost /\ RecoveryComplete
  BY DEF RowsAreEvents, StageInv, NothingElseIsLost, RecoveryComplete
<1>8. SavedInv
  BY <1>3 DEF SavedInv, Callers
<1> QED BY <1>2, <1>4, <1>6, <1>7, <1>8, IndexerInvParts

LEMMA IndexerInvStays == IndexerInv /\ [IndexerNext]_indexerVars => IndexerInv'
<1> SUFFICES ASSUME IndexerInv, IndexerNext \/ UNCHANGED indexerVars
             PROVE  IndexerInv'
  OBVIOUS
<1>1. /\ IndexerTypes /\ Cardinality(Pool) <= concurrency /\ RowsAreEvents /\ CallsRight
      /\ StageInv /\ SavedInv /\ NothingElseIsLost /\ RecoveryComplete
  BY IndexerInvParts
<1>2. IndexerTypes'
  BY <1>1, TypesStay, LimitsAssumption
<1>3. Cardinality(Pool') <= concurrency
  BY <1>1, PoolLimitStays
<1>4. RowsAreEvents'
  BY <1>1, RowsStayEvents
<1>5. CallsRight'
  BY <1>1, CallRightAfter DEF CallsRight
<1>6. StageInv'
  BY <1>1, StageStays
<1>7. NothingElseIsLost'
  BY <1>1, NothingElseIsLostStays
<1>8. RecoveryComplete'
  BY <1>1, RecoveryCompleteStays
<1>9. SavedInv'
  BY <1>1, SavedStays
<1> QED BY <1>2, <1>3, <1>4, <1>5, <1>6, <1>7, <1>8, <1>9
        DEF IndexerInv, IndexerTypeOK, IndexerTypes, CallsRight

(***************************************************************************)
(* The inductive invariant, from which the properties below follow: it     *)
(* holds however the callbacks, the pages, the pool, errors and restarts   *)
(* interleave (realtime.ts, history.ts, processor.ts, concurrency.ts).     *)
(***************************************************************************)
THEOREM IndexerInvariant == IndexerSpec => []IndexerInv
BY IndexerInitial, IndexerInvStays, PTL DEF IndexerSpec

(***************************************************************************)
(* Types, and at most concurrency transactions in promisePool at a time.   *)
(***************************************************************************)
THEOREM IndexerTypeCorrect == IndexerSpec => []IndexerTypeOK
<1>1. IndexerInv => IndexerTypeOK
  BY DEF IndexerInv
<1> QED BY <1>1, IndexerInvariant, PTL

(***************************************************************************)
(* The tables hold only events of transactions that succeeded, and one row *)
(* for each key, though both sources write at the same time (writeEvent).  *)
(***************************************************************************)
THEOREM OnlyEventsIndexed == IndexerSpec => []RowsAreEvents
<1>1. IndexerInv => RowsAreEvents
  BY DEF IndexerInv
<1> QED BY <1>1, IndexerInvariant, PTL

(***************************************************************************)
(* A transaction that was taken up is lost for two causes only, whatever   *)
(* fails and whenever the process restarts (processTx, recoverHistory).    *)
(***************************************************************************)
THEOREM NothingElseLost == IndexerSpec => []NothingElseIsLost
<1>1. IndexerInv => NothingElseIsLost
  BY DEF IndexerInv
<1> QED BY <1>1, IndexerInvariant, PTL

(***************************************************************************)
(* A recovery that ends by itself has taken up all from its cursor to the  *)
(* newest transaction of its first page, for every page size and limit of  *)
(* the pool (recoverHistory, promisePool).                                 *)
(***************************************************************************)
THEOREM RecoveryIsComplete == IndexerSpec => []RecoveryComplete
<1>1. IndexerInv => RecoveryComplete
  BY DEF IndexerInv
<1> QED BY <1>1, IndexerInvariant, PTL
-----------------------------------------------------------------------------
(* EventTables *)

\* Both modules say the same of a transaction that is in the tables.
LEMMA SameTables ==
  /\ \A t, n, time : Tables!HasEvents(t, n, time) <=> HasRows(t, n, time)
  /\ \A t : Tables!Complete(t) <=> Indexed(t)
<1>1. \A t : Tables!Events(t) = Due(t)
  BY DEF Tables!Events, Due
<1>2. \A t, n, time : Tables!HasEvents(t, n, time) <=> HasRows(t, n, time)
  BY <1>1 DEF Tables!HasEvents, HasRows
<1>3. \A t : Tables!Complete(t) <=> Indexed(t)
  BY <1>1, <1>2 DEF Tables!Complete, Indexed
<1> QED BY <1>2, <1>3

\* The events of a call are stored in their order.
LEMMA WriteIsStore ==
  ASSUME IndexerTypes, CallsRight, NEW caller \in Callers, NEW t \in Tx,
         work[caller][t].step = "write", rows' = Written(caller, t),
         UNCHANGED <<chain, cursor, seen, lost>>
  PROVE  Tables!Next
<1>1. PICK i, time : i = work[caller][t].next /\ time = work[caller][t].timestamp
  OBVIOUS
<1>2. work[caller][t] \in Call
  BY DEF IndexerTypes
<1>3. time \in Timestamps
  BY <1>1, <1>2 DEF Call
<1>4. t \in seen /\ i \in 1..Len(Due(t)) /\ HasRows(t, i - 1, time)
  BY <1>1 DEF CallsRight, CallInv
<1>5. Tables!Events(t) = Due(t)
  BY DEF Tables!Events, Due
<1>6. rows' = {row \in rows : row.key # Key(t, Due(t)[i], time)}
                \cup {[key |-> Key(t, Due(t)[i], time), event |-> Due(t)[i]]}
  BY <1>1 DEF Written, Put
<1>7. Tables!HasEvents(t, i - 1, time)
  BY <1>4, SameTables
<1>8. Tables!Store(t, i, time)
  BY <1>4, <1>5, <1>6, <1>7 DEF Tables!Store
<1>9. t \in 1..Len(chain)
  BY <1>4 DEF IndexerTypes
<1> QED BY <1>3, <1>4, <1>5, <1>8, <1>9 DEF Tables!Next

\* What the end of the process loses was in flight, and the cursor past it or not yet set.
LEMMA RestartIsCrash ==
  ASSUME IndexerTypes, CallsRight, NothingElseIsLost, Restart
  PROVE  Tables!Crash
<1> DEFINE gone   == {t \in Tx : InFlight(t) /\ NotRecovered(t)}
           passed == {t \in seen : cursor = 0 \/ t <= cursor}
<1>1. lost' = lost \cup gone /\ UNCHANGED <<chain, rows, cursor, seen>>
  BY DEF Restart, tableVars
<1>2. gone \in SUBSET passed
  <2>1. ASSUME NEW t \in Tx, InFlight(t) PROVE t \in seen
    BY <2>1 DEF InFlight, Busy, CallsRight, CallInv
  <2> QED BY <2>1 DEF NotRecovered
<1>3. ASSUME NEW t \in passed, Tables!Owed(t)
      PROVE  t \in gone
  <2>1. t \in seen /\ ~Indexed(t) /\ t \notin lost
    BY <1>3, SameTables DEF Tables!Owed, Tables!Settled
  <2>2. ~ToBeRecovered(t)
    <3>1. cursor \in Nat /\ t \in Nat
      BY <2>1 DEF IndexerTypes
    <3>2. cursor = 0 \/ t <= cursor
      OBVIOUS
    <3> QED BY <3>1, <3>2 DEF ToBeRecovered
  <2>3. InFlight(t)
    BY <2>1, <2>2 DEF NothingElseIsLost, Handled
  <2>4. t \in Tx
    BY <2>1, LimitsAssumption DEF IndexerTypes, Tx
  <2> QED BY <2>3, <2>4 DEF NotRecovered
<1> HIDE DEF gone
<1> QED BY <1>1, <1>2, <1>3 DEF Tables!Crash

\* Every step of the indexer is a step of EventTables, or none that its tables tell.
LEMMA StepImplementsTables ==
  ASSUME IndexerInv, IndexerNext \/ UNCHANGED indexerVars
  PROVE  Tables!Next \/ UNCHANGED Tables!tablesVars
<1> DEFINE Same == UNCHANGED <<chain, rows, cursor, seen, lost>>
<1>0. IndexerTypes /\ CallsRight /\ StageInv /\ SavedInv /\ NothingElseIsLost
  BY IndexerInvParts
<1>1. /\ seen \subseteq 1..Len(chain) /\ notifications \subseteq 1..Len(chain)
      /\ work \in [Callers -> [Tx -> Call]]
  BY <1>0 DEF IndexerTypes
<1>2. Same => UNCHANGED Tables!tablesVars
  BY DEF Tables!tablesVars
<1>3. ASSUME NEW tx \in Transactions, Confirm(tx) PROVE Tables!Next
  <2>1. Tables!Confirm(tx)
    BY <1>3 DEF Confirm, Tables!Confirm, tableVars, historyVars
  <2> QED BY <2>1 DEF Tables!Next
<1>4. ASSUME NEW t \in 1..Len(chain), seen' = seen \cup {t}, UNCHANGED <<chain, rows, cursor, lost>>
      PROVE  Tables!Next
  BY <1>4 DEF Tables!Next, Tables!TakeUp
<1>5. ASSUME NEW t \in Tx, OnLogs(t) PROVE Tables!Next
  BY <1>1, <1>4, <1>5 DEF OnLogs, StartProcessing, tableVars
<1>6. ASSUME TakeFromPage PROVE Tables!Next
  <2>1. next \in 1..Len(chain)
    BY <1>0, <1>6, PageInChain
  <2> QED BY <1>4, <1>6, <2>1 DEF TakeFromPage, StartProcessing, tableVars
<1>7. ASSUME NEW caller \in Callers, NEW t \in Tx, ProcessTx(caller, t)
      PROVE  Tables!Next \/ Same
  <2>1. CASE TransactionUnknown(caller, t)
    <3>1. t \in seen /\ t \in 1..Len(chain)
      BY <1>0, <1>1, <2>1 DEF TransactionUnknown, CallsRight, CallInv
    <3>2. Tables!GiveUp(t)
      BY <2>1, <3>1 DEF TransactionUnknown, Tables!GiveUp, tableVars
    <3> QED BY <3>1, <3>2 DEF Tables!Next
  <2>2. CASE NothingToWrite(caller, t) \/ ParseEvents(caller, t)
    BY <2>2 DEF NothingToWrite, ParseEvents, tableVars, historyVars
  <2>3. CASE WriteEvent(caller, t)
    <3>1. /\ work[caller][t].step = "write" /\ rows' = Written(caller, t)
          /\ UNCHANGED <<chain, cursor, seen, lost>>
      BY <2>3 DEF WriteEvent, historyVars
    <3> QED BY <1>0, <3>1, WriteIsStore
  <2> QED BY <1>7, <2>1, <2>2, <2>3 DEF ProcessTx
<1>8. ASSUME NEW t \in Tx, SaveLastSignature(t) PROVE Tables!Next
  <2>1. t \in seen /\ t \in 1..Len(chain) /\ (Indexed(t) \/ t \in lost)
    BY <1>0, <1>1, <1>8 DEF SaveLastSignature, SavedInv, CallsRight, CallInv, Callers
  <2>2. Tables!Settled(t)
    BY <2>1, SameTables DEF Tables!Settled
  <2>3. Tables!Save(t)
    BY <1>8, <2>2 DEF SaveLastSignature, Tables!Save, historyVars
  <2> QED BY <2>1, <2>3 DEF Tables!Next
<1>9. ASSUME NEW t \in Tx, HistoryTxFails(t) PROVE Tables!Next \/ Same
  <2>1. CASE rows' = rows
    BY <1>9, <2>1 DEF HistoryTxFails, historyVars
  <2>2. CASE work["history"][t].step = "write" /\ rows' = Written("history", t)
    <3>1. UNCHANGED <<chain, cursor, seen, lost>> /\ "history" \in Callers
      BY <1>9 DEF HistoryTxFails, historyVars, Callers
    <3> QED BY <1>0, <2>2, <3>1, WriteIsStore
  <2> QED BY <1>9, <2>1, <2>2 DEF HistoryTxFails
<1>10. CASE TailRealTime
  <2>1. Subscribe => Same
    BY DEF Subscribe, tableVars, historyVars
  <2> QED BY <1>2, <1>5, <1>7, <1>8, <1>10, <2>1 DEF TailRealTime, Callers
<1>11. CASE RecoverHistory
  <2>1. SkipRecovery \/ StartRecovery \/ ListPage \/ EndRecovery \/ PageDone \/ RecoveryCallFails
          => Same
    BY DEF SkipRecovery, StartRecovery, ListPage, EndRecovery, PageDone, RecoveryCallFails,
           tableVars, historyVars
  <2> QED BY <1>2, <1>6, <1>7, <1>9, <1>11, <2>1 DEF RecoverHistory, Callers
<1>12. CASE Restart
  BY <1>0, <1>12, RestartIsCrash DEF Tables!Next
<1>13. CASE UNCHANGED indexerVars
  BY <1>2, <1>13 DEF indexerVars, tableVars, historyVars
<1> QED BY <1>3, <1>10, <1>11, <1>12, <1>13 DEF IndexerNext

(***************************************************************************)
(* The indexer implements EventTables, for every chain, page size and      *)
(* concurrency: whatever callbacks, recovery, failed calls and restarts    *)
(* do, to the tables it is one event stored after the other, a cursor that *)
(* moves to settled transactions only, and two causes of a loss            *)
(* (realtime.ts, history.ts, processor.ts, events.ts).                     *)
(***************************************************************************)
THEOREM IndexerImplementsTables == IndexerSpec => ImplementsTables
<1>1. IndexerInit => Tables!Init
  BY DEF IndexerInit, Tables!Init
<1>2. IndexerInv /\ [IndexerNext]_indexerVars => [Tables!Next]_(Tables!tablesVars)
  BY StepImplementsTables
<1> QED BY <1>1, <1>2, IndexerInvariant, PTL DEF IndexerSpec, ImplementsTables, Tables!Spec

(***************************************************************************)
(* The cursor never runs ahead of the tables: the events of the            *)
(* transaction it names are in them, or it is one of those that were given *)
(* up, for the cursor may name what the node did not know (tailRealTime).  *)
(***************************************************************************)
THEOREM CursorIsSettled == IndexerSpec => [](cursor # 0 => Indexed(cursor) \/ cursor \in lost)
<1>1. IndexerInv => (cursor # 0 => Indexed(cursor) \/ cursor \in lost)
  BY DEF IndexerInv, SavedInv
<1> QED BY <1>1, IndexerInvariant, PTL

(***************************************************************************)
(* What is in the tables stays there: a step may replace rows, by a second *)
(* writing or by an event that shares the key, but no transaction loses    *)
(* the rows it has (PutCommand in events.ts).                              *)
(***************************************************************************)
THEOREM IndexedForGood ==
  IndexerSpec => [][\A t \in 1..Len(chain) : Indexed(t) => Indexed(t)']_indexerVars
<1>1. IndexerInv /\ [IndexerNext]_indexerVars
        => [\A t \in 1..Len(chain) : Indexed(t) => Indexed(t)']_indexerVars
  <2> SUFFICES ASSUME IndexerInv, IndexerNext, NEW t \in 1..Len(chain), Indexed(t)
               PROVE  Indexed(t)'
    OBVIOUS
  <2>1. chain \in Seq(Transactions)
    BY IndexerInvParts DEF IndexerTypes
  <2> QED BY <2>1, IndexedStays
<1> QED BY <1>1, IndexerInvariant, PTL DEF IndexerSpec
=============================================================================
