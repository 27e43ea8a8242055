----------------------------- MODULE MCIndexer -----------------------------
(* The indexer on a small chain.                                           *)
EXTENDS Indexer

\* A failed trade, two dequeues in one transaction, which share a key, and two
\* events that go to different tables.
Emitted(name, data) == [name |-> name, data |-> data]
MCTransactions ==
  {[failed |-> TRUE, events |-> <<Emitted("TradeEvent", 0)>>],
   [failed |-> FALSE, events |-> <<Emitted("FillsDequeued", 1), Emitted("FillsDequeued", 2)>>],
   [failed |-> FALSE, events |-> <<Emitted("DenyListAddressAdded", 1), Emitted("TradeEvent", 0)>>]}

\* Enough to tell pages apart.
OneTrade == {[failed |-> FALSE, events |-> <<Emitted("TradeEvent", 0)>>]}
=============================================================================
