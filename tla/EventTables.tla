---------------------------- MODULE EventTables -----------------------------
(***************************************************************************)
(* What the indexer promises of its tables, with no callbacks, pages or    *)
(* pool in sight.                                                          *)
(*                                                                         *)
(* The events of transactions that were taken up are stored one by one, in *)
(* the order of the transaction, and no row is ever taken away.  A         *)
(* transaction is owed to the tables until they hold its events or it is   *)
(* lost, and it is lost for two causes only: it is given up by itself, or  *)
(* the process ends while the cursor is already past it or not yet set.    *)
(* The cursor moves to settled transactions only.                          *)
(*                                                                         *)
(* Indexer implements this specification (Indexer_proofs).                 *)
(***************************************************************************)
EXTENDS Integers, Sequences

CONSTANTS
  Transactions,  \* what a transaction may have done
  MaxTx,         \* bound on the length of the chain
  Times,         \* the times that an event may be stored with
  Key(_, _, _)   \* the key of a transaction's event stored with a time

VARIABLES
  chain,   \* the confirmed transactions
  rows,    \* the rows of the tables
  cursor,  \* the transaction to resume from, or 0
  taken,   \* transactions that were ever taken up
  lost     \* transactions that were given up

tablesVars == <<chain, rows, cursor, taken, lost>>

\* What the tables are to hold of a transaction.
Events(t) == IF chain[t].failed THEN <<>> ELSE chain[t].events

HasEvents(t, n, time) ==
  \A i \in 1..n : \E row \in rows : row.key = Key(t, Events(t)[i], time)
Complete(t) == \E time \in Times : HasEvents(t, Len(Events(t)), time)

Settled(t) == t \in taken /\ (Complete(t) \/ t \in lost)
Owed(t) == t \in taken /\ ~Settled(t)

Init ==
  /\ chain = <<>>
  /\ rows = {}
  /\ cursor = 0
  /\ taken = {}
  /\ lost = {}

Confirm(tx) ==
  /\ Len(chain) < MaxTx
  /\ chain' = Append(chain, tx)
  /\ UNCHANGED <<rows, cursor, taken, lost>>

TakeUp(t) ==
  /\ taken' = taken \cup {t}
  /\ UNCHANGED <<chain, rows, cursor, lost>>

\* The i-th event replaces what is stored under its key, when those before it are stored.
Store(t, i, time) ==
  LET event == Events(t)[i]
      key   == Key(t, event, time)
  IN  /\ t \in taken
      /\ HasEvents(t, i - 1, time)
      /\ rows' = {row \in rows : row.key # key} \cup {[key |-> key, event |-> event]}
      /\ UNCHANGED <<chain, cursor, taken, lost>>

GiveUp(t) ==
  /\ t \in taken
  /\ lost' = lost \cup {t}
  /\ UNCHANGED <<chain, rows, cursor, taken>>

Save(t) ==
  /\ Settled(t)
  /\ cursor' = t
  /\ UNCHANGED <<chain, rows, taken, lost>>

\* What is owed after the cursor will be taken up again, the rest is lost.
Crash ==
  LET passed == {t \in taken : cursor = 0 \/ t <= cursor} IN
  \E gone \in SUBSET passed :
    /\ \A t \in passed : Owed(t) => t \in gone
    /\ lost' = lost \cup gone
    /\ UNCHANGED <<chain, rows, cursor, taken>>

Next ==
  \/ \E tx \in Transactions : Confirm(tx)
  \/ \E t \in 1..Len(chain) :
       \/ TakeUp(t) \/ GiveUp(t) \/ Save(t)
       \/ \E i \in 1..Len(Events(t)), time \in Times : Store(t, i, time)
  \/ Crash

Spec == Init /\ [][Next]_tablesVars
=============================================================================
