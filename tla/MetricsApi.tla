------------------------------ MODULE MetricsApi ------------------------------
(***************************************************************************)
(* The Metrics API (off-chain/indexer-service/src/metrics-api): buys and   *)
(* dequeues by UTC day, read from the tables the indexer writes.           *)
(*                                                                         *)
(* A request reads page after page while the indexer writes: trades        *)
(* through an index ordered by time, dequeues by a scan in the order of    *)
(* the hashed key with the range applied to each page.  A trade is keyed   *)
(* by its event and moves in the index when it is written again with       *)
(* another time; a dequeue is keyed by transaction and time, and then has  *)
(* a second row.  rows is what DynamoDB shows to a reader, which lags      *)
(* behind the writes.  Formatting is left out, and the average, which is   *)
(* the total over the count.  What is reported does not depend on the      *)
(* order in which the rows are added up, so a page adds its rows in any.   *)
(***************************************************************************)
EXTENDS Integers, SequencesExt

CONSTANTS
  Trades, Dequeues,  \* transactions, numbered in the order of their hashed keys
  BlockTime,         \* BlockTime[tx]: its time in seconds
  SolDequeued,       \* SolDequeued[tx]: lamports of a dequeue
  SECONDS,           \* seconds of a day, 86400
  PERCENT,           \* the percentile reported, 95
  PageSize,          \* rows read in one page
  Days               \* days a request may name

ASSUME MetricsAssumption ==
  /\ Trades \subseteq Nat /\ Dequeues \subseteq Nat /\ Trades \cap Dequeues = {}
  /\ BlockTime \in [Trades \cup Dequeues -> Nat] /\ SolDequeued \in [Dequeues -> Nat]
  /\ SECONDS \in Nat \ {0} /\ PERCENT \in 1..100 /\ PageSize \in Nat \ {0}
  /\ Days \subseteq Nat

VARIABLES
  rows,      \* the rows of the two tables: [tx, timestamp]
  request,   \* the request and how far it has come
  standing   \* history: rows that have been there since the request began to read

metricsVars == <<rows, request, standing>>

-----------------------------------------------------------------------------
(* Days, ranges and statistics *)

Row(tx, timestamp) == [tx |-> tx, timestamp |-> timestamp]

\* The date part of the ISO string of a timestamp.
DateOf(timestamp) == timestamp \div SECONDS

FromTimestamp(from) == from * SECONDS
\* Mutant of ToTimestamp: midnight at the end of the day is included.
ToTimestampMidnight(to) == to * SECONDS + SECONDS
\* 23:59:59 of the last day; BETWEEN includes both ends.
ToTimestamp(to) == to * SECONDS + SECONDS - 1

InRange(r, from, to) == FromTimestamp(from) <= r.timestamp /\ r.timestamp <= ToTimestamp(to)

Ceiling(a, b) == (a + b - 1) \div b
\* Mutant of PercentileIndex: rounded down.
PercentileIndexFloor(n) == (n * PERCENT) \div 100
\* Math.max(0, Math.ceil(n * 0.95) - 1) of an array of n elements.
PercentileIndex(n) == IF n = 0 THEN 0 ELSE Ceiling(n * PERCENT, 100) - 1

\* The positions of the amounts, sorted by amount: [...amounts].sort((a, b) => a - b).
Ascending(amounts) ==
  CHOOSE order \in Injection(1..Cardinality(DOMAIN amounts), DOMAIN amounts) :
    \A i, j \in DOMAIN order : i < j => amounts[order[i]] <= amounts[order[j]]
Percentile(amounts) ==
  amounts[Ascending(amounts)[PercentileIndex(Cardinality(DOMAIN amounts)) + 1]]

\* The positions of the rows of one day, and what is reported of them.
OnDay(items, day) == {i \in DOMAIN items : DateOf(items[i].timestamp) = day}
Bucket(resource, items, day) ==
  IF resource = "buys" THEN [count |-> Cardinality(OnDay(items, day)), total |-> 0, p95 |-> 0]
  ELSE LET amounts == [i \in OnDay(items, day) |-> SolDequeued[items[i].tx]]
       IN  [count |-> Cardinality(OnDay(items, day)), total |-> SumFunction(amounts),
            p95 |-> IF OnDay(items, day) = {} THEN 0 ELSE Percentile(amounts)]

-----------------------------------------------------------------------------
(* The tables *)

\* The row that a write replaces has the same key.
SameKey(r, s) == r.tx = s.tx /\ (r.tx \in Trades \/ r.timestamp = s.timestamp)

\* The indexer stores an event, with the time 0 when the node does not know it.
PutRow ==
  /\ \E tx \in Trades \cup Dequeues : \E timestamp \in {BlockTime[tx], 0} :
       rows' = {r \in rows : ~SameKey(r, Row(tx, timestamp))} \cup {Row(tx, timestamp)}
  /\ standing' = standing \cap rows'
  /\ UNCHANGED request

\* Where a row stands in the order a query or a scan follows.
Before(r, s) ==
  IF r.tx \in Trades
  THEN r.timestamp < s.timestamp \/ (r.timestamp = s.timestamp /\ r.tx < s.tx)
  ELSE r.tx < s.tx \/ (r.tx = s.tx /\ r.timestamp < s.timestamp)

\* Mutant of Ahead: the page begins with the row the last one ended with.
AheadInclusive(last) ==
  {r \in rows : /\ IF request.resource = "buys" THEN r.tx \in Trades /\ InRange(r, request.from, request.to)
                                                ELSE r.tx \in Dequeues
                /\ \A s \in last : s = r \/ Before(s, r)}

\* What is left to read after LastEvaluatedKey; last holds that row, or none.
Ahead(last) ==
  {r \in rows : /\ IF request.resource = "buys" THEN r.tx \in Trades /\ InRange(r, request.from, request.to)
                                                ELSE r.tx \in Dequeues
                /\ \A s \in last : Before(s, r)}

-----------------------------------------------------------------------------
(* Requests *)

Resources == {"buys", "dequeues", "other"}
Dates == {"ok", "missing", "malformed", "impossible"}   \* what the two dates are

NoRequest == [stage |-> "idle", resource |-> "other", from |-> 0, to |-> 0, last |-> {},
              items |-> << >>, status |-> 0, buckets |-> << >>]

MetricsInit ==
  /\ rows = {}
  /\ request = NoRequest
  /\ standing = {}

Respond(status) == request' = [request EXCEPT !.stage = "answered", !.status = status]

\* The handler validates the dates, then routes.  A date that does not exist is NaN, and
\* BETWEEN refuses NaN and bounds in the wrong order: the first read throws.
Receive(resource, dates, from, to) ==
  /\ request.stage = "idle"
  /\ request' = [NoRequest EXCEPT !.resource = resource, !.from = from, !.to = to,
                    !.stage = IF dates = "ok" /\ resource # "other" /\ from <= to
                              THEN "reading" ELSE "answered",
                    !.status = CASE dates \in {"missing", "malformed"} -> 400
                                 [] dates \in {"ok", "impossible"} /\ resource = "other" -> 404
                                 [] dates = "impossible" /\ resource # "other" -> 500
                                 [] OTHER -> IF from <= to THEN 0 ELSE 500]
  /\ standing' = {r \in rows : r.tx \in (IF resource = "buys" THEN Trades ELSE Dequeues)}
  /\ UNCHANGED rows

\* The filter of the scan drops rows of other days from the page that was read.
Filtered(page) == {r \in page : InRange(r, request.from, request.to)}

\* The response: a bucket for each day of the range.
Response(items) ==
  [day \in request.from..request.to |-> Bucket(request.resource, items, day)]

\* Mutant of LoopsOn: a page without rows ends the loop.
LoopsOnRows(key, page) == key # {} /\ page # {}
\* do { ... } while (lastEvaluatedKey): a page may be empty in the middle.
LoopsOn(key, page) == key # {}

\* One Query or Scan: at most PageSize rows, the first ones after the last key, and the last
\* of them as LastEvaluatedKey, which is missing only at the end, where it may also be set.
IsPage(page, key) ==
  /\ Cardinality(page) <= PageSize
  /\ \A r \in page, s \in Ahead(request.last) \ page : Before(r, s)
  /\ key = {} => page = Ahead(request.last)
  /\ \A k \in key : \A r \in page : r = k \/ Before(r, k)

ReadPage ==
  /\ request.stage = "reading"
  /\ \E page \in SUBSET Ahead(request.last) :
     \E key \in {{}} \cup {{r} : r \in page} :
       /\ IsPage(page, key)
       /\ LET items == request.items \o SetToSeq(Filtered(page))
          IN  request' = IF LoopsOn(key, Filtered(page))
                         THEN [request EXCEPT !.items = items, !.last = key]
                         ELSE [request EXCEPT !.items = items, !.stage = "answered",
                                              !.status = 200, !.buckets = Response(items)]
  /\ UNCHANGED <<rows, standing>>

\* A read fails: the handler answers with an internal error.
ReadFails ==
  /\ request.stage = "reading"
  /\ Respond(500)
  /\ UNCHANGED <<rows, standing>>

\* The response has been sent.
Done ==
  /\ request.stage = "answered"
  /\ request' = NoRequest
  /\ standing' = {}
  /\ UNCHANGED rows

MetricsNext ==
  \/ PutRow
  \/ \E resource \in Resources, dates \in Dates, from, to \in Days : Receive(resource, dates, from, to)
  \/ ReadPage \/ ReadFails
  \/ Done

MetricsSpec == MetricsInit /\ [][MetricsNext]_metricsVars

-----------------------------------------------------------------------------
(* Properties *)

MetricsTypeOK ==
  /\ DOMAIN request = DOMAIN NoRequest
  /\ \A r \in rows : r.tx \in Trades \cup Dequeues /\ r.timestamp \in {0, BlockTime[r.tx]}
  /\ standing \subseteq rows
  /\ request.stage \in {"idle", "reading", "answered"}
  /\ request.resource \in Resources
  /\ request.status \in {0, 200, 400, 404, 500}
  /\ request.status = 0 <=> request.stage # "answered"

(***************************************************************************)
(* A response counts every row of its range that was there from the first  *)
(* page to the last, and no row twice, however the pages fall and whatever *)
(* is written meanwhile (queryBuyEvents, queryDequeueEvents).              *)
(***************************************************************************)
StandingRowsAreCounted ==
  request.status = 200 =>
    \A r \in standing :
      InRange(r, request.from, request.to) => r \in Range(request.items)

RowsAreCountedOnce == IsInjective(request.items)

(***************************************************************************)
(* The buckets of a response hold all the rows that were read: the range   *)
(* of the query, which ends at 23:59:59 of the last day, and the days of   *)
(* the buckets, which end before midnight, are the same.                   *)
(***************************************************************************)
BucketsHoldAllRows ==
  request.status = 200 =>
    SumFunction([day \in DOMAIN request.buckets |-> request.buckets[day].count]) = Len(request.items)

(***************************************************************************)
(* The percentile reported of a day is the nearest rank: PERCENT of the    *)
(* amounts are at most that, fewer are below it (handleDequeuesMetrics).   *)
(***************************************************************************)
PercentileIsNearestRank ==
  request.status = 200 /\ request.resource = "dequeues" =>
    \A day \in DOMAIN request.buckets :
      LET dayItems  == OnDay(request.items, day)
          p95       == request.buckets[day].p95
          Amount(i) == SolDequeued[request.items[i].tx]
          Share(S)  == 100 * Cardinality(S)
      IN  dayItems # {} =>
            /\ Share({i \in dayItems : Amount(i) <= p95}) >= PERCENT * Cardinality(dayItems)
            /\ Share({i \in dayItems : Amount(i) < p95}) < PERCENT * Cardinality(dayItems)
=============================================================================
