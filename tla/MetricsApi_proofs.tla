-------------------------- MODULE MetricsApi_proofs --------------------------
(***************************************************************************)
(* What the metrics API computes of times and ranks, for every length of a *)
(* day and every percentile, and what a request has counted when it is     *)
(* answered, for any tables, pages and writes meanwhile.                   *)
(*                                                                         *)
(* MetricsInv follows a request from page to page: what was there all the  *)
(* time has been counted or is still ahead of the last key, and nothing    *)
(* that has been counted is.                                               *)
(***************************************************************************)
EXTENDS MetricsApi, SharedLemmas, TLAPS

LEMMA LaterDays ==
  ASSUME NEW a \in Nat, NEW b \in Nat, a < b, NEW d \in Nat \ {0}
  PROVE  a * d + d <= b * d
<1>1. PICK k \in Nat : b = a + 1 + k
  <2>1. b = a + 1 + (b - a - 1) /\ b - a - 1 \in Nat
    OBVIOUS
  <2>2. QED
    BY <2>1
<1>2. b * d = a * d + d + k * d /\ k * d \in Nat /\ a * d \in Nat
  BY <1>1
<1>3. QED
  BY <1>2

(***************************************************************************)
(* The range of the query and the buckets of the response agree: a time    *)
(* lies between the first second of from and 23:59:59 of to exactly when   *)
(* its date is one of theirs (validateDateRange against toISOString), so   *)
(* no row that is read falls between the buckets.                          *)
(***************************************************************************)
THEOREM RangeIsDays ==
  ASSUME NEW from \in Nat, NEW to \in Nat, NEW r, r.timestamp \in Nat
  PROVE  InRange(r, from, to) <=> DateOf(r.timestamp) \in from..to
<1> DEFINE t == r.timestamp
           day == t \div SECONDS
<1>1. day \in Nat /\ day * SECONDS <= t /\ t < day * SECONDS + SECONDS
  BY MetricsAssumption, DivisionBounds
<1>2. SECONDS \in Nat /\ from * SECONDS \in Nat /\ to * SECONDS \in Nat /\ day * SECONDS \in Nat
  BY <1>1, MetricsAssumption
<1> HIDE DEF day
<1>3. from <= day <=> from * SECONDS <= t
  <2>1. ASSUME day < from PROVE t < from * SECONDS
    BY <1>1, <1>2, <2>1, LaterDays, MetricsAssumption
  <2>2. ASSUME from < day PROVE from * SECONDS <= t
    <3>1. from * SECONDS + SECONDS <= day * SECONDS
      BY <1>1, <2>2, LaterDays, MetricsAssumption
    <3>2. QED
      BY <1>1, <1>2, <3>1
  <2>3. day < from \/ day = from \/ from < day
    BY <1>1
  <2>4. QED
    BY <1>1, <1>2, <2>1, <2>2, <2>3
<1>4. day <= to <=> t <= to * SECONDS + SECONDS - 1
  <2>1. ASSUME to < day PROVE to * SECONDS + SECONDS <= t
    <3>1. to * SECONDS + SECONDS <= day * SECONDS
      BY <1>1, <2>1, LaterDays, MetricsAssumption
    <3>2. QED
      BY <1>1, <1>2, <3>1
  <2>2. ASSUME day < to PROVE t < to * SECONDS
    <3>1. day * SECONDS + SECONDS <= to * SECONDS
      BY <1>1, <2>2, LaterDays, MetricsAssumption
    <3>2. QED
      BY <1>1, <1>2, <3>1
  <2>3. day < to \/ day = to \/ to < day
    BY <1>1
  <2>4. QED
    BY <1>1, <1>2, <2>1, <2>2, <2>3
<1>5. QED
  BY <1>1, <1>3, <1>4 DEF InRange, FromTimestamp, ToTimestamp, DateOf, day

(***************************************************************************)
(* The index of the percentile never leaves the sorted array, and it is    *)
(* the smallest whose rank reaches PERCENT of the amounts                  *)
(* (handleDequeuesMetrics, dequeues.ts:46).                                *)
(***************************************************************************)
THEOREM PercentileIndexIsNearestRank ==
  ASSUME NEW n \in Nat \ {0}
  PROVE  /\ PercentileIndex(n) \in 0..n-1
         /\ 100 * (PercentileIndex(n) + 1) >= PERCENT * n
         /\ 100 * PercentileIndex(n) < PERCENT * n
<1> DEFINE m == n * PERCENT
           c == (m + 99) \div 100
<1>1. PERCENT \in 1..100
  BY MetricsAssumption
<1>2. m \in Nat /\ m > 0 /\ m <= 100 * n /\ m = PERCENT * n
  <2>1. PICK j \in Nat : PERCENT = 1 + j
    BY <1>1
  <2>2. PICK k \in Nat : 100 = PERCENT + k
    BY <1>1
  <2>3. n * PERCENT = n + n * j /\ n * j \in Nat
    BY <2>1
  <2>4. 100 * n = n * PERCENT + n * k /\ n * k \in Nat
    <3>1. n * (PERCENT + k) = n * PERCENT + n * k
      BY <1>1
    <3>2. QED
      BY <2>2, <3>1
  <2>5. QED
    BY <1>1, <2>3, <2>4
<1> HIDE DEF m
<1>3. c \in Nat /\ m <= 100 * c /\ 100 * c < m + 100
  BY <1>2
<1> HIDE DEF c
<1>4. PercentileIndex(n) = c - 1
  BY DEF PercentileIndex, Ceiling, c, m
<1>5. QED
  BY <1>2, <1>3, <1>4

(***************************************************************************)
(* Sorting the amounts of a day and taking the element at that index gives *)
(* the nearest rank (dequeues.ts:45-47).                                   *)
(***************************************************************************)
LEMMA PercentileHasRank ==
  ASSUME NEW D, IsFiniteSet(D), D # {}, NEW a \in [D -> Nat]
  PROVE  /\ 100 * Cardinality({d \in D : a[d] <= Percentile(a)}) >= PERCENT * Cardinality(D)
         /\ 100 * Cardinality({d \in D : a[d] < Percentile(a)}) < PERCENT * Cardinality(D)
<1> DEFINE n == Cardinality(D)
           order == Ascending(a)
           index == PercentileIndex(n)
           p == Percentile(a)
           AtMost == {d \in D : a[d] <= p}
           Below  == {d \in D : a[d] < p}
<1>1. n \in Nat \ {0} /\ PERCENT \in Nat
  BY FS_CardinalityType, FS_EmptySet, MetricsAssumption
<1>2. Sorts(order, a, D)
  <2>1. \E o : Sorts(o, a, D)
    BY SortingExists
  <2>2. DOMAIN a = D
    OBVIOUS
  <2>3. \E o \in Injection(1..n, D) : \A i, j \in DOMAIN o : i < j => a[o[i]] <= a[o[j]]
    BY <2>1 DEF Sorts
  <2>4. QED
    BY <2>2, <2>3 DEF Ascending, Sorts
<1>3. p = a[order[index + 1]]
  BY DEF Percentile
<1>4. index \in 0..n-1 /\ 100 * (index + 1) >= PERCENT * n /\ 100 * index < PERCENT * n
  <2> HIDE DEF n
  <2>1. QED
    BY <1>1, PercentileIndexIsNearestRank
<1> HIDE DEF n, order, index, p
<1>5. /\ order \in [1..n -> D] /\ IsInjective(order) /\ order \in Injection(1..n, D)
      /\ \A i, j \in 1..n : i < j => a[order[i]] <= a[order[j]]
  BY <1>2 DEF Sorts, Injection, n
<1>6. \A d \in D : \E i \in 1..n : order[i] = d
  <2>1. IsFiniteSet(1..n) /\ Cardinality(1..n) = n
    BY <1>1, FS_Interval
  <2>2. order \in Surjection(1..n, D)
    BY <1>5, <2>1, FS_Injection DEF n
  <2>3. QED
    BY <2>2 DEF Surjection
<1>7. index + 1 \in 1..n /\ index \in Nat /\ p \in Nat
  BY <1>1, <1>3, <1>4, <1>5
<1>8. IsFiniteSet(AtMost) /\ IsFiniteSet(Below)
  BY FS_Subset
<1>9. index + 1 <= Cardinality(AtMost) /\ Cardinality(AtMost) \in Nat
  <2> DEFINE f == [i \in 1..index + 1 |-> order[i]]
  <2>1. ASSUME NEW i \in 1..index + 1 PROVE i \in 1..n /\ order[i] \in AtMost
    <3>1. i \in 1..n /\ (i = index + 1 \/ i < index + 1)
      BY <1>1, <1>7, <2>1
    <3>2. a[order[i]] <= p /\ order[i] \in D
      BY <1>3, <1>5, <1>7, <3>1
    <3>3. QED
      BY <3>1, <3>2
  <2>2. f \in [1..index + 1 -> AtMost]
    BY <2>1
  <2>3. IsInjective(f)
    BY <1>5, <2>1 DEF IsInjective
  <2> HIDE DEF AtMost, f
  <2>4. f \in Injection(1..index + 1, AtMost)
    BY <2>2, <2>3 DEF Injection
  <2>5. Cardinality(1..index + 1) <= Cardinality(AtMost)
    BY <1>8, <2>4, FS_Injection
  <2>6. Cardinality(1..index + 1) = index + 1
    <3> DEFINE k == index + 1
    <3>1. k \in Nat \ {0}
      BY <1>7
    <3> HIDE DEF k
    <3>2. Cardinality(1..k) = k
      BY <3>1, FS_Interval
    <3>3. QED
      BY <3>2 DEF k
  <2>7. QED
    BY <1>8, <2>5, <2>6, FS_CardinalityType
<1>10. Cardinality(Below) <= index /\ Cardinality(Below) \in Nat
  <2> DEFINE f == [d \in Below |-> CHOOSE i \in 1..n : order[i] = d]
  <2>1. ASSUME NEW d \in Below PROVE f[d] \in 1..n /\ order[f[d]] = d
    BY <1>6
  <2>2. ASSUME NEW d \in Below PROVE f[d] \in 1..index
    <3> DEFINE i == f[d]
    <3>1. i \in 1..n /\ order[i] = d /\ a[d] < p /\ a[d] \in Nat
      BY <2>1
    <3> HIDE DEF i, f
    <3>2. ~(index + 1 < i)
      BY <1>3, <1>5, <1>7, <3>1
    <3>3. i # index + 1
      BY <1>3, <1>7, <3>1
    <3>4. QED
      BY <1>7, <3>1, <3>2, <3>3 DEF i
  <2>3. f \in [Below -> 1..index]
    BY <2>2
  <2>4. IsInjective(f)
    BY <2>1 DEF IsInjective
  <2> HIDE DEF Below, f
  <2>5. f \in Injection(Below, 1..index)
    BY <2>3, <2>4 DEF Injection
  <2>6. IsFiniteSet(1..index) /\ Cardinality(1..index) = index
    <3>1. CASE index = 0
      <4>1. 1..index = {}
        BY <3>1
      <4>2. QED
        BY <3>1, <4>1, FS_EmptySet
    <3>2. CASE index # 0
      BY <1>7, <3>2, FS_Interval
    <3>3. QED
      BY <3>1, <3>2
  <2>7. QED
    BY <1>8, <2>5, <2>6, FS_Injection, FS_CardinalityType
<1> DEFINE atMost == Cardinality(AtMost)
           below  == Cardinality(Below)
<1> HIDE DEF atMost, below
<1>11. 100 * atMost >= PERCENT * n /\ 100 * below < PERCENT * n
  <2>1. PERCENT * n \in Int
    BY <1>1
  <2> DEFINE m == PERCENT * n
  <2> HIDE DEF m
  <2>2. m \in Int /\ 100 * (index + 1) >= m /\ 100 * index < m
    BY <1>4, <2>1 DEF m
  <2>3. index + 1 <= atMost /\ atMost \in Nat /\ below <= index /\ below \in Nat
    BY <1>9, <1>10 DEF atMost, below
  <2>4. 100 * atMost >= m /\ 100 * below < m
    BY <1>7, <2>2, <2>3
  <2>5. QED
    BY <2>4 DEF m
<1>12. QED
  BY <1>11 DEF atMost, below, n, p

-----------------------------------------------------------------------------
(* The order of a table, and what a page adds *)

Rows == [tx : Trades \cup Dequeues, timestamp : Nat]
Table(resource) == IF resource = "buys" THEN Trades ELSE Dequeues

LEMMA BeforeIsStrict ==
  ASSUME NEW resource, NEW r \in Rows, NEW s \in Rows, NEW t \in Rows,
         r.tx \in Table(resource), s.tx \in Table(resource), t.tx \in Table(resource)
  PROVE  /\ ~Before(r, r)
         /\ Before(r, s) /\ Before(s, t) => Before(r, t)
<1>1. r.tx \in Nat /\ s.tx \in Nat /\ t.tx \in Nat
  BY MetricsAssumption DEF Rows
<1>2. r.timestamp \in Nat /\ s.timestamp \in Nat /\ t.timestamp \in Nat
  BY DEF Rows
<1>3. (r.tx \in Trades <=> s.tx \in Trades)
  BY MetricsAssumption DEF Table
<1>4. QED
  BY <1>1, <1>2, <1>3 DEF Before

LEMMA AppendPage ==
  ASSUME NEW E, NEW s \in Seq(E), NEW P \in SUBSET E, IsFiniteSet(P), IsInjective(s),
         \A x \in P : x \notin Range(s)
  PROVE  /\ s \o SetToSeq(P) \in Seq(E)
         /\ IsInjective(s \o SetToSeq(P))
         /\ Range(s \o SetToSeq(P)) = Range(s) \cup P
<1> DEFINE t == SetToSeq(P)
           n == Cardinality(P)
           new == s \o t
<1>1. /\ t \in [1..n -> P] /\ IsInjective(t) /\ n \in Nat
      /\ \A x \in P : \E i \in 1..n : t[i] = x
  BY SetToSeqIsBijection
<1> HIDE DEF t, n
<1>2. t \in Seq(P) /\ t \in Seq(E) /\ Len(t) = n
  BY <1>1
<1>3. /\ new \in Seq(E) /\ Len(new) = Len(s) + n
      /\ \A i \in 1..Len(s) : new[i] = s[i]
      /\ \A i \in Len(s) + 1..Len(s) + n : new[i] = t[i - Len(s)]
  BY <1>2
<1>4. Len(s) \in Nat /\ DOMAIN s = 1..Len(s) /\ DOMAIN t = 1..n /\ DOMAIN new = 1..Len(s) + n
  BY <1>1, <1>2, <1>3
<1> HIDE DEF new
<1>5. ASSUME NEW i \in DOMAIN new
      PROVE  \/ i \in 1..Len(s) /\ new[i] = s[i] /\ new[i] \in Range(s)
             \/ i - Len(s) \in 1..n /\ new[i] = t[i - Len(s)] /\ new[i] \in P
  <2>1. CASE i <= Len(s)
    BY <1>3, <1>4, <2>1 DEF Range
  <2>2. CASE Len(s) < i
    <3>1. i - Len(s) \in 1..n /\ i \in Len(s) + 1..Len(s) + n
      BY <1>1, <1>4, <2>2
    <3>2. QED
      BY <1>1, <1>3, <3>1
  <2>3. QED
    BY <1>1, <1>4, <2>1, <2>2
<1>6. IsInjective(new)
  <2> SUFFICES ASSUME NEW i \in DOMAIN new, NEW j \in DOMAIN new, new[i] = new[j] PROVE i = j
    BY DEF IsInjective
  <2>1. CASE i \in 1..Len(s) /\ j \in 1..Len(s)
    BY <1>3, <1>4, <2>1 DEF IsInjective
  <2>2. CASE /\ i - Len(s) \in 1..n /\ new[i] = t[i - Len(s)]
             /\ j - Len(s) \in 1..n /\ new[j] = t[j - Len(s)]
    <3>1. i - Len(s) = j - Len(s)
      BY <1>1, <1>4, <2>2 DEF IsInjective
    <3>2. QED
      BY <1>1, <1>4, <3>1
  <2>3. QED
    BY <1>5, <2>1, <2>2
<1>7. Range(new) = Range(s) \cup P
  <2>1. Range(new) \subseteq Range(s) \cup P
    BY <1>5 DEF Range
  <2>2. ASSUME NEW x \in Range(s) PROVE x \in Range(new)
    <3>1. PICK i \in 1..Len(s) : s[i] = x
      BY <1>4 DEF Range
    <3>2. i \in DOMAIN new /\ new[i] = x
      BY <1>1, <1>3, <1>4, <3>1
    <3>3. QED
      BY <3>2 DEF Range
  <2>3. ASSUME NEW x \in P PROVE x \in Range(new)
    <3>1. PICK i \in 1..n : t[i] = x
      BY <1>1
    <3>2. Len(s) + i \in DOMAIN new /\ Len(s) + i \in Len(s) + 1..Len(s) + n
          /\ (Len(s) + i) - Len(s) = i
      BY <1>1, <1>4
    <3>3. new[Len(s) + i] = x
      BY <1>3, <3>1, <3>2
    <3>4. QED
      BY <3>2, <3>3 DEF Range
  <2>4. QED
    BY <2>1, <2>2, <2>3
<1>8. QED
  BY <1>3, <1>6, <1>7 DEF new, t

-----------------------------------------------------------------------------
(***************************************************************************)
(* The types of rows and requests; a request has its status exactly when   *)
(* it is answered, and the rows that stood are rows still.                 *)
(***************************************************************************)
THEOREM MetricsTypeCorrect == MetricsSpec => []MetricsTypeOK
<1>1. MetricsInit => MetricsTypeOK
  BY DEF MetricsInit, MetricsTypeOK, NoRequest, Resources
<1>2. MetricsTypeOK /\ [MetricsNext]_metricsVars => MetricsTypeOK'
  <2> SUFFICES ASSUME MetricsTypeOK, [MetricsNext]_metricsVars PROVE MetricsTypeOK'
    OBVIOUS
  <2>1. CASE PutRow
    BY <2>1 DEF PutRow, MetricsTypeOK, Row
  <2>2. ASSUME NEW resource \in Resources, NEW dates \in Dates, NEW from \in Days, NEW to \in Days,
               Receive(resource, dates, from, to)
        PROVE  MetricsTypeOK'
    BY <2>2 DEF Receive, MetricsTypeOK, NoRequest, Resources, Dates
  <2>3. CASE ReadPage
    BY <2>3 DEF ReadPage, MetricsTypeOK, LoopsOn, NoRequest
  <2>4. CASE ReadFails
    BY <2>4 DEF ReadFails, Respond, MetricsTypeOK, NoRequest
  <2>5. CASE Done
    BY <2>5 DEF Done, MetricsTypeOK, NoRequest, Resources
  <2>6. CASE UNCHANGED metricsVars
    BY <2>6 DEF metricsVars, MetricsTypeOK
  <2>7. QED
    BY <2>1, <2>2, <2>3, <2>4, <2>5, <2>6 DEF MetricsNext
<1>3. QED
  BY <1>1, <1>2, PTL DEF MetricsSpec

-----------------------------------------------------------------------------
(* A request from page to page *)

RowsInv ==
  /\ IsFiniteSet(rows) /\ rows \subseteq Rows
  /\ standing \subseteq rows
  /\ request.from \in Nat /\ request.to \in Nat

\* What has been counted: rows of the table and the range, each once.
ItemsInv ==
  /\ request.items \in Seq(Rows) /\ IsInjective(request.items)
  /\ \A r \in Range(request.items) :
       r.tx \in Table(request.resource) /\ InRange(r, request.from, request.to)

\* Between two pages: nothing counted is ahead of the last key, and every row that has
\* stood since the first page is counted or ahead.
ReadingInv ==
  request.stage = "reading" =>
    /\ request.resource \in {"buys", "dequeues"}
    /\ \A r \in standing : r.tx \in Table(request.resource)
    /\ request.last \subseteq Rows
    /\ \A l \in request.last : l.tx \in Table(request.resource)
    /\ \A r \in Range(request.items) : \E l \in request.last : r = l \/ Before(r, l)
    /\ \A r \in standing : InRange(r, request.from, request.to) =>
         r \in Range(request.items) \/ r \in Ahead(request.last)

AnsweredInv ==
  request.status = 200 =>
    /\ request.resource \in {"buys", "dequeues"}
    /\ request.buckets = Response(request.items)
    /\ \A r \in standing : InRange(r, request.from, request.to) => r \in Range(request.items)

MetricsInv == MetricsTypeOK /\ RowsInv /\ ItemsInv /\ ReadingInv /\ AnsweredInv

LEMMA RequestFields ==
  ASSUME MetricsTypeOK
  PROVE  \A f \in {"stage", "resource", "from", "to", "last", "items", "status", "buckets"} :
           f \in DOMAIN request
  BY DEF MetricsTypeOK, NoRequest

LEMMA RowIsRow ==
  ASSUME NEW tx \in Trades \cup Dequeues, NEW timestamp \in {BlockTime[tx], 0}
  PROVE  Row(tx, timestamp) \in Rows
  BY MetricsAssumption DEF Row, Rows

\* Nothing changes for a request when a row is written, but what stands.
LEMMA PutRowKeepsInv ==
  ASSUME MetricsInv, PutRow
  PROVE  RowsInv' /\ ItemsInv' /\ ReadingInv' /\ AnsweredInv'
<1>0. PICK tx \in Trades \cup Dequeues : \E timestamp \in {BlockTime[tx], 0} :
        rows' = {r \in rows : ~SameKey(r, Row(tx, timestamp))} \cup {Row(tx, timestamp)}
  BY DEF PutRow
<1>1. PICK timestamp \in {BlockTime[tx], 0} :
        rows' = {r \in rows : ~SameKey(r, Row(tx, timestamp))} \cup {Row(tx, timestamp)}
  BY <1>0
<1>2. request' = request /\ standing' = standing \cap rows'
  BY DEF PutRow
<1>3. RowsInv'
  <2> DEFINE kept == {r \in rows : ~SameKey(r, Row(tx, timestamp))}
  <2>1. IsFiniteSet(kept) /\ kept \subseteq rows
    BY FS_Subset DEF MetricsInv, RowsInv
  <2> HIDE DEF kept
  <2>2. IsFiniteSet(kept \cup {Row(tx, timestamp)})
    BY <2>1, FS_AddElement
  <2>3. rows' = kept \cup {Row(tx, timestamp)}
    BY <1>1 DEF kept
  <2>4. QED
    BY <1>2, <2>1, <2>2, <2>3, RowIsRow DEF MetricsInv, RowsInv
<1>4. ItemsInv'
  BY <1>2 DEF MetricsInv, ItemsInv
<1>5. ReadingInv'
  <2> SUFFICES ASSUME request.stage = "reading" PROVE ReadingInv'
    BY <1>2 DEF ReadingInv
  <2>1. ASSUME NEW r \in standing', InRange(r, request.from, request.to), r \in Ahead(request.last)
        PROVE  r \in Ahead(request.last)'
    BY <1>2, <2>1 DEF Ahead
  <2>2. QED
    BY <1>2, <2>1 DEF MetricsInv, ReadingInv
<1>6. AnsweredInv'
  BY <1>2 DEF MetricsInv, AnsweredInv, Response
<1>7. QED
  BY <1>3, <1>4, <1>5, <1>6

\* A request begins with nothing counted, everything ahead.
LEMMA ReceiveKeepsInv ==
  ASSUME MetricsInv, NEW resource \in Resources, NEW dates \in Dates, NEW from \in Days, NEW to \in Days,
         Receive(resource, dates, from, to)
  PROVE  RowsInv' /\ ItemsInv' /\ ReadingInv' /\ AnsweredInv'
<1>1. /\ request'.resource = resource /\ request'.from = from /\ request'.to = to
      /\ request'.last = {} /\ request'.items = << >> /\ request'.status # 200
      /\ request'.stage = "reading" => resource # "other"
  BY DEF Receive, NoRequest, Dates
<1>2. /\ rows' = rows
      /\ standing' = {r \in rows : r.tx \in Table(resource)}
  BY DEF Receive, Table
<1>3. RowsInv'
  BY <1>1, <1>2, MetricsAssumption DEF MetricsInv, RowsInv
<1>4. ItemsInv'
  BY <1>1 DEF ItemsInv, IsInjective, Range
<1>5. ReadingInv'
  <2> SUFFICES ASSUME request'.stage = "reading" PROVE ReadingInv'
    BY DEF ReadingInv
  <2>1. resource \in {"buys", "dequeues"}
    BY <1>1 DEF Resources
  <2>2. Range(request'.items) = {}
    BY <1>1 DEF Range
  <2>3. ASSUME NEW r \in standing', InRange(r, from, to) PROVE r \in Ahead(request.last)'
    BY <1>1, <1>2, <2>3 DEF Ahead, Table
  <2>4. QED
    BY <1>1, <1>2, <2>1, <2>2, <2>3 DEF ReadingInv
<1>6. AnsweredInv'
  BY <1>1 DEF AnsweredInv
<1>7. QED
  BY <1>3, <1>4, <1>5, <1>6

\* The facts of a page: its rows are rows of the table, none of them counted before.
LEMMA PageIsNew ==
  ASSUME MetricsInv, request.stage = "reading", NEW page \in SUBSET Ahead(request.last)
  PROVE  /\ IsFiniteSet(Filtered(page)) /\ Filtered(page) \subseteq Rows /\ page \subseteq Rows
         /\ \A r \in page : r.tx \in Table(request.resource) /\ r \notin Range(request.items)
         /\ \A r \in Filtered(page) : r \in page /\ InRange(r, request.from, request.to)
<1>1. page \subseteq rows /\ Filtered(page) \subseteq page
  BY DEF Ahead, Filtered
<1>2. IsFiniteSet(Filtered(page)) /\ page \subseteq Rows
  BY <1>1, FS_Subset DEF MetricsInv, RowsInv
<1>3. ASSUME NEW r \in page
      PROVE  r.tx \in Table(request.resource) /\ r \notin Range(request.items)
  <2>1. r.tx \in Table(request.resource) /\ \A l \in request.last : Before(l, r)
    BY DEF Ahead, Table
  <2>2. SUFFICES ASSUME r \in Range(request.items) PROVE FALSE
    BY <2>1
  <2>3. PICK l \in request.last : r = l \/ Before(r, l)
    BY <2>2 DEF MetricsInv, ReadingInv
  <2>4. l \in Rows /\ l.tx \in Table(request.resource) /\ r \in Rows
    BY <1>2 DEF MetricsInv, ReadingInv
  <2>5. QED
    BY <2>1, <2>3, <2>4, BeforeIsStrict
<1>4. QED
  BY <1>1, <1>2, <1>3 DEF Filtered

\* A page adds its rows of the range; the rest is ahead of the new key.
LEMMA ReadPageKeepsInv ==
  ASSUME MetricsInv, ReadPage
  PROVE  RowsInv' /\ ItemsInv' /\ ReadingInv' /\ AnsweredInv'
<1> DEFINE
      Items(page) == request.items \o SetToSeq(Filtered(page))
      Page(page, key) ==
        /\ IsPage(page, key)
        /\ request' = IF LoopsOn(key, Filtered(page))
                      THEN [request EXCEPT !.items = Items(page), !.last = key]
                      ELSE [request EXCEPT !.items = Items(page), !.stage = "answered",
                                           !.status = 200, !.buckets = Response(Items(page))]
<1>0. PICK page \in SUBSET Ahead(request.last) : \E key \in {{}} \cup {{r} : r \in page} : Page(page, key)
  BY DEF ReadPage
<1>1. PICK key \in {{}} \cup {{r} : r \in page} : Page(page, key)
  BY <1>0
<1> DEFINE items == Items(page)
<1> HIDE DEF Items
<1>2. request.stage = "reading" /\ rows' = rows /\ standing' = standing
  BY DEF ReadPage
<1>3. /\ request'.items = items
      /\ request'.resource = request.resource /\ request'.from = request.from /\ request'.to = request.to
      /\ IF key # {}
         THEN /\ request'.stage = "reading" /\ request'.last = key
              /\ request'.status = request.status
         ELSE /\ request'.stage = "answered" /\ request'.buckets = Response(items)
  BY <1>1, <1>2, RequestFields DEF MetricsInv, LoopsOn
<1>4. /\ IsFiniteSet(Filtered(page)) /\ Filtered(page) \subseteq Rows /\ page \subseteq Rows
      /\ \A r \in page : r.tx \in Table(request.resource) /\ r \notin Range(request.items)
      /\ \A r \in Filtered(page) : r \in page /\ InRange(r, request.from, request.to)
  BY <1>2, PageIsNew
<1>5. /\ items \in Seq(Rows) /\ IsInjective(items)
      /\ Range(items) = Range(request.items) \cup Filtered(page)
  <2> DEFINE s == request.items
             P == Filtered(page)
  <2>1. s \in Seq(Rows) /\ IsInjective(s) /\ P \in SUBSET Rows /\ IsFiniteSet(P)
        /\ \A x \in P : x \notin Range(s)
    BY <1>4 DEF MetricsInv, ItemsInv
  <2> HIDE DEF s, P
  <2>2. /\ s \o SetToSeq(P) \in Seq(Rows) /\ IsInjective(s \o SetToSeq(P))
        /\ Range(s \o SetToSeq(P)) = Range(s) \cup P
    BY <2>1, AppendPage
  <2>3. QED
    BY <2>2 DEF s, P, Items
<1> HIDE DEF items
<1>6. RowsInv'
  BY <1>2, <1>3 DEF MetricsInv, RowsInv
<1>7. ItemsInv'
  BY <1>3, <1>4, <1>5 DEF MetricsInv, ItemsInv
\* What has stood is counted, on this page or before, or not read yet.
<1>8. ASSUME NEW r \in standing, InRange(r, request.from, request.to)
      PROVE  r \in Range(items) \/ r \in Ahead(request.last) \ page
  BY <1>2, <1>5, <1>8 DEF MetricsInv, ReadingInv, Filtered
<1>9. ReadingInv'
  <2> SUFFICES ASSUME key # {} PROVE ReadingInv'
    BY <1>3 DEF ReadingInv
  <2>1. PICK k \in page : key = {k}
    BY <1>1
  <2>2. k \in Rows /\ k.tx \in Table(request.resource)
    BY <1>4
  <2>3. ASSUME NEW r \in Range(items) PROVE r = k \/ Before(r, k)
    <3>1. CASE r \in page
      BY <1>1, <2>1, <3>1 DEF IsPage
    <3>2. CASE r \in Range(request.items)
      <4>1. PICK l \in request.last : r = l \/ Before(r, l)
        BY <1>2, <3>2 DEF MetricsInv, ReadingInv
      <4>2. Before(l, k)
        BY <2>1 DEF Ahead
      <4>3. l \in Rows /\ l.tx \in Table(request.resource) /\ r.tx \in Table(request.resource) /\ r \in Rows
        <5>1. r \in Rows
          BY <3>2 DEF MetricsInv, ItemsInv, Range
        <5>2. QED
          BY <1>2, <3>2, <5>1 DEF MetricsInv, ReadingInv, ItemsInv
      <4>4. QED
        BY <2>2, <4>1, <4>2, <4>3, BeforeIsStrict
    <3>3. QED
      BY <1>4, <1>5, <3>1, <3>2
  <2>4. ASSUME NEW r \in Ahead(request.last) \ page PROVE r \in Ahead(key)'
    <3>1. Before(k, r)
      BY <1>1, <2>1 DEF IsPage
    <3>2. QED
      BY <1>2, <1>3, <2>1, <3>1 DEF Ahead
  <2>5. /\ request'.resource = request.resource /\ request'.last = {k} /\ request'.items = items
        /\ request'.from = request.from /\ request'.to = request.to
    BY <1>3, <2>1
  <2>6. ASSUME NEW r \in standing', InRange(r, request'.from, request'.to)
        PROVE  r \in Range(request'.items) \/ r \in Ahead(request.last)'
    <3>1. r \in Range(items) \/ r \in Ahead(request.last) \ page
      BY <1>2, <1>8, <2>5, <2>6
    <3>2. Ahead(key)' = Ahead(request.last)'
      BY <1>3
    <3>3. QED
      BY <2>4, <2>5, <3>1, <3>2
  <2>7. QED
    BY <1>2, <2>2, <2>3, <2>5, <2>6 DEF MetricsInv, ReadingInv
<1>10. AnsweredInv'
  <2>1. CASE key # {}
    <3>1. request.status = 0
      BY <1>2 DEF MetricsInv, MetricsTypeOK
    <3>2. QED
      BY <1>3, <2>1, <3>1 DEF AnsweredInv
  <2>2. CASE key = {}
    <3>1. Ahead(request.last) = page
      BY <1>1, <2>2 DEF IsPage
    <3>2. request'.buckets = Response(request.items)'
      BY <1>3, <2>2 DEF Response
    <3>3. \A r \in standing' : InRange(r, request'.from, request'.to) => r \in Range(request'.items)
      BY <1>2, <1>3, <1>8, <3>1
    <3>4. request'.resource \in {"buys", "dequeues"}
      BY <1>2, <1>3 DEF MetricsInv, ReadingInv
    <3>5. QED
      BY <3>2, <3>3, <3>4 DEF AnsweredInv
  <2>3. QED
    BY <2>1, <2>2
<1>11. QED
  BY <1>6, <1>7, <1>9, <1>10

(***************************************************************************)
(* The invariant of a request.                                             *)
(***************************************************************************)
THEOREM MetricsInvariant == MetricsSpec => []MetricsInv
<1>1. MetricsInit => MetricsInv
  <2> SUFFICES ASSUME MetricsInit PROVE MetricsInv
    OBVIOUS
  <2>1. MetricsTypeOK
    BY DEF MetricsInit, MetricsTypeOK, NoRequest, Resources
  <2>2. request = NoRequest /\ rows = {} /\ standing = {}
    BY DEF MetricsInit
  <2>3. RowsInv
    BY <2>2, FS_EmptySet DEF RowsInv, NoRequest
  <2>4. ItemsInv
    BY <2>2 DEF ItemsInv, NoRequest, IsInjective, Range
  <2>5. ReadingInv /\ AnsweredInv
    BY <2>2 DEF ReadingInv, AnsweredInv, NoRequest
  <2>6. QED
    BY <2>1, <2>3, <2>4, <2>5 DEF MetricsInv
<1>2. MetricsInv /\ MetricsTypeOK' /\ [MetricsNext]_metricsVars => MetricsInv'
  <2> SUFFICES ASSUME MetricsInv, MetricsTypeOK', [MetricsNext]_metricsVars
               PROVE  RowsInv' /\ ItemsInv' /\ ReadingInv' /\ AnsweredInv'
    BY DEF MetricsInv
  <2>1. CASE PutRow
    BY <2>1, PutRowKeepsInv
  <2>2. ASSUME NEW resource \in Resources, NEW dates \in Dates, NEW from \in Days, NEW to \in Days,
               Receive(resource, dates, from, to)
        PROVE  RowsInv' /\ ItemsInv' /\ ReadingInv' /\ AnsweredInv'
    BY <2>2, ReceiveKeepsInv
  <2>3. CASE ReadPage
    BY <2>3, ReadPageKeepsInv
  <2>4. CASE ReadFails
    <3>1. /\ request'.stage = "answered" /\ request'.status = 500
          /\ request'.resource = request.resource /\ request'.from = request.from
          /\ request'.to = request.to /\ request'.items = request.items
      BY <2>4, RequestFields DEF ReadFails, Respond, MetricsInv
    <3>2. rows' = rows /\ standing' = standing
      BY <2>4 DEF ReadFails
    <3>3. RowsInv' /\ ItemsInv'
      BY <3>1, <3>2 DEF MetricsInv, RowsInv, ItemsInv
    <3>4. QED
      BY <3>1, <3>3 DEF ReadingInv, AnsweredInv
  <2>5. CASE Done
    <3>1. request' = NoRequest /\ rows' = rows /\ standing' = {}
      BY <2>5 DEF Done
    <3>2. RowsInv'
      BY <3>1 DEF MetricsInv, RowsInv, NoRequest
    <3>3. ItemsInv'
      BY <3>1 DEF ItemsInv, NoRequest, IsInjective, Range
    <3>4. ReadingInv' /\ AnsweredInv'
      BY <3>1 DEF ReadingInv, AnsweredInv, NoRequest
    <3>5. QED
      BY <3>2, <3>3, <3>4
  <2>6. CASE UNCHANGED metricsVars
    BY <2>6 DEF metricsVars, MetricsInv, RowsInv, ItemsInv, ReadingInv, AnsweredInv, Ahead, Response
  <2>7. QED
    BY <2>1, <2>2, <2>3, <2>4, <2>5, <2>6 DEF MetricsNext
<1>3. QED
  BY <1>1, <1>2, MetricsTypeCorrect, PTL DEF MetricsSpec

(***************************************************************************)
(* A response counts every row of its range that was there from the first  *)
(* page to the last (queryBuyEvents, queryDequeueEvents).                  *)
(***************************************************************************)
THEOREM StandingCounted == MetricsSpec => []StandingRowsAreCounted
<1>1. MetricsInv => StandingRowsAreCounted
  BY DEF MetricsInv, AnsweredInv, StandingRowsAreCounted
<1>2. QED
  BY <1>1, MetricsInvariant, PTL

(***************************************************************************)
(* However the pages fall, no row is counted twice.                        *)
(***************************************************************************)
THEOREM CountedOnce == MetricsSpec => []RowsAreCountedOnce
<1>1. MetricsInv => RowsAreCountedOnce
  BY DEF MetricsInv, ItemsInv, RowsAreCountedOnce
<1>2. QED
  BY <1>1, MetricsInvariant, PTL

(***************************************************************************)
(* The buckets of a response hold all the rows that were read: each of     *)
(* them is on one day of the range (RangeIsDays).                          *)
(***************************************************************************)
THEOREM BucketsAddUp == MetricsSpec => []BucketsHoldAllRows
<1>1. MetricsInv => BucketsHoldAllRows
  <2> SUFFICES ASSUME MetricsInv, request.status = 200
               PROVE  SumFunction([day \in DOMAIN request.buckets |-> request.buckets[day].count])
                        = Len(request.items)
    BY DEF BucketsHoldAllRows
  <2> DEFINE items == request.items
             days  == request.from..request.to
             D     == 1..Len(items)
             part  == [i \in D |-> DateOf(items[i].timestamp)]
             count == [day \in days |-> Cardinality(OnDay(items, day))]
  <2>1. /\ items \in Seq(Rows) /\ Len(items) \in Nat /\ DOMAIN items = D
        /\ request.from \in Nat /\ request.to \in Nat
    BY DEF MetricsInv, RowsInv, ItemsInv
  <2>2. IsFiniteSet(D) /\ Cardinality(D) = Len(items) /\ IsFiniteSet(days)
    <3>1. IsFiniteSet(D) /\ IsFiniteSet(days)
      <4>1. \A a, b \in Int : IsFiniteSet(a..b)
        BY FS_Interval
      <4> HIDE DEF items
      <4>2. QED
        BY <2>1, <4>1
    <3>2. CASE Len(items) = 0
      <4>1. D = {}
        BY <3>2
      <4>2. QED
        BY <3>1, <3>2, <4>1, FS_EmptySet
    <3>3. CASE Len(items) # 0
      <4> DEFINE n == Len(items)
      <4>1. n \in Nat \ {0}
        BY <2>1, <3>3
      <4> HIDE DEF n
      <4>2. Cardinality(1..n) = n
        BY <4>1, FS_Interval
      <4>3. QED
        BY <3>1, <4>2 DEF n
    <3>4. QED
      BY <3>2, <3>3
  <2>3. ASSUME NEW i \in D PROVE part[i] \in days
    <3>1. items[i] \in Range(items) /\ items[i] \in Rows
      BY <2>1 DEF Range
    <3>2. InRange(items[i], request.from, request.to) /\ items[i].timestamp \in Nat
      BY <3>1 DEF MetricsInv, ItemsInv, Rows
    <3>3. QED
      BY <2>1, <3>2, RangeIsDays
  <2>4. \A day \in days : count[day] = Cardinality({i \in D : part[i] = day})
    <3>1. ASSUME NEW day \in days PROVE OnDay(items, day) = {i \in D : part[i] = day}
      BY <2>1 DEF OnDay
    <3>2. QED
      BY <3>1
  <2>5. SumFunctionOnSet(count, days) = Cardinality(D)
    <3>1. /\ IsFiniteSet(D) /\ IsFiniteSet(days)
      BY <2>2
    <3> HIDE DEF D, part, count, days, items
    <3>2. CountsParts(count, days, part, D)
      BY <2>3, <2>4 DEF CountsParts
    <3>3. QED
      BY <3>1, <3>2, SumOfParts
  <2>6. [day \in DOMAIN request.buckets |-> request.buckets[day].count] = count
    <3>1. request.buckets = Response(items)
      BY DEF MetricsInv, AnsweredInv
    <3>2. DOMAIN request.buckets = days
      BY <3>1 DEF Response
    <3>3. ASSUME NEW day \in days PROVE request.buckets[day].count = Cardinality(OnDay(items, day))
      <4>1. request.buckets[day] = Bucket(request.resource, items, day)
        BY <3>1 DEF Response
      <4>2. Bucket(request.resource, items, day).count = Cardinality(OnDay(items, day))
        BY DEF Bucket
      <4>3. QED
        BY <4>1, <4>2
    <3> QED
      BY <3>2, <3>3
  <2>7. SumFunction(count) = SumFunctionOnSet(count, days)
    BY DEF SumFunction, SumFunctionOnSet, FoldFunction
  <2>8. QED
    BY <2>2, <2>5, <2>6, <2>7
<1>2. QED
  BY <1>1, MetricsInvariant, PTL

(***************************************************************************)
(* The percentile of each day is the nearest rank (dequeues.ts:45-47).     *)
(***************************************************************************)
THEOREM PercentilesAreRanks == MetricsSpec => []PercentileIsNearestRank
<1>1. MetricsInv => PercentileIsNearestRank
  <2> SUFFICES ASSUME MetricsInv, request.status = 200, request.resource = "dequeues",
                      NEW day \in DOMAIN request.buckets, OnDay(request.items, day) # {}
               PROVE  LET p95       == request.buckets[day].p95
                          Amount(i) == SolDequeued[request.items[i].tx]
                          on        == OnDay(request.items, day)
                      IN  /\ 100 * Cardinality({i \in on : Amount(i) <= p95}) >= PERCENT * Cardinality(on)
                          /\ 100 * Cardinality({i \in on : Amount(i) < p95}) < PERCENT * Cardinality(on)
    BY DEF PercentileIsNearestRank
  <2> DEFINE items   == request.items
             on      == OnDay(items, day)
             amounts == [i \in on |-> SolDequeued[items[i].tx]]
  <2>1. items \in Seq(Rows) /\ DOMAIN items = 1..Len(items) /\ Len(items) \in Nat
    BY DEF MetricsInv, ItemsInv
  <2>2. IsFiniteSet(on) /\ on \subseteq DOMAIN items
    <3>1. on \subseteq 1..Len(items) /\ 1 \in Int /\ Len(items) \in Int
      BY <2>1 DEF OnDay
    <3> HIDE DEF items, on
    <3>2. IsFiniteSet(1..Len(items))
      BY <3>1, FS_Interval
    <3>3. QED
      BY <2>1, <3>1, <3>2, FS_Subset
  <2>3. amounts \in [on -> Nat]
    <3>0. \A tx \in Dequeues : SolDequeued[tx] \in Nat
      BY MetricsAssumption
    <3>1. ASSUME NEW i \in on PROVE SolDequeued[items[i].tx] \in Nat
      <4>1. items[i] \in Range(items)
        BY <2>1, <2>2 DEF Range
      <4>2. items[i].tx \in Dequeues
        BY <4>1 DEF MetricsInv, ItemsInv, Table
      <4>3. QED
        BY <3>0, <4>2
    <3>2. QED
      BY <3>1
  <2>4. request.buckets[day].p95 = Percentile(amounts)
    <3>1. request.buckets = Response(items)
      BY DEF MetricsInv, AnsweredInv
    <3>2. request.buckets[day] = Bucket("dequeues", items, day)
      BY <3>1 DEF Response
    <3>3. QED
      BY <3>2 DEF Bucket
  <2> HIDE DEF on
  <2>5. /\ 100 * Cardinality({i \in on : amounts[i] <= Percentile(amounts)}) >= PERCENT * Cardinality(on)
        /\ 100 * Cardinality({i \in on : amounts[i] < Percentile(amounts)}) < PERCENT * Cardinality(on)
    <3> DEFINE a == amounts
    <3>1. a \in [on -> Nat] /\ IsFiniteSet(on) /\ on # {}
      BY <2>2, <2>3 DEF on
    <3> HIDE DEF a
    <3>2. /\ 100 * Cardinality({i \in on : a[i] <= Percentile(a)}) >= PERCENT * Cardinality(on)
          /\ 100 * Cardinality({i \in on : a[i] < Percentile(a)}) < PERCENT * Cardinality(on)
      BY <3>1, PercentileHasRank
    <3>3. QED
      BY <3>2 DEF a
  <2>6. \A i \in on : amounts[i] = SolDequeued[items[i].tx]
    OBVIOUS
  <2>7. /\ {i \in on : amounts[i] <= Percentile(amounts)}
              = {i \in on : SolDequeued[items[i].tx] <= request.buckets[day].p95}
        /\ {i \in on : amounts[i] < Percentile(amounts)}
              = {i \in on : SolDequeued[items[i].tx] < request.buckets[day].p95}
    BY <2>4, <2>6
  <2>8. QED
    BY <2>5, <2>7 DEF on
<1>2. QED
  BY <1>1, MetricsInvariant, PTL
=============================================================================
