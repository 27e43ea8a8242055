------------------------- MODULE SwapOracle_proofs --------------------------
(***************************************************************************)
(* Theorems about the swap oracle, for every number of requests, health    *)
(* checks, feeds and retries, every price age and cache lifetime, and      *)
(* every threshold of the circuit breaker.                                 *)
(*                                                                         *)
(* OracleInv is inductive.  Its parts are kept apart: the breaker (lemmas  *)
(* about the four reports), the types, and the freshness of the rates that *)
(* travel from the feeds over the cache into the attestations.             *)
(***************************************************************************)
EXTENDS SwapOracle, SharedLemmas, TLAPS

\* The breaker
LEMMA BreakerStarts == BreakerInit => BreakerInv
  BY AttemptsAssumption
     DEF BreakerInit, BreakerInv, BreakerTypeOK, ClosedWhenRecovered, canExecute

LEMMA BreakerRestarts == NewBreaker => BreakerInv'
  BY AttemptsAssumption
     DEF NewBreaker, BreakerInv, BreakerTypeOK, ClosedWhenRecovered, canExecute

LEMMA BreakerOpens == BreakerInv /\ openCircuit => BreakerInv'
  BY AttemptsAssumption
     DEF openCircuit, BreakerInv, BreakerTypeOK, ClosedWhenRecovered, canExecute

LEMMA BreakerCounts == BreakerInv /\ onHealthCheckSuccess => BreakerInv'
  BY AttemptsAssumption
     DEF onHealthCheckSuccess, Counted, Closes, BreakerInv, BreakerTypeOK,
         ClosedWhenRecovered, canExecute

LEMMA BreakerStands == BreakerInv /\ UNCHANGED breakerVars => BreakerInv'
  BY DEF breakerVars, BreakerInv, BreakerTypeOK, ClosedWhenRecovered, canExecute

\* The oldest of the publish times exists, so that Math.min returns one of them.
LEMMA OldestIsLowerBound ==
  ASSUME NEW times \in [Feeds -> Time]
  PROVE  Oldest(times) \in Time /\ \A f \in Feeds : Oldest(times) <= times[f]
<1> DEFINE S == {times[f] : f \in Feeds}
<1>1. S \subseteq Time /\ Time \subseteq Nat /\ S # {}
  BY FeedsAssumption, TimesAssumption DEF Time
<1>2. \E t \in S : \A f \in Feeds : t <= times[f]
  <2>1. PICK t \in S : \A k \in S : t <= k
    <3> HIDE DEF S
    <3> QED
      BY <1>1, LeastNatural
  <2>2. QED
    BY <2>1
<1>3. Oldest(times) \in S /\ \A f \in Feeds : Oldest(times) <= times[f]
  BY <1>2 DEF Oldest
<1>4. QED
  BY <1>1, <1>3

-----------------------------------------------------------------------------
\* Sound and Stamped concern one rate and the clock: they survive what leaves both alone.
LEMMA SoundStays ==
  ASSUME NEW x, Sound(x), clock \in Time, clock' \in Time, clock <= clock'
  PROVE  Sound(x)'
  BY TimesAssumption DEF Sound, PriceRate, Time

\* The values the actions write are typed.
LEMMA WrittenValuesTyped ==
  /\ NotFetched \in PricesFetched
  /\ NoReply \in Reply
  /\ NoRate \in PossibleRate
  /\ Rate \subseteq PossibleRate /\ PriceRate \subseteq Rate /\ LegacyRate \in Rate
<1>1. NotFetched \in PricesFetched
  BY RetriesAssumption DEF NotFetched, PricesFetched, FetchCall
<1>2. NoReply \in Reply
  BY DEF NoReply, Reply
<1>3. QED
  BY <1>1, <1>2 DEF PossibleRate, Rate

LEMMA StampTyped ==
  ASSUME NEW time \in Time, NEW hit \in BOOLEAN
  PROVE  [timestamp |-> time, cacheHit |-> hit] \in Reply
  BY DEF Reply

\* A calculated rate is typed, and sound when its prices are fresh.
LEMMA CalculatedRateSound ==
  ASSUME clock \in Time, NEW published \in [Feeds -> Time],
         \A f \in Feeds : Fresh(published[f]),
         NEW x, x = [last_price_update |-> clock, publishTime |-> Oldest(published),
                     published |-> published]
  PROVE  x \in PriceRate /\ Sound(x)
<1>1. x \in PriceRate
  BY OldestIsLowerBound DEF PriceRate
<1>2. Sound(x)
  BY OldestIsLowerBound, TimesAssumption DEF Sound, Fresh, Time
<1>3. QED
  BY <1>1, <1>2

\* The prices of a request that fetched all of them.
LEMMA FetchedPricesTyped ==
  ASSUME RequestsTypeOK, NEW r \in Requests, AllFetched(r)
  PROVE  [f \in Feeds |-> fetched[r][f].time] \in [Feeds -> Time]
<1>1. ASSUME NEW f \in Feeds PROVE fetched[r][f].time \in Time
  <2>1. fetched[r][f] \in FetchCall
    BY DEF RequestsTypeOK, PricesFetched
  <2>2. QED
    BY <2>1 DEF AllFetched, FetchCall
<1>2. QED
  BY <1>1

LEMMA CachedTyped == WorldTypeOK => Cached \in PossibleRate
  BY WrittenValuesTyped DEF WorldTypeOK, Cached

-----------------------------------------------------------------------------
\* The world's variables stay typed.
LEMMA WorldTyped ==
  ASSUME WorldTypeOK, RequestsTypeOK, RatesKnown, [OracleNext]_oracleVars
  PROVE  WorldTypeOK' /\ clock <= clock'
<1> USE DEF WorldTypeOK
<1>1. CASE UNCHANGED <<worldVars, cache, healthVars>>
  BY <1>1, TimesAssumption DEF worldVars, healthVars, Time
<1>2. ASSUME NEW r \in Requests, AddToCache(r) PROVE WorldTypeOK' /\ clock <= clock'
  <2>1. rate[r] \in PossibleRate /\ clock + CacheTTL \in Nat
    BY TimesAssumption DEF RequestsTypeOK, Time
  <2>2. cache' \in [rate : PossibleRate, expires : Nat]
    BY <1>2, <2>1 DEF AddToCache
  <2>3. QED
    BY <1>2, <2>2, TimesAssumption DEF AddToCache, worldVars, healthVars, Time
<1>3. ASSUME NEW h \in Checks, HealthStep(h) PROVE WorldTypeOK' /\ clock <= clock'
  BY <1>3, TimesAssumption
     DEF HealthStep, ProbeHealth, CheckPasses, CheckFails, worldVars, Health, Time
<1>4. CASE Restart
  BY <1>4, TimesAssumption DEF Restart, worldVars, Health, Time
<1>5. CASE World
  <2>1. CASE Tick
    BY <2>1, TimesAssumption DEF Tick, healthVars, Time
  <2>2. CASE HermesChanges
    <3>1. hermesUp' \in BOOLEAN
      BY <2>2, Zenon DEF HermesChanges
    <3>2. QED
      BY <2>2, <3>1, TimesAssumption DEF HermesChanges, healthVars, Time
  <2>3. ASSUME NEW f \in Feeds, PublishPrice(f) PROVE WorldTypeOK' /\ clock <= clock'
    <3>1. feed' \in [Feeds -> Time]
      BY <2>3 DEF PublishPrice
    <3>2. QED
      BY <2>3, <3>1, TimesAssumption DEF PublishPrice, healthVars, Time
  <2>4. QED
    BY <1>5, <2>1, <2>2, <2>3 DEF World
<1>6. ASSUME NEW r \in Requests, Arrive(r) \/ RequestStep(r)
      PROVE  UNCHANGED <<worldVars, cache, healthVars>> \/ AddToCache(r)
  BY <1>6 DEF Arrive, AdmitRequest, RefuseRequest, RequestStep, LookUpCache, UseCachedRate,
              StartRetrieval, FetchPrice, FetchFails, RetrievalFails, RejectPrices,
              CalculateRate, PutMetric, MetricFails, StampRate, CreateAttestation
<1>7. QED
  BY <1>1, <1>2, <1>3, <1>4, <1>5, <1>6 DEF OracleNext, oracleVars

-----------------------------------------------------------------------------
\* What OracleInv says of one request.
RequestOK(q) ==
  /\ phase[q] \in {"metering", "caching", "cached"} => rate[q] \in PriceRate
  /\ phase[q] \in {"signing", "attested"} => rate[q] \in Rate /\ Stamped(q)
  /\ Sound(rate[q])

\* A request that does not move keeps it, whatever the clock does.
LEMMA RequestStays ==
  ASSUME NEW q, RequestOK(q), WorldTypeOK, WorldTypeOK', clock <= clock',
         UNCHANGED <<phase[q], rate[q], reply[q]>>
  PROVE  RequestOK(q)'
  BY TimesAssumption DEF RequestOK, Sound, Stamped, WorldTypeOK, PriceRate, Time

\* The requests stay typed.
LEMMA RequestsTyped ==
  ASSUME WorldTypeOK, RequestsTypeOK, RatesKnown, [OracleNext]_oracleVars
  PROVE  RequestsTypeOK'
<1> USE WrittenValuesTyped DEF RequestsTypeOK, Phases
<1>1. ASSUME NEW r \in Requests, AdmitRequest(r) PROVE RequestsTypeOK'
  BY <1>1 DEF AdmitRequest, Fail, Free
<1>2. ASSUME NEW r \in Requests, RefuseRequest(r) PROVE RequestsTypeOK'
  BY <1>2 DEF RefuseRequest, Fail, Free
<1>3. ASSUME NEW r \in Requests, LookUpCache(r) PROVE RequestsTypeOK'
  <2>1. PICK x \in PossibleRate : rate' = [rate EXCEPT ![r] = x]
    BY <1>3, CachedTyped DEF LookUpCache
  <2>2. QED
    BY <1>3, <2>1 DEF LookUpCache
<1>4. ASSUME NEW r \in Requests, UseCachedRate(r) PROVE RequestsTypeOK'
  <2>1. reply' \in [Requests -> Reply]
    BY <1>4, StampTyped DEF UseCachedRate, WorldTypeOK
  <2>2. QED
    BY <1>4, <2>1 DEF UseCachedRate
<1>5. ASSUME NEW r \in Requests, StartRetrieval(r) PROVE RequestsTypeOK'
  BY <1>5 DEF StartRetrieval, Fail, Free
<1>6. ASSUME NEW r \in Requests, NEW f \in Feeds, FetchPrice(r, f) PROVE RequestsTypeOK'
  <2>1. fetched[r] \in PricesFetched /\ fetched[r][f] \in FetchCall
    BY DEF PricesFetched
  <2>2. [fetched[r][f] EXCEPT !.time = feed[f]] \in FetchCall
    BY <2>1 DEF FetchCall, WorldTypeOK
  <2>3. [fetched[r] EXCEPT ![f] = [fetched[r][f] EXCEPT !.time = feed[f]]] \in PricesFetched
    BY <2>1, <2>2 DEF PricesFetched
  <2>4. fetched' = [fetched EXCEPT ![r] = [fetched[r] EXCEPT ![f] =
                      [fetched[r][f] EXCEPT !.time = feed[f]]]]
    BY <1>6 DEF FetchPrice
  <2>5. fetched' \in [Requests -> PricesFetched]
    BY <2>3, <2>4
  <2>6. QED
    BY <1>6, <2>5 DEF FetchPrice
<1>7. ASSUME NEW r \in Requests, NEW f \in Feeds, FetchFails(r, f) PROVE RequestsTypeOK'
  <2>1. fetched[r] \in PricesFetched /\ fetched[r][f] \in FetchCall
    BY DEF PricesFetched
  <2>2. PICK n \in {fetched[r][f].attempts + 1, maxRetries} :
          fetched' = [fetched EXCEPT ![r][f].attempts = n]
    BY <1>7 DEF FetchFails
  <2>3. n \in 0..maxRetries
    <3>1. fetched[r][f].attempts \in 0..maxRetries /\ ~Settled(fetched[r][f])
      BY <1>7, <2>1 DEF FetchFails, FetchCall
    <3>2. fetched[r][f].attempts < maxRetries
      BY <3>1, RetriesAssumption DEF Settled
    <3>3. QED
      BY <2>2, <3>1, <3>2, RetriesAssumption
  <2>4. [fetched[r][f] EXCEPT !.attempts = n] \in FetchCall
    BY <2>1, <2>3 DEF FetchCall
  <2>5. [fetched[r] EXCEPT ![f] = [fetched[r][f] EXCEPT !.attempts = n]] \in PricesFetched
    BY <2>1, <2>4 DEF PricesFetched
  <2>6. fetched' = [fetched EXCEPT ![r] = [fetched[r] EXCEPT ![f] =
                      [fetched[r][f] EXCEPT !.attempts = n]]]
    BY <2>2
  <2>7. fetched' \in [Requests -> PricesFetched]
    BY <2>5, <2>6
  <2>8. QED
    BY <1>7, <2>7 DEF FetchFails
<1>8. ASSUME NEW r \in Requests, RetrievalFails(r) PROVE RequestsTypeOK'
  BY <1>8 DEF RetrievalFails, Fail, Free
<1>9. ASSUME NEW r \in Requests, RejectPrices(r) PROVE RequestsTypeOK'
  BY <1>9 DEF RejectPrices, Fail, Free
<1>10. ASSUME NEW r \in Requests, CalculateRate(r) PROVE RequestsTypeOK'
  <2> DEFINE published == [f \in Feeds |-> fetched[r][f].time]
             x == [last_price_update |-> clock, publishTime |-> Oldest(published),
                   published |-> published]
  <2>1. x \in PossibleRate
    BY <1>10, CalculatedRateSound, FetchedPricesTyped DEF CalculateRate, WorldTypeOK
  <2>2. rate' = [rate EXCEPT ![r] = x]
    BY <1>10 DEF CalculateRate
  <2>3. rate' \in [Requests -> PossibleRate]
    <3> HIDE DEF x
    <3> QED
      BY <2>1, <2>2
  <2>4. QED
    BY <1>10, <2>3 DEF CalculateRate
<1>11. ASSUME NEW r \in Requests, PutMetric(r) PROVE RequestsTypeOK'
  BY <1>11 DEF PutMetric, Fail, Free
<1>12. ASSUME NEW r \in Requests, MetricFails(r) PROVE RequestsTypeOK'
  BY <1>12 DEF MetricFails, Fail, Free
<1>13. ASSUME NEW r \in Requests, AddToCache(r) PROVE RequestsTypeOK'
  BY <1>13 DEF AddToCache, Fail, Free
<1>14. ASSUME NEW r \in Requests, StampRate(r) PROVE RequestsTypeOK'
  <2>1. reply' \in [Requests -> Reply]
    BY <1>14, StampTyped DEF StampRate, WorldTypeOK
  <2>2. QED
    BY <1>14, <2>1 DEF StampRate
<1>15. ASSUME NEW r \in Requests, CreateAttestation(r) PROVE RequestsTypeOK'
  BY <1>15 DEF CreateAttestation, Fail, Free
<1>16. CASE Restart
  BY <1>16 DEF Restart
<1>17. CASE UNCHANGED requestVars
  BY <1>17 DEF requestVars
<1>18. ASSUME NEW h \in Checks, HealthStep(h) PROVE UNCHANGED requestVars
  BY <1>18 DEF HealthStep, ProbeHealth, CheckPasses, CheckFails
<1>19. World => UNCHANGED requestVars
  BY DEF World, Tick, PublishPrice, HermesChanges
<1>20. QED
  BY <1>1, <1>2, <1>3, <1>4, <1>5, <1>6, <1>7, <1>8, <1>9, <1>10, <1>11, <1>12, <1>13, <1>14, <1>15, <1>16, <1>17, <1>18, <1>19 DEF OracleNext, Arrive, RequestStep, oracleVars

-----------------------------------------------------------------------------
RequestInv == \A q \in Requests : RequestOK(q)

Rateless == {"idle", "lookup", "found", "fetching", "unavailable", "error"}

\* A request without a rate has nothing to keep.
LEMMA NoRateOK ==
  ASSUME NEW q, rate'[q] = NoRate, phase'[q] \in Rateless
  PROVE  RequestOK(q)'
  BY NoRateAssumption, WrittenValuesTyped DEF RequestOK, Sound, Rateless

\* A sound rate stays sound as long as no time passes.
LEMMA SoundInStep ==
  ASSUME NEW x, Sound(x), clock' = clock
  PROVE  Sound(x)'
  BY DEF Sound

\* Whatever a request does leaves its own rate and stamp right.
LEMMA RequestKeepsItsRate ==
  ASSUME WorldTypeOK, RequestsTypeOK, RequestInv, Sound(cache.rate),
         NEW r \in Requests, Arrive(r) \/ RequestStep(r)
  PROVE  RequestOK(r)'
<1>1. RequestOK(r)
  BY DEF RequestInv
<1> DEFINE Failed(answer) == phase'[r] = answer /\ rate'[r] = NoRate
<1>2. ASSUME NEW answer, Fail(r, answer) PROVE Failed(answer)
  BY <1>2 DEF Fail, RequestsTypeOK
<1>3. CASE RefuseRequest(r) \/ RetrievalFails(r) \/ RejectPrices(r) \/ MetricFails(r)
  BY <1>2, <1>3, NoRateOK
     DEF RefuseRequest, RetrievalFails, RejectPrices, MetricFails, Rateless
<1>4. CASE AdmitRequest(r) \/ StartRetrieval(r)
  <2>1. rate'[r] = NoRate /\ phase'[r] \in {"lookup", "fetching"}
    BY <1>4 DEF AdmitRequest, StartRetrieval, RequestsTypeOK
  <2>2. QED
    BY <2>1, NoRateOK DEF Rateless
<1>5. CASE LookUpCache(r)
  <2>1. PICK x \in {Cached, NoRate} : rate' = [rate EXCEPT ![r] = x]
    BY <1>5 DEF LookUpCache
  <2>2. /\ phase'[r] = "found" /\ rate'[r] = x
        /\ x = cache.rate \/ x = NoRate
    BY <1>5, <2>1 DEF LookUpCache, Cached, RequestsTypeOK
  <2>3. Sound(x)
    BY <2>2, NoRateAssumption, WrittenValuesTyped DEF Sound
  <2>4. Sound(x)'
    BY <1>5, <2>3, SoundInStep DEF LookUpCache, worldVars
  <2>5. QED
    BY <2>2, <2>4 DEF RequestOK
<1>6. ASSUME NEW f \in Feeds, FetchPrice(r, f) \/ FetchFails(r, f) PROVE RequestOK(r)'
  <2>1. UNCHANGED <<clock, phase, rate, reply>>
    BY <1>6 DEF FetchPrice, FetchFails, worldVars
  <2>2. Sound(rate[r])'
    BY <1>1, <2>1, SoundInStep DEF RequestOK
  <2>3. QED
    BY <1>1, <2>1, <2>2 DEF RequestOK, Stamped
<1>7. CASE CalculateRate(r)
  <2> DEFINE published == [f \in Feeds |-> fetched[r][f].time]
             calculated == [last_price_update |-> clock, publishTime |-> Oldest(published),
                            published |-> published]
  <2>1. calculated \in PriceRate /\ Sound(calculated)
    BY <1>7, CalculatedRateSound, FetchedPricesTyped DEF CalculateRate, WorldTypeOK
  <2>2. phase'[r] = "metering" /\ rate'[r] = calculated /\ clock' = clock
    BY <1>7 DEF CalculateRate, RequestsTypeOK, worldVars
  <2> HIDE DEF calculated
  <2>3. PICK x : x = calculated
    OBVIOUS
  <2>4. Sound(x)'
    BY <2>1, <2>2, <2>3, SoundInStep
  <2>5. rate'[r] = x /\ x \in PriceRate
    BY <2>1, <2>2, <2>3
  <2>6. QED
    BY <2>2, <2>4, <2>5 DEF RequestOK
<1>8. CASE PutMetric(r) \/ AddToCache(r)
  <2>1. /\ phase[r] \in {"metering", "caching"} /\ phase'[r] \in {"caching", "cached"}
        /\ rate' = rate /\ clock' = clock
    BY <1>8 DEF PutMetric, AddToCache, RequestsTypeOK, worldVars
  <2>2. Sound(rate[r])'
    BY <1>1, <2>1, SoundInStep DEF RequestOK
  <2>3. QED
    BY <1>1, <2>1, <2>2 DEF RequestOK
<1>9. CASE UseCachedRate(r)
  <2>1. /\ phase[r] = "found" /\ Usable(rate[r])
        /\ phase'[r] = "signing" /\ rate' = rate /\ clock' = clock
        /\ reply'[r] = [timestamp |-> clock, cacheHit |-> TRUE]
    BY <1>9 DEF UseCachedRate, RequestsTypeOK, worldVars
  <2>2. rate[r] \in Rate
    BY <2>1 DEF Usable, RequestsTypeOK, PossibleRate
  <2>3. Sound(rate[r]) /\ Sound(rate[r])'
    BY <1>1, <2>1, SoundInStep DEF RequestOK
  <2>4. Stamped(r)'
    <3>1. rate[r] \in PriceRate => rate[r].publishTime # NoTime
      BY NoTimeAssumption, TimesAssumption DEF PriceRate, Time
    <3>2. QED
      BY <2>1, <2>3, <3>1 DEF Stamped, Usable, Fresh, Sound, WorldTypeOK
  <2>5. QED
    BY <2>1, <2>2, <2>3, <2>4 DEF RequestOK
<1>10. CASE StampRate(r)
  <2>1. /\ phase[r] = "cached" /\ phase'[r] = "signing" /\ rate' = rate /\ clock' = clock
        /\ reply'[r] = [timestamp |-> clock, cacheHit |-> FALSE]
    BY <1>10 DEF StampRate, RequestsTypeOK, worldVars
  <2>2. Sound(rate[r]) /\ Sound(rate[r])' /\ rate[r] \in Rate
    BY <1>1, <2>1, SoundInStep, WrittenValuesTyped DEF RequestOK
  <2>3. Stamped(r)'
    BY <2>1, <2>2 DEF Stamped, Sound, WorldTypeOK
  <2>4. QED
    BY <2>1, <2>2, <2>3 DEF RequestOK
<1>11. CASE CreateAttestation(r)
  <2>1. CASE Fail(r, "error")
    BY <1>2, <2>1, NoRateOK DEF Rateless
  <2>2. CASE phase' = [phase EXCEPT ![r] = "attested"] /\ UNCHANGED <<rate, reply>>
    <3>1. phase[r] = "signing" /\ phase'[r] = "attested" /\ clock' = clock
      BY <1>11, <2>2 DEF CreateAttestation, RequestsTypeOK, worldVars
    <3>2. Sound(rate[r])'
      BY <1>1, <2>2, <3>1, SoundInStep DEF RequestOK
    <3>3. QED
      BY <1>1, <2>2, <3>1, <3>2 DEF RequestOK, Stamped
  <2>3. QED
    BY <1>11, <2>1, <2>2 DEF CreateAttestation
<1>12. QED
  BY <1>3, <1>4, <1>5, <1>6, <1>7, <1>8, <1>9, <1>10, <1>11 DEF Arrive, RequestStep

\* So it is with every request and with the cache, in every step.
LEMMA RatesStayRight ==
  ASSUME WorldTypeOK, RequestsTypeOK, RatesKnown, RequestInv, Sound(cache.rate),
         [OracleNext]_oracleVars
  PROVE  RequestInv' /\ Sound(cache.rate)'
<1>1. WorldTypeOK' /\ clock <= clock'
  BY WorldTyped
<1>2. ASSUME NEW q \in Requests, UNCHANGED <<phase[q], rate[q], reply[q]>>
      PROVE  RequestOK(q)'
  BY <1>1, <1>2, RequestStays DEF RequestInv
<1>3. ASSUME UNCHANGED cache PROVE Sound(cache.rate)'
  <2>1. PICK x : x = cache.rate
    OBVIOUS
  <2>2. Sound(x)'
    BY <1>1, <2>1, SoundStays DEF WorldTypeOK
  <2>3. QED
    BY <1>3, <2>1, <2>2
<1>4. CASE UNCHANGED <<cache, requestVars>>
  BY <1>2, <1>3, <1>4 DEF requestVars, RequestInv
<1>5. ASSUME NEW r \in Requests, Arrive(r) \/ RequestStep(r)
      PROVE  RequestInv' /\ Sound(cache.rate)'
  <2>1. ASSUME NEW q \in Requests, q # r PROVE UNCHANGED <<phase[q], rate[q], reply[q]>>
    BY <1>5, <2>1
       DEF RequestsTypeOK, Arrive, AdmitRequest, RefuseRequest, RequestStep, LookUpCache,
           UseCachedRate, StartRetrieval, FetchPrice, FetchFails, RetrievalFails,
           RejectPrices, CalculateRate, PutMetric, MetricFails, AddToCache, StampRate,
           CreateAttestation, Fail
  <2>2. RequestInv'
    BY <1>2, <1>5, <2>1, RequestKeepsItsRate DEF RequestInv
  <2>3. CASE AddToCache(r)
    <3>1. cache'.rate = cache.rate \/ cache'.rate = rate[r]
      BY <2>3 DEF AddToCache
    <3>2. PICK x : x = cache'.rate
      OBVIOUS
    <3>3. Sound(x)
      BY <3>1, <3>2 DEF RequestInv, RequestOK
    <3>4. Sound(x)'
      BY <2>3, <3>3, SoundInStep DEF AddToCache, worldVars
    <3>5. QED
      BY <2>2, <3>2, <3>4
  <2>4. AddToCache(r) \/ UNCHANGED cache
    BY <1>5 DEF Arrive, AdmitRequest, RefuseRequest, RequestStep, LookUpCache,
                UseCachedRate, StartRetrieval, FetchPrice, FetchFails, RetrievalFails,
                RejectPrices, CalculateRate, PutMetric, MetricFails, StampRate,
                CreateAttestation
  <2>5. QED
    BY <1>3, <2>2, <2>3, <2>4
<1>6. CASE Restart
  <2>1. RequestInv'
    BY <1>6, NoRateOK DEF Restart, RequestInv, Rateless
  <2>2. QED
    BY <1>3, <1>6, <2>1 DEF Restart
<1>7. ASSUME NEW h \in Checks, HealthStep(h) PROVE UNCHANGED <<cache, requestVars>>
  BY <1>7 DEF HealthStep, ProbeHealth, CheckPasses, CheckFails
<1>8. World => UNCHANGED <<cache, requestVars>>
  BY DEF World, Tick, PublishPrice, HermesChanges
<1>9. QED
  BY <1>4, <1>5, <1>6, <1>7, <1>8 DEF OracleNext, oracleVars

-----------------------------------------------------------------------------
\* The breaker and the latest health check agree in every step.
LEMMA BreakerStaysRight ==
  ASSUME BreakerInv, UnhealthyMeansOpen, [OracleNext]_oracleVars
  PROVE  BreakerInv' /\ UnhealthyMeansOpen'
<1> USE DEF UnhealthyMeansOpen
<1>1. CASE UNCHANGED <<monitoringData, breakerVars>>
  BY <1>1, BreakerStands DEF breakerVars
<1>2. CASE onPriceRetrievalFailure /\ UNCHANGED monitoringData
  BY <1>2, BreakerOpens DEF onPriceRetrievalFailure, openCircuit
<1>3. ASSUME NEW r \in Requests, Arrive(r) \/ RequestStep(r)
      PROVE  \/ UNCHANGED <<monitoringData, breakerVars>>
             \/ onPriceRetrievalFailure /\ UNCHANGED monitoringData
  BY <1>3 DEF Arrive, AdmitRequest, RefuseRequest, RequestStep, LookUpCache, UseCachedRate,
              StartRetrieval, FetchPrice, FetchFails, RetrievalFails, RejectPrices,
              CalculateRate, PutMetric, MetricFails, AddToCache, StampRate,
              CreateAttestation, healthVars
<1>4. ASSUME NEW h \in Checks, HealthStep(h) PROVE BreakerInv' /\ UnhealthyMeansOpen'
  <2>1. CASE ProbeHealth(h)
    BY <1>1, <2>1 DEF ProbeHealth
  <2>2. CASE CheckPasses(h)
    BY <2>2, BreakerCounts DEF CheckPasses
  <2>3. CASE CheckFails(h)
    BY <2>3, BreakerOpens DEF CheckFails, onHealthCheckFailure, openCircuit
  <2>4. QED
    BY <1>4, <2>1, <2>2, <2>3 DEF HealthStep
<1>5. CASE Restart
  BY <1>5, BreakerRestarts, NoDataAssumption DEF Restart
<1>6. World => UNCHANGED <<monitoringData, breakerVars>>
  BY DEF World, Tick, PublishPrice, HermesChanges, healthVars
<1>7. QED
  BY <1>1, <1>2, <1>3, <1>4, <1>5, <1>6 DEF OracleNext, oracleVars, healthVars

-----------------------------------------------------------------------------
LEMMA OracleStarts == OracleInit => OracleInv
<1> SUFFICES ASSUME OracleInit PROVE OracleInv
  OBVIOUS
<1> USE WrittenValuesTyped, TimesAssumption
<1>1. BreakerInv
  BY BreakerStarts DEF OracleInit
<1>2. cache.rate \in {NoRate, LegacyRate} /\ cache \in [rate : PossibleRate, expires : Nat]
  BY DEF OracleInit, NoEntry, PossibleRate
<1>3. WorldTypeOK
  BY <1>2 DEF OracleInit, WorldTypeOK, Time, Health
<1>4. RequestsTypeOK
  BY DEF OracleInit, RequestsTypeOK, Phases
<1>5. Sound(cache.rate)
  <2>1. LegacyRate \notin PriceRate
    BY NoTimeAssumption DEF LegacyRate, PriceRate, Time
  <2>2. QED
    BY <1>2, <2>1, NoRateAssumption DEF Sound
<1>6. \A r \in Requests : Sound(rate[r])
  BY NoRateAssumption DEF OracleInit, Sound
<1>7. QED
  BY <1>1, <1>3, <1>4, <1>5, <1>6, NoDataAssumption
     DEF OracleInv, OracleTypeOK, BreakerInv, RatesKnown, UnhealthyMeansOpen, OracleInit

\* OracleInv in the parts the lemmas use.
LEMMA OracleInvParts ==
  OracleInv <=> /\ BreakerInv /\ UnhealthyMeansOpen
                /\ WorldTypeOK /\ RequestsTypeOK /\ RatesKnown
                /\ RequestInv /\ Sound(cache.rate)
  BY DEF OracleInv, OracleTypeOK, BreakerInv, RequestInv, RequestOK, RatesKnown

(***************************************************************************)
(* OracleInv is an invariant of the swap oracle: types, the breaker, and   *)
(* the freshness of every rate in a request or in the cache.               *)
(***************************************************************************)
THEOREM OracleInvariant == OracleSpec => []OracleInv
<1>1. OracleInit => OracleInv
  BY OracleStarts
<1>2. OracleInv /\ [OracleNext]_oracleVars => OracleInv'
  <2> SUFFICES ASSUME OracleInv, [OracleNext]_oracleVars PROVE OracleInv'
    OBVIOUS
  <2>1. /\ BreakerInv /\ UnhealthyMeansOpen /\ WorldTypeOK /\ RequestsTypeOK
        /\ RatesKnown /\ RequestInv /\ Sound(cache.rate)
    BY OracleInvParts
  <2>2. BreakerInv' /\ UnhealthyMeansOpen'
    BY <2>1, BreakerStaysRight
  <2>3. WorldTypeOK' /\ RequestsTypeOK'
    BY <2>1, WorldTyped, RequestsTyped
  <2>4. RequestInv' /\ Sound(cache.rate)'
    BY <2>1, RatesStayRight
  <2>5. RatesKnown'
    BY <2>4 DEF RequestInv, RequestOK, RatesKnown
  <2>6. QED
    BY <2>2, <2>3, <2>4, <2>5
       DEF OracleInv, OracleTypeOK, BreakerInv, RequestInv, RequestOK
<1>3. QED
  BY <1>1, <1>2, PTL DEF OracleSpec

(***************************************************************************)
(* The service stays well typed (swapRateHandler, getSwapRate).            *)
(***************************************************************************)
THEOREM OracleTypeCorrect == OracleSpec => []OracleTypeOK
<1>1. OracleInv => OracleTypeOK
  BY DEF OracleInv
<1>2. QED
  BY <1>1, OracleInvariant, PTL

(***************************************************************************)
(* Attested rates come from fresh prices, also through the cache, under    *)
(* any interleaving of requests, clock, feeds and restarts (getSwapRate).  *)
(***************************************************************************)
THEOREM AttestationsAreFresh == OracleSpec => []AttestedRateWasFresh
<1>1. OracleInv => AttestedRateWasFresh
  <2> SUFFICES ASSUME OracleInv, NEW r \in Requests, Attested(r), rate[r] # LegacyRate
               PROVE  LET checked == IF reply[r].cacheHit THEN reply[r].timestamp
                                                          ELSE rate[r].last_price_update
                      IN  /\ rate[r].last_price_update <= reply[r].timestamp
                          /\ \A f \in Feeds : checked - rate[r].published[f] <= MaxPriceAge
    BY DEF AttestedRateWasFresh
  <2>1. rate[r] \in PriceRate
    BY DEF OracleInv, OracleTypeOK, RatesKnown, Attested, Rate
  <2>2. Stamped(r) /\ Sound(rate[r])
    BY DEF OracleInv, Attested
  <2>3. QED
    BY <2>1, <2>2, TimesAssumption DEF Stamped, Sound, PriceRate, Time
<1>2. QED
  BY <1>1, OracleInvariant, PTL

(***************************************************************************)
(* The breaker refuses requests exactly until enough checks have passed    *)
(* since it opened, for every threshold (onHealthCheckSuccess).            *)
(***************************************************************************)
THEOREM BreakerClosesWhenRecovered == OracleSpec => []ClosedWhenRecovered
<1>1. OracleInv => ClosedWhenRecovered
  BY DEF OracleInv, BreakerInv
<1>2. QED
  BY <1>1, OracleInvariant, PTL

(***************************************************************************)
(* While the latest health check is an unhealthy one the breaker is open,  *)
(* however health checks overlap (startMonitoring).                        *)
(***************************************************************************)
THEOREM UnhealthyServiceIsClosed == OracleSpec => []UnhealthyMeansOpen
<1>1. OracleInv => UnhealthyMeansOpen
  BY DEF OracleInv
<1>2. QED
  BY <1>1, OracleInvariant, PTL

(***************************************************************************)
(* Stale or uncertain prices never open the breaker (getSwapRate).         *)
(***************************************************************************)
THEOREM OnlyOutagesOpen == OracleSpec => OpensOnOutage
<1>1. OracleInv /\ [OracleNext]_oracleVars
        => [(state = "CLOSED" /\ state' = "OPEN") => OutageStep]_oracleVars
  <2> SUFFICES ASSUME OracleInv, OracleNext, state = "CLOSED", state' = "OPEN" PROVE OutageStep
    BY DEF oracleVars, breakerVars
  <2>1. phase \in [Requests -> Phases] /\ probe \in [Checks -> Health]
    BY DEF OracleInv, OracleTypeOK, RequestsTypeOK, WorldTypeOK
  <2>2. ASSUME NEW r \in Requests, Arrive(r) \/ RequestStep(r) PROVE OutageStep
    <3>1. RetrievalFails(r) \/ MetricFails(r)
      BY <2>2 DEF Arrive, AdmitRequest, RefuseRequest, RequestStep, LookUpCache,
                  UseCachedRate, StartRetrieval, FetchPrice, FetchFails, RejectPrices,
                  CalculateRate, PutMetric, AddToCache, StampRate, CreateAttestation,
                  breakerVars
    <3>2. QED
      BY <2>1, <3>1 DEF RetrievalFails, MetricFails, Fail, PriceUnfetched, OutageStep
  <2>3. ASSUME NEW h \in Checks, HealthStep(h) PROVE OutageStep
    <3>1. CheckFails(h)
      BY <2>3 DEF HealthStep, ProbeHealth, CheckPasses, onHealthCheckSuccess, breakerVars
    <3>2. QED
      BY <2>1, <3>1 DEF CheckFails, OutageStep
  <2>4. ~Restart
    BY DEF Restart, NewBreaker
  <2>5. ~World
    BY DEF World, Tick, PublishPrice, HermesChanges, breakerVars
  <2>6. QED
    BY <2>2, <2>3, <2>4, <2>5 DEF OracleNext
<1>2. QED
  BY <1>1, OracleInvariant, PTL DEF OracleSpec, OpensOnOutage

\* What bounds the age of a legacy rate: nobody renews its entry.
LegacyEntryExpires == cache.rate = LegacyRate => cache.expires <= CacheTTL

LEMMA LegacyIsNoPriceRate == LegacyRate \notin PriceRate /\ NoRate # LegacyRate
  BY NoTimeAssumption, NoRateAssumption DEF LegacyRate, PriceRate, Time, Rate

LEMMA LegacyEntryStays ==
  ASSUME OracleInv, LegacyEntryExpires, [OracleNext]_oracleVars
  PROVE  LegacyEntryExpires'
<1>1. CASE cache' = cache
  BY <1>1 DEF LegacyEntryExpires
<1>2. CASE cache' # cache
  <2>1. PICK r \in Requests : AddToCache(r)
    BY <1>2 DEF OracleNext, oracleVars, Arrive, AdmitRequest, RefuseRequest, RequestStep,
                LookUpCache, UseCachedRate, StartRetrieval, FetchPrice, FetchFails,
                RetrievalFails, RejectPrices, CalculateRate, PutMetric, MetricFails,
                StampRate, CreateAttestation, HealthStep, ProbeHealth, CheckPasses,
                CheckFails, Restart, World, Tick, PublishPrice, HermesChanges
  <2>2. rate[r] \in PriceRate
    BY <2>1 DEF OracleInv, OracleTypeOK, RatesKnown, AddToCache
  <2>3. cache'.rate = rate[r]
    BY <1>2, <2>1 DEF AddToCache
  <2>4. QED
    BY <2>2, <2>3, LegacyIsNoPriceRate DEF LegacyEntryExpires, LegacyRate
<1>3. QED
  BY <1>1, <1>2

(***************************************************************************)
(* A legacy rate is found only within its lifetime from the start, for     *)
(* every lifetime, any number of requests and restarts (getSwapRate).      *)
(***************************************************************************)
THEOREM LegacyRatesExpire == OracleSpec => LegacyRatesRunOut
<1>1. OracleInit => LegacyEntryExpires
  BY TimesAssumption, LegacyIsNoPriceRate DEF OracleInit, LegacyEntryExpires, NoEntry
<1>2. OracleInv /\ LegacyEntryExpires /\ [OracleNext]_oracleVars => LegacyEntryExpires'
  BY LegacyEntryStays
<1>3. OracleInv /\ LegacyEntryExpires /\ [OracleNext]_oracleVars
        => [\A r \in Requests :
              (rate[r] # LegacyRate /\ rate'[r] = LegacyRate) => clock < CacheTTL]_oracleVars
  <2> SUFFICES ASSUME OracleInv, LegacyEntryExpires, OracleNext,
                      NEW r \in Requests, rate[r] # LegacyRate, rate'[r] = LegacyRate
               PROVE  clock < CacheTTL
    BY DEF oracleVars
  <2>1. /\ rate \in [Requests -> PossibleRate] /\ fetched \in [Requests -> PricesFetched]
        /\ clock \in Nat /\ cache.expires \in Nat
    BY DEF OracleInv, OracleTypeOK, RequestsTypeOK, WorldTypeOK, Time
  <2>2. ASSUME NEW s \in Requests, Arrive(s) \/ RequestStep(s) PROVE LookUpCache(s)
    <3>1. ~CalculateRate(s)
      <4> SUFFICES ASSUME CalculateRate(s) PROVE FALSE
        OBVIOUS
      <4> DEFINE published == [f \in Feeds |-> fetched[s][f].time]
                 new == [last_price_update |-> clock, publishTime |-> Oldest(published),
                         published |-> published]
      <4>1. published \in [Feeds -> Time] /\ clock \in Time
        BY FetchedPricesTyped DEF CalculateRate, OracleInv, OracleTypeOK, RequestsTypeOK, WorldTypeOK
      <4>2. /\ \A f \in Feeds : Fresh(published[f])
            /\ rate' = [rate EXCEPT ![s] = new]
        BY DEF CalculateRate
      <4> HIDE DEF published
      <4>4. new \in PriceRate
        BY <4>1, <4>2, CalculatedRateSound
      <4>3. QED
        BY <2>1, <4>2, <4>4, LegacyIsNoPriceRate
    <3>2. QED
      BY <2>1, <2>2, <3>1, LegacyIsNoPriceRate
         DEF Arrive, AdmitRequest, RefuseRequest, RequestStep, UseCachedRate, StartRetrieval,
             FetchPrice, FetchFails, RetrievalFails, RejectPrices, PutMetric, MetricFails,
             AddToCache, StampRate, CreateAttestation, Fail
  <2>3. \E s \in Requests : LookUpCache(s)
    <3>1. ~Restart
      BY <2>1, LegacyIsNoPriceRate DEF Restart
    <3>2. ~World /\ ~\E h \in Checks : HealthStep(h)
      BY DEF World, Tick, PublishPrice, HermesChanges, HealthStep, ProbeHealth, CheckPasses,
             CheckFails, requestVars
    <3>3. QED
      BY <2>2, <3>1, <3>2 DEF OracleNext
  <2>4. Cached = LegacyRate
    BY <2>1, <2>3, LegacyIsNoPriceRate DEF LookUpCache
  <2>5. QED
    BY <2>1, <2>4, LegacyIsNoPriceRate, TimesAssumption DEF Cached, LegacyEntryExpires
<1>4. QED
  BY <1>1, <1>2, <1>3, OracleInvariant, PTL DEF OracleSpec, LegacyRatesRunOut
=============================================================================
