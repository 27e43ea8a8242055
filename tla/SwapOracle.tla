----------------------------- MODULE SwapOracle -----------------------------
(***************************************************************************)
(* The swap oracle service (off-chain/swap-oracle-service): it answers     *)
(* GET /swap-rate with a rate computed from two Pyth prices and attests    *)
(* the rate together with the current time.                                *)
(*                                                                         *)
(* A request is a chain of awaits in swapRateController.ts; every await is *)
(* a step boundary here, at which other requests, health checks, the clock *)
(* and the feeds may move.  The service runs one pricing service (Pyth,    *)
(* the only type the factory creates and the only one configured), so that *)
(* selectMostFavorableRate returns its rate.  Prices are abstracted to     *)
(* their publish times, and whether their confidence is acceptable to a    *)
(* choice.  A cache of several instances looks to each like the cache of   *)
(* one with more requests.                                                 *)
(***************************************************************************)
EXTENDS CircuitBreaker

CONSTANTS
  Requests,        \* requests that may be in flight at the same time
  Checks,          \* health checks that may be in flight at the same time
  Feeds,           \* the price feeds: SOL/USD and 2Z/USD
  maxRetries,      \* attempts to fetch a price: 3 in pythPricingService.ts
  MaxPriceAge,     \* maxPriceAgeSeconds: 60
  CacheTTL,        \* priceCacheTTLSeconds: 30
  MaxClock,        \* bound on the time of a behaviour
  NoTime, NoRate, NoData

ASSUME RetriesAssumption == maxRetries \in Nat \ {0}
ASSUME TimesAssumption == MaxPriceAge \in Nat /\ CacheTTL \in Nat /\ MaxClock \in Nat
ASSUME FeedsAssumption == Feeds # {}
ASSUME NoTimeAssumption == NoTime \notin Nat
ASSUME NoDataAssumption == NoData \notin {"HEALTHY", "UN_HEALTHY"}

VARIABLES
  clock,           \* seconds
  hermesUp,        \* the Hermes endpoint answers
  feed,            \* the time of the latest price each feed published
  cache,           \* the Redis entry ENV-swapRate with its expiry
  monitoringData,  \* the latest health check, NoData before the first
  probe,           \* what each running health check has found
  phase,           \* where each request is in swapRateHandler
  fetched,         \* its fetchPrice calls: attempts made, and the price time
  rate,            \* its PriceRate
  reply            \* the timestamp it attests and whether it is a cacheHit

requestVars == <<phase, fetched, rate, reply>>
healthVars == <<monitoringData, probe>>
worldVars == <<clock, hermesUp, feed>>
oracleVars == <<worldVars, cache, healthVars, requestVars, breakerVars>>

Time == 0..MaxClock

\* A PriceRate.  Entries cached by releases before the staleness check carry no
\* publish times.
PriceRate == [last_price_update : Time, publishTime : Time, published : [Feeds -> Time]]
LegacyRate == [last_price_update |-> 0, publishTime |-> NoTime,
               published |-> [f \in Feeds |-> NoTime]]
Rate == PriceRate \cup {LegacyRate}
ASSUME NoRateAssumption == NoRate \notin Rate

NoEntry == [rate |-> NoRate, expires |-> 0]
NotFetched == [f \in Feeds |-> [attempts |-> 0, time |-> NoTime]]
NoReply == [timestamp |-> NoTime, cacheHit |-> FALSE]

\* What Redis returns: an entry set with EX is gone when its time is up.
Cached == IF clock < cache.expires THEN cache.rate ELSE NoRate

Fresh(time) == clock - time <= MaxPriceAge

\* A fetchPrice call is over when it has a price or no attempts left.
Settled(call) == call.time # NoTime \/ call.attempts = maxRetries
AllSettled(r) == \A f \in Feeds : Settled(fetched[r][f])
AllFetched(r) == \A f \in Feeds : fetched[r][f].time # NoTime

Newest(times) == CHOOSE t \in {times[f] : f \in Feeds} : \A f \in Feeds : t >= times[f]
Oldest(times) == CHOOSE t \in {times[f] : f \in Feeds} : \A f \in Feeds : t <= times[f]
-----------------------------------------------------------------------------
OracleInit ==
  /\ BreakerInit
  /\ clock = 0
  /\ hermesUp = TRUE
  /\ feed = [f \in Feeds |-> 0]
  /\ cache \in {NoEntry, [rate |-> LegacyRate, expires |-> CacheTTL]}
  /\ monitoringData = NoData
  /\ probe = [h \in Checks |-> NoData]
  /\ phase = [r \in Requests |-> "idle"]
  /\ fetched = [r \in Requests |-> NotFetched]
  /\ rate = [r \in Requests |-> NoRate]
  /\ reply = [r \in Requests |-> NoReply]

\* A request ends "attested", or without a rate: "unavailable" (503) or "error" (500).
Fail(r, answer) ==
  /\ phase' = [phase EXCEPT ![r] = answer]
  /\ fetched' = [fetched EXCEPT ![r] = NotFetched]
  /\ rate' = [rate EXCEPT ![r] = NoRate]
  /\ reply' = [reply EXCEPT ![r] = NoReply]

Free(r) == phase[r] \in {"idle", "attested", "unavailable", "error"}

\* startMonitoringService awaits the first health check before the server listens.
Listening == monitoringData # NoData
getHealthStatus == canExecute /\ monitoringData = "HEALTHY"

AdmitRequest(r) ==
  /\ Free(r) /\ Listening /\ getHealthStatus
  /\ phase' = [phase EXCEPT ![r] = "lookup"]
  /\ rate' = [rate EXCEPT ![r] = NoRate]
  /\ reply' = [reply EXCEPT ![r] = NoReply]
  /\ UNCHANGED <<worldVars, cache, healthVars, fetched, breakerVars>>

RefuseRequest(r) ==
  /\ Free(r) /\ Listening /\ ~getHealthStatus
  /\ Fail(r, "unavailable")
  /\ UNCHANGED <<worldVars, cache, healthVars, breakerVars>>

\* An error of Redis is swallowed and reads as a missing entry.
LookUpCache(r) ==
  /\ phase[r] = "lookup"
  /\ \E found \in {Cached, NoRate} : rate' = [rate EXCEPT ![r] = found]
  /\ phase' = [phase EXCEPT ![r] = "found"]
  /\ UNCHANGED <<worldVars, cache, healthVars, fetched, reply, breakerVars>>

\* Mutant of Usable: the age counts from the calculation, not from publication.
UsableByCacheTime(priceRate) ==
  /\ priceRate # NoRate
  /\ priceRate.publishTime # NoTime => Fresh(priceRate.last_price_update)

\* A legacy entry is returned whatever its age.
Usable(priceRate) ==
  /\ priceRate # NoRate
  /\ priceRate.publishTime # NoTime => Fresh(priceRate.publishTime)

\* Mutant of UseCachedRate: a hit renews the entry.
UseCachedRateRenewing(r) ==
  /\ phase[r] = "found" /\ Usable(rate[r])
  /\ phase' = [phase EXCEPT ![r] = "signing"]
  /\ reply' = [reply EXCEPT ![r] = [timestamp |-> clock, cacheHit |-> TRUE]]
  /\ cache' = [rate |-> rate[r], expires |-> clock + CacheTTL]
  /\ UNCHANGED <<worldVars, healthVars, fetched, rate, breakerVars>>

\* From the return of a cached rate to the timestamp the handler awaits nothing.
UseCachedRate(r) ==
  /\ phase[r] = "found" /\ Usable(rate[r])
  /\ phase' = [phase EXCEPT ![r] = "signing"]
  /\ reply' = [reply EXCEPT ![r] = [timestamp |-> clock, cacheHit |-> TRUE]]
  /\ UNCHANGED <<worldVars, cache, healthVars, fetched, rate, breakerVars>>

StartRetrieval(r) ==
  /\ phase[r] = "found" /\ ~Usable(rate[r])
  /\ phase' = [phase EXCEPT ![r] = "fetching"]
  /\ rate' = [rate EXCEPT ![r] = NoRate]
  /\ UNCHANGED <<worldVars, cache, healthVars, fetched, reply, breakerVars>>

FetchPrice(r, f) ==
  /\ phase[r] = "fetching" /\ ~Settled(fetched[r][f])
  /\ hermesUp
  /\ fetched' = [fetched EXCEPT ![r][f].time = feed[f]]
  /\ UNCHANGED <<worldVars, cache, healthVars, phase, rate, reply, breakerVars>>

\* Mutant of FetchFails: the attempt is not counted.
FetchFailsUncounted(r, f) ==
  /\ phase[r] = "fetching" /\ ~Settled(fetched[r][f])
  /\ UNCHANGED oracleVars

\* Invalid price data ends the retries at once.
FetchFails(r, f) ==
  /\ phase[r] = "fetching" /\ ~Settled(fetched[r][f])
  /\ \E attempts \in {fetched[r][f].attempts + 1, maxRetries} :
       fetched' = [fetched EXCEPT ![r][f].attempts = attempts]
  /\ UNCHANGED <<worldVars, cache, healthVars, phase, rate, reply, breakerVars>>

RetrievalFails(r) ==
  /\ phase[r] = "fetching" /\ AllSettled(r) /\ ~AllFetched(r)
  /\ onPriceRetrievalFailure
  /\ Fail(r, "error")
  /\ UNCHANGED <<worldVars, cache, healthVars>>

\* Mutant of RejectPrices: the rejection opens the breaker.
RejectPricesReporting(r) ==
  /\ phase[r] = "fetching" /\ AllFetched(r)
  /\ onPriceRetrievalFailure
  /\ Fail(r, "unavailable")
  /\ UNCHANGED <<worldVars, cache, healthVars>>

\* Prices that are stale or too uncertain: PriceServiceUnavailableError, which
\* getSwapRate does not report to the breaker.
RejectPrices(r) ==
  /\ phase[r] = "fetching" /\ AllFetched(r)
  /\ Fail(r, "unavailable")
  /\ UNCHANGED <<worldVars, cache, healthVars, breakerVars>>

CalculateRate(r) ==
  LET published == [f \in Feeds |-> fetched[r][f].time] IN
  /\ phase[r] = "fetching" /\ AllFetched(r)
  /\ \A f \in Feeds : Fresh(published[f])
  /\ rate' = [rate EXCEPT ![r] = [last_price_update |-> clock,
                                  publishTime |-> Oldest(published),
                                  published |-> published]]
  /\ phase' = [phase EXCEPT ![r] = "metering"]
  /\ fetched' = [fetched EXCEPT ![r] = NotFetched]
  /\ UNCHANGED <<worldVars, cache, healthVars, reply, breakerVars>>

PutMetric(r) ==
  /\ phase[r] = "metering"
  /\ phase' = [phase EXCEPT ![r] = "caching"]
  /\ UNCHANGED <<worldVars, cache, healthVars, fetched, rate, reply, breakerVars>>

\* A failure of CloudWatch is handled as a failed retrieval of prices.
MetricFails(r) ==
  /\ phase[r] = "metering"
  /\ onPriceRetrievalFailure
  /\ Fail(r, "error")
  /\ UNCHANGED <<worldVars, cache, healthVars>>

\* The new entry replaces whatever the cache holds; an error of Redis is swallowed.
AddToCache(r) ==
  /\ phase[r] = "caching"
  /\ cache' \in {cache, [rate |-> rate[r], expires |-> clock + CacheTTL]}
  /\ phase' = [phase EXCEPT ![r] = "cached"]
  /\ UNCHANGED <<worldVars, healthVars, fetched, rate, reply, breakerVars>>

StampRate(r) ==
  /\ phase[r] = "cached"
  /\ phase' = [phase EXCEPT ![r] = "signing"]
  /\ reply' = [reply EXCEPT ![r] = [timestamp |-> clock, cacheHit |-> FALSE]]
  /\ UNCHANGED <<worldVars, cache, healthVars, fetched, rate, breakerVars>>

\* createAttestation fetches the key from the parameter store, which may fail.
CreateAttestation(r) ==
  /\ phase[r] = "signing"
  /\ \/ /\ phase' = [phase EXCEPT ![r] = "attested"]
        /\ UNCHANGED <<fetched, rate, reply>>
     \/ Fail(r, "error")
  /\ UNCHANGED <<worldVars, cache, healthVars, breakerVars>>
-----------------------------------------------------------------------------
\* The first check is awaited; then one starts every 30 seconds, whether or not the
\* previous one has ended.
\* getHealth finds the cache connected whatever happens: the cache service swallows
\* its errors.
ProbeHealth(h) ==
  /\ probe[h] = NoData
  /\ Listening \/ \A other \in Checks : probe[other] = NoData
  /\ probe' = [probe EXCEPT ![h] = IF hermesUp THEN "HEALTHY" ELSE "UN_HEALTHY"]
  /\ UNCHANGED <<worldVars, cache, monitoringData, requestVars, breakerVars>>

CheckPasses(h) ==
  /\ probe[h] = "HEALTHY"
  /\ onHealthCheckSuccess
  /\ monitoringData' = probe[h]
  /\ probe' = [probe EXCEPT ![h] = NoData]
  /\ UNCHANGED <<worldVars, cache, requestVars>>

\* Mutant of CheckFails: the previous result is reported.
CheckFailsLagging(h) ==
  /\ probe[h] = "UN_HEALTHY"
  /\ IF monitoringData = "UN_HEALTHY" THEN onHealthCheckFailure ELSE onHealthCheckSuccess
  /\ monitoringData' = probe[h]
  /\ probe' = [probe EXCEPT ![h] = NoData]
  /\ UNCHANGED <<worldVars, cache, requestVars>>

CheckFails(h) ==
  /\ probe[h] = "UN_HEALTHY"
  /\ onHealthCheckFailure
  /\ monitoringData' = probe[h]
  /\ probe' = [probe EXCEPT ![h] = NoData]
  /\ UNCHANGED <<worldVars, cache, requestVars>>

\* The process is restarted: requests and checks are lost, the cache is not.
Restart ==
  /\ NewBreaker
  /\ monitoringData' = NoData
  /\ probe' = [h \in Checks |-> NoData]
  /\ phase' = [r \in Requests |-> "idle"]
  /\ fetched' = [r \in Requests |-> NotFetched]
  /\ rate' = [r \in Requests |-> NoRate]
  /\ reply' = [r \in Requests |-> NoReply]
  /\ UNCHANGED <<worldVars, cache>>

Tick ==
  /\ clock < MaxClock
  /\ clock' = clock + 1
  /\ UNCHANGED <<hermesUp, feed, cache, healthVars, requestVars, breakerVars>>

PublishPrice(f) ==
  /\ feed' = [feed EXCEPT ![f] = clock]
  /\ UNCHANGED <<clock, hermesUp, cache, healthVars, requestVars, breakerVars>>

HermesChanges ==
  /\ hermesUp' = ~hermesUp
  /\ UNCHANGED <<clock, feed, cache, healthVars, requestVars, breakerVars>>

Arrive(r) == AdmitRequest(r) \/ RefuseRequest(r)

RequestStep(r) ==
  \/ LookUpCache(r) \/ UseCachedRate(r) \/ StartRetrieval(r)
  \/ \E f \in Feeds : FetchPrice(r, f) \/ FetchFails(r, f)
  \/ RetrievalFails(r) \/ RejectPrices(r) \/ CalculateRate(r)
  \/ PutMetric(r) \/ MetricFails(r) \/ AddToCache(r)
  \/ StampRate(r) \/ CreateAttestation(r)

HealthStep(h) == ProbeHealth(h) \/ CheckPasses(h) \/ CheckFails(h)

World == Tick \/ HermesChanges \/ \E f \in Feeds : PublishPrice(f)

OracleNext ==
  \/ \E r \in Requests : Arrive(r) \/ RequestStep(r)
  \/ \E h \in Checks : HealthStep(h)
  \/ Restart
  \/ World

OracleSpec == OracleInit /\ [][OracleNext]_oracleVars

\* Every call a request awaits returns or fails in the end, and setInterval keeps
\* starting health checks, each of which ends.
OracleFairSpec ==
  /\ OracleSpec
  /\ \A r \in Requests : WF_oracleVars(RequestStep(r))
  /\ \A h \in Checks : WF_oracleVars(HealthStep(h))
-----------------------------------------------------------------------------
FetchCall == [attempts : 0..maxRetries, time : Time \cup {NoTime}]
PricesFetched == [Feeds -> FetchCall]
Health == {"HEALTHY", "UN_HEALTHY", NoData}
Phases == {"idle", "lookup", "found", "fetching", "metering", "caching", "cached",
           "signing", "attested", "unavailable", "error"}

PossibleRate == Rate \cup {NoRate}
Reply == [timestamp : Time \cup {NoTime}, cacheHit : BOOLEAN]

WorldTypeOK ==
  /\ clock \in Time
  /\ hermesUp \in BOOLEAN
  /\ feed \in [Feeds -> Time]
  /\ cache \in [rate : PossibleRate, expires : Nat]
  /\ monitoringData \in Health
  /\ probe \in [Checks -> Health]

RequestsTypeOK ==
  /\ phase \in [Requests -> Phases]
  /\ fetched \in [Requests -> PricesFetched]
  /\ rate \in [Requests -> PossibleRate]
  /\ reply \in [Requests -> Reply]

\* A request knows a rate from its calculation to its answer.
RatesKnown ==
  \A r \in Requests :
    /\ phase[r] \in {"metering", "caching", "cached"} => rate[r] \in PriceRate
    /\ phase[r] \in {"signing", "attested"} => rate[r] \in Rate

\* Every variable has its type, and a rate is known wherever one is used.
OracleTypeOK == BreakerTypeOK /\ WorldTypeOK /\ RequestsTypeOK /\ RatesKnown

Attested(r) == phase[r] = "attested"

(***************************************************************************)
(* An attested rate was computed from prices none of which was older than  *)
(* maxPriceAgeSeconds when the rate was calculated (swapRateCalculation);  *)
(* one that comes from the cache was still that young at the time it       *)
(* attests (getSwapRate), through the publish time of its older price.     *)
(* Legacy entries carry no publish times and are the exception.            *)
(***************************************************************************)
AttestedRateWasFresh ==
  \A r \in Requests : Attested(r) /\ rate[r] # LegacyRate =>
    LET checked == IF reply[r].cacheHit THEN reply[r].timestamp
                                        ELSE rate[r].last_price_update
    IN  /\ rate[r].last_price_update <= reply[r].timestamp
        /\ \A f \in Feeds : checked - rate[r].published[f] <= MaxPriceAge

(***************************************************************************)
(* A cached rate without publish times is attested whatever its age, so    *)
(* that only its lifetime bounds it: a request can find one only within    *)
(* CacheTTL of the start of this release, restarts included, because it is *)
(* never written again (getSwapRate, add).                                 *)
(***************************************************************************)
LegacyRatesRunOut ==
  [][\A r \in Requests :
       (rate[r] # LegacyRate /\ rate'[r] = LegacyRate) => clock < CacheTTL]_oracleVars

(***************************************************************************)
(* After an unhealthy result the breaker is open for as long as that       *)
(* result is the latest one (startMonitoring): the second half of          *)
(* getHealthStatus, which looks at the result, never decides.              *)
(***************************************************************************)
UnhealthyMeansOpen == monitoringData = "UN_HEALTHY" => state = "OPEN"

(***************************************************************************)
(* The inductive invariant.  A rate is sound when it was made of prices    *)
(* that were fresh then and its publish time is no later than any of       *)
(* theirs, which is what the age check of a cached rate relies on.         *)
(***************************************************************************)
Sound(priceRate) ==
  priceRate \in PriceRate =>
    /\ priceRate.last_price_update <= clock
    /\ \A f \in Feeds : /\ priceRate.publishTime <= priceRate.published[f]
                        /\ priceRate.last_price_update - priceRate.published[f] <= MaxPriceAge

Stamped(r) ==
  /\ reply[r].timestamp \in Time
  /\ rate[r] \in PriceRate =>
       /\ rate[r].last_price_update <= reply[r].timestamp
       /\ reply[r].cacheHit => reply[r].timestamp - rate[r].publishTime <= MaxPriceAge

OracleInv ==
  /\ OracleTypeOK
  /\ BreakerInv
  /\ UnhealthyMeansOpen
  /\ Sound(cache.rate)
  /\ \A r \in Requests : Sound(rate[r])
  /\ \A r \in Requests : phase[r] \in {"signing", "attested"} => Stamped(r)

(***************************************************************************)
(* Stale or uncertain prices do not open the breaker: it opens with a      *)
(* health check that found Hermes down, a price that could not be fetched, *)
(* or a metric that could not be stored (getSwapRate, startMonitoring).    *)
(***************************************************************************)
PriceUnfetched(r) == phase[r] = "fetching" /\ ~AllFetched(r)
OutageStep ==
  \/ \E h \in Checks : probe[h] = "UN_HEALTHY" /\ probe'[h] = NoData
  \/ \E r \in Requests : /\ phase'[r] = "error"
                         /\ PriceUnfetched(r) \/ phase[r] = "metering"
OpensOnOutage == [][(state = "CLOSED" /\ state' = "OPEN") => OutageStep]_oracleVars

(***************************************************************************)
(* api-doc.yaml:29 describes the timestamp of an answer as the "Unix       *)
(* timestamp when the rate was generated" (legacy entries do not tell).    *)
(***************************************************************************)
TimestampIsGenerationTime ==
  \A r \in Requests :
    Attested(r) /\ rate[r] # LegacyRate => reply[r].timestamp = rate[r].last_price_update

(***************************************************************************)
(* Every request is answered, unless the process restarts: the retries of  *)
(* fetchPrice are bounded and no path of swapRateHandler is left without   *)
(* an answer.                                                              *)
(***************************************************************************)
RequestsAnswered == \A r \in Requests : ~Free(r) ~> Free(r)

(***************************************************************************)
(* Once Hermes stays up the breaker does not stay open: health checks      *)
(* close it, however often failing requests open it again.                 *)
(***************************************************************************)
BreakerRecovers == <>[]hermesUp => []<>canExecute
=============================================================================
