--------------------------- MODULE CircuitBreaker ---------------------------
(***************************************************************************)
(* The circuit breaker of the swap oracle service (circuitBreaker.ts).     *)
(*                                                                         *)
(* Health checks and failed price retrievals report to it; while it is     *)
(* OPEN the service refuses every request.  Only health checks that pass   *)
(* close it again.  The reason and the time of opening are only displayed  *)
(* and are left out.                                                       *)
(***************************************************************************)
EXTENDS Integers

CONSTANT healthCheckAttemptsToClose   \* 3 in circuitBreakerService.ts

ASSUME AttemptsAssumption == healthCheckAttemptsToClose \in Nat \ {0}

VARIABLES
  state,                        \* "CLOSED" or "OPEN"
  consecutiveHealthCheckPasses, \* the counter of the code (unset is 0: it is not read then)
  passesSinceOpened             \* history: passed checks since it last opened

breakerVars == <<state, consecutiveHealthCheckPasses, passesSinceOpened>>

\* The history stops counting at the number that closes the breaker.
Counted(n) == IF n < healthCheckAttemptsToClose THEN n + 1 ELSE n

BreakerInit ==
  /\ state = "CLOSED"
  /\ consecutiveHealthCheckPasses = 0
  /\ passesSinceOpened = healthCheckAttemptsToClose   \* nothing to recover from

canExecute == state = "CLOSED"

\* openCircuit: a breaker that is already open ignores the report.
openCircuit ==
  /\ state' = "OPEN"
  /\ consecutiveHealthCheckPasses' = IF canExecute THEN 0 ELSE consecutiveHealthCheckPasses
  /\ passesSinceOpened' = IF canExecute THEN 0 ELSE passesSinceOpened

onHealthCheckFailure == openCircuit
onPriceRetrievalFailure == openCircuit

\* Mutant of Closes: the counter is compared before it is incremented.
ClosesLate(passes) == passes > healthCheckAttemptsToClose

Closes(passes) == passes >= healthCheckAttemptsToClose

\* Mutant of onHealthCheckSuccess: every passed check counts as the first.
onHealthCheckSuccessForgets ==
  /\ passesSinceOpened' = Counted(passesSinceOpened)
  /\ consecutiveHealthCheckPasses' = 1
  /\ state' = IF Closes(1) THEN "CLOSED" ELSE state

onHealthCheckSuccess ==
  /\ passesSinceOpened' = Counted(passesSinceOpened)
  /\ \/ /\ state = "OPEN" /\ Closes(consecutiveHealthCheckPasses + 1)
        /\ state' = "CLOSED"
        /\ consecutiveHealthCheckPasses' = 0
     \/ /\ state = "OPEN" /\ ~Closes(consecutiveHealthCheckPasses + 1)
        /\ consecutiveHealthCheckPasses' = consecutiveHealthCheckPasses + 1
        /\ UNCHANGED state
     \/ /\ state = "CLOSED"
        /\ consecutiveHealthCheckPasses' = 0
        /\ UNCHANGED state

\* A restart of the process builds a new breaker.
NewBreaker ==
  /\ state' = "CLOSED"
  /\ consecutiveHealthCheckPasses' = 0
  /\ passesSinceOpened' = healthCheckAttemptsToClose
-----------------------------------------------------------------------------
BreakerTypeOK ==
  /\ state \in {"CLOSED", "OPEN"}
  /\ consecutiveHealthCheckPasses \in 0..healthCheckAttemptsToClose - 1
  /\ passesSinceOpened \in 0..healthCheckAttemptsToClose

(***************************************************************************)
(* The breaker refuses requests exactly until enough health checks have    *)
(* passed since it opened (openCircuit, onHealthCheckSuccess): failures    *)
(* reported while it is open neither shorten nor prolong the outage, so    *)
(* the passes that close it need not be consecutive.                       *)
(***************************************************************************)
ClosedWhenRecovered == canExecute <=> passesSinceOpened = healthCheckAttemptsToClose

\* The counter of the code counts what the history counts; with it the above is inductive.
BreakerInv ==
  /\ BreakerTypeOK
  /\ ClosedWhenRecovered
  /\ state = "OPEN" => consecutiveHealthCheckPasses = passesSinceOpened
=============================================================================
