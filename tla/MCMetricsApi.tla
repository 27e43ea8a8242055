----------------------------- MODULE MCMetricsApi -----------------------------
(* Days of two seconds; the last second of day 1 and the first of day 2 have events.  *)
EXTENDS MetricsApi

MCBlockTime == (1 :> 3) @@ (2 :> 4) @@ (3 :> 4) @@ (4 :> 3) @@ (5 :> 2)
MCSolDequeued == (4 :> 9) @@ (5 :> 2)
=============================================================================
