---------------------------- MODULE MCSwapOracle ----------------------------
(* The swap oracle on a small instance.                                     *)
EXTENDS SwapOracle, TLC

\* Requests, health checks and the two feeds are interchangeable.
OracleSymmetry == Permutations(Requests) \cup Permutations(Checks) \cup Permutations(Feeds)
=============================================================================
