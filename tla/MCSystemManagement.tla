------------------------- MODULE MCSystemManagement -------------------------
(* The administration on a small instance. *)
EXTENDS SystemManagement

\* The ages -1 and 0 are refused.
MCMaximumAges == {-1, 0, 5}
=============================================================================
