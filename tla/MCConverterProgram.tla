------------------------- MODULE MCConverterProgram -------------------------
(* The converter program on a small instance. *)
EXTENDS ConverterProgram

\* The registry accepts any trade that fits a u64.
MCTokenAmounts == 0..U64_MAX
=============================================================================
