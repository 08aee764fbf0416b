----------------------------- MODULE MCAdderTop -----------------------------
(***************************************************************************)
(* Instances of AdderTop for TLC: the 16-bit adder with four approximate   *)
(* bits, the default of truncated_adder_top.v.  17 is odd, so it also sets *)
(* the start bit, and loses its low bit in the adder.                      *)
(***************************************************************************)
EXTENDS AdderTop, TruncatedAdder

DATA_WIDTH == 16
APPROX_BITS == 4

TwoWords == {0, 17}

AddWords(v, w) == ADD_APPROX(v, w, 0, DATA_WIDTH, APPROX_BITS).sum
=============================================================================
