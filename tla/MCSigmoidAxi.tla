---------------------------- MODULE MCSigmoidAxi ----------------------------
(***************************************************************************)
(* Instances of SigmoidAxi for TLC.  The words have pairwise different     *)
(* sigmoids; an odd one written to CTRL is a start, an even one is not.    *)
(***************************************************************************)
EXTENDS SigmoidAxi

TwoWords == {0, 4097}
ThreeWords == {0, 4097, -8191}
=============================================================================
