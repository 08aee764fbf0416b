-------------------------- MODULE MCSigmoidDriver --------------------------
(***************************************************************************)
(* Instances of SigmoidDriver for TLC.                                     *)
(***************************************************************************)
EXTENDS SigmoidDriver

FourWords == {0, 1, 4097, -8191}
=============================================================================
