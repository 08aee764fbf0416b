------------------------------- MODULE MCBRAM -------------------------------
(***************************************************************************)
(* Instances of BRAM for TLC: the 64 KB memory of 32-bit words.            *)
(***************************************************************************)
EXTENDS BRAM

\* The last word of the memory.
LastWord == {65532}

\* The last word of the memory and the first address beyond it.
AtTheEnd == {65532, 65536}
=============================================================================
