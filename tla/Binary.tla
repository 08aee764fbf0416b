------------------------------- MODULE Binary -------------------------------
(***************************************************************************)
(* Natural numbers in binary, by recursive functions that have a step per  *)
(* bit: powers of two, shifts to the right, bits.                          *)
(***************************************************************************)
EXTENDS Integers

\* 1 << n
Pow2[n \in Nat] == IF n = 0 THEN 1 ELSE 2 * Pow2[n - 1]

\* v >> n
ShiftRight(v, n) ==
    LET shifted[k \in Nat] == IF k = 0 THEN v ELSE shifted[k - 1] \div 2
    IN  shifted[n]

BitAt(v, i) == ShiftRight(v, i) % 2

\* The N low bits of v, least significant first.
Bits(v, N) == [i \in 1..N |-> BitAt(v, i - 1) = 1]

=============================================================================
