--------------------------- MODULE TruncatedAdder ---------------------------
(***************************************************************************)
(* The truncated adder ADD_APPROX as a function: a chain of one-bit cells, *)
(* the n low ones zero-truncating, the others full adders.  add_approx is  *)
(* the arithmetic the Python evaluation uses in its place.                 *)
(***************************************************************************)
EXTENDS Binary

\* Faulty variant: a carry is generated and never propagated.
FullAdderNoRipple(a, b, cin) ==
    [sum |-> (a + b + cin) % 2, cout |-> (a + b) \div 2]

\* One-bit cells: the sum and the carry out.
full_adder_1bit(a, b, cin) ==
    [sum |-> (a + b + cin) % 2, cout |-> (a + b + cin) \div 2]

AdderIMPACTZeroApproxOneBit(a, b, cin) == [sum |-> 0, cout |-> 0]

\* Faulty variant: one approximate cell too many.
StageOffByOne(a, b, cin, n, i) ==
    IF i <= n
      THEN AdderIMPACTZeroApproxOneBit(BitAt(a, i), BitAt(b, i), cin)
      ELSE full_adder_1bit(BitAt(a, i), BitAt(b, i), cin)

\* The cell of bit i.
Stage(a, b, cin, n, i) ==
    IF i < n
      THEN AdderIMPACTZeroApproxOneBit(BitAt(a, i), BitAt(b, i), cin)
      ELSE full_adder_1bit(BitAt(a, i), BitAt(b, i), cin)

\* The chain of width cells, from bit 0 up: the sum so far and carry[i].
ADD_APPROX(a, b, cin, width, n) ==
    LET chain[i \in Nat] ==
            IF i = 0 THEN [sum |-> 0, cout |-> cin]
            ELSE LET below == chain[i - 1]
                     cell == Stage(a, b, below.cout, n, i - 1)
                 IN  [sum |-> below.sum + cell.sum * Pow2[i - 1], cout |-> cell.cout]
    IN  chain[width]

\* The masks of verify_truncated_adder.py clear the n low bits.
Truncate(v, n) == ShiftRight(v, n) * Pow2[n]

add_approx(a, b, width, n) ==
    IF n >= width THEN 0
    ELSE IF n <= 0 THEN (a + b) % Pow2[width]
    ELSE (Truncate(a, n) + Truncate(b, n)) % Pow2[width]

=============================================================================
