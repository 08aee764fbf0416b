----------------------------- MODULE PimProgram -----------------------------
(***************************************************************************)
(* What the programs for the two array simulators of AritPIM, bit-serial   *)
(* and bit-parallel, have in common.                                       *)
(***************************************************************************)
EXTENDS Integers, Sequences, Functions

\* cin_addr and cout_addr: none given, and a carry in of constant 1.
None == 0
ConstantOne == -1

\* Parts of a program one after the other.
Concatenation(parts) ==
    LET upTo[i \in 0..Len(parts)] == IF i = 0 THEN <<>> ELSE upTo[i - 1] \o parts[i]
    IN  upTo[Len(parts)]

Reverse(s) == [i \in 1..Len(s) |-> s[Len(s) - i + 1]]

\* A routine of n like parts, and the cells left after taking k.
Each(n, part(_)) == Concatenation([i \in 1..n |-> part(i)])
After(inter, k) == SubSeq(inter, k + 1, Len(inter))

CeilLog2(n) == CHOOSE k \in 0..31 : 2^k >= n /\ \A l \in 0..(k - 1) : 2^l < n
=============================================================================
