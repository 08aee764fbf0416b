-------------------------- MODULE MCTruncatedAdder --------------------------
(***************************************************************************)
(* A sweep of all operands of an adder of Width bits, with both carries    *)
(* in and every number of approximate bits 0 <= n <= Width.                *)
(***************************************************************************)
EXTENDS TruncatedAdder, Sweep

CONSTANT Width  \* DATA_WIDTH

ASSUME WidthAssumption == Width \in Nat \ {0}

VARIABLES lhs, rhs, carry_in, approx_bits

adderVars == <<lhs, rhs, carry_in, approx_bits>>

AdderInit == lhs = 0 /\ rhs = 0 /\ carry_in = 0 /\ approx_bits = 0

\* The next operands of the sweep.
NextA == lhs' = (lhs + 1) % Pow2[Width] /\ UNCHANGED <<rhs, carry_in, approx_bits>>
NextB == rhs' = (rhs + 1) % Pow2[Width] /\ UNCHANGED <<lhs, carry_in, approx_bits>>
NextCin == carry_in' = 1 - carry_in /\ UNCHANGED <<lhs, rhs, approx_bits>>
NextN == approx_bits' = (approx_bits + 1) % (Width + 1) /\ UNCHANGED <<lhs, rhs, carry_in>>

AdderNext == unit = "adder" /\ (NextA \/ NextB \/ NextCin \/ NextN)

\* The sweep by itself.
AdderSpec ==
    /\ unit \in Units /\ AdderInit
    /\ [][AdderNext /\ UNCHANGED unit]_<<unit, adderVars>>

AdderOut == ADD_APPROX(lhs, rhs, carry_in, Width, approx_bits)

\* The carry into bit n: the one of the chain's input when no cell truncates.
CarryIn == IF approx_bits = 0 THEN carry_in ELSE 0

-----------------------------------------------------------------------------
\* The chain of cells of ADD_APPROX.v computes what the Python evaluation
\* takes it to compute, for every width split and operand pair; the
\* evaluation has no carry in.
MatchesEvaluation == unit = "adder" /\ carry_in = 0 => AdderOut.sum = add_approx(lhs, rhs, Width, approx_bits)

\* Sum and carry out together are the exact sum of the truncated operands: no
\* carry of the truncated bits reaches the accurate ones and none of the
\* accurate ones is lost.
ExactAboveTruncation ==
    unit = "adder" =>
        AdderOut.sum + AdderOut.cout * Pow2[Width] = Truncate(lhs, approx_bits) + Truncate(rhs, approx_bits) + CarryIn

=============================================================================
