------------------------------ MODULE F6Float ------------------------------
(***************************************************************************)
(* The f6 pipeline of f6_dashboard.py in floating point: its program for   *)
(* one row, and the rounded arithmetic it amounts to for operands that are *)
(* not negative.  A format has Ne bits of exponent and Nm of mantissa.     *)
(***************************************************************************)
EXTENDS F6Pipeline, FloatPim

Bias(Ne) == 2^(Ne - 1) - 1

\* signedFloatToBinary of the number with this exponent and mantissa.
FloatBits(e, m, Ne, Nm) == <<FALSE>> \o Bits(e, Ne) \o Bits(m, Nm)

\* The exponent and the mantissa of a positive integer.
FloatOf(v, Ne, Nm) ==
    LET k == CeilLog2(v + 1) - 1
    IN  [e |-> Bias(Ne) + k, m |-> ((v - 2^k) * 2^Nm) \div 2^k]

LoadFloat(cells, v, Ne) ==
    LET Nm == Len(cells) - Ne - 1
        f == FloatOf(v, Ne, Nm)
    IN  Gate("LOAD", FloatBits(f.e, f.m, Ne, Nm), cells)

-----------------------------------------------------------------------------
(* The program.                                                            *)

\* ((x + 12) * x + 60) * x + 120
horner_float(x, result, inter, Ne) ==
    LET N == Len(x)
        Reg(k) == SubSeq(inter, k * N + 1, (k + 1) * N)
        rest == After(inter, 7 * N)
    IN  LoadFloat(Reg(0), 12, Ne) \o LoadFloat(Reg(1), 60, Ne) \o LoadFloat(Reg(2), 120, Ne)
        \o floatingAdditionSignedIEEE(x, Reg(0), Reg(3), Ne, rest)
        \o floatingMultiplicationIEEE(Reg(3), x, Reg(4), Ne, rest)
        \o floatingAdditionSignedIEEE(Reg(4), Reg(1), Reg(5), Ne, rest)
        \o floatingMultiplicationIEEE(Reg(5), x, Reg(6), Ne, rest)
        \o floatingAdditionSignedIEEE(Reg(6), Reg(2), result, Ne, rest)

\* 24 * x^2 + 240; the second product takes the cells of the copy of x.
denominator_float(x, result, inter, Ne) ==
    LET N == Len(x)
        Reg(k) == SubSeq(inter, k * N + 1, (k + 1) * N)
        rest == After(inter, 4 * N)
    IN  LoadFloat(Reg(0), 24, Ne) \o LoadFloat(Reg(1), 240, Ne) \o Copy(x, Reg(2))
        \o floatingMultiplicationIEEE(x, Reg(2), Reg(3), Ne, rest)
        \o floatingMultiplicationIEEE(Reg(0), Reg(3), Reg(2), Ne, rest)
        \o floatingAdditionSignedIEEE(Reg(2), Reg(1), result, Ne, rest)

\* A divisor is taken for zero when its exponent is.
division_float(num, den, quotient, inter, Ne) ==
    LET divide == floatingDivisionIEEE(num, den, quotient, Ne, inter)
    IN  Check(Exponent(den, Ne), quotient, Len(divide)) \o divide

\* Faulty variant: the sign is looked for where an integer has it.
clamp_floatMsb(value, output, inter, Ne) ==
    LET N == Len(value)
        one == SubSeq(inter, 1, N)
        cout == inter[2 * N + 1]
    IN  LoadFloat(one, 1, Ne)
        \o fixedSubtraction(value, one, SubSeq(inter, N + 1, 2 * N),
                            After(inter, 2 * N + 1), cout)
        \o Clamp(value, cout, value[N], one, output)

clamp_float(value, output, inter, Ne) ==
    LET N == Len(value)
        one == SubSeq(inter, 1, N)
        cout == inter[2 * N + 1]
    IN  LoadFloat(one, 1, Ne)
        \o fixedSubtraction(value, one, SubSeq(inter, N + 1, 2 * N),
                            After(inter, 2 * N + 1), cout)
        \o Clamp(value, cout, value[1], one, output)

\* The columns of the pipeline.
run_pipeline_serial_float(N, Ne, num_cols) ==
    LET Reg(k) == Cells(k * N, N)
        inter == Cells(5 * N, num_cols - 5 * N)
    IN  horner_float(Reg(0), Reg(1), inter, Ne) \o denominator_float(Reg(0), Reg(2), inter, Ne)
        \o division_float(Reg(1), Reg(2), Reg(3), inter, Ne)
        \o clamp_float(Reg(3), Reg(4), inter, Ne)

-----------------------------------------------------------------------------
(* The same in numbers [e, m] that are 0 or positive: verify_float.        *)

\* num / den * 2^(e - bias - Nm), rounded to the nearest and ties to even; 0
\* below the smallest normal number.
Rounded(num, den, e, Nm) ==
    LET Up(i) == num * 2^(IF i < 0 THEN -i ELSE 0)
        Down(i) == den * 2^(IF i > 0 THEN i ELSE 0)
        k == CHOOSE i \in (-Nm - 2)..24 : Up(i) \div Down(i) \in 2^Nm..(2^(Nm + 1) - 1)
        q == Up(k) \div Down(k)
        twice == 2 * (Up(k) % Down(k))
        sig == IF twice > Down(k) \/ (twice = Down(k) /\ q % 2 = 1) THEN q + 1 ELSE q
        f == IF sig = 2^(Nm + 1) THEN [e |-> e + k + 1, m |-> 0]
             ELSE [e |-> e + k, m |-> sig - 2^Nm]
    IN  IF f.e <= 0 THEN [e |-> 0, m |-> 0] ELSE f

Plus(x, y, Nm) ==
    LET low == IF x.e < y.e THEN x.e ELSE y.e
        Aligned(f) == (2^Nm + f.m) * 2^(f.e - low)
    IN  IF x.e = 0 THEN y ELSE IF y.e = 0 THEN x
        ELSE Rounded(Aligned(x) + Aligned(y), 1, low, Nm)

Times(x, y, Ne, Nm) ==
    IF x.e = 0 \/ y.e = 0 THEN [e |-> 0, m |-> 0]
    ELSE Rounded((2^Nm + x.m) * (2^Nm + y.m), 2^Nm, x.e + y.e - Bias(Ne), Nm)

Over(x, y, Ne, Nm) ==
    Rounded((2^Nm + x.m) * 2^Nm, 2^Nm + y.m, x.e - y.e + Bias(Ne), Nm)

f6_quotient(x, Ne, Nm) ==
    LET C(v) == FloatOf(v, Ne, Nm)
        P(a, b) == Plus(a, b, Nm)
        T(a, b) == Times(a, b, Ne, Nm)
    IN  Over(P(T(P(T(P(x, C(12)), x), C(60)), x), C(120)),
             P(T(C(24), T(x, x)), C(240)), Ne, Nm)
=============================================================================
