----------------------------- MODULE F6Pipeline -----------------------------
(***************************************************************************)
(* The f6 approximation of the sigmoid,                                    *)
(*    min(max((120 + 60x + 12x^2 + x^3) / (240 + 24x^2), 0), 1),           *)
(* on the bit-serial array (f6_dashboard.py, fixed point): as the program  *)
(* of the pipeline for one row, and as the word arithmetic it amounts to.  *)
(* The script also writes cells itself, outside the simulator's count of   *)
(* cycles: steps of kind "LOAD", "COPY", "CHECK" and "CLAMP".              *)
(***************************************************************************)
EXTENDS SerialPim, Binary

Cells(from, n) == [i \in 1..n |-> from + i]

-----------------------------------------------------------------------------
(* The script's own accesses to the memory.                                *)

Load(cells, v) == Gate("LOAD", Bits(v, Len(cells)), cells)
Copy(from, to) == Gate("COPY", from, to)
Check(divisor, quotient, skip) ==
    <<[op |-> "CHECK", in |-> divisor, out |-> quotient, skip |-> skip]>>
Clamp(value, cout, sign, one, output) ==
    Gate("CLAMP", value \o <<cout, sign>> \o one, output)

Written(mem, cells, bits) ==
    [c \in DOMAIN mem |->
        LET at == {i \in DOMAIN cells : cells[i] = c}
        IN  IF at = {} THEN mem[c] ELSE bits[CHOOSE i \in at : TRUE]]

AllZero(mem, cells) == \A i \in DOMAIN cells : ~mem[cells[i]]

\* "CHECK" clears the quotient when the divisor is zero.  "CLAMP" has as inputs
\* the value, the carry out of value - 1, the sign and the constant 1.
host(mem, g) ==
    CASE g.op = "LOAD" -> Written(mem, g.out, g.in)
      [] g.op = "COPY" -> Written(mem, g.out, [i \in DOMAIN g.in |-> mem[g.in[i]]])
      [] g.op = "CHECK" -> IF AllZero(mem, g.in)
                           THEN Written(mem, g.out, Bits(0, Len(g.out))) ELSE mem
      [] g.op = "CLAMP" ->
            LET N == Len(g.out)
                From(k) == [i \in 1..N |-> mem[g.in[k + i]]]
                bits == IF mem[g.in[N + 2]] THEN Bits(0, N)
                        ELSE IF mem[g.in[N + 1]] THEN From(N + 2) ELSE From(0)
            IN  Written(mem, g.out, bits)

-----------------------------------------------------------------------------
(* The program.                                                            *)

\* ((x + 12) * x + 60) * x + 120; the second product takes the lower half.
horner(x, result, inter) ==
    LET N == Len(x)
        Reg(k, n) == SubSeq(inter, k * N + 1, (k + n) * N)
        const_12 == Reg(0, 1)    const_60 == Reg(1, 1)    const_120 == Reg(2, 1)
        t1 == Reg(3, 1)   t2 == Reg(4, 2)   t3 == Reg(6, 2)   t4 == Reg(8, 2)
        const_60_2N == Reg(10, 2)    const_120_2N == Reg(12, 2)
    IN  Load(const_12, 12) \o Load(const_60, 60) \o Load(const_120, 120)
        \o fixedAddition(x, const_12, t1, After(inter, 10 * N), None, None)
        \o fixedMultiplication(t1, x, t2, After(inter, 10 * N))
        \o Load(const_60_2N, 60)
        \o fixedAddition(t2, const_60_2N, t3, After(inter, 12 * N), None, None)
        \o fixedMultiplication(SubSeq(t3, 1, N), x, t4, After(inter, 12 * N))
        \o Load(const_120_2N, 120)
        \o fixedAddition(t4, const_120_2N, result, After(inter, 14 * N), None, None)

\* 24 * x^2 + 240 in the lower half; t2 takes the cells of the copy of x.
denominator(x, result, inter) ==
    LET N == Len(x)
        Reg(k, n) == SubSeq(inter, k * N + 1, (k + n) * N)
        const_24 == Reg(0, 1)    const_240 == Reg(1, 1)    x_copy == Reg(2, 1)
        t1 == Reg(3, 2)
        free == x_copy \o After(inter, 5 * N)
        t2 == SubSeq(free, 1, 2 * N)
    IN  Load(const_24, 24) \o Load(const_240, 240) \o Copy(x, x_copy)
        \o fixedMultiplication(x, x_copy, t1, After(inter, 5 * N))
        \o fixedMultiplication(const_24, SubSeq(t1, 1, N), t2, After(free, 2 * N))
        \o fixedAddition(SubSeq(t2, 1, N), const_240, SubSeq(result, 1, N),
                         After(free, 2 * N), None, None)
        \o Copy(SubSeq(t2, N + 1, 2 * N), SubSeq(result, N + 1, 2 * N))

\* With one row a zero divisor skips the division.
division(num, den, quotient, inter) ==
    LET N == Len(den)
        divide == fixedDivision(num, den, quotient, SubSeq(inter, 1, N), After(inter, N))
    IN  Check(den, quotient, Len(divide)) \o divide

\* Faulty variant: the carry out is that of the sign, not of the comparison.
clampSign(value, output, inter) ==
    LET N == Len(value)
        one == SubSeq(inter, 1, N)
    IN  Load(one, 1)
        \o fixedSubtraction(value, one, SubSeq(inter, N + 1, 2 * N),
                            After(inter, 2 * N + 1), None)
        \o Clamp(value, inter[2 * N], value[N], one, output)

clamp(value, output, inter) ==
    LET N == Len(value)
        one == SubSeq(inter, 1, N)
        cout == inter[2 * N + 1]
    IN  Load(one, 1)
        \o fixedSubtraction(value, one, SubSeq(inter, N + 1, 2 * N),
                            After(inter, 2 * N + 1), cout)
        \o Clamp(value, cout, value[N], one, output)

\* The columns of the pipeline.
run_pipeline_serial_fixed(N, num_cols) ==
    LET x == Cells(0, N)
        num == Cells(2 * N, 2 * N)
        den == Cells(4 * N, 2 * N)
        quotient == Cells(6 * N, N)
        inter == Cells(8 * N, num_cols - 8 * N)
    IN  horner(x, num, inter) \o denominator(x, den, inter)
        \o division(num, SubSeq(den, 1, N), quotient, inter)
        \o clamp(quotient, Cells(7 * N, N), inter)

-----------------------------------------------------------------------------
(* The same in words of N bits.                                            *)

numerator_word(x, N) ==
    LET t1 == (x + 12) % 2^N
        t3 == (t1 * x + 60) % 2^N
    IN  (t3 * x + 120) % 2^(2 * N)

denominator_word(x, N) == (24 * (x * x % 2^N) + 240) % 2^N

clamp_word(q, N) == IF q >= 2^(N - 1) THEN 0 ELSE IF q >= 1 THEN 1 ELSE 0

\* verify_fixed: the reference result, and whether the sample is excluded.
reference(x, N) ==
    LET t1 == (x + 12) % 2^N
        t2_full == t1 * x
        t4_full == ((t2_full + 60) % 2^N) * x
        num == (t4_full + 120) % 2^N
        x_sq == x * x
        t_24x2_full == 24 * (x_sq % 2^N)
        den == (t_24x2_full + 240) % 2^N
        limit == 2^(2 * N - 1)
    IN  [clamped |-> IF den = 0 THEN 0 ELSE clamp_word(num \div den, N),
         excluded |-> \/ t2_full >= limit \/ t4_full >= limit
                      \/ x_sq >= limit \/ t_24x2_full >= limit
                      \/ num >= 2^(N - 1) \/ den >= 2^(N - 1)]
=============================================================================
