----------------------------- MODULE F6Parallel -----------------------------
(***************************************************************************)
(* The f6 pipeline on the array with partitions (f6_dashboard.py, fixed    *)
(* point): as the program for one row, and its numerator in words.  A      *)
(* number is an address; the script's own accesses name its cells.         *)
(***************************************************************************)
EXTENDS F6Pipeline

Parallel == INSTANCE ParallelPim

\* The cells at an address of N partitions.
AtAddress(address, N, num_cols) == [i \in 1..N |-> (i - 1) * (num_cols \div N) + address]

\* A copy by two NOTs.
copy(a, z, temp, N) ==
    Parallel!NOT(a, temp, Parallel!All(N)) \o Parallel!NOT(temp, z, Parallel!All(N))

\* ((x + 12) * x + 60) * x + 120: every sum is one of lower halves, and the upper
\* half of the result is that of the last product.
parallel_horner(x, z, w, inter, N, num_cols) ==
    LET At(address) == AtAddress(address, N, num_cols)
        const_12 == inter[1]    const_60 == inter[2]    const_120 == inter[3]
        t1 == inter[4]    t2_z == inter[5]    t2_w == inter[6]
        t3 == inter[7]    t4_z == inter[8]    t4_w == inter[9]
        free == After(inter, 9)
        Sum(a, b, s) == Parallel!fixedAddition(a, b, s, free, N, None, None)
    IN  Load(At(const_12), 12) \o Load(At(const_60), 60) \o Load(At(const_120), 120)
        \o Sum(x, const_12, t1)
        \o Parallel!fixedMultiplication(t1, x, t2_z, t2_w, free, N)
        \o Sum(t2_z, const_60, t3)
        \o Parallel!fixedMultiplication(t3, x, t4_z, t4_w, free, N)
        \o Sum(t4_z, const_120, z)
        \o copy(t4_w, w, free[1], N)

\* 24 * x^2 + 240 in the lower half; t1_z takes the address of the first copy's
\* complement and t2_z that of the copy of x.
parallel_denominator(x, z, w, inter, N, num_cols) ==
    LET At(address) == AtAddress(address, N, num_cols)
        const_24 == inter[1]    const_240 == inter[2]    x_copy == inter[3]
        t1_z == inter[4]    t1_w == inter[5]
        t2_z == x_copy      t2_w == inter[6]
        free == After(inter, 6)
    IN  Load(At(const_24), 24) \o Load(At(const_240), 240)
        \o copy(x, x_copy, inter[4], N)
        \o Parallel!fixedMultiplication(x, x_copy, t1_z, t1_w, After(inter, 5), N)
        \o Parallel!fixedMultiplication(const_24, t1_z, t2_z, t2_w, free, N)
        \o Parallel!fixedAddition(t2_z, const_240, z, free, N, None, None)
        \o copy(t2_w, w, free[1], N)

parallel_division(w, z, den, quotient, inter, N, num_cols) ==
    LET divide == Parallel!fixedDivision(w, z, den, quotient, inter[1], After(inter, 1), N)
    IN  Check(AtAddress(den, N, num_cols), AtAddress(quotient, N, num_cols), Len(divide))
        \o divide

parallel_clamp(value, output, inter, N, num_cols) ==
    LET At(address) == AtAddress(address, N, num_cols)
        one == inter[1]
        cout == inter[3]
    IN  Load(At(one), 1)
        \o Parallel!fixedSubtraction(value, one, inter[2], After(inter, 3), N, cout)
        \o Clamp(At(value), At(cout)[N], At(value)[N], At(one), At(output))

\* The addresses of the pipeline.
run_pipeline_parallel_fixed(N, num_cols) ==
    LET x == 1    num_z == 2    num_w == 3    denom_z == 4    denom_w == 5
        quotient == 6    clamped == 7
        inter == Cells(7, num_cols \div N - 7)
    IN  parallel_horner(x, num_z, num_w, inter, N, num_cols)
        \o parallel_denominator(x, denom_z, denom_w, inter, N, num_cols)
        \o parallel_division(num_w, num_z, denom_z, quotient, inter, N, num_cols)
        \o parallel_clamp(quotient, clamped, inter, N, num_cols)

\* The numerator in words of N bits: the carry of the last sum is lost.
parallel_numerator_word(x, N) ==
    LET t1 == (x + 12) % 2^N
        t3 == (t1 * x + 60) % 2^N
        t4 == t3 * x
    IN  (t4 \div 2^N) * 2^N + ((t4 + 120) % 2^N)
=============================================================================
