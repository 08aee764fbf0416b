------------------------------ MODULE FloatPim ------------------------------
(***************************************************************************)
(* The bit-serial floating-point arithmetic of AritPIM as programs for the *)
(* array.  A number is a sign cell, Ne cells of biased exponent and Nm of  *)
(* mantissa; the hidden bit is 1 when the exponent is not 0, and rounding  *)
(* is to the nearest, ties to even.  The routines take and free cells in   *)
(* no particular order, so the free cells are kept sorted (free).          *)
(***************************************************************************)
EXTENDS SerialPim, TLC

free(inter, cells) ==
    LET last == CHOOSE c \in Range(cells) : \A d \in Range(cells) : d <= c
        before == SelectSeq(inter, LAMBDA c : c < last)
    IN  SortSeq(before \o cells, LAMBDA a, b : a < b) \o After(inter, Len(before))

Take(inter, n) == SubSeq(inter, 1, n)


\* A NOT whose output is not set first: z becomes z AND NOT a.
Clear(a, z) == Gate("NOT", <<a>>, z)

ClearAll(a, z) == Each(Len(z), LAMBDA i : Clear(a, z[i]))
Init0All(z) == Each(Len(z), LAMBDA i : INIT0(z[i]))
Init1All(z) == Each(Len(z), LAMBDA i : INIT1(z[i]))

-----------------------------------------------------------------------------
(* Helpers.                                                                *)

id(a, z, inter) == NOT(a, inter[1]) \o NOT(inter[1], z)

or(a, b, z, inter) == NOR(a, b, inter[1]) \o NOT(inter[1], z)

\* z = IF a THEN b ELSE c; nota is a cell with the complement of a.
mux(a, b, c, z, inter, nota) ==
    NOR(b, nota, inter[1]) \o NOR(c, a, inter[2]) \o NOR(inter[1], inter[2], z)

muxAll(a, b, c, z, inter, nota) ==
    Each(Len(z), LAMBDA i : mux(a, b[i], c[i], z[i], inter, nota))

\* notz is a cell for the complement of z, if given.
reduceOR(x, z, inter, notz) ==
    LET not_z == IF notz = None THEN inter[1] ELSE notz
    IN  INIT1(not_z) \o Each(Len(x), LAMBDA i : Clear(x[i], not_z)) \o NOT(not_z, z)

\* The absolute value of a number whose last cell is its sign.
abs(x, z, inter) ==
    LET N == Len(x)
        msb == x[N]
        not_msb == inter[1]
        carry == inter[2]
        bit == inter[3]
        rest == After(inter, 3)
    IN  NOT(msb, not_msb)
        \o Each(N - 1, LAMBDA i :
               xor(x[i], msb, bit, rest, not_msb, None)
               \o halfAdder(bit, IF i = 1 THEN msb ELSE carry, z[i], carry, rest))
        \o INIT0(z[N])

\* One stage of a shift by k cells towards the first one.
Shift(x, k, t, not_t, inter) ==
    LET Nx == Len(x)
    IN  Each(Nx - k, LAMBDA i : mux(t, x[i + k], x[i], x[i], inter, not_t))
        \o ClearAll(t, SubSeq(x, Nx - k + 1, Nx))

\* Faulty variant: the sticky bit remembers the last stage only.
variableShiftForgets(x, t, inter, sticky, left) ==
    LET cells == IF left THEN Reverse(x) ELSE x
        not_t == inter[1]
        lost == inter[2]
        Sticky(k) == reduceOR(Take(cells, k), lost, After(inter, 2), None)
                     \o Clear(not_t, lost) \o id(lost, sticky, After(inter, 2))
    IN  Each(Len(t), LAMBDA j :
            NOT(t[j], not_t)
            \o (IF sticky = None THEN <<>> ELSE Sticky(2^(j - 1)))
            \o Shift(cells, 2^(j - 1), t[j], not_t, After(inter, 1)))

\* Shift by the number in t, to the right unless left; the sticky bit collects
\* what is shifted out.
variableShift(x, t, inter, sticky, left) ==
    LET cells == IF left THEN Reverse(x) ELSE x
        not_t == inter[1]
        lost == inter[2]
        Sticky(k) == reduceOR(Take(cells, k), lost, After(inter, 2), None)
                     \o Clear(not_t, lost) \o or(sticky, lost, sticky, After(inter, 2))
    IN  Each(Len(t), LAMBDA j :
            NOT(t[j], not_t)
            \o (IF sticky = None THEN <<>> ELSE Sticky(2^(j - 1)))
            \o Shift(cells, 2^(j - 1), t[j], not_t, After(inter, 1)))

\* Shift to the left until the last cell is 1, by the number left in t; 0 when
\* no cell is 1.
normalizeShift(x, t, inter) ==
    LET cells == Reverse(x)
        Nt == Len(t)
        not_t == inter[1]
        Stage(j) == reduceOR(Take(cells, 2^(j - 1)), not_t, After(inter, 1), t[j])
                    \o Shift(cells, 2^(j - 1), t[j], not_t, After(inter, 1))
    IN  Each(Nt, LAMBDA n : Stage(Nt + 1 - n))
        \o NOT(cells[1], inter[1]) \o ClearAll(inter[1], t)

-----------------------------------------------------------------------------
(* Parts the four operations share.                                        *)

HiddenBits(xe, ye, xhidden, yhidden, inter) ==
    reduceOR(xe, xhidden, inter, None) \o reduceOR(ye, yhidden, inter, None)

\* deltaE = xe - ye; the exponent and mantissa of the larger exponent go to ze
\* and zm, the other mantissa to ymt, the first free cells.
Exchange(xe, xm, ye, ym, ze, zm, deltaE, swap, notswap, inter) ==
    LET Ne == Len(xe)
        Nm == Len(xm)
    IN  fixedSubtraction(xe, ye, Take(deltaE, Ne), inter, notswap)
        \o NOT(notswap, deltaE[Ne + 1]) \o NOT(notswap, swap)
        \o muxAll(swap, ye, xe, Take(ze, Ne), inter, notswap)
        \o Init0All(After(ze, Ne))
        \o muxAll(swap, ym, xm, zm, inter, notswap)
        \o muxAll(swap, xm, ym, Take(inter, Nm), After(inter, Nm), notswap)

\* ymt is shifted by deltaE: in a few stages, and cleared for a shift beyond.
Align(ymt, below, deltaE, sticky, inter, free_cells) ==
    LET Ne == Len(deltaE) - 1
        Nt == CeilLog2(Len(ymt) + Len(below))
    IN  (IF Ne > Nt
           THEN reduceOR(After(deltaE, Nt), inter[1], After(inter, 1), None)
                \o ClearAll(inter[1], ymt)
           ELSE <<>>)
        \o INIT0(sticky) \o Init0All(Reverse(below))
        \o variableShift(below \o ymt, Take(deltaE, Nt), free_cells, sticky, FALSE)

ShouldRound(guard, sticky, lsb, should_round, temps) ==
    NOR(sticky, lsb, temps[1]) \o NOT(guard, temps[2])
        \o NOR(temps[1], temps[2], should_round)

\* The number becomes 0 when the bit is 0 or the exponent does not fit.
ZeroUnless(bit, msb, cells, inter) ==
    NOT(bit, inter[1]) \o or(inter[1], msb, inter[1], After(inter, 1))
        \o ClearAll(inter[1], cells)

\* The exponent takes the carry of the sum and the one of the rounding.
AddCarries(ze, carry, overflow, inter) ==
    fullAdder(carry, overflow, ze[1], ze[1], inter[1], After(inter, 1))
        \o fixedAddBit(After(ze, 1), After(ze, 1), After(inter, 1), inter[1], None)

-----------------------------------------------------------------------------
(* The operations.  The mantissas get their hidden bits.                   *)

floatingAdditionUnsigned(xe, xm_, ye, ym_, ze, zm_, inter) ==
    LET Ne == Len(xe)
        xm == xm_ \o <<inter[1]>>
        ym == ym_ \o <<inter[2]>>
        zm == zm_ \o <<inter[3]>>
        Nm == Len(xm)
        f1 == After(inter, 3)
        deltaE == Take(f1, Ne + 1)
        swap == f1[Ne + 2]
        notswap == f1[Ne + 3]
        f2 == After(f1, Ne + 3)
        ymt == Take(f2, Nm)
        f3 == free(After(f2, Nm), <<swap, notswap>>)
        sticky == f3[1]
        guard == f3[2]
        f4 == free(After(f3, 2), deltaE)
        carry == f4[1]
        f5 == free(After(f4, 1), ymt)
        should_round == f5[1]
        f6 == free(After(f5, 1), <<guard, sticky>>)
        overflow == f6[1]
        f7 == free(After(f6, 1), <<should_round>>)
    IN  HiddenBits(xe, ye, inter[1], inter[2], f1)
        \o Exchange(xe, xm, ye, ym, ze, zm, deltaE, swap, notswap, f2)
        \o abs(deltaE, deltaE, f3)
        \o Align(ymt, <<guard>>, deltaE, sticky, f3, After(f3, 2))
        \o fixedAddition(zm, ymt, zm, After(f4, 1), None, carry)
        \o variableShift(<<guard>> \o zm, <<carry>>, f5, sticky, FALSE)
        \o ShouldRound(guard, sticky, zm[1], should_round, After(f5, 1))
        \o fixedAddBit(zm, zm, After(f6, 1), should_round, overflow)
        \o or(zm[Nm], overflow, zm[Nm], f7)
        \o AddCarries(ze, carry, overflow, f7)

floatingAdditionSigned(xs, xe, xm_, ys, ye, ym_, zs, ze_, zm_, inter) ==
    LET Ne == Len(xe)
        xm == xm_ \o <<inter[1]>>
        ym == ym_ \o <<inter[2]>>
        zm == zm_ \o <<inter[3]>>
        ze == ze_ \o <<inter[5]>>
        Nm == Len(xm)
        Nt == CeilLog2(Nm + 2)
        f1 == After(inter, 5)
        deltaE == Take(f1, Ne + 1)
        swap == f1[Ne + 2]
        notswap == f1[Ne + 3]
        f2 == After(f1, Ne + 3)
        ymt == Take(f2, Nm)
        f3 == After(f2, Nm)
        guard == f3[1]
        round == f3[2]
        sticky == f3[3]
        f4 == free(After(f3, 3), deltaE)
        sdiff == f4[1]
        notsdiff == f4[2]
        carry == f4[3]
        temp_carry == f4[4]
        bit == f4[5]
        f5 == free(After(f4, 4), <<temp_carry>> \o ymt)
        negativeM == f5[1]
        notnegativeM == f5[2]
        f6 == After(f5, 2)
        sum == <<sticky, round, guard>> \o zm \o <<f6[1]>>
        left_shift == Take(f6, Ne + 1)
        should_round == f6[1]
        f7 == free(After(f6, 1), <<guard, round, sticky>>)
        overflow == f7[1]
        f8 == free(After(f7, 1), <<should_round>>)
        f9 == free(f8, <<carry, overflow>>)
        sign == f9[1]
        f10 == free(f9, <<swap, notswap, sdiff, notsdiff, negativeM, notnegativeM>>)
    IN  HiddenBits(xe, ye, inter[1], inter[2], After(inter, 3))
        \o INIT0(inter[4])
        \o Exchange(xe, xm, ye, ym, ze, zm, deltaE, swap, notswap, f2)
        \o abs(deltaE, deltaE, f3)
        \o Align(ymt, <<round, guard>>, deltaE, sticky, f3, After(f3, 3))
        \* zm = ymt + (zm XOR sdiff) + sdiff
        \o xor(xs, ys, sdiff, After(f4, 2), None, notsdiff)
        \o Each(Nm, LAMBDA j :
               xor(zm[j], sdiff, bit, After(f4, 5), notsdiff, None)
               \o fullAdder(ymt[j], bit, IF j = 1 THEN sdiff ELSE temp_carry, zm[j],
                            IF j = Nm THEN carry ELSE temp_carry, After(f4, 5)))
        \* and its absolute value
        \o NOR(notsdiff, carry, negativeM) \o NOT(negativeM, notnegativeM)
        \o NOT(notnegativeM, f6[1]) \o abs(sum, sum, After(f6, 1))
        \o Clear(sdiff, carry)
        \* normalised to the right or to the left
        \o id(carry, f6[1], After(f6, 1))
        \o variableShift(<<round, guard>> \o zm \o <<f6[1]>>, <<carry>>, After(f6, 1),
                         sticky, FALSE)
        \o normalizeShift(<<round, guard>> \o zm, Take(left_shift, Nt), After(f6, Ne + 1))
        \o Init0All(After(left_shift, Nt))
        \o fixedSubtraction(ze, left_shift, ze, After(f6, Ne + 1), None)
        \* and rounded
        \o or(round, sticky, sticky, f6)
        \o ShouldRound(guard, sticky, zm[1], should_round, After(f6, 1))
        \o fixedAddBit(zm, zm, After(f7, 1), should_round, overflow)
        \o or(zm[Nm], overflow, zm[Nm], f8)
        \o AddCarries(ze, carry, overflow, f8)
        \* the sign: that of x, or of the larger operand
        \o NOT(xs, f9[2]) \o NOR(ys, f9[2], sign)
        \o xor(sign, swap, sign, After(f9, 1), notswap, None)
        \o xor(sign, notnegativeM, sign, After(f9, 1), negativeM, None)
        \o mux(notsdiff, xs, sign, zs, After(f9, 1), sdiff)
        \o ZeroUnless(zm[Nm], ze[Ne + 1], <<zs>> \o ze \o zm, f10)

floatingMultiplication(xs, xe, xm_, ys, ye, ym_, zs, ze_, zm_, inter) ==
    LET Ne == Len(xe)
        xm == xm_ \o <<inter[1]>>
        ym == ym_ \o <<inter[2]>>
        zm == zm_ \o <<inter[3]>>
        zero == inter[4]
        ze == ze_ \o <<inter[5]>>
        Nm == Len(xm)
        f1 == After(inter, 5)
        carry == f1[1]
        lower == SubSeq(f1, 2, Nm - 1)
        guard == f1[Nm]
        f2 == After(f1, Nm)
        sticky == f2[1]
        f3 == free(After(f2, 1), lower)
        should_round == f3[1]
        f4 == free(After(f3, 1), <<guard, sticky>>)
        overflow == f4[1]
        f5 == free(After(f4, 1), <<should_round>>)
        f6 == free(f5, <<carry, overflow>>)
    IN  HiddenBits(xe, ye, inter[1], inter[2], After(inter, 3))
        \o INIT0(zero)
        \o fixedMultiplication(xm, ym, lower \o <<guard>> \o zm \o <<carry>>, f2)
        \o reduceOR(lower, sticky, After(f2, 1), None)
        \* ze = -bias
        \o Init1All(<<ze[1], ze[Ne], ze[Ne + 1]>>) \o Init0All(SubSeq(ze, 2, Ne - 1))
        \o id(carry, f3[1], After(f3, 1))
        \o variableShift(<<guard>> \o zm \o <<f3[1]>>, <<carry>>, After(f3, 1), sticky, FALSE)
        \o ShouldRound(guard, sticky, zm[1], should_round, After(f3, 1))
        \o fixedAddBit(zm, zm, After(f4, 1), should_round, overflow)
        \o or(zm[Nm], overflow, zm[Nm], f5)
        \o fixedAddition(xe \o <<zero>>, ze, ze, f5, overflow, None)
        \o fixedAddition(ye \o <<zero>>, ze, ze, f5, carry, None)
        \o xor(xs, ys, zs, f6, None, None)
        \o ZeroUnless(zm[Nm], ze[Ne + 1], <<zs>> \o ze \o zm, f6)

floatingDivision(xs, xe, xm_, ys, ye, ym_, zs, ze_, zm_, inter) ==
    LET Ne == Len(xe)
        xm == xm_ \o <<inter[1]>>
        ym == ym_ \o <<inter[2]>>
        zm == zm_ \o <<inter[3]>>
        zero == inter[4]
        ze == ze_ \o <<inter[5]>>
        Nm == Len(xm)
        Zeros(n) == [i \in 1..n |-> zero]
        f1 == After(inter, 5)
        guard == f1[1]
        round == f1[2]
        r == SubSeq(f1, 3, Nm + 4)
        f2 == After(f1, Nm + 4)
        sticky == f2[1]
        f3 == free(After(f2, 1), r)
        norm == f3[1]
        should_round == f3[1]
        f4 == free(After(f3, 1), <<guard, round, sticky>>)
        overflow == f4[1]
        f5 == free(After(f4, 1), <<should_round>>)
        f6 == free(f5, <<overflow>>)
    IN  HiddenBits(xe, ye, inter[1], inter[2], After(inter, 3))
        \o INIT0(zero)
        \o fixedDivision(Zeros(Nm + 1) \o xm \o Zeros(3), ym \o Zeros(2),
                         <<round, guard>> \o zm, r, f2)
        \o reduceOR(r, sticky, After(f2, 1), None)
        \* ze = bias, less one when the quotient is below 1
        \o Init1All(Take(ze, Ne - 1)) \o Init0All(After(ze, Ne - 1))
        \o NOT(zm[Nm], norm) \o NOT(norm, ze[1])
        \o variableShift(<<sticky, round, guard>> \o zm, <<norm>>, After(f3, 1), None, TRUE)
        \o or(round, sticky, sticky, f3)
        \o ShouldRound(guard, sticky, zm[1], should_round, After(f3, 1))
        \o fixedAddBit(zm, zm, After(f4, 1), should_round, overflow)
        \o or(zm[Nm], overflow, zm[Nm], f5)
        \o fixedAddition(ze, xe \o <<zero>>, ze, f5, overflow, None)
        \o fixedSubtraction(ze, ye \o <<zero>>, ze, f5, None)
        \o xor(xs, ys, zs, f6, None, None)
        \o ZeroUnless(inter[1], ze[Ne + 1], <<zs>> \o Take(ze, Ne) \o zm, f6)

-----------------------------------------------------------------------------
(* The operations on whole numbers: sign, exponent, mantissa.              *)

Exponent(x, Ne) == SubSeq(x, 2, Ne + 1)
Mantissa(x, Ne) == After(x, Ne + 1)

floatingAdditionUnsignedIEEE(x, y, z, Ne, inter) ==
    floatingAdditionUnsigned(Take(x, Ne), After(x, Ne), Take(y, Ne), After(y, Ne),
                             Take(z, Ne), After(z, Ne), inter)

floatingAdditionSignedIEEE(x, y, z, Ne, inter) ==
    floatingAdditionSigned(x[1], Exponent(x, Ne), Mantissa(x, Ne),
                           y[1], Exponent(y, Ne), Mantissa(y, Ne),
                           z[1], Exponent(z, Ne), Mantissa(z, Ne), inter)

floatingSubtractionSignedIEEE(x, y, z, Ne, inter) ==
    NOT(y[1], inter[1])
        \o floatingAdditionSigned(x[1], Exponent(x, Ne), Mantissa(x, Ne),
                                  inter[1], Exponent(y, Ne), Mantissa(y, Ne),
                                  z[1], Exponent(z, Ne), Mantissa(z, Ne), After(inter, 1))

floatingMultiplicationIEEE(x, y, z, Ne, inter) ==
    floatingMultiplication(x[1], Exponent(x, Ne), Mantissa(x, Ne),
                           y[1], Exponent(y, Ne), Mantissa(y, Ne),
                           z[1], Exponent(z, Ne), Mantissa(z, Ne), inter)

floatingDivisionIEEE(x, y, z, Ne, inter) ==
    floatingDivision(x[1], Exponent(x, Ne), Mantissa(x, Ne),
                     y[1], Exponent(y, Ne), Mantissa(y, Ne),
                     z[1], Exponent(z, Ne), Mantissa(z, Ne), inter)
=============================================================================
