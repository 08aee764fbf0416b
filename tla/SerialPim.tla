----------------------------- MODULE SerialPim -----------------------------
(***************************************************************************)
(* The bit-serial arithmetic of AritPIM (serial/AritPIM.py) as programs    *)
(* for the array simulator (serial/simulator.py): a program is a sequence  *)
(* of gates on numbered cells, a number is the sequence of its cells,      *)
(* least significant bit first.  The allocator's free cells, inter, are a  *)
(* sequence in ascending order: malloc takes the first ones, and a routine *)
(* frees all it took, so its caller goes on with the sequence it had.      *)
(***************************************************************************)
EXTENDS PimProgram

Padded(x, zero, n) == x \o [i \in 1..(n - Len(x)) |-> zero]

Gate(op, in, out) == <<[op |-> op, in |-> in, out |-> out]>>
INIT0(z) == Gate("INIT0", <<>>, z)
INIT1(z) == Gate("INIT1", <<>>, z)

\* Faulty variant: the output is not set first.
NORUnset(a, b, z) == Gate("NOR", <<a, b>>, z)

\* A logic gate only clears its output, which is therefore set first.
NOT(a, z) == INIT1(z) \o Gate("NOT", <<a>>, z)
NOR(a, b, z) == INIT1(z) \o Gate("NOR", <<a, b>>, z)

-----------------------------------------------------------------------------
(* The simulator.                                                          *)

\* The assertions of perform.
Legal(g) ==
    /\ \A i \in DOMAIN g.in : g.in[i] # g.out
    /\ \A i, j \in DOMAIN g.in : i # j => g.in[i] # g.in[j]

perform(mem, g) ==
    [mem EXCEPT ![g.out] = CASE g.op = "INIT0" -> FALSE
                             [] g.op = "INIT1" -> TRUE
                             [] OTHER -> @ /\ ~\E i \in DOMAIN g.in : mem[g.in[i]]]

-----------------------------------------------------------------------------
(* Adders of one bit.  The sum may replace an operand and the carry out    *)
(* the carry in.                                                           *)

\* notb is a cell with the complement of b, notz one for that of z, if given.
xor(a, b, z, inter, notb, notz) ==
    LET nota == inter[1]
        given == notb # None
        not_b == IF given THEN notb ELSE inter[2]
        t == After(inter, IF given THEN 1 ELSE 2)
    IN  NOT(a, nota) \o (IF given THEN <<>> ELSE NOT(b, not_b))
        \o NOR(a, b, t[1]) \o NOR(nota, not_b, t[2]) \o NOR(t[1], t[2], z)
        \o (IF notz = None THEN <<>> ELSE NOT(z, notz))

halfAdder(a, b, s, cout, t) ==
    NOR(a, b, t[1]) \o NOT(a, t[2]) \o NOT(b, t[3])
        \o NOR(t[2], t[3], cout) \o NOR(t[1], cout, s)

\* Faulty variant: the sum always replaces the operand.
fullAdderInPlace(a, b, c, s, cout, t) ==
    NOR(a, b, t[1]) \o NOR(a, t[1], t[2]) \o NOR(b, t[1], t[3]) \o NOR(t[2], t[3], t[4])
        \o NOR(t[4], c, t[2]) \o NOR(t[2], t[4], t[3]) \o NOR(t[2], c, t[4])
        \o NOR(t[4], t[3], a) \o NOR(t[1], t[2], cout)

fullAdder(a, b, c, s, cout, t) ==
    NOR(a, b, t[1]) \o NOR(a, t[1], t[2]) \o NOR(b, t[1], t[3]) \o NOR(t[2], t[3], t[4])
        \o NOR(t[4], c, t[2]) \o NOR(t[2], t[4], t[3]) \o NOR(t[2], c, t[4])
        \o NOR(t[4], t[3], s) \o NOR(t[1], t[2], cout)

\* Faulty variant: the adder is given the cell of the complement as well.
fullSubtractorShares(a, b, c, s, cout, inter) ==
    NOT(b, inter[1]) \o fullAdder(a, inter[1], c, s, cout, inter)

fullSubtractor(a, b, c, s, cout, inter) ==
    NOT(b, inter[1]) \o fullAdder(a, inter[1], c, s, cout, After(inter, 1))

-----------------------------------------------------------------------------
(* Numbers of N bits.                                                      *)

fixedAddition(x, y, z, inter, cin, cout) ==
    LET N == Len(x)
        carry == inter[1]
        In(i) == IF i = 1 /\ cin > 0 THEN cin ELSE carry
        Out(i) == IF i = N /\ cout # None THEN cout ELSE carry
    IN  (CASE cin = None -> INIT0(carry)
           [] cin = ConstantOne -> INIT1(carry)
           [] OTHER -> <<>>)
        \o Each(N, LAMBDA i : fullAdder(x[i], y[i], In(i), z[i], Out(i), After(inter, 1)))

fixedSubtraction(x, y, z, inter, cout) ==
    LET N == Len(x)
        carry == inter[1]
        Out(i) == IF i = N /\ cout # None THEN cout ELSE carry
    IN  INIT1(carry)
        \o Each(N, LAMBDA i : fullSubtractor(x[i], y[i], carry, z[i], Out(i), After(inter, 1)))

\* x plus one bit in the cell cin.
fixedAddBit(x, z, inter, cin, cout) ==
    LET N == Len(x)
        carry == inter[1]
        Out(i) == IF i = N /\ cout # None THEN cout ELSE carry
    IN  Each(N, LAMBDA i : halfAdder(x[i], IF i = 1 THEN cin ELSE carry, z[i], Out(i),
                                     After(inter, 1)))

\* Faulty variant: a cell of the upper half is cleared twice.
shiftAndAddClears(x, y, z, inter) ==
    LET N == Len(x)
        notx == SubSeq(inter, 1, N)
        noty == inter[N + 1]
        p == inter[N + 2]
        carry == inter[N + 3]
        Out(i, j) == IF j = N THEN z[i + N + 1] ELSE carry
    IN  Each(N, LAMBDA i : NOT(x[i], notx[i]))
        \o NOT(y[1], noty)
        \o Each(N, LAMBDA j : NOR(notx[j], noty, z[j]))
        \o Each(N, LAMBDA j : INIT0(z[N + j]) \o INIT0(z[N + j]))
        \o Each(N - 1, LAMBDA i :
               NOT(y[i + 1], noty) \o INIT0(carry)
               \o Each(N, LAMBDA j :
                      NOR(notx[j], noty, p)
                      \o fullAdder(z[i + j], p, carry, z[i + j], Out(i, j),
                                   After(inter, N + 3))))

\* Partial products of N <= 20 bits, added row by row.
shiftAndAdd(x, y, z, inter) ==
    LET N == Len(x)
        notx == SubSeq(inter, 1, N)
        noty == inter[N + 1]
        p == inter[N + 2]
        carry == inter[N + 3]
        Out(i, j) == IF j = N THEN z[i + N + 1] ELSE carry
    IN  Each(N, LAMBDA i : NOT(x[i], notx[i]))
        \o NOT(y[1], noty)
        \o Each(N, LAMBDA j : NOR(notx[j], noty, z[j]))
        \o Each(N, LAMBDA j : INIT0(z[N + j]))
        \o Each(N - 1, LAMBDA i :
               NOT(y[i + 1], noty) \o INIT0(carry)
               \o Each(N, LAMBDA j :
                      NOR(notx[j], noty, p)
                      \o fullAdder(z[i + j], p, carry, z[i + j], Out(i, j),
                                   After(inter, N + 3))))

\* Karatsuba: (x0 + x1) * (y0 + y1) - x0 * y0 - x1 * y1 is added in the middle.
\* The sums are kept in z until their product is in t1tag.  multiply is the
\* routine itself, for the smaller products.
karatsuba(x, y, z, inter, multiply) ==
    LET N == Len(x)
        lower == N \div 2
        upper == N - lower
        t1_n == 2 * (upper + 1)
        Lower(s) == SubSeq(s, 1, lower)
        Upper(s) == SubSeq(s, lower + 1, N)
        zero == inter[1]
        xsum == SubSeq(z, 1, upper + 1)
        ysum == SubSeq(z, N + 1, N + upper + 1)
        t1tag == SubSeq(inter, 2, t1_n + 1)
        rest == After(inter, t1_n + 1)
        t0 == SubSeq(z, 1, 2 * lower)
        t2 == SubSeq(z, 2 * lower + 1, 2 * N)
        middle == SubSeq(z, lower + 1, lower + t1_n)
        top == SubSeq(z, lower + t1_n + 1, 2 * N)
        carry == zero
        Sum(s, sum) == fixedAddition(Padded(Lower(s), zero, upper), Upper(s),
                                     SubSeq(sum, 1, upper), After(inter, 1),
                                     None, sum[upper + 1])
    IN  INIT0(zero)
        \o Sum(x, xsum) \o Sum(y, ysum)
        \o multiply[xsum, ysum, t1tag, rest]
        \o multiply[Lower(x), Lower(y), t0, rest]
        \o multiply[Upper(x), Upper(y), t2, rest]
        \o fixedSubtraction(t1tag, Padded(t0, zero, t1_n), t1tag, rest, None)
        \o fixedSubtraction(t1tag, Padded(t2, zero, t1_n), t1tag, rest, None)
        \o fixedAddition(t1tag, middle, middle, rest, None, carry)
        \o fixedAddBit(top, top, t1tag \o rest, carry, None)

fixedMultiplication(x, y, z, inter) ==
    LET multiply[a \in Seq(Nat), b \in Seq(Nat), p \in Seq(Nat), free \in Seq(Nat)] ==
            IF Len(a) <= 20 THEN shiftAndAdd(a, b, p, free)
            ELSE karatsuba(a, b, p, free, multiply)
    IN  multiply[x, y, z, inter]

\* Non-restoring division of 2N bits by N bits.  The partial remainder takes
\* N + 2 cells and is shifted by renaming them: Rolled(k) after k shifts.
fixedDivision(z, d, q, r, inter) ==
    LET N == Len(d)
        Neff == N + 2
        zero == inter[1]
        reff == r \o SubSeq(inter, 2, 3)
        Rolled(k) == [j \in 1..Neff |-> reff[((j - 1 - k) % Neff) + 1]]
        \* zero is free again after the first subtraction
        free == <<zero>> \o After(inter, 3)
        notq == free[1]
        carry == free[2]
        dq == free[3]
        Quotient(b) == NOT(Rolled(N - b + 1)[Neff], q[b])
        \* r = (r | z[b]) + XOR(d, q[b + 1]) + q[b + 1]
        Step(b) ==
            LET rz == <<z[b]>> \o SubSeq(Rolled(N - b), 1, Neff - 1)
                out == Rolled(N - b + 1)
                In(j) == IF j = 1 THEN q[b + 1] ELSE carry
            IN  NOT(q[b + 1], notq)
                \o Each(Neff, LAMBDA j :
                       IF j <= N
                       THEN xor(d[j], q[b + 1], dq, After(free, 3), notq, None)
                            \o fullAdder(rz[j], dq, In(j), out[j], carry, After(free, 3))
                       ELSE fullAdder(rz[j], q[b + 1], In(j), out[j], carry, After(free, 2)))
                \o Quotient(b)
        notr == free[1]
    IN  INIT0(zero)
        \o fixedSubtraction(Padded(SubSeq(z, N, 2 * N), zero, Neff), Padded(d, zero, Neff),
                            Rolled(1), After(inter, 3), None)
        \o Quotient(N)
        \o Each(N - 1, LAMBDA k : Step(N - k))
        \* r = r + AND(d, sign of r)
        \o NOT(Rolled(N)[Neff], notr) \o INIT0(carry)
        \o Each(N, LAMBDA j :
               NOT(d[j], free[3]) \o NOR(notr, free[3], free[4])
               \o fullAdder(Rolled(N)[j], free[4], carry, r[j], carry, After(free, 4)))
=============================================================================
