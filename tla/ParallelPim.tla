----------------------------- MODULE ParallelPim -----------------------------
(***************************************************************************)
(* The bit-parallel fixed-point arithmetic of AritPIM                      *)
(* (parallel/AritPIM.py) as programs for the simulator with partitions     *)
(* (parallel/simulator.py).  The row is divided into N partitions, 0 to    *)
(* N - 1, of the same width; bit i of a number is in partition i, at the   *)
(* same address of every partition.  A gate acts on many partitions at     *)
(* once: it reads in the partitions from[k] and writes in to[k].  inter is *)
(* the sequence of the addresses free in all partitions; an address taken  *)
(* in some partitions is taken from it.                                    *)
(***************************************************************************)
EXTENDS PimProgram

\* np.arange
Arange(first, below, step) ==
    [k \in 1..((below - first + step - 1) \div step) |-> first + (k - 1) * step]
All(N) == Arange(0, N, 1)

-----------------------------------------------------------------------------
(* The simulator.                                                          *)

Gate(op, in, out, from, to) ==
    <<[op |-> op, in |-> in, out |-> out, from |-> from, to |-> to]>>

\* The assertions of perform on a logic gate: partitions at the same distance,
\* in equal steps, that do not overlap; within a partition, distinct cells.
\* Without any partition it fails too.
Legal(g) ==
    g.op \in {"NOT", "NOR"} =>
        LET n == Len(g.from)
            distance == g.to[1] - g.from[1]
        IN  /\ n > 0
            /\ \A k \in 1..n : g.to[k] - g.from[k] = distance
            /\ \A k \in 3..n : g.from[k] - g.from[k - 1] = g.from[k - 1] - g.from[k - 2]
            /\ n > 1 => distance \in -(g.from[2] - g.from[1] - 1)..(g.from[2] - g.from[1] - 1)
            /\ distance = 0 => IsInjective(<<g.out>> \o g.in)

perform(mem, g, width) ==
    LET Clear(k) == \A i \in DOMAIN g.in : ~mem[g.from[k] * width + g.in[i]]
        At(c) == {k \in DOMAIN g.to : c = g.to[k] * width + g.out}
    IN  [c \in DOMAIN mem |->
            IF (c - g.out) % width # 0 \/ At(c) = {} THEN mem[c]
            ELSE CASE g.op = "INIT0" -> FALSE
                   [] g.op = "INIT1" -> TRUE
                   [] OTHER -> mem[c] /\ \A k \in At(c) : Clear(k)]

INIT0(z, ps) == Gate("INIT0", <<>>, z, ps, ps)
INIT1(z, ps) == Gate("INIT1", <<>>, z, ps, ps)

\* A logic gate only clears its output: with the output set first, and without.
NOT(a, z, ps) == INIT1(z, ps) \o Gate("NOT", <<a>>, z, ps, ps)
NOR(a, b, z, ps) == INIT1(z, ps) \o Gate("NOR", <<a, b>>, z, ps, ps)
AndNOT(a, z, from, to) == Gate("NOT", <<a>>, z, from, to)
AndNOR(a, b, z, from, to) == Gate("NOR", <<a, b>>, z, from, to)

\* From every partition to the next, or to the one before: those of one parity
\* at a time.
Up(op, in, z, N) ==
    Gate(op, in, z, Arange(0, N - 1, 2), Arange(1, N, 2))
    \o Gate(op, in, z, Arange(1, N - 1, 2), Arange(2, N, 2))
Down(op, in, z, N) ==
    Gate(op, in, z, Arange(1, N, 2), Arange(0, N - 1, 2))
    \o Gate(op, in, z, Arange(2, N, 2), Arange(1, N - 1, 2))

-----------------------------------------------------------------------------
(* Gates in all partitions ps.                                             *)

or(a, b, z, notz, ps) == NOR(a, b, notz, ps) \o NOT(notz, z, ps)

nand(a, b, z, t, ps) ==
    NOT(a, z, ps) \o NOT(b, t[1], ps) \o NOR(z, t[1], t[2], ps) \o NOT(t[2], z, ps)

\* z may be the cell of nota.
xor(a, nota, b, z, t, ps) ==
    NOT(b, t[1], ps) \o NOR(a, b, t[2], ps) \o NOR(nota, t[1], t[3], ps)
    \o NOR(t[2], t[3], z, ps)

xnor(a, b, z, t, ps) ==
    NOR(a, b, t[1], ps) \o NOR(t[1], a, t[2], ps) \o NOR(t[1], b, t[3], ps)
    \o NOR(t[2], t[3], z, ps)

\* The first half of a full adder.
halfSums(s, c, p, t, ps) ==
    NOR(s, c, t[1], ps) \o NOR(s, t[1], t[2], ps) \o NOR(c, t[1], t[3], ps)
    \o NOR(t[2], t[3], t[4], ps) \o NOR(p, t[4], t[2], ps)

-----------------------------------------------------------------------------
(* Communication between the partitions.                                   *)

\* z of partition 0 to all partitions; z and temp are set in the others.
broadcast(z, temp, N) ==
    LET log2_N == CeilLog2(N)
    IN  Each(log2_N, LAMBDA i :
            LET half == 2^(log2_N - i)
                to == Arange(half, N, 2 * half)
            IN  AndNOT(z, temp, Arange(0, N - half, 2 * half), to)
                \o AndNOT(temp, z, to, to))

\* The propagate and not generate bits of two adjacent groups of partitions,
\* the lower in from and the upper in to, become those of their union.
combine(pbit, notpbit, notgbit, from, to) ==
    AndNOT(notgbit, pbit, from, to) \o AndNOT(pbit, notgbit, to, to)
    \o NOT(notpbit, pbit, to) \o AndNOT(notpbit, pbit, from, to)
    \o NOT(pbit, notpbit, to)

-----------------------------------------------------------------------------
(* Numbers of N bits.                                                      *)

\* cin is an address in partition 0, cout one in partition N - 1.
fixedAddition(x, y, z, inter, N, cin, cout) ==
    LET log2_N == CeilLog2(N)
        pbit == inter[1]    notpbit == inter[2]    notgbit == inter[3]
        temp == inter[4]    notcin == inter[5]     carry == pbit
        first == <<0>>
        last == <<N - 1>>
    IN  or(x, y, pbit, notpbit, All(N)) \o nand(x, y, notgbit, After(inter, 3), All(N))
        \o (CASE cin = None -> <<>>
              [] cin = ConstantOne -> AndNOT(pbit, notgbit, first, first)
              [] OTHER -> NOT(cin, notcin, first) \o NOR(notpbit, notcin, temp, first)
                          \o AndNOT(temp, notgbit, first, first))
        \o Each(log2_N - 1, LAMBDA i :
               combine(pbit, notpbit, notgbit, Arange(2^(i - 1), N - 2^(i - 1), 2^i),
                       Arange(2^i, N, 2^i)))
        \o Each(log2_N, LAMBDA i :
               LET half == 2^(log2_N - i)
               IN  combine(pbit, notpbit, notgbit, Arange(0, N - half, 2 * half),
                           Arange(half, N, 2 * half)))
        \* the carries, one partition up
        \o INIT1(carry, All(N))
        \o (CASE cin = None -> INIT0(carry, first)
              [] cin = ConstantOne -> INIT1(carry, first)
              [] OTHER -> AndNOT(notcin, carry, first, first))
        \o Up("NOT", <<notgbit>>, carry, N)
        \o (IF cout = None THEN <<>> ELSE NOT(notgbit, cout, last))
        \o xnor(x, y, z, After(inter, 1), All(N)) \o xnor(z, carry, z, After(inter, 1), All(N))

fixedSubtraction(x, y, z, inter, N, cout) ==
    NOT(y, inter[1], All(N))
    \o fixedAddition(x, inter[1], z, After(inter, 1), N, ConstantOne, cout)

\* The lower half of the product in z, the upper in w: a carry-save adder that
\* moves down one partition with every bit of y.
fixedMultiplication(x, y, z, w, inter, N) ==
    LET xnot == inter[1]    cbit == inter[2]    pbit == inter[3]    temp == inter[4]
        sbit == w
        t == SubSeq(inter, 4, 7)
        Step(k) ==
            INIT1(temp, All(N)) \o INIT1(pbit, All(N))
            \o AndNOT(y, temp, <<k>>, <<0>>) \o AndNOT(temp, pbit, <<0>>, <<0>>)
            \o broadcast(pbit, temp, N)
            \o AndNOT(xnot, pbit, All(N), All(N))
            \o halfSums(sbit, cbit, pbit, t, All(N))
            \o NOR(t[1], t[2], cbit, All(N))
            \o NOR(t[2], t[4], t[1], All(N)) \o NOR(pbit, t[2], t[3], All(N))
            \o INIT1(z, <<k>>) \o INIT1(sbit, Arange(0, N - 1, 1))
            \o AndNOR(t[1], t[3], z, <<0>>, <<k>>)
            \o Down("NOR", <<t[1], t[3]>>, sbit, N)
    IN  NOT(x, xnot, All(N)) \o INIT0(sbit, All(N)) \o INIT0(cbit, All(N))
        \o Each(N, LAMBDA k : Step(k - 1))
        \o fixedAddition(cbit, sbit, w, <<xnot>> \o After(inter, 2), N, None, None)

\* w and z are the halves of the dividend.  Non-restoring division with the
\* partial remainder in carry-save form, sbit and cbit: the next bit of q is
\* taken from the carry of their sum, by lookahead, and from the bits above
\* the last partition, partial_msb and prev_msb.
fixedDivision(w, z, d, q, r, inter, N) ==
    LET log2_N == CeilLog2(N)
        rest == Arange(1, N, 1)
        first == <<0>>
        last == <<N - 1>>
        lastButTwo == <<N - 3, N - 2>>
        lastThree == <<N - 3, N - 2, N - 1>>
        prev_msb == inter[1]    sbit == inter[2]    cbit == r
        free == After(inter, 2)
        temp == free[1]
        \* xor takes the cell of notqtag
        qtag == free[1]    notqtag == free[2]    xored == free[2]
        partial_msb == free[3]
        t == SubSeq(free, 4, 7)
        pbit == free[2]    notpbit == free[4]    notgbit == free[5]
        \* the bit of q found before, in all partitions and as carry in
        Sign(i) ==
            IF i = 0 THEN INIT1(qtag, All(N)) \o INIT0(notqtag, All(N)) \o INIT1(cbit, first)
            ELSE INIT1(qtag, All(N)) \o INIT1(notqtag, All(N))
                 \o AndNOT(q, notqtag, <<N - i>>, first) \o AndNOT(notqtag, qtag, first, first)
                 \o AndNOT(notqtag, cbit, first, first)
                 \o broadcast(qtag, notqtag, N)
        \* sbit + cbit + XOR(d, q'), the carries one partition up
        Add ==
            xor(qtag, notqtag, d, xored, After(free, 2), All(N))
            \o halfSums(sbit, cbit, xored, t, All(N))
            \o INIT1(cbit, rest) \o INIT0(cbit, first)
            \o NOR(t[1], t[2], partial_msb, last)
            \o Up("NOR", <<t[1], t[2]>>, cbit, N)
            \o NOR(t[2], t[4], t[1], All(N)) \o NOR(xored, t[2], t[3], All(N))
            \o NOR(t[1], t[3], sbit, All(N))
        Lookahead ==
            or(sbit, cbit, pbit, notpbit, All(N))
            \o nand(sbit, cbit, notgbit, After(free, 5), All(N))
            \o Each(log2_N, LAMBDA j :
                   LET half == 2^(j - 1)
                       FromTop(s) == Reverse([k \in DOMAIN s |-> N - 1 - s[k]])
                   IN  combine(pbit, notpbit, notgbit, FromTop(Arange(half, N, 2 * half)),
                               FromTop(Arange(0, N - half, 2 * half))))
        \* three XNORs at once, in the last three partitions
        Quotient(i) ==
            INIT1(prev_msb, lastButTwo) \o AndNOT(notgbit, prev_msb, last, <<N - 3>>)
            \o INIT1(qtag, lastButTwo) \o AndNOT(partial_msb, qtag, last, <<N - 3>>)
            \o AndNOT(sbit, prev_msb, last, <<N - 2>>) \o AndNOT(cbit, qtag, last, <<N - 2>>)
            \o xnor(prev_msb, qtag, qtag, After(free, 1), lastThree)
            \o INIT1(prev_msb, last) \o AndNOT(qtag, prev_msb, <<N - 3>>, last)
            \o NOR(prev_msb, qtag, free[2], last) \o NOR(prev_msb, free[2], free[3], last)
            \o NOR(qtag, free[2], free[4], last)
            \o AndNOR(free[3], free[4], q, last, <<N - i - 1>>)
            \o INIT1(prev_msb, last) \o AndNOT(qtag, prev_msb, <<N - 2>>, last)
        \* both one partition up, the next bit of the dividend in partition 0
        Shift(i) ==
            INIT1(temp, All(N)) \o Up("NOT", <<cbit>>, temp, N)
            \o INIT1(cbit, All(N)) \o AndNOT(temp, cbit, rest, rest)
            \o INIT1(temp, All(N)) \o Up("NOT", <<sbit>>, temp, N)
            \o AndNOT(z, temp, <<N - 2 - i>>, first)
            \o NOT(temp, sbit, All(N))
        inter_r == <<inter[1]>> \o free
    IN  INIT1(inter[1], All(N)) \o INIT1(sbit, All(N))
        \o AndNOT(z, inter[1], last, first) \o Up("NOT", <<w>>, inter[1], N)
        \o AndNOT(inter[1], sbit, All(N), All(N))
        \o INIT0(cbit, rest)
        \o INIT1(prev_msb, last) \o INIT1(temp, last)
        \o AndNOT(w, temp, last, last) \o AndNOT(temp, prev_msb, last, last)
        \o INIT1(q, All(N))
        \o Each(N, LAMBDA k :
               Sign(k - 1) \o Add \o Lookahead \o Quotient(k - 1)
               \o (IF k < N THEN Shift(k - 1) ELSE <<>>))
        \* r = sbit + cbit + AND(d, NOT q[0])
        \o fixedAddition(sbit, cbit, r, inter_r, N, None, None)
        \o INIT1(sbit, All(N)) \o INIT1(inter[1], All(N))
        \o AndNOT(q, sbit, first, first) \o broadcast(sbit, inter[1], N)
        \o NOT(d, inter[1], All(N)) \o AndNOT(inter[1], sbit, All(N), All(N))
        \o fixedAddition(sbit, r, r, inter_r, N, None, None)
=============================================================================
