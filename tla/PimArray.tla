------------------------------ MODULE PimArray ------------------------------
(***************************************************************************)
(* The array simulator at work on one row: it performs the gates of one    *)
(* program after the other, from operands and from whatever earlier        *)
(* programs left in the other cells.                                       *)
(***************************************************************************)
EXTENDS F6Float, F6Parallel, FiniteSets

CONSTANTS
    Jobs,       \* a sequence of jobs: a job is a routine on its addresses
    Operands(_) \* the pairs of operands of a job

VARIABLES
    job,      \* the job of this row, 0 before it has one
    operands, \* its operands
    pc,       \* the next step of its program
    memory,   \* the cells
    latency,  \* gates performed
    energy,   \* cells written by gates
    maxUsed   \* the highest cell, with partitions the highest address, written

arrayVars == <<job, operands, pc, memory, latency, energy, maxUsed>>

-----------------------------------------------------------------------------
(* Where the operands and results are.                                     *)

\* Routines for an array with N partitions.
Partitioned == {"padd", "pcin", "psub", "pmult", "pdiv", "pf6"}

XLen(op, N) == IF op \in {"div", "pdiv"} THEN 2 * N ELSE N
YLen(op, N) == IF op \in {"f6", "f6float", "pf6"} THEN 0 ELSE N
ZLen(op, N) ==
    CASE op \in {"add", "sub"} -> N + 1
      [] op \in {"mult", "div", "pmult", "pdiv"} -> 2 * N
      [] OTHER -> N

XCells(op, N, num_cols) ==
    CASE op = "pdiv" -> AtAddress(2, N, num_cols) \o AtAddress(1, N, num_cols)
      [] op \in Partitioned \ {"pdiv"} -> AtAddress(1, N, num_cols)
      [] OTHER -> Cells(0, XLen(op, N))
YCells(op, N, num_cols) ==
    CASE op = "pdiv" -> AtAddress(3, N, num_cols)
      [] op \in {"padd", "pcin", "psub", "pmult"} -> AtAddress(2, N, num_cols)
      [] OTHER -> Cells(XLen(op, N), YLen(op, N))
ZCells(op, N, num_cols) ==
    CASE op = "pdiv" -> AtAddress(4, N, num_cols) \o AtAddress(5, N, num_cols)
      [] op = "pmult" -> AtAddress(3, N, num_cols) \o AtAddress(4, N, num_cols)
      [] op \in {"padd", "psub", "pcin"} -> AtAddress(3, N, num_cols)
      [] op = "pf6" -> AtAddress(7, N, num_cols)
      [] op = "f6" -> Cells(7 * N, N)
      [] op = "f6float" -> Cells(4 * N, N)
      [] OTHER -> Cells(XLen(op, N) + YLen(op, N), ZLen(op, N))

\* The addresses of the carries of "pcin".
cin_addr == 4
cout_addr == 5

ProgramOf(op, N, Ne, num_cols) ==
    LET x == XCells(op, N, num_cols)
        y == YCells(op, N, num_cols)
        z == ZCells(op, N, num_cols)
        From(k) == Cells(k - 1, num_cols \div N - k + 1)
        low == SubSeq(z, 1, N)
        used == Len(x) + Len(y) + Len(z)
        inter == Cells(used, num_cols - used)
    IN  CASE op = "add" -> fixedAddition(x, y, low, inter, None, z[N + 1])
          [] op = "inc" -> fixedAddition(x, y, low, inter, ConstantOne, None)
          [] op = "sub" -> fixedSubtraction(x, y, low, inter, z[N + 1])
          [] op = "mult" -> fixedMultiplication(x, y, z, inter)
          [] op = "div" -> fixedDivision(x, y, low, After(z, N), inter)
          [] op = "uadd" -> floatingAdditionUnsignedIEEE(x, y, z, Ne, inter)
          [] op = "fadd" -> floatingAdditionSignedIEEE(x, y, z, Ne, inter)
          [] op = "fsub" -> floatingSubtractionSignedIEEE(x, y, z, Ne, inter)
          [] op = "fmult" -> floatingMultiplicationIEEE(x, y, z, Ne, inter)
          [] op = "fdiv" -> floatingDivisionIEEE(x, y, z, Ne, inter)
          [] op = "padd" -> Parallel!fixedAddition(1, 2, 3, From(4), N, None, None)
          [] op = "pcin" -> Parallel!fixedAddition(1, 2, 3, From(6), N, cin_addr, cout_addr)
          [] op = "psub" -> Parallel!fixedSubtraction(1, 2, 3, From(4), N, None)
          [] op = "pmult" -> Parallel!fixedMultiplication(1, 2, 3, 4, From(5), N)
          [] op = "pdiv" -> Parallel!fixedDivision(1, 2, 3, 4, 5, From(6), N)
          [] op = "pf6" -> run_pipeline_parallel_fixed(N, num_cols)
          [] op = "f6" -> run_pipeline_serial_fixed(N, num_cols)
          [] op = "f6float" -> run_pipeline_serial_float(N, Ne, num_cols)

\* A routine of width N and exponent width Ne, 0 for integers, the columns of the
\* array, what the cells that are no operands may hold before, and the program.
Job(op, N, Ne, num_cols, fills) ==
    [op |-> op, N |-> N, Ne |-> Ne, num_cols |-> num_cols, fills |-> fills,
     program |-> ProgramOf(op, N, Ne, num_cols)]

\* A definition, unlike a constant, TLC evaluates once.
JobList == SubSeq(Jobs, 1, Len(Jobs))

\* Additions and subtractions of the serial array.
SumOps == {"add", "inc", "sub"}

\* A sum has at least one bit, operands of its width, and the cells that the
\* routine takes besides theirs: with fewer, the simulator's allocator fails.
ASSUME JobsAssumption ==
    \A i \in 1..Len(JobList) : JobList[i].op \in SumOps =>
        LET j == JobList[i]
        IN  /\ j.N \in Nat \ {0} /\ j.num_cols \in Nat /\ j.fills \subseteq BOOLEAN
            /\ j.num_cols >= 2 * j.N + ZLen(j.op, j.N) + (IF j.op = "sub" THEN 6 ELSE 5)
            /\ j.program = ProgramOf(j.op, j.N, j.Ne, j.num_cols)
            /\ Operands(j) \subseteq (0..(Pow2[j.N] - 1)) \X (0..(Pow2[j.N] - 1))

op_ == JobList[job].op
N_ == JobList[job].N
x_ == XCells(op_, N_, JobList[job].num_cols)
y_ == YCells(op_, N_, JobList[job].num_cols)
z_ == ZCells(op_, N_, JobList[job].num_cols)
Ne_ == JobList[job].Ne
program == JobList[job].program
Running == job # 0 /\ pc <= Len(program)
Finished == job # 0 /\ pc > Len(program)

-----------------------------------------------------------------------------
\* An array without a job.
ArrayIdle ==
    /\ job = 0 /\ operands = <<0, 0>> /\ memory = <<>>
    /\ pc = 1 /\ latency = 0 /\ energy = 0 /\ maxUsed = 0

ArrayInit ==
    /\ job \in 1..Len(JobList)
    /\ operands \in Operands(JobList[job])
    /\ pc = 1 /\ latency = 0 /\ energy = 0 /\ maxUsed = 0
    /\ \E fill \in JobList[job].fills, x \in {x_}, y \in {y_} :
           memory = Written(Written([c \in 1..JobList[job].num_cols |-> fill],
                                    x, Bits(operands[1], Len(x))),
                            y, Bits(operands[2], Len(y)))

IsGate(g) == g.op \in {"INIT0", "INIT1", "NOT", "NOR"}

\* One gate of the simulator.
PerformGate ==
    /\ Running /\ IsGate(program[pc])
    /\ memory' = IF op_ \in Partitioned
                 THEN Parallel!perform(memory, program[pc], JobList[job].num_cols \div N_)
                 ELSE perform(memory, program[pc])
    /\ latency' = latency + 1
    /\ energy' = energy + (IF op_ \in Partitioned THEN Len(program[pc].to) ELSE 1)
    /\ maxUsed' = IF program[pc].out > maxUsed THEN program[pc].out ELSE maxUsed
    /\ pc' = pc + 1
    /\ UNCHANGED <<job, operands>>

\* One access of the script.
Host ==
    /\ Running /\ ~IsGate(program[pc])
    /\ memory' = host(memory, program[pc])
    /\ pc' = IF program[pc].op = "CHECK" /\ AllZero(memory, program[pc].in)
             THEN pc + 1 + program[pc].skip ELSE pc + 1
    /\ UNCHANGED <<job, operands, latency, energy, maxUsed>>

ArrayNext == PerformGate \/ Host

ArraySpec == ArrayInit /\ [][ArrayNext]_arrayVars

-----------------------------------------------------------------------------
(* Reference definitions.                                                  *)

Value(cells) ==
    LET sum[i \in Nat] ==
            IF i = 0 THEN 0
            ELSE sum[i - 1] + (IF memory[cells[i]] THEN Pow2[i - 1] ELSE 0)
    IN  sum[Len(cells)]

\* A number modulo 2^N_, within TLC's integers.
Modulo(v) == IF N_ < 31 THEN v % Pow2[N_] ELSE v

\* The bits of x * y by column sums, for products beyond TLC's integers.
ProductBits(x, y, N) ==
    LET xb == Bits(x, N)
        yb == Bits(y, N)
        Column(k) == Cardinality({i \in 1..N : k + 1 - i \in 1..N /\ xb[i] /\ yb[k + 1 - i]})
        carry[k \in 1..(2 * N + 1)] ==
            IF k = 1 THEN 0 ELSE (Column(k - 1) + carry[k - 1]) \div 2
    IN  [k \in 1..(2 * N) |-> (Column(k) + carry[k]) % 2 = 1]

\* The result of f6: in words, or exact where nothing can wrap.
Numerator(x, N) ==
    IF op_ = "pf6" THEN parallel_numerator_word(x, N) ELSE numerator_word(x, N)
F6Word(x, N) ==
    IF N <= 15
      THEN IF denominator_word(x, N) = 0 THEN 0
           ELSE clamp_word(Numerator(x, N) \div denominator_word(x, N), N)
    ELSE IF 120 + 60 * x + 12 * x * x + x * x * x >= 240 + 24 * x * x THEN 1 ELSE 0

\* A floating-point word: sign (none for "uadd"), exponent, mantissa; magnitudes
\* are whole multiples of the smallest step, 2^-(Nm + bias).
Float(v) ==
    LET u == IF op_ = "uadd" THEN v ELSE v \div 2
    IN  [s |-> op_ # "uadd" /\ v % 2 = 1, e |-> u % 2^Ne_, m |-> u \div 2^Ne_]

Nm_ == N_ - Ne_ - (IF op_ = "uadd" THEN 0 ELSE 1)
Magnitude(e, m) == IF e = 0 THEN 0 ELSE (2^Nm_ + m) * 2^e
Signed(f) == IF f.s THEN -Magnitude(f.e, f.m) ELSE Magnitude(f.e, f.m)
MaxExponent == 2^Ne_ - 1
One == 2^(Nm_ + 2^(Ne_ - 1) - 1)

\* The exact result as a sign and a fraction.
Exact(x, y) ==
    LET a == Signed(x)
        b == Signed(y)
        Abs(v) == IF v < 0 THEN -v ELSE v
    IN  CASE op_ \in {"uadd", "fadd"} -> [s |-> a + b < 0, num |-> Abs(a + b), den |-> 1]
          [] op_ = "fsub" -> [s |-> a - b < 0, num |-> Abs(a - b), den |-> 1]
          [] op_ = "fmult" -> [s |-> x.s # y.s, num |-> Abs(a) * Abs(b), den |-> One]
          [] op_ = "fdiv" -> [s |-> x.s # y.s, num |-> Abs(a) * One, den |-> Abs(b)]

\* No number of the format is nearer, and of two equally near this is the even
\* one.
Nearest(z, exact) ==
    LET Distance(e, m) == LET d == Magnitude(e, m) * exact.den - exact.num
                          IN  IF d < 0 THEN -d ELSE d
    IN  \A e \in 1..MaxExponent, m \in 0..(2^Nm_ - 1) :
            \/ Distance(z.e, z.m) < Distance(e, m)
            \/ Distance(z.e, z.m) = Distance(e, m) /\ (<<e, m>> = <<z.e, z.m>> \/ z.m % 2 = 0)

-----------------------------------------------------------------------------
\* The simulator's assertions hold for every gate of every routine: no gate
\* reads its own output or the same cell twice, although sums replace
\* operands, carries replace carries and freed cells are taken again; with
\* partitions, the parts of a gate act on equally spaced partitions that do
\* not overlap, for widths that are no power of two as well.
GatesLegal ==
    Running /\ IsGate(program[pc]) =>
        IF op_ \in Partitioned THEN Parallel!Legal(program[pc]) ELSE Legal(program[pc])

\* A routine leaves its operands as they were and stays within the columns.
OperandsKept ==
    Finished =>
        /\ [i \in DOMAIN x_ |-> memory[x_[i]]] = Bits(operands[1], Len(x_))
        /\ [i \in DOMAIN y_ |-> memory[y_[i]]] = Bits(operands[2], Len(y_))
        /\ maxUsed <= JobList[job].num_cols \div (IF op_ \in Partitioned THEN N_ ELSE 1)

\* Whatever the cells held before, a routine ends with the result of the
\* arithmetic it implements: sum with carry, difference with borrow, full
\* product (partial products, Karatsuba, and carry-save with partitions),
\* quotient and remainder; with partitions also from gates that rely on what
\* the gates before left in their output.
ArithmeticRight ==
    Finished =>
        LET x == operands[1]
            y == operands[2]
            low == SubSeq(z_, 1, N_)
            high == SubSeq(z_, N_ + 1, 2 * N_)
            carry == [in |-> memory[AtAddress(cin_addr, N_, JobList[job].num_cols)[1]],
                      out |-> memory[AtAddress(cout_addr, N_, JobList[job].num_cols)[N_]]]
            Bit(b) == IF b THEN 1 ELSE 0
        IN  CASE op_ = "add" -> Value(z_) = x + y
              [] op_ = "padd" -> Value(low) = Modulo(x + y)
              [] op_ = "pcin" ->
                     Value(low) + Pow2[N_] * Bit(carry.out) = x + y + Bit(carry.in)
              [] op_ = "psub" -> Value(low) = Modulo(x - y)
              [] op_ = "inc" -> Value(low) = (x + y + 1) % Pow2[N_]
              [] op_ = "sub" -> /\ Value(low) = (x - y) % Pow2[N_]
                                /\ memory[z_[N_ + 1]] <=> x >= y
              [] op_ \in {"mult", "pmult"} ->
                     [k \in 1..(2 * N_) |-> memory[z_[k]]] = ProductBits(x, y, N_)
              [] op_ \in {"div", "pdiv"} -> Value(low) = x \div y /\ Value(high) = x % y
              [] OTHER -> TRUE

\* A floating-point routine ends with the correctly rounded result, ties to
\* even, and with +0 for an exact 0.  Results below the smallest normal number
\* or above the largest are not specified (the tests leave them out).
FloatRight ==
    Finished /\ op_ \in {"uadd", "fadd", "fsub", "fmult", "fdiv"} /\ N_ <= 8 =>
        LET exact == Exact(Float(operands[1]), Float(operands[2]))
            z == Float(Value(z_))
            smallest == Magnitude(1, 0)
            largest == Magnitude(MaxExponent, 2^Nm_ - 1)
        IN  /\ exact.num = 0 => Value(z_) = 0
            /\ /\ smallest * exact.den <= exact.num
               /\ 2 * exact.num < (2 * largest + 2^MaxExponent) * exact.den
               => z.e # 0 /\ (z.s <=> exact.s) /\ Nearest(z, exact)

\* The quotient fits the N bits the division has for it (always from 8 bits
\* on; a narrower pipeline also meets divisors that are zero).
QuotientFits(x, N) ==
    N <= 15 => denominator_word(x, N) * 2^N > Numerator(x, N) \/ denominator_word(x, N) = 0

\* The pipeline ends with the f6 of the row's operand in words of N bits, and
\* with the result the verifier expects when the numerator fits N bits.
F6Right ==
    Finished /\ op_ \in {"f6", "pf6"} /\ QuotientFits(operands[1], N_) =>
        LET x == operands[1]
        IN  /\ [i \in 1..N_ |-> memory[z_[i]]] = Bits(F6Word(x, N_), N_)
            /\ (N_ <= 15 /\ Numerator(x, N_) < 2^N_ /\ ~reference(x, N_).excluded)
                   => F6Word(x, N_) = reference(x, N_).clamped

\* The quotient and the output of the pipeline in floating point.
FloatQuotient == f6_quotient(Float(operands[1]), Ne_, Nm_)
FloatOutput == [i \in 1..N_ |-> memory[z_[i]]]
FloatWord(f) == FloatBits(f.e, f.m, Ne_, Nm_)

\* The pipeline in floating point divides as verify_float does, step by rounded
\* step, and its output is that quotient or 1: the latter whenever the quotient
\* is not below 1 and, as its cells are compared mantissa first, whenever it is
\* no power of two.
F6FloatRight ==
    Finished /\ op_ = "f6float" /\ N_ < 31 =>
        LET q == FloatQuotient
        IN  FloatOutput = FloatWord(IF q.m > 0 \/ q.e >= Bias(Ne_)
                                    THEN FloatOf(1, Ne_, Nm_) ELSE q)

\* What f6_dashboard.py:1590 says of the clamping in floating point: a value
\* below 1.0 passes through.
BelowOnePasses ==
    Finished /\ op_ = "f6float" /\ N_ < 31 /\ FloatQuotient.e < Bias(Ne_) =>
        FloatOutput = FloatWord(FloatQuotient)

\* The cycles are those of the routines' documentation, for N > 20 too; the
\* cycles and cells at 32 bits, with partitions the gates as well, are those of
\* the README's table, and of update.md for the pipelines.
CyclesAsDocumented ==
    LET Mult[n \in 1..32] ==
            IF n <= 20 THEN 20 * n * n - 12 * n - 1
            ELSE LET half == (n + 1) \div 2
                 IN  142 * half + 10 * n + 102 + Mult[half + 1] + Mult[half] + Mult[n - half]
        Reported == [mult |-> <<18123, 187>>, div |-> <<28423, 170>>, uadd |-> <<2306, 135>>,
                     fadd |-> <<3997, 142>>, fmult |-> <<11586, 172>>, fdiv |-> <<19909, 139>>,
                     f6 |-> <<105016, 709>>, f6float |-> <<82882, 460>>]
        \* with the gates
        ReportedParallel == [padd |-> <<95, 1359, 256>>, psub |-> <<98, 1424, 288>>,
                             pmult |-> <<1251, 25039, 352>>, pdiv |-> <<4291, 62338, 448>>,
                             pf6 |-> <<9787, 169740, 736>>]
        log2(n) == CeilLog2(Nm_ + n)
    IN  Finished =>
            /\ N_ >= 31 => IF op_ \in Partitioned
                           THEN <<latency, energy, maxUsed * N_>> = ReportedParallel[op_]
                           ELSE op_ \in DOMAIN Reported =>
                                    <<latency, maxUsed>> = Reported[op_]
            /\ CASE op_ \in {"add", "inc"} -> latency = 18 * N_ + 1
                 [] op_ = "sub" -> latency = 20 * N_ + 1
                 [] op_ = "mult" -> latency = Mult[N_]
                 [] op_ = "div" -> latency = 26 * N_ * N_ + 56 * N_ + 7
                 [] op_ = "uadd" -> latency = 47 * Nm_ + 57 * Ne_ + 102
                                              + (6 * Nm_ + 21) * log2(2) - 4 * 2^log2(2)
                 [] op_ = "fadd" -> latency = 74 * Nm_ + 79 * Ne_ + 299
                                              + (12 * Nm_ + 48) * log2(3) - 8 * 2^log2(3)
                 [] OTHER -> TRUE
=============================================================================
