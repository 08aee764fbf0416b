---------------------------- MODULE MCArithmetic ----------------------------
(***************************************************************************)
(* One run for the pure arithmetic: the operands of the sigmoid cores, of  *)
(* the truncated adder, and of the programs of the two arrays.              *)
(***************************************************************************)
EXTENDS MCSigmoidCore, MCTruncatedAdder, PimArray

Pairs(N) == (0..(2^N - 1)) \X (0..(2^N - 1))

\* Operands whose quotient fits N bits.
Dividends(N) == {p \in (0..(4^N - 1)) \X (1..(2^N - 1)) : p[1] \div 2^N < p[2]}

\* Floating-point words: no subnormal numbers, one zero.
Floats(Ne, Nm) == {0} \union {e + 2^Ne * m : e \in 1..(2^Ne - 1), m \in 0..(2^Nm - 1)}
SignedFloats(Ne, Nm, signs) == {s + 2 * v : s \in signs, v \in Floats(Ne, Nm)} \ {1}

\* A few bits, for all operands; a product of 21 bits, which takes Karatsuba's
\* split; the pipeline at 4 and 8 bits, and at its 32 bits; the routines at the
\* width their documentation reports.
MCJobs ==
    LET On(op, N, num_cols, fills) == Job(op, N, 0, num_cols, fills)
    IN  <<
        On("add", 4, 40, BOOLEAN),
        On("inc", 4, 40, BOOLEAN),
        On("sub", 4, 40, BOOLEAN),
        On("mult", 4, 40, BOOLEAN),
        On("mult", 21, 180, {TRUE}),
        On("mult", 32, 187, {TRUE}),
        On("div", 3, 40, BOOLEAN),
        On("div", 32, 170, {TRUE}),
        On("padd", 3, 24, BOOLEAN),
        On("padd", 5, 40, {TRUE}),
        On("pcin", 4, 40, BOOLEAN),
        On("psub", 4, 36, BOOLEAN),
        On("pmult", 4, 44, BOOLEAN),
        On("pdiv", 3, 42, BOOLEAN),
        On("padd", 32, 256, {TRUE}),
        On("psub", 32, 288, {TRUE}),
        On("pmult", 32, 352, {TRUE}),
        On("pdiv", 32, 448, {TRUE}),
        On("f6", 4, 110, {TRUE}),
        On("f6", 8, 200, {TRUE}),
        On("f6", 32, 720, {FALSE}),
        On("pf6", 4, 92, {TRUE}),
        On("pf6", 8, 184, {FALSE}),
        On("pf6", 32, 736, {FALSE}),
        Job("uadd", 5, 3, 50, {TRUE}),
        Job("fadd", 5, 3, 60, {TRUE}),
        Job("fsub", 5, 3, 60, {FALSE}),
        Job("fmult", 6, 2, 60, {TRUE}),
        Job("fdiv", 6, 3, 60, {TRUE}),
        Job("uadd", 31, 8, 135, {FALSE}),
        Job("fadd", 32, 8, 142, {FALSE}),
        Job("fmult", 32, 8, 172, {FALSE}),
        Job("fdiv", 32, 8, 139, {FALSE}),
        Job("f6float", 9, 5, 150, {TRUE}),
        Job("f6float", 32, 8, 460, {FALSE}) >>

MCFloatPipeline ==
    LET pipeline == Job("f6float", 9, 5, 150, {TRUE})
    IN  <<pipeline>>

MCOperands(j) ==
    LET Nm == j.N - j.Ne - 1
    IN  CASE j.N = 21 -> {<<2097151, 2097151>>, <<1398101, 2096129>>}
          [] j.op \in {"f6", "pf6"} /\ j.N = 32 -> {<<5, 0>>}
          [] j.op = "f6float" /\ j.N = 32 -> {<<2^8 + 2^30, 0>>}
          [] j.op = "f6float" /\ j.N = 9 ->
                 {x \in SignedFloats(j.Ne, Nm, {0}) :
                      (x \div 2) % 2^j.Ne \in {0, 8, 12} \union 14..(Bias(j.Ne) + 1)} \X {0}
          [] j.N = 32 /\ j.op \in Partitioned \ {"pf6"} -> {<<2000000011, 12345>>}
          [] j.N > 21 /\ j.op \notin {"f6", "f6float"} \union Partitioned -> {<<100, 103>>}
          [] j.op \in {"f6", "pf6"} /\ j.N < 32 ->
                 {x \in 0..(2^j.N - 1) : x < 16 \/ x % 16 = 15} \X {0}
          [] j.op \in {"add", "inc", "sub", "mult", "padd", "pcin", "psub", "pmult"}
                 /\ j.N < 21 -> Pairs(j.N)
          [] j.op \in {"div", "pdiv"} /\ j.N = 3 -> Dividends(j.N)
          [] j.op = "uadd" /\ j.N = 5 -> Floats(j.Ne, 2) \X Floats(j.Ne, 2)
          [] j.op = "fadd" /\ j.N = 5 ->
                 SignedFloats(j.Ne, Nm, {0}) \X SignedFloats(j.Ne, Nm, {0, 1})
          [] j.op = "fsub" -> SignedFloats(j.Ne, Nm, {0}) \X SignedFloats(j.Ne, Nm, {0})
          [] j.op = "fmult" /\ j.N = 6 ->
                 SignedFloats(j.Ne, Nm, {0}) \X ({0} \union SignedFloats(j.Ne, Nm, {1}))
          [] j.op = "fdiv" /\ j.N = 6 ->
                 SignedFloats(j.Ne, Nm, {0})
                     \X {y \in SignedFloats(j.Ne, Nm, {1}) : (y \div 2) % 2^j.Ne \in 3..4}

vars == <<unit, word, adderVars, arrayVars>>

Init ==
    /\ unit \in Units
    /\ CoreInit /\ AdderInit
    /\ IF unit = "array" THEN ArrayInit ELSE ArrayIdle

\* A row whose program is finished rests.
Rest == Finished /\ UNCHANGED vars

Next ==
    \/ CoreNext /\ UNCHANGED <<unit, adderVars, arrayVars>>
    \/ AdderNext /\ UNCHANGED <<unit, word, arrayVars>>
    \/ ArrayNext /\ UNCHANGED <<unit, word, adderVars>>
    \/ Rest

Spec == Init /\ [][Next]_vars

=============================================================================
