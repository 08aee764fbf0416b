-------------------------- MODULE ArithmeticProofs --------------------------
(***************************************************************************)
(* Induction and recursion over the natural numbers, numbers in binary,    *)
(* and by induction over the bits the chain of the truncated adder, for    *)
(* every width.  The library's induction rules take an operator and cannot *)
(* be applied here; the rule below is about a set of numbers, and so is    *)
(* the existence of recursive functions.                                   *)
(***************************************************************************)
EXTENDS MCTruncatedAdder, FunctionTheorems, TLAPS

-----------------------------------------------------------------------------
(* Induction and recursion over the natural numbers.                       *)

\* A set that contains 0 and with a number the next one contains all: else the
\* numbers up to one that it lacks would fit into fewer, each that it contains in
\* its own place and each other one place below.
LEMMA SetInduction ==
    ASSUME NEW S, 0 \in S, \A n \in Nat : n \in S => n + 1 \in S
    PROVE  Nat \subseteq S
<1> SUFFICES ASSUME NEW n \in Nat, n \notin S
             PROVE  FALSE
  OBVIOUS
<1> DEFINE g == [k \in 1..(n + 1) |-> IF k - 1 \in S THEN k ELSE k - 1]
<1>1. g \in [1..(n + 1) -> 1..n]
  <2>1. ASSUME NEW k \in 1..(n + 1) PROVE g[k] \in 1..n
    <3>1. k - 1 \in S => k - 1 # n
      OBVIOUS
    <3>2. k - 1 \notin S => k - 1 # 0
      OBVIOUS
    <3> QED BY <3>1, <3>2
  <2> QED BY <2>1
<1>2. \A j, k \in 1..(n + 1) : k - 1 \in S => g[k] = k /\ (j - 1 \notin S => j # k + 1)
  OBVIOUS
<1>3. \A k \in 1..(n + 1) : k - 1 \notin S => g[k] = k - 1
  OBVIOUS
<1> HIDE DEF g
<1>4. \A j, k \in 1..(n + 1) : g[j] = g[k] => j = k
  BY <1>2, <1>3
<1>5. ExistsInjection(1..(n + 1), 1..n)
  BY <1>1, <1>4, Zenon DEF ExistsInjection, Injection, IsInjective
<1>6. n + 1 \in Nat
  OBVIOUS
<1>7. n + 1 <= n
  BY <1>5, <1>6, Fun_NatInjLeq
<1> QED
  BY <1>7

\* f starts from base, and step leads from each value to the next.
Iterates(f, V, base, step) ==
    /\ f \in [Nat -> V]
    /\ f[0] = base
    /\ \A n \in Nat : f[n + 1] = step[n][f[n]]

\* g does so up to n.
IteratesUpTo(n, g, V, base, step) ==
    /\ g \in [0..n -> V]
    /\ g[0] = base
    /\ \A k \in 0..(n - 1) : g[k + 1] = step[k][g[k]]

\* Every base and step have such a function.
LEMMA RecursiveFunction ==
    ASSUME NEW V, NEW base \in V, NEW step \in [Nat -> [V -> V]]
    PROVE  \E f : Iterates(f, V, base, step)
<1> DEFINE A(n, g) == IteratesUpTo(n, g, V, base, step)
           Some == {n \in Nat : \E g : A(n, g)}
<1>1. Nat \subseteq Some
  <2>1. 0 \in Some
    <3>1. A(0, [k \in 0..0 |-> base])
      BY DEF IteratesUpTo
    <3> QED BY <3>1
  <2>2. ASSUME NEW n \in Nat, n \in Some PROVE n + 1 \in Some
    <3>1. PICK g : A(n, g)
      BY <2>2
    <3> DEFINE h == [k \in 0..(n + 1) |-> IF k = n + 1 THEN step[n][g[n]] ELSE g[k]]
    <3>2. g \in [0..n -> V] /\ g[0] = base /\ \A k \in 0..(n - 1) : g[k + 1] = step[k][g[k]]
      BY <3>1 DEF IteratesUpTo
    <3>3. \A k \in 0..n : h[k] = g[k]
      BY <3>2
    <3>4. h[n + 1] = step[n][h[n]]
      BY <3>3
    <3>5. h[n + 1] \in V
      BY <3>2, <3>3, <3>4
    <3>6. h \in [0..(n + 1) -> V]
      BY <3>2, <3>3, <3>5
    <3>7. ASSUME NEW k \in 0..n PROVE h[k + 1] = step[k][h[k]]
      <4>1. CASE k = n
        BY <4>1, <3>4
      <4>2. CASE k # n
        <5>1. k \in 0..(n - 1) /\ k + 1 \in 0..n
          BY <4>2
        <5> QED BY <5>1, <3>2, <3>3
      <4> QED BY <4>1, <4>2
    <3>8. A(n + 1, h)
      <4> HIDE DEF h
      <4> QED BY <3>2, <3>3, <3>6, <3>7 DEF IteratesUpTo
    <3> QED BY <3>8
  <2> HIDE DEF Some
  <2> QED BY <2>1, <2>2, SetInduction
<1>2. ASSUME NEW n \in Nat, NEW m \in Nat, NEW g, NEW h, A(n, g), A(m, h)
      PROVE  \A k \in Nat : k <= n /\ k <= m => g[k] = h[k]
  <2> DEFINE Same == {k \in Nat : k <= n /\ k <= m => g[k] = h[k]}
  <2>1. 0 \in Same
    BY <1>2 DEF IteratesUpTo
  <2>2. ASSUME NEW k \in Nat, k \in Same, k + 1 <= n, k + 1 <= m
        PROVE  g[k + 1] = h[k + 1]
    <3>1. k \in 0..(n - 1) /\ k \in 0..(m - 1) /\ g[k] = h[k]
      BY <2>2
    <3> QED BY <3>1, <1>2 DEF IteratesUpTo
  <2>3. \A k \in Nat : k \in Same => k + 1 \in Same
    BY <2>2
  <2>4. Nat \subseteq Same
    <3> HIDE DEF Same
    <3> QED BY <2>1, <2>3, SetInduction
  <2> QED BY <2>4
<1> DEFINE G(n) == CHOOSE g : A(n, g)
           f == [n \in Nat |-> G(n)[n]]
<1>3. ASSUME NEW n \in Nat PROVE A(n, G(n))
  <2>1. \E g : A(n, g)
    BY <1>1
  <2> HIDE DEF A
  <2> QED BY <2>1
<1>4. \A n \in Nat : G(n) \in [0..n -> V] /\ G(n)[0] = base
                     /\ \A k \in 0..(n - 1) : G(n)[k + 1] = step[k][G(n)[k]]
  <2> HIDE DEF G
  <2> QED BY <1>3 DEF IteratesUpTo
<1>5. f \in [Nat -> V] /\ f[0] = base
  <2> HIDE DEF G
  <2> QED BY <1>4
<1>6. ASSUME NEW n \in Nat PROVE f[n + 1] = step[n][f[n]]
  <2>1. A(n, G(n)) /\ A(n + 1, G(n + 1))
    BY <1>3
  <2> HIDE DEF A, G
  <2>2. G(n)[n] = G(n + 1)[n]
    BY <2>1, <1>2
  <2>3. G(n + 1)[n + 1] = step[n][G(n + 1)[n]]
    BY <1>4
  <2> QED BY <2>2, <2>3
<1> QED
  <2> HIDE DEF f
  <2> QED BY <1>5, <1>6 DEF Iterates

-----------------------------------------------------------------------------
(* Powers of two, shifts and bits.                                         *)

\* The definition of Pow2 is met by a function.
LEMMA Pow2Def == Pow2 = [n \in Nat |-> IF n = 0 THEN 1 ELSE 2 * Pow2[n - 1]]
<1> DEFINE step == [n \in Nat |-> [v \in Nat |-> 2 * v]]
<1>1. step \in [Nat -> [Nat -> Nat]]
  OBVIOUS
<1>2. PICK f : Iterates(f, Nat, 1, step)
  <2> HIDE DEF step
  <2> QED BY <1>1, RecursiveFunction, Zenon
<1>3. f \in [Nat -> Nat] /\ f[0] = 1 /\ \A n \in Nat : f[n + 1] = 2 * f[n]
  BY <1>2, Zenon DEF Iterates
<1>4. ASSUME NEW n \in Nat PROVE f[n] = IF n = 0 THEN 1 ELSE 2 * f[n - 1]
  <2>1. CASE n # 0
    <3>1. n - 1 \in Nat /\ (n - 1) + 1 = n
      BY <2>1
    <3> QED BY <3>1, <2>1, <1>3
  <2> QED BY <2>1, <1>3
<1>5. f = [n \in Nat |-> IF n = 0 THEN 1 ELSE 2 * f[n - 1]]
  BY <1>3, <1>4
<1> QED BY <1>5 DEF Pow2

\* Powers of two are positive, and each is twice the one before.
LEMMA Pow2Step ==
    /\ Pow2[0] = 1
    /\ \A n \in Nat : Pow2[n] \in Nat \ {0} /\ Pow2[n + 1] = 2 * Pow2[n]
<1>1. \A n \in Nat : Pow2[n + 1] = 2 * Pow2[n]
  BY Pow2Def
<1>2. Pow2[0] = 1
  BY Pow2Def
<1> DEFINE Good == {n \in Nat : Pow2[n] \in Nat \ {0}}
<1>3. Nat \subseteq Good
  <2>1. 0 \in Good BY <1>2
  <2>2. \A n \in Nat : n \in Good => n + 1 \in Good BY <1>1
  <2> HIDE DEF Good
  <2> QED BY <2>1, <2>2, SetInduction
<1> QED BY <1>1, <1>2, <1>3, Pow2Def, Zenon

\* A shift by one more bit halves once more.
LEMMA ShiftRightStep ==
    ASSUME NEW v \in Nat
    PROVE  /\ ShiftRight(v, 0) = v
           /\ \A n \in Nat : /\ ShiftRight(v, n) \in Nat
                             /\ ShiftRight(v, n + 1) = ShiftRight(v, n) \div 2
<1> DEFINE step == [n \in Nat |-> [u \in Nat |-> u \div 2]]
           shifted == CHOOSE f : f = [k \in Nat |-> IF k = 0 THEN v ELSE f[k - 1] \div 2]
<1>1. step \in [Nat -> [Nat -> Nat]]
  OBVIOUS
<1>2. PICK f : Iterates(f, Nat, v, step)
  <2> HIDE DEF step
  <2> QED BY <1>1, RecursiveFunction, Zenon
<1>3. f \in [Nat -> Nat] /\ f[0] = v /\ \A n \in Nat : f[n + 1] = f[n] \div 2
  BY <1>2, Zenon DEF Iterates
<1>4. ASSUME NEW n \in Nat PROVE f[n] = IF n = 0 THEN v ELSE f[n - 1] \div 2
  <2>1. CASE n # 0
    <3>1. n - 1 \in Nat /\ (n - 1) + 1 = n
      BY <2>1
    <3> QED BY <3>1, <2>1, <1>3
  <2> QED BY <2>1, <1>3
<1>5. f = [n \in Nat |-> IF n = 0 THEN v ELSE f[n - 1] \div 2]
  BY <1>3, <1>4
<1>6. shifted = [n \in Nat |-> IF n = 0 THEN v ELSE shifted[n - 1] \div 2]
  BY <1>5
<1> HIDE DEF shifted
<1>7. shifted[0] = v /\ \A n \in Nat : shifted[n + 1] = shifted[n] \div 2
  BY <1>6
<1> DEFINE Good == {n \in Nat : shifted[n] \in Nat}
<1>8. Nat \subseteq Good
  <2>1. 0 \in Good
    BY <1>7
  <2>2. \A n \in Nat : n \in Good => n + 1 \in Good
    BY <1>7
  <2> HIDE DEF Good
  <2> QED BY <2>1, <2>2, SetInduction
<1>9. \A n : ShiftRight(v, n) = shifted[n]
  BY DEF ShiftRight, shifted
<1> QED
  BY <1>7, <1>8, <1>9

\* A number is twice its half, and the bit that is lost.
LEMMA Halving ==
    ASSUME NEW u \in Nat
    PROVE  u \div 2 \in Nat /\ u % 2 \in {0, 1} /\ u = 2 * (u \div 2) + (u % 2)
  OBVIOUS

\* The number in the n low bits of v.
LowBits(v, n) == v - ShiftRight(v, n) * Pow2[n]

\* One bit more adds its weight.
LEMMA LowBitsStep ==
    ASSUME NEW v \in Nat
    PROVE  /\ LowBits(v, 0) = 0
           /\ \A n \in Nat : /\ BitAt(v, n) \in {0, 1}
                             /\ LowBits(v, n + 1) = LowBits(v, n) + BitAt(v, n) * Pow2[n]
<1>1. LowBits(v, 0) = 0
  BY ShiftRightStep, Pow2Step DEF LowBits
<1>2. ASSUME NEW n \in Nat
      PROVE  /\ BitAt(v, n) \in {0, 1}
             /\ LowBits(v, n + 1) = LowBits(v, n) + BitAt(v, n) * Pow2[n]
  <2> DEFINE u == ShiftRight(v, n)
             p == Pow2[n]
             b == u % 2
  <2>1. u \in Nat /\ p \in Nat
    BY ShiftRightStep, Pow2Step, Zenon
  <2>2. ShiftRight(v, n + 1) = u \div 2 /\ Pow2[n + 1] = 2 * p
    BY ShiftRightStep, Pow2Step, Zenon
  <2>3. b \in {0, 1} /\ u = 2 * (u \div 2) + b /\ u \div 2 \in Nat
    <3> HIDE DEF u
    <3> QED BY <2>1, Halving
  <2>4. u * p = (u \div 2) * (2 * p) + b * p
    <3> DEFINE h == u \div 2
    <3>1. h \in Nat /\ u = 2 * h + b
      BY <2>3
    <3> HIDE DEF h, u, p, b
    <3>2. (2 * h + b) * p = h * (2 * p) + b * p
      BY <3>1, <2>1, <2>3
    <3> QED BY <3>1, <3>2 DEF h
  <2>5. BitAt(v, n) = b
    BY DEF BitAt
  <2>6. LowBits(v, n + 1) = v - (u \div 2) * (2 * p) /\ LowBits(v, n) = v - u * p
    BY <2>2 DEF LowBits
  <2>7. LowBits(v, n + 1) = LowBits(v, n) + b * p
    <3> HIDE DEF u, p, b
    <3>1. u * p \in Int /\ (u \div 2) * (2 * p) \in Int /\ b * p \in Int
      BY <2>1, <2>3
    <3> QED BY <2>4, <2>6, <3>1
  <2> QED BY <2>3, <2>5, <2>7
<1> QED
  BY <1>1, <1>2

\* The low bits are a number below the next power; a number below it has no
\* higher bits.
LEMMA LowBitsBound ==
    ASSUME NEW v \in Nat, NEW n \in Nat
    PROVE  /\ LowBits(v, n) \in 0..(Pow2[n] - 1)
           /\ v < Pow2[n] => ShiftRight(v, n) = 0 /\ LowBits(v, n) = v
<1> DEFINE Good == {k \in Nat : LowBits(v, k) \in 0..(Pow2[k] - 1)}
<1>1. Nat \subseteq Good
  <2>1. 0 \in Good
    BY LowBitsStep, Pow2Step
  <2>2. ASSUME NEW k \in Nat, k \in Good PROVE k + 1 \in Good
    <3> DEFINE p == Pow2[k]
               b == BitAt(v, k)
               l == LowBits(v, k)
    <3>1. p \in Nat /\ b \in {0, 1} /\ l \in 0..(p - 1)
      BY <2>2, Pow2Step, LowBitsStep
    <3>2. LowBits(v, k + 1) = l + b * p /\ Pow2[k + 1] = 2 * p
      BY Pow2Step, LowBitsStep
    <3> HIDE DEF p, b, l
    <3>3. l + b * p \in 0..(2 * p - 1)
      <4>1. CASE b = 0
        BY <3>1, <4>1
      <4>2. CASE b = 1
        BY <3>1, <4>2
      <4> QED BY <3>1, <4>1, <4>2
    <3>4. LowBits(v, k + 1) \in 0..(Pow2[k + 1] - 1)
      BY <3>2, <3>3
    <3> QED BY <3>4
  <2> HIDE DEF Good
  <2> QED BY <2>1, <2>2, SetInduction
<1>2. LowBits(v, n) \in 0..(Pow2[n] - 1)
  BY <1>1
<1>3. ASSUME v < Pow2[n] PROVE ShiftRight(v, n) = 0 /\ LowBits(v, n) = v
  <2> DEFINE u == ShiftRight(v, n)
             p == Pow2[n]
  <2>1. LowBits(v, n) = v - u * p
    BY DEF LowBits
  <2>2. u \in Nat /\ p \in Nat \ {0} /\ v < p /\ v - u * p >= 0
    <3>1. u \in Nat /\ p \in Nat \ {0} /\ v < p
      BY <1>3, ShiftRightStep, Pow2Step, Zenon
    <3>2. v - u * p \in 0..(p - 1)
      BY <1>2, <2>1
    <3> HIDE DEF u, p
    <3> QED BY <3>1, <3>2
  <2> HIDE DEF u, p
  <2>3. u = 0
    <3> SUFFICES ASSUME u >= 1 PROVE FALSE
      BY <2>2
    <3>1. u * p >= p
      BY <2>2
    <3> QED BY <2>2, <3>1
  <2> QED BY <2>1, <2>2, <2>3 DEF u
<1> QED
  BY <1>2, <1>3

\* The low bits are a number.
LEMMA LowBitsInt ==
    ASSUME NEW v \in Nat, NEW n \in Nat
    PROVE  LowBits(v, n) \in Int /\ LowBits(v, n) \in Nat
<1>1. LowBits(v, n) \in 0..(Pow2[n] - 1) /\ Pow2[n] \in Nat
  BY LowBitsBound, Pow2Step, Zenon
<1> QED
  BY <1>1

-----------------------------------------------------------------------------
(* The chain of the truncated adder (ADD_APPROX.v).                        *)

\* The outputs of the cell of bit i: nothing below n, above it the number of
\* ones among its inputs.
CellCounts(cell, a, b, cin, n, i) ==
    /\ cell.sum \in {0, 1} /\ cell.cout \in {0, 1}
    /\ i < n => cell.sum = 0 /\ cell.cout = 0
    /\ ~(i < n) => cell.sum + 2 * cell.cout = BitAt(a, i) + BitAt(b, i) + cin

\* Every cell is one of these.
LEMMA StageBits ==
    ASSUME NEW a \in Nat, NEW b \in Nat, NEW cin \in {0, 1}, NEW n \in Nat, NEW i \in Nat
    PROVE  CellCounts(Stage(a, b, cin, n, i), a, b, cin, n, i)
<1>1. BitAt(a, i) \in {0, 1} /\ BitAt(b, i) \in {0, 1}
  BY LowBitsStep
<1>2. \A x, y, c \in {0, 1} : /\ full_adder_1bit(x, y, c).sum \in {0, 1}
                             /\ full_adder_1bit(x, y, c).cout \in {0, 1}
                             /\ full_adder_1bit(x, y, c).sum + 2 * full_adder_1bit(x, y, c).cout
                                    = x + y + c
  BY DEF full_adder_1bit
<1>3. CASE i < n
  BY <1>3 DEF Stage, AdderIMPACTZeroApproxOneBit, CellCounts
<1>4. CASE ~(i < n)
  <2>1. Stage(a, b, cin, n, i) = full_adder_1bit(BitAt(a, i), BitAt(b, i), cin)
    BY <1>4 DEF Stage
  <2> QED BY <1>1, <1>2, <1>4, <2>1 DEF CellCounts
<1> QED
  BY <1>3, <1>4

\* sum[i] and carry[i] are the outputs of the chain of i cells.
Chain(sum, carry, a, b, cin, n) ==
    /\ sum \in [Nat -> Nat] /\ carry \in [Nat -> {0, 1}]
    /\ sum[0] = 0 /\ carry[0] = cin
    /\ \A i \in Nat :
           /\ ADD_APPROX(a, b, cin, i, n) = [sum |-> sum[i], cout |-> carry[i]]
           /\ i < n => sum[i + 1] = sum[i] /\ carry[i + 1] = 0
           /\ i >= n => \E bit \in {0, 1} :
                  /\ sum[i + 1] = sum[i] + bit * Pow2[i]
                  /\ bit + 2 * carry[i + 1] = BitAt(a, i) + BitAt(b, i) + carry[i]

\* A chain one cell longer is the chain and its last cell.
LEMMA ChainStep ==
    ASSUME NEW a \in Nat, NEW b \in Nat, NEW cin \in {0, 1}, NEW n \in Nat
    PROVE  \E sum, carry : Chain(sum, carry, a, b, cin, n)
<1> DEFINE V == [sum : Nat, cout : {0, 1}]
           base == [sum |-> 0, cout |-> cin]
           Longer(c, k) == [sum |-> c.sum + Stage(a, b, c.cout, n, k).sum * Pow2[k],
                            cout |-> Stage(a, b, c.cout, n, k).cout]
           step == [k \in Nat |-> [c \in V |-> Longer(c, k)]]
           chain == CHOOSE f : f = [i \in Nat |-> IF i = 0 THEN base ELSE Longer(f[i - 1], i - 1)]
<1>1. ASSUME NEW c \in V, NEW k \in Nat PROVE Longer(c, k) \in V
  <2>1. c.sum \in Nat /\ c.cout \in {0, 1} /\ Pow2[k] \in Nat
    BY Pow2Step
  <2>2. Stage(a, b, c.cout, n, k).sum \in {0, 1} /\ Stage(a, b, c.cout, n, k).cout \in {0, 1}
    <3>1. CellCounts(Stage(a, b, c.cout, n, k), a, b, c.cout, n, k)
      BY <2>1, StageBits
    <3> QED BY <3>1 DEF CellCounts
  <2>3. c.sum + Stage(a, b, c.cout, n, k).sum * Pow2[k] \in Nat
    BY <2>1, <2>2
  <2> QED BY <2>2, <2>3
<1>2. step \in [Nat -> [V -> V]] /\ base \in V
  <2> HIDE DEF V, Longer
  <2>1. base \in V
    BY DEF V
  <2> QED BY <1>1, <2>1
<1>3. PICK f : Iterates(f, V, base, step)
  <2> HIDE DEF step, V, base
  <2> QED BY <1>2, RecursiveFunction
<1>4. f \in [Nat -> V] /\ f[0] = base /\ \A i \in Nat : f[i + 1] = Longer(f[i], i)
  <2> HIDE DEF Longer, V, base
  <2>1. f \in [Nat -> V] /\ f[0] = base /\ \A i \in Nat : f[i + 1] = step[i][f[i]]
    <3> HIDE DEF step
    <3> QED BY <1>3 DEF Iterates
  <2>2. ASSUME NEW i \in Nat PROVE f[i + 1] = Longer(f[i], i)
    <3>1. f[i] \in V
      BY <2>1
    <3>2. step[i][f[i]] = Longer(f[i], i)
      BY <3>1, Zenon
    <3> QED BY <2>1, <3>2
  <2> QED BY <2>1, <2>2
<1> HIDE DEF Longer, V, base
<1>5. ASSUME NEW i \in Nat PROVE f[i] = IF i = 0 THEN base ELSE Longer(f[i - 1], i - 1)
  <2>1. CASE i # 0
    <3>1. i - 1 \in Nat /\ (i - 1) + 1 = i
      BY <2>1
    <3> QED BY <3>1, <2>1, <1>4
  <2> QED BY <2>1, <1>4
<1>6. f = [i \in Nat |-> IF i = 0 THEN base ELSE Longer(f[i - 1], i - 1)]
  BY <1>4, <1>5
<1>7. chain = [i \in Nat |-> IF i = 0 THEN base ELSE Longer(chain[i - 1], i - 1)]
  BY <1>6
<1>8. \A i : ADD_APPROX(a, b, cin, i, n) = chain[i]
  BY DEF ADD_APPROX, Longer, base
<1> HIDE DEF chain
<1>9. chain[0] = base /\ \A i \in Nat : chain[i + 1] = Longer(chain[i], i)
  BY <1>7
<1> DEFINE Good == {i \in Nat : chain[i] \in V}
<1>10. Nat \subseteq Good
  <2>1. 0 \in Good
    BY <1>2, <1>9
  <2>2. ASSUME NEW i \in Nat, i \in Good PROVE i + 1 \in Good
    <3>1. i + 1 \in Nat
      OBVIOUS
    <3>2. Longer(chain[i], i) \in V
      BY <1>1, <2>2, Zenon
    <3> QED BY <1>9, <3>1, <3>2, Zenon
  <2> HIDE DEF Good
  <2> QED BY <2>1, <2>2, SetInduction
<1>11. \A i \in Nat : chain[i] \in V
  BY <1>10
<1> DEFINE sum == [i \in Nat |-> chain[i].sum]
           carry == [i \in Nat |-> chain[i].cout]
<1>12. \A c \in V : c.sum \in Nat /\ c.cout \in {0, 1} /\ c = [sum |-> c.sum, cout |-> c.cout]
  BY DEF V
<1>13. /\ sum \in [Nat -> Nat] /\ carry \in [Nat -> {0, 1}]
       /\ \A i \in Nat : chain[i] = [sum |-> sum[i], cout |-> carry[i]]
  BY <1>11, <1>12
<1>14. sum[0] = 0 /\ carry[0] = cin
  BY <1>9 DEF base
<1>15. ASSUME NEW i \in Nat
       PROVE  /\ i < n => sum[i + 1] = sum[i] /\ carry[i + 1] = 0
              /\ i >= n => \E bit \in {0, 1} :
                     /\ sum[i + 1] = sum[i] + bit * Pow2[i]
                     /\ bit + 2 * carry[i + 1] = BitAt(a, i) + BitAt(b, i) + carry[i]
  <2> DEFINE cell == Stage(a, b, carry[i], n, i)
  <2>1. sum[i + 1] = sum[i] + cell.sum * Pow2[i] /\ carry[i + 1] = cell.cout
    <3>1. chain[i + 1] = [sum |-> sum[i] + cell.sum * Pow2[i], cout |-> cell.cout]
      BY <1>9, Zenon DEF Longer
    <3>2. sum[i + 1] = chain[i + 1].sum /\ carry[i + 1] = chain[i + 1].cout
      OBVIOUS
    <3> HIDE DEF sum, carry, cell
    <3> QED BY <3>1, <3>2
  <2>2. carry[i] \in {0, 1} /\ sum[i] \in Nat /\ Pow2[i] \in Nat
    BY <1>13, Pow2Step
  <2> HIDE DEF sum, carry
  <2>3. /\ cell.sum \in {0, 1} /\ cell.cout \in {0, 1}
        /\ i < n => cell.sum = 0 /\ cell.cout = 0
        /\ ~(i < n) => cell.sum + 2 * cell.cout = BitAt(a, i) + BitAt(b, i) + carry[i]
    <3>1. CellCounts(cell, a, b, carry[i], n, i)
      BY <2>2, StageBits
    <3> HIDE DEF cell
    <3> QED BY <3>1 DEF CellCounts
  <2> HIDE DEF cell
  <2> QED BY <2>1, <2>2, <2>3
<1> HIDE DEF sum, carry
<1>16. Chain(sum, carry, a, b, cin, n)
  BY <1>8, <1>13, <1>14, <1>15, Zenon DEF Chain
<1> QED
  BY <1>16

\* What the chain of i >= n cells computes: nothing of the truncated bits, and
\* above them the exact sum of the operands' bits.
ChainAdds(a, b, cin, i, n) ==
    \E sum \in 0..(Pow2[i] - 1), carry \in {0, 1} :
        /\ ADD_APPROX(a, b, cin, i, n) = [sum |-> sum, cout |-> carry]
        /\ sum + carry * Pow2[i] = (LowBits(a, i) - LowBits(a, n))
               + (LowBits(b, i) - LowBits(b, n)) + (IF n = 0 THEN cin ELSE 0)

\* By induction on the number of cells.
LEMMA ChainSum ==
    ASSUME NEW a \in Nat, NEW b \in Nat, NEW cin \in {0, 1}, NEW n \in Nat, NEW i \in Nat, n <= i
    PROVE  ChainAdds(a, b, cin, i, n)
<1>1. PICK sum, carry : Chain(sum, carry, a, b, cin, n)
  BY ChainStep
<1>2. /\ sum \in [Nat -> Nat] /\ carry \in [Nat -> {0, 1}]
      /\ sum[0] = 0 /\ carry[0] = cin
  BY <1>1 DEF Chain
<1> DEFINE la == [k \in Nat |-> LowBits(a, k)]
           lb == [k \in Nat |-> LowBits(b, k)]
           c0 == IF n = 0 THEN cin ELSE 0
           Exact(k) == (la[k] - la[n]) + (lb[k] - lb[n]) + c0
<1>3. la \in [Nat -> Nat] /\ lb \in [Nat -> Nat]
  BY LowBitsInt
<1>4. la[0] = 0 /\ lb[0] = 0 /\ Pow2[0] = 1
  BY LowBitsStep, Pow2Step
<1>5. ASSUME NEW k \in Nat
      PROVE  /\ la[k + 1] = la[k] + BitAt(a, k) * Pow2[k]
             /\ lb[k + 1] = lb[k] + BitAt(b, k) * Pow2[k]
  BY LowBitsStep
<1> DEFINE Good == {k \in Nat : /\ sum[k] \in 0..(Pow2[k] - 1)
                                /\ k <= n => sum[k] = 0 /\ (k = 0 \/ carry[k] = 0)
                                /\ k >= n => sum[k] + carry[k] * Pow2[k] = Exact(k)}
<1>6. 0 \in Good
  BY <1>2, <1>3, <1>4
<1> HIDE DEF la, lb
<1>7. ASSUME NEW k \in Nat, k \in Good PROVE k + 1 \in Good
  <2> DEFINE p == Pow2[k]
  <2>1. /\ p \in Nat \ {0} /\ Pow2[k + 1] = 2 * p
        /\ sum[k] \in 0..(p - 1) /\ carry[k] \in {0, 1} /\ carry[k + 1] \in {0, 1}
        /\ la[k] \in Int /\ lb[k] \in Int /\ la[n] \in Int /\ lb[n] \in Int
    BY <1>2, <1>3, <1>7, Pow2Step, SMTT(30), Z3T(30)
  <2>2. CASE k < n
    <3>1. sum[k + 1] = 0 /\ carry[k + 1] = 0
      BY <1>1, <1>7, <2>2 DEF Chain
    <3>2. 0 \in 0..(Pow2[k + 1] - 1)
      BY <2>1
    <3>3. k + 1 >= n => sum[k + 1] + carry[k + 1] * Pow2[k + 1] = Exact(k + 1)
      <4> SUFFICES ASSUME k + 1 >= n PROVE Exact(k + 1) = 0 /\ 0 + 0 * Pow2[k + 1] = 0
        BY <3>1
      <4>1. k + 1 = n
        BY <2>2
      <4> QED BY <4>1, <2>1
    <3> QED BY <3>1, <3>2, <3>3
  <2>3. CASE k >= n
    <3> DEFINE x == BitAt(a, k)
               y == BitAt(b, k)
    <3>1. PICK bit \in {0, 1} : sum[k + 1] = sum[k] + bit * p /\ bit + 2 * carry[k + 1] = x + y + carry[k]
      BY <1>1, <2>3 DEF Chain
    <3>2. x \in {0, 1} /\ y \in {0, 1}
      BY LowBitsStep
    <3>3. la[k + 1] = la[k] + x * p /\ lb[k + 1] = lb[k] + y * p
      BY <1>5
    <3>4. sum[k] + carry[k] * p = Exact(k)
      BY <1>7, <2>3
    <3> HIDE DEF p, x, y
    <3>5. sum[k + 1] \in 0..(2 * p - 1)
      BY <2>1, <3>1
    <3>6. \A q \in {0, 1}, r \in Nat : q * r \in Int
      OBVIOUS
    <3>7. sum[k + 1] + carry[k + 1] * (2 * p) = Exact(k + 1)
      <4>1. p \in Nat /\ 2 * p \in Nat
        BY <2>1
      <4>2. PICK bp \in Int, xp \in Int, yp \in Int, cp \in Int, np \in Int :
               /\ bp = bit * p /\ xp = x * p /\ yp = y * p /\ cp = carry[k] * p
               /\ np = carry[k + 1] * (2 * p)
        BY <2>1, <3>2, <3>6, <4>1, Zenon
      <4>3. bp + np = xp + yp + cp
        <5>1. bit * p + carry[k + 1] * (2 * p) = x * p + y * p + carry[k] * p
          BY <2>1, <3>1, <3>2
        <5> QED BY <4>2, <5>1, Zenon
      <4>4. c0 \in Int /\ sum[k] \in Int
        BY <2>1
      <4> HIDE DEF c0
      <4>5. PICK s \in Int, A \in Int, B \in Int, An \in Int, Bn \in Int, d \in Int :
               s = sum[k] /\ A = la[k] /\ B = lb[k] /\ An = la[n] /\ Bn = lb[n] /\ d = c0
        BY <2>1, <4>4, Zenon
      <4>6. s + cp = (A - An) + (B - Bn) + d
        BY <3>4, <4>2, <4>5, Zenon
      <4>7. (s + bp) + np = ((A + xp) - An) + ((B + yp) - Bn) + d
        BY <4>3, <4>6
      <4> QED BY <3>1, <3>3, <4>2, <4>5, <4>7, Zenon
    <3>8. k + 1 <= n => FALSE
      BY <2>3
    <3> QED BY <3>5, <3>7, <3>8, <2>1
  <2> QED BY <2>2, <2>3
<1>8. Nat \subseteq Good
  <2> HIDE DEF Good
  <2> QED BY <1>6, <1>7, SetInduction
<1>9. /\ sum[i] \in 0..(Pow2[i] - 1) /\ carry[i] \in {0, 1}
      /\ sum[i] + carry[i] * Pow2[i] = Exact(i)
  BY <1>2, <1>8
<1>10. ADD_APPROX(a, b, cin, i, n) = [sum |-> sum[i], cout |-> carry[i]]
  BY <1>1 DEF Chain
<1> QED
  BY <1>9, <1>10 DEF la, lb, ChainAdds

-----------------------------------------------------------------------------
(* The truncated adder, for every DATA_WIDTH.                              *)

\* The operands fit the adder's width.
AdderOperands ==
    /\ lhs \in 0..(Pow2[Width] - 1) /\ rhs \in 0..(Pow2[Width] - 1)
    /\ carry_in \in {0, 1} /\ approx_bits \in 0..Width

\* The sweep keeps to operands of the adder's width.
THEOREM AdderTyped == AdderSpec => []AdderOperands
<1>1. Width \in Nat \ {0} /\ Pow2[Width] \in Nat \ {0}
  BY WidthAssumption, Pow2Step
<1>2. AdderInit => AdderOperands
  BY <1>1 DEF AdderInit, AdderOperands
<1>3. AdderOperands /\ [AdderNext /\ UNCHANGED unit]_<<unit, adderVars>> => AdderOperands'
  <2> SUFFICES ASSUME AdderOperands, [AdderNext /\ UNCHANGED unit]_<<unit, adderVars>>
               PROVE  AdderOperands'
    OBVIOUS
  <2>1. \A m \in Nat \ {0}, v \in Nat : (v + 1) % m \in 0..(m - 1)
    OBVIOUS
  <2>2. lhs \in Nat /\ rhs \in Nat /\ approx_bits \in Nat /\ Width + 1 \in Nat \ {0}
    BY <1>1 DEF AdderOperands
  <2>3. CASE NextA
    BY <1>1, <2>1, <2>2, <2>3 DEF AdderOperands, NextA
  <2>4. CASE NextB
    BY <1>1, <2>1, <2>2, <2>4 DEF AdderOperands, NextB
  <2>5. CASE NextCin
    BY <2>5 DEF AdderOperands, NextCin
  <2>6. CASE NextN
    <3>1. approx_bits' \in 0..((Width + 1) - 1)
      BY <2>1, <2>2, <2>6 DEF NextN
    <3>2. approx_bits' \in 0..Width
      BY <1>1, <3>1
    <3> QED BY <3>2, <2>6 DEF AdderOperands, NextN
  <2>7. CASE UNCHANGED <<unit, adderVars>>
    BY <2>7 DEF AdderOperands, adderVars
  <2> QED BY <2>3, <2>4, <2>5, <2>6, <2>7 DEF AdderNext
<1> QED
  BY <1>2, <1>3, PTL DEF AdderSpec

\* The two halves of what the adder computes, for operands of its width.
LEMMA AdderValue ==
    ASSUME AdderOperands
    PROVE  \E sum \in 0..(Pow2[Width] - 1), carry \in {0, 1} :
               /\ AdderOut = [sum |-> sum, cout |-> carry]
               /\ Truncate(lhs, approx_bits) \in Nat /\ Truncate(rhs, approx_bits) \in Nat
               /\ sum + carry * Pow2[Width]
                      = Truncate(lhs, approx_bits) + Truncate(rhs, approx_bits) + CarryIn
<1>1. Width \in Nat /\ Pow2[Width] \in Nat \ {0}
  BY WidthAssumption, Pow2Step
<1>2. /\ lhs \in Nat /\ rhs \in Nat /\ lhs < Pow2[Width] /\ rhs < Pow2[Width]
      /\ carry_in \in {0, 1} /\ approx_bits \in Nat /\ approx_bits <= Width
  BY <1>1 DEF AdderOperands
<1>3. PICK sum \in 0..(Pow2[Width] - 1), carry \in {0, 1} :
          /\ ADD_APPROX(lhs, rhs, carry_in, Width, approx_bits) = [sum |-> sum, cout |-> carry]
          /\ sum + carry * Pow2[Width] = (LowBits(lhs, Width) - LowBits(lhs, approx_bits))
                + (LowBits(rhs, Width) - LowBits(rhs, approx_bits))
                + (IF approx_bits = 0 THEN carry_in ELSE 0)
  <2>1. ChainAdds(lhs, rhs, carry_in, Width, approx_bits)
    BY <1>1, <1>2, ChainSum
  <2> QED BY <2>1, Zenon DEF ChainAdds
<1>4. LowBits(lhs, Width) = lhs /\ LowBits(rhs, Width) = rhs
  BY <1>1, <1>2, LowBitsBound
<1>5. ASSUME NEW v \in Nat
      PROVE  v - LowBits(v, approx_bits) = Truncate(v, approx_bits) /\ Truncate(v, approx_bits) \in Nat
  <2>1. PICK q \in Nat, m \in Nat : q = ShiftRight(v, approx_bits) /\ m = Pow2[approx_bits]
    BY <1>2, ShiftRightStep, Pow2Step, Zenon
  <2>2. q * m \in Nat
    BY <2>1
  <2>3. v - (v - q * m) = q * m
    BY <2>2
  <2> QED BY <2>1, <2>2, <2>3, Zenon DEF LowBits, Truncate
<1>6. sum + carry * Pow2[Width] = Truncate(lhs, approx_bits) + Truncate(rhs, approx_bits) + CarryIn
  BY <1>2, <1>3, <1>4, <1>5, Zenon DEF CarryIn
<1> QED
  BY <1>2, <1>3, <1>5, <1>6 DEF AdderOut

\* No carry of the truncated bits reaches the accurate ones of ADD_APPROX and
\* none of the accurate ones is lost, whatever its DATA_WIDTH.
THEOREM AdderExact == AdderSpec => []ExactAboveTruncation
<1>1. ASSUME AdderOperands PROVE ExactAboveTruncation
  <2>1. PICK sum \in 0..(Pow2[Width] - 1), carry \in {0, 1} :
               /\ AdderOut = [sum |-> sum, cout |-> carry]
               /\ sum + carry * Pow2[Width]
                      = Truncate(lhs, approx_bits) + Truncate(rhs, approx_bits) + CarryIn
    BY <1>1, AdderValue
  <2>2. AdderOut.sum = sum /\ AdderOut.cout = carry
    BY <2>1
  <2> QED BY <2>1, <2>2, Zenon DEF ExactAboveTruncation
<1> QED
  BY <1>1, AdderTyped, PTL

\* The chain of cells of ADD_APPROX computes what the Python evaluation takes it
\* to compute, whatever its DATA_WIDTH.
THEOREM AdderMatches == AdderSpec => []MatchesEvaluation
<1>1. ASSUME AdderOperands, carry_in = 0
      PROVE  AdderOut.sum = add_approx(lhs, rhs, Width, approx_bits)
  <2>1. PICK sum \in 0..(Pow2[Width] - 1), carry \in {0, 1} :
               /\ AdderOut = [sum |-> sum, cout |-> carry]
               /\ Truncate(lhs, approx_bits) \in Nat /\ Truncate(rhs, approx_bits) \in Nat
               /\ sum + carry * Pow2[Width]
                      = Truncate(lhs, approx_bits) + Truncate(rhs, approx_bits) + CarryIn
    BY <1>1, AdderValue
  <2>2. PICK m \in Nat \ {0} : m = Pow2[Width]
    BY WidthAssumption, Pow2Step
  <2>3. PICK x \in Nat, y \in Nat : x = Truncate(lhs, approx_bits) /\ y = Truncate(rhs, approx_bits)
    BY <2>1
  <2>4. /\ sum \in 0..(m - 1) /\ sum + carry * m = x + y
    <3>1. CarryIn = 0
      BY <1>1 DEF CarryIn
    <3>2. sum + carry * m = x + y + 0
      BY <2>1, <2>2, <2>3, <3>1, Zenon
    <3> QED BY <2>1, <2>2, <3>2
  <2>5. sum = (x + y) % m
    BY <2>4
  <2>6. /\ lhs \in Nat /\ rhs \in Nat /\ lhs < Pow2[Width] /\ rhs < Pow2[Width]
        /\ approx_bits \in Nat /\ approx_bits <= Width /\ Width \in Nat \ {0}
    BY <1>1, <2>2, WidthAssumption DEF AdderOperands
  <2>7. CASE approx_bits = Width
    <3>1. ShiftRight(lhs, Width) = 0 /\ ShiftRight(rhs, Width) = 0
      BY <2>6, LowBitsBound
    <3>2. x = 0 /\ y = 0
      BY <2>2, <2>3, <2>7, <3>1 DEF Truncate
    <3>3. sum = 0
      BY <2>4, <3>2
    <3> QED BY <2>1, <2>6, <2>7, <3>3 DEF add_approx
  <2>8. CASE approx_bits = 0
    <3>1. x = lhs /\ y = rhs
      BY <2>3, <2>6, <2>8, ShiftRightStep, Pow2Step DEF Truncate
    <3> QED BY <2>1, <2>2, <2>5, <2>6, <2>8, <3>1 DEF add_approx
  <2>9. CASE approx_bits # Width /\ approx_bits # 0
    <3>1. ~(approx_bits >= Width) /\ ~(approx_bits <= 0)
      BY <2>6, <2>9
    <3> QED BY <2>1, <2>2, <2>3, <2>5, <3>1 DEF add_approx
  <2> QED BY <2>7, <2>8, <2>9
<1>2. AdderOperands => MatchesEvaluation
  BY <1>1, Zenon DEF MatchesEvaluation
<1> QED
  BY <1>2, AdderTyped, PTL

=============================================================================
