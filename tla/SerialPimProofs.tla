-------------------------- MODULE SerialPimProofs --------------------------
(***************************************************************************)
(* The gate programs of the bit-serial array, for every width: what a      *)
(* program leads to from any memory, by induction over its loops.          *)
(***************************************************************************)
EXTENDS F6Pipeline, ArithmeticProofs

-----------------------------------------------------------------------------
(* Numbers in the cells of an array.                                       *)

Bit(b) == IF b THEN 1 ELSE 0

\* The number in the first i of the given cells of a memory.
Number(m, cells, i) ==
    LET sum[k \in Nat] ==
            IF k = 0 THEN 0
            ELSE sum[k - 1] + (IF m[cells[k]] THEN Pow2[k - 1] ELSE 0)
    IN  sum[i]

\* A number of one more cell.
LEMMA NumberStep ==
    ASSUME NEW m, NEW cells
    PROVE  /\ Number(m, cells, 0) = 0
           /\ \A i \in Nat : /\ Number(m, cells, i) \in Nat
                             /\ Number(m, cells, i + 1)
                                    = Number(m, cells, i) + Bit(m[cells[i + 1]]) * Pow2[i]
<1> DEFINE Cell(k) == IF m[cells[k + 1]] THEN Pow2[k] ELSE 0
           step == [k \in Nat |-> [v \in Nat |-> v + Cell(k)]]
           sum == CHOOSE f : f = [k \in Nat |-> IF k = 0 THEN 0 ELSE f[k - 1]
                                      + (IF m[cells[k]] THEN Pow2[k - 1] ELSE 0)]
<1>1. \A k \in Nat : Cell(k) \in Nat /\ Cell(k) = Bit(m[cells[k + 1]]) * Pow2[k]
  BY Pow2Step DEF Bit
<1>2. \A k \in Nat : k # 0 => (IF m[cells[k]] THEN Pow2[k - 1] ELSE 0) = Cell(k - 1)
  OBVIOUS
<1> HIDE DEF Cell
<1>3. step \in [Nat -> [Nat -> Nat]]
  BY <1>1
<1>4. PICK f : Iterates(f, Nat, 0, step)
  <2> HIDE DEF step
  <2> QED BY <1>3, RecursiveFunction, Zenon
<1>5. f \in [Nat -> Nat] /\ f[0] = 0 /\ \A k \in Nat : f[k + 1] = f[k] + Cell(k)
  BY <1>4, <1>1, Zenon DEF Iterates
<1>6. ASSUME NEW k \in Nat
      PROVE  f[k] = IF k = 0 THEN 0 ELSE f[k - 1] + (IF m[cells[k]] THEN Pow2[k - 1] ELSE 0)
  <2>1. CASE k # 0
    <3>1. k - 1 \in Nat /\ (k - 1) + 1 = k
      BY <2>1
    <3>2. f[k] = f[k - 1] + Cell(k - 1)
      BY <1>5, <3>1
    <3> QED BY <1>2, <2>1, <3>2, Zenon
  <2> QED BY <1>5, <2>1
<1>7. f = [k \in Nat |-> IF k = 0 THEN 0 ELSE f[k - 1] + (IF m[cells[k]] THEN Pow2[k - 1] ELSE 0)]
  BY <1>5, <1>6
<1>8. sum = [k \in Nat |-> IF k = 0 THEN 0 ELSE sum[k - 1]
                 + (IF m[cells[k]] THEN Pow2[k - 1] ELSE 0)]
  BY <1>7, Zenon
<1>9. \A k : Number(m, cells, k) = sum[k]
  BY DEF Number
<1> HIDE DEF sum
<1>10. sum[0] = 0 /\ \A k \in Nat : sum[k + 1] = sum[k] + Cell(k)
  <2>1. sum[0] = 0
    <3>1. 0 \in Nat
      OBVIOUS
    <3> QED BY <1>8, <3>1, Zenon
  <2>2. ASSUME NEW k \in Nat PROVE sum[k + 1] = sum[k] + Cell(k)
    <3>1. k + 1 \in Nat /\ k + 1 # 0 /\ (k + 1) - 1 = k
      OBVIOUS
    <3>2. sum[k + 1] = sum[(k + 1) - 1] + (IF m[cells[k + 1]] THEN Pow2[(k + 1) - 1] ELSE 0)
      BY <1>8, <3>1, Zenon
    <3> QED BY <1>2, <3>1, <3>2, Zenon
  <2> QED BY <2>1, <2>2, Zenon
<1> DEFINE Good == {k \in Nat : sum[k] \in Nat}
<1>11. Nat \subseteq Good
  <2>1. 0 \in Good /\ \A k \in Nat : k \in Good => k + 1 \in Good
    BY <1>1, <1>10
  <2> HIDE DEF Good
  <2> QED BY <2>1, SetInduction
<1> QED
  BY <1>1, <1>9, <1>10, <1>11

\* Numbers of like bits.
LEMMA NumberLike ==
    ASSUME NEW m, NEW m2, NEW cells, NEW cells2, NEW n \in Nat,
           \A j \in 1..n : m2[cells2[j]] = m[cells[j]]
    PROVE  Number(m2, cells2, n) = Number(m, cells, n)
<1> DEFINE Good == {k \in Nat : k <= n => Number(m2, cells2, k) = Number(m, cells, k)}
<1>1. 0 \in Good
  BY NumberStep
<1>2. ASSUME NEW k \in Nat, k \in Good PROVE k + 1 \in Good
  <2> SUFFICES ASSUME k + 1 <= n PROVE Number(m2, cells2, k + 1) = Number(m, cells, k + 1)
    OBVIOUS
  <2>1. k <= n /\ k + 1 \in 1..n
    OBVIOUS
  <2>2. m2[cells2[k + 1]] = m[cells[k + 1]] /\ Number(m2, cells2, k) = Number(m, cells, k)
    BY <1>2, <2>1
  <2>3. /\ Number(m2, cells2, k + 1) = Number(m2, cells2, k) + Bit(m2[cells2[k + 1]]) * Pow2[k]
        /\ Number(m, cells, k + 1) = Number(m, cells, k) + Bit(m[cells[k + 1]]) * Pow2[k]
    BY NumberStep, ZenonT(30)
  <2> QED BY <2>2, <2>3, Zenon
<1>3. Nat \subseteq Good
  <2> HIDE DEF Good
  <2> QED BY <1>1, <1>2, SetInduction
<1> QED
  BY <1>3

\* The cells hold the same number in both memories.
SameNumber(m, m2, cells, n) == Number(m2, cells, n) = Number(m, cells, n)

\* A number only depends on its cells.
LEMMA NumberFrame ==
    ASSUME NEW m, NEW m2, NEW cells, NEW n \in Nat, \A j \in 1..n : m2[cells[j]] = m[cells[j]]
    PROVE  SameNumber(m, m2, cells, n)
BY NumberLike DEF SameNumber

\* Cells that hold the bits of v hold the number v.
LEMMA NumberOfBits ==
    ASSUME NEW m, NEW cells, NEW v \in Nat, NEW n \in Nat,
           \A j \in 1..n : m[cells[j]] = (BitAt(v, j - 1) = 1)
    PROVE  Number(m, cells, n) = LowBits(v, n)
<1> DEFINE Good == {k \in Nat : k <= n => Number(m, cells, k) = LowBits(v, k)}
<1>1. 0 \in Good
  BY NumberStep, LowBitsStep
<1>2. ASSUME NEW k \in Nat, k \in Good PROVE k + 1 \in Good
  <2> SUFFICES ASSUME k + 1 <= n PROVE Number(m, cells, k + 1) = LowBits(v, k + 1)
    OBVIOUS
  <2>1. k <= n /\ k + 1 \in 1..n /\ (k + 1) - 1 = k
    OBVIOUS
  <2>2. m[cells[k + 1]] = (BitAt(v, k) = 1) /\ Number(m, cells, k) = LowBits(v, k)
    BY <1>2, <2>1
  <2>3. Number(m, cells, k + 1) = Number(m, cells, k) + Bit(m[cells[k + 1]]) * Pow2[k]
    BY NumberStep, Zenon
  <2>4. LowBits(v, k + 1) = LowBits(v, k) + BitAt(v, k) * Pow2[k] /\ BitAt(v, k) \in {0, 1}
    BY LowBitsStep
  <2>5. Bit(BitAt(v, k) = 1) = BitAt(v, k)
    BY <2>4 DEF Bit
  <2> QED BY <2>2, <2>3, <2>4, <2>5, Zenon
<1>3. Nat \subseteq Good
  <2> HIDE DEF Good
  <2> QED BY <1>1, <1>2, SetInduction
<1> QED
  BY <1>3

-----------------------------------------------------------------------------
(* Programs of the bit-serial simulator on a row of M cells.               *)

Memories(M) == [1..M -> BOOLEAN]

\* The gates the simulator accepts.
LegalGates(M) ==
    {g \in [op : {"INIT0", "INIT1", "NOT", "NOR"}, in : Seq(1..M), out : 1..M] : Legal(g)}

\* t holds the memories that program p, of legal gates only, goes through.
Trace(t, p, M) ==
    /\ p \in Seq(LegalGates(M))
    /\ t \in [0..Len(p) -> Memories(M)]
    /\ \A k \in 1..Len(p) : t[k] = perform(t[k - 1], p[k])

\* Program p leads from memory m to memory m2.
Leads(p, m, m2, M) == \E t : Trace(t, p, M) /\ t[0] = m /\ t[Len(p)] = m2

\* The memories a program leads from and to are memories.
LEMMA LeadsType ==
    ASSUME NEW M \in Nat, NEW p, NEW m, NEW m2, Leads(p, m, m2, M)
    PROVE  p \in Seq(LegalGates(M)) /\ m \in Memories(M) /\ m2 \in Memories(M)
<1>1. PICK t : Trace(t, p, M) /\ t[0] = m /\ t[Len(p)] = m2
  BY DEF Leads
<1>2. p \in Seq(LegalGates(M)) /\ t \in [0..Len(p) -> Memories(M)]
  BY <1>1 DEF Trace
<1>3. 0 \in 0..Len(p) /\ Len(p) \in 0..Len(p)
  BY <1>2
<1> QED
  BY <1>1, <1>2, <1>3

\* The empty program.
LEMMA LeadsNowhere ==
    ASSUME NEW M \in Nat, NEW m \in Memories(M)
    PROVE  Leads(<<>>, m, m, M)
<1> DEFINE t == [k \in 0..0 |-> m]
<1>1. <<>> \in Seq(LegalGates(M)) /\ Len(<<>>) = 0
  OBVIOUS
<1>2. t \in [0..0 -> Memories(M)] /\ t[0] = m
  OBVIOUS
<1>3. Trace(t, <<>>, M)
  BY <1>1, <1>2 DEF Trace
<1> HIDE DEF t
<1> QED
  BY <1>1, <1>2, <1>3 DEF Leads

\* One gate.
LEMMA LeadsGate ==
    ASSUME NEW M \in Nat, NEW m \in Memories(M), NEW g \in LegalGates(M), perform(m, g) \in Memories(M)
    PROVE  Leads(<<g>>, m, perform(m, g), M)
<1> DEFINE m2 == perform(m, g)
           t == [k \in 0..1 |-> IF k = 0 THEN m ELSE m2]
<1> HIDE DEF m2
<1>1. <<g>> \in Seq(LegalGates(M)) /\ Len(<<g>>) = 1 /\ <<g>>[1] = g
  OBVIOUS
<1>2. m2 \in Memories(M)
  BY DEF m2
<1>3. t \in [0..1 -> Memories(M)] /\ t[0] = m /\ t[1] = m2
  BY <1>2
<1>4. \A k \in 1..1 : t[k] = perform(t[k - 1], <<g>>[k])
  <2>1. t[1] = perform(t[1 - 1], <<g>>[1])
    BY <1>1, <1>3 DEF m2
  <2> QED BY <2>1
<1> HIDE DEF t
<1>5. Trace(t, <<g>>, M)
  BY <1>1, <1>3, <1>4 DEF Trace
<1> QED
  BY <1>1, <1>3, <1>5 DEF Leads, m2

\* One program after the other.
LEMMA LeadsOn ==
    ASSUME NEW M \in Nat, NEW p, NEW q, NEW m, NEW m1, NEW m2,
           Leads(p, m, m1, M), Leads(q, m1, m2, M)
    PROVE  Leads(p \o q, m, m2, M)
<1>1. PICK t : Trace(t, p, M) /\ t[0] = m /\ t[Len(p)] = m1
  BY DEF Leads
<1>2. PICK u : Trace(u, q, M) /\ u[0] = m1 /\ u[Len(q)] = m2
  BY DEF Leads
<1>3. p \in Seq(LegalGates(M)) /\ q \in Seq(LegalGates(M))
  BY <1>1, <1>2 DEF Trace
<1>4. PICK a \in Nat, b \in Nat : a = Len(p) /\ b = Len(q)
  BY <1>3
<1>5. /\ p \o q \in Seq(LegalGates(M)) /\ Len(p \o q) = a + b
      /\ \A k \in 1..(a + b) : (p \o q)[k] = IF k <= a THEN p[k] ELSE q[k - a]
  BY <1>3, <1>4
<1>6. /\ t \in [0..a -> Memories(M)] /\ \A k \in 1..a : t[k] = perform(t[k - 1], p[k])
      /\ u \in [0..b -> Memories(M)] /\ \A k \in 1..b : u[k] = perform(u[k - 1], q[k])
      /\ t[0] = m /\ t[a] = m1 /\ u[0] = m1 /\ u[b] = m2
  BY <1>1, <1>2, <1>4 DEF Trace
<1> DEFINE w == [k \in 0..(a + b) |-> IF k <= a THEN t[k] ELSE u[k - a]]
<1>7. w \in [0..(a + b) -> Memories(M)]
  BY <1>6
<1>8. w[0] = m /\ w[a + b] = m2
  <2>1. w[0] = t[0]
    OBVIOUS
  <2>2. w[a + b] = IF b = 0 THEN t[a] ELSE u[b]
    OBVIOUS
  <2> QED BY <1>6, <2>1, <2>2, Zenon
<1>9. ASSUME NEW k \in 1..(a + b) PROVE w[k] = perform(w[k - 1], (p \o q)[k])
  <2>1. CASE k <= a
    <3>1. k \in 1..a /\ k - 1 \in 0..(a + b) /\ k - 1 <= a /\ k \in 0..(a + b)
      BY <2>1
    <3>2. w[k] = t[k] /\ w[k - 1] = t[k - 1] /\ (p \o q)[k] = p[k]
      BY <1>5, <2>1, <3>1
    <3> QED BY <1>6, <3>1, <3>2
  <2>2. CASE ~(k <= a)
    <3>1. /\ k - a \in 1..b /\ k - 1 \in 0..(a + b) /\ k \in 0..(a + b)
          /\ (k - 1) - a = (k - a) - 1
      BY <2>2
    <3>2. w[k] = u[k - a] /\ (p \o q)[k] = q[k - a]
      BY <1>5, <2>2, <3>1, Zenon
    <3>3. w[k - 1] = u[(k - a) - 1]
      <4>1. CASE k - 1 = a
        BY <1>6, <3>1, <4>1
      <4>2. CASE k - 1 # a
        BY <2>2, <3>1, <4>2
      <4> QED BY <4>1, <4>2
    <3> QED BY <1>6, <3>1, <3>2, <3>3, SMTT(30), Z3T(30)
  <2> QED BY <2>1, <2>2, Zenon
<1> HIDE DEF w
<1>10. Trace(w, p \o q, M)
  BY <1>5, <1>7, <1>9, SMTT(30), Z3T(30) DEF Trace
<1> QED
  BY <1>5, <1>8, <1>10 DEF Leads

\* The memory with one more cell set.
LEMMA Updated ==
    ASSUME NEW M \in Nat, NEW m \in Memories(M), NEW z \in 1..M, NEW v \in BOOLEAN
    PROVE  [m EXCEPT ![z] = v] \in Memories(M)
BY DEF Memories

\* The initialisations.
LEMMA LeadsINIT ==
    ASSUME NEW M \in Nat, NEW m \in Memories(M), NEW z \in 1..M
    PROVE  /\ Leads(INIT0(z), m, [m EXCEPT ![z] = FALSE], M) /\ Len(INIT0(z)) = 1
           /\ Leads(INIT1(z), m, [m EXCEPT ![z] = TRUE], M) /\ Len(INIT1(z)) = 1
<1> DEFINE g(op) == [op |-> op, in |-> <<>>, out |-> z]
<1>1. ASSUME NEW op \in {"INIT0", "INIT1"} PROVE g(op) \in LegalGates(M)
  BY DEF LegalGates, Legal
<1>2. perform(m, g("INIT0")) = [m EXCEPT ![z] = FALSE]
  BY DEF perform
<1>3. perform(m, g("INIT1")) = [m EXCEPT ![z] = TRUE]
  BY DEF perform
<1>4. INIT0(z) = <<g("INIT0")>> /\ INIT1(z) = <<g("INIT1")>>
  BY DEF INIT0, INIT1, Gate
<1>5. /\ perform(m, g("INIT0")) \in Memories(M) /\ perform(m, g("INIT1")) \in Memories(M)
  BY <1>2, <1>3, Updated, Zenon
<1>6. g("INIT0") \in LegalGates(M) /\ g("INIT1") \in LegalGates(M)
  BY <1>1
<1> HIDE DEF g
<1>7. Len(<<g("INIT0")>>) = 1 /\ Len(<<g("INIT1")>>) = 1
  OBVIOUS
<1> QED
  BY <1>2, <1>3, <1>4, <1>5, <1>6, <1>7, LeadsGate, Zenon

\* NOT and NOR, which set their output first.
LEMMA LeadsNOT ==
    ASSUME NEW M \in Nat, NEW m \in Memories(M), NEW a \in 1..M, NEW z \in 1..M, a # z
    PROVE  Leads(NOT(a, z), m, [m EXCEPT ![z] = ~m[a]], M) /\ Len(NOT(a, z)) = 2
<1> DEFINE g == [op |-> "NOT", in |-> <<a>>, out |-> z]
           m1 == [m EXCEPT ![z] = TRUE]
           m2 == [m EXCEPT ![z] = ~m[a]]
<1>1. g \in LegalGates(M)
  <2>1. <<a>> \in Seq(1..M) /\ DOMAIN <<a>> = {1} /\ <<a>>[1] = a
    OBVIOUS
  <2>2. Legal(g)
    BY <2>1 DEF Legal
  <2> QED BY <2>1, <2>2 DEF LegalGates
<1>2. m1 \in [1..M -> BOOLEAN] /\ m1[z] /\ m1[a] = m[a] /\ m2 \in [1..M -> BOOLEAN]
  BY DEF Memories
<1>3. \A v : [m1 EXCEPT ![z] = v] = [m EXCEPT ![z] = v]
  BY Zenon DEF Memories
<1>4. Leads(INIT1(z), m, m1, M)
  BY LeadsINIT, Zenon
<1> HIDE DEF m1
<1>5. perform(m1, g) = m2
  <2>1. (m1[z] /\ ~\E i \in DOMAIN <<a>> : m1[<<a>>[i]]) = ~m[a]
    BY <1>2
  <2> QED BY <1>3, <2>1 DEF perform
<1> HIDE DEF g, m2
<1>6. Leads(<<g>>, m1, m2, M)
  BY <1>1, <1>2, <1>5, LeadsGate DEF Memories
<1>7. NOT(a, z) = INIT1(z) \o <<g>>
  BY DEF NOT, Gate, g
<1>8. Len(NOT(a, z)) = 2
  BY DEF NOT, INIT1, Gate
<1> QED
  BY <1>4, <1>6, <1>7, <1>8, LeadsOn DEF m2

\* A NOR with its output set first.
LEMMA LeadsNOR ==
    ASSUME NEW M \in Nat, NEW m \in Memories(M), NEW a \in 1..M, NEW b \in 1..M, NEW z \in 1..M,
           a # b, a # z, b # z
    PROVE  Leads(NOR(a, b, z), m, [m EXCEPT ![z] = ~(m[a] \/ m[b])], M) /\ Len(NOR(a, b, z)) = 2
<1> DEFINE g == [op |-> "NOR", in |-> <<a, b>>, out |-> z]
           m1 == [m EXCEPT ![z] = TRUE]
           m2 == [m EXCEPT ![z] = ~(m[a] \/ m[b])]
<1>1. g \in LegalGates(M)
  <2>1. <<a, b>> \in Seq(1..M) /\ DOMAIN <<a, b>> = {1, 2} /\ <<a, b>>[1] = a /\ <<a, b>>[2] = b
    OBVIOUS
  <2>2. Legal(g)
    BY <2>1 DEF Legal
  <2> QED BY <2>1, <2>2 DEF LegalGates
<1>2. m1 \in [1..M -> BOOLEAN] /\ m1[z] /\ m1[a] = m[a] /\ m1[b] = m[b] /\ m2 \in [1..M -> BOOLEAN]
  BY DEF Memories
<1>3. \A v : [m1 EXCEPT ![z] = v] = [m EXCEPT ![z] = v]
  BY Zenon DEF Memories
<1>4. Leads(INIT1(z), m, m1, M)
  BY LeadsINIT, Zenon
<1> HIDE DEF m1
<1>5. perform(m1, g) = m2
  <2>1. (m1[z] /\ ~\E i \in DOMAIN <<a, b>> : m1[<<a, b>>[i]]) = ~(m[a] \/ m[b])
    BY <1>2
  <2> QED BY <1>3, <2>1 DEF perform
<1> HIDE DEF g, m2
<1>6. Leads(<<g>>, m1, m2, M)
  BY <1>1, <1>2, <1>5, LeadsGate, SMTT(30), Z3T(30) DEF Memories
<1>7. NOR(a, b, z) = INIT1(z) \o <<g>>
  BY DEF NOR, Gate, g
<1>8. Len(NOR(a, b, z)) = 2
  BY DEF NOR, INIT1, Gate
<1> QED
  BY <1>4, <1>6, <1>7, <1>8, LeadsOn DEF m2

\* The memory after a NOR.
Nor(m, m2, a, b, z, M) ==
    m2 \in Memories(M) /\ m2[z] = ~(m[a] \/ m[b]) /\ \A k \in 1..M : k # z => m2[k] = m[k]

\* A NOR, by what it does to each cell.
LEMMA LeadsNorStep ==
    ASSUME NEW M \in Nat, NEW m \in Memories(M), NEW a \in 1..M, NEW b \in 1..M, NEW z \in 1..M,
           a # b, a # z, b # z
    PROVE  \E m2 : Leads(NOR(a, b, z), m, m2, M) /\ Nor(m, m2, a, b, z, M)
<1> DEFINE m2 == [m EXCEPT ![z] = ~(m[a] \/ m[b])]
<1>1. Leads(NOR(a, b, z), m, m2, M)
  BY LeadsNOR
<1>2. Nor(m, m2, a, b, z, M)
  BY DEF Memories, Nor
<1> HIDE DEF m2
<1> QED
  BY <1>1, <1>2

\* The cells a full adder may have: the sum may replace an operand and the
\* carry out the carry in.
AdderCells(a, b, c, s, cout, t, M) ==
    /\ a \in 1..M /\ b \in 1..M /\ c \in 1..M /\ s \in 1..M /\ cout \in 1..M
    /\ \A i \in 1..4 : t[i] \in 1..M /\ t[i] # a /\ t[i] # b /\ t[i] # c /\ t[i] # s /\ t[i] # cout
    /\ \A i, j \in 1..4 : i # j => t[i] # t[j]
    /\ a # b /\ s # cout

\* What a full adder does: m2 has the sum bit and the carry of three bits of m,
\* and only these and the cells of t differ from m.
FullAdds(m, m2, a, b, c, s, cout, t, M) ==
    /\ m2 \in Memories(M)
    /\ Bit(m2[s]) + 2 * Bit(m2[cout]) = Bit(m[a]) + Bit(m[b]) + Bit(m[c])
    /\ \A k \in 1..M : k # s /\ k # cout /\ (\A i \in 1..4 : k # t[i]) => m2[k] = m[k]

\* From memory m, program p adds the three in 18 cycles.
Adds(p, m, a, b, c, s, cout, t, M) ==
    /\ \E m2 : Leads(p, m, m2, M) /\ FullAdds(m, m2, a, b, c, s, cout, t, M)
    /\ Len(p) = 18

\* The nine NORs of a full adder.
LEMMA LeadsFullAdder ==
    ASSUME NEW M \in Nat, NEW m \in Memories(M), NEW a, NEW b, NEW c, NEW s, NEW cout, NEW t,
           AdderCells(a, b, c, s, cout, t, M)
    PROVE  Adds(fullAdder(a, b, c, s, cout, t), m, a, b, c, s, cout, t, M)
<1>1. PICK t1 \in 1..M, t2 \in 1..M, t3 \in 1..M, t4 \in 1..M :
          t1 = t[1] /\ t2 = t[2] /\ t3 = t[3] /\ t4 = t[4]
  BY DEF AdderCells
<1>2. /\ a \in 1..M /\ b \in 1..M /\ c \in 1..M /\ s \in 1..M /\ cout \in 1..M
      /\ a # b /\ s # cout
      /\ t1 # a /\ t2 # a /\ t3 # a /\ t4 # a /\ t1 # b /\ t2 # b /\ t3 # b /\ t4 # b
      /\ t1 # c /\ t2 # c /\ t3 # c /\ t4 # c /\ t1 # s /\ t2 # s /\ t3 # s /\ t4 # s
      /\ t1 # cout /\ t2 # cout /\ t3 # cout /\ t4 # cout
      /\ t1 # t2 /\ t1 # t3 /\ t1 # t4 /\ t2 # t3 /\ t2 # t4 /\ t3 # t4
  BY <1>1 DEF AdderCells
<1>3. PICK m1 : Leads(NOR(a, b, t1), m, m1, M) /\ Nor(m, m1, a, b, t1, M)
  BY <1>2, LeadsNorStep
<1>4. PICK m2 : Leads(NOR(a, t1, t2), m1, m2, M) /\ Nor(m1, m2, a, t1, t2, M)
  BY <1>2, <1>3, LeadsNorStep, LeadsType, Zenon
<1>5. PICK m3 : Leads(NOR(b, t1, t3), m2, m3, M) /\ Nor(m2, m3, b, t1, t3, M)
  BY <1>2, <1>4, LeadsNorStep, LeadsType, Zenon
<1>6. PICK m4 : Leads(NOR(t2, t3, t4), m3, m4, M) /\ Nor(m3, m4, t2, t3, t4, M)
  BY <1>2, <1>5, LeadsNorStep, LeadsType, Zenon
<1>7. PICK m5 : Leads(NOR(t4, c, t2), m4, m5, M) /\ Nor(m4, m5, t4, c, t2, M)
  BY <1>2, <1>6, LeadsNorStep, LeadsType
<1>8. PICK m6 : Leads(NOR(t2, t4, t3), m5, m6, M) /\ Nor(m5, m6, t2, t4, t3, M)
  BY <1>2, <1>7, LeadsNorStep, LeadsType, Zenon
<1>9. PICK m7 : Leads(NOR(t2, c, t4), m6, m7, M) /\ Nor(m6, m7, t2, c, t4, M)
  BY <1>2, <1>8, LeadsNorStep, LeadsType
<1>10. PICK m8 : Leads(NOR(t4, t3, s), m7, m8, M) /\ Nor(m7, m8, t4, t3, s, M)
  BY <1>2, <1>9, LeadsNorStep, LeadsType, Zenon
<1>11. PICK m9 : Leads(NOR(t1, t2, cout), m8, m9, M) /\ Nor(m8, m9, t1, t2, cout, M)
  BY <1>2, <1>10, LeadsNorStep, LeadsType, Zenon
<1>12. PICK p : p = fullAdder(a, b, c, s, cout, t)
  OBVIOUS
<1>13. Leads(p, m, m9, M)
  <2>1. p = NOR(a, b, t1) \o NOR(a, t1, t2) \o NOR(b, t1, t3) \o NOR(t2, t3, t4)
            \o NOR(t4, c, t2) \o NOR(t2, t4, t3) \o NOR(t2, c, t4)
            \o NOR(t4, t3, s) \o NOR(t1, t2, cout)
    BY <1>1, <1>12 DEF fullAdder
  <2>2. Leads(NOR(a, b, t1) \o NOR(a, t1, t2), m, m2, M)
    BY <1>3, <1>4, LeadsOn
  <2>3. Leads(NOR(a, b, t1) \o NOR(a, t1, t2) \o NOR(b, t1, t3), m, m3, M)
    BY <1>5, <2>2, LeadsOn
  <2>4. Leads(NOR(a, b, t1) \o NOR(a, t1, t2) \o NOR(b, t1, t3) \o NOR(t2, t3, t4), m, m4, M)
    BY <1>6, <2>3, LeadsOn
  <2>5. Leads(NOR(a, b, t1) \o NOR(a, t1, t2) \o NOR(b, t1, t3) \o NOR(t2, t3, t4)
                  \o NOR(t4, c, t2), m, m5, M)
    BY <1>7, <2>4, LeadsOn
  <2>6. Leads(NOR(a, b, t1) \o NOR(a, t1, t2) \o NOR(b, t1, t3) \o NOR(t2, t3, t4)
                  \o NOR(t4, c, t2) \o NOR(t2, t4, t3), m, m6, M)
    BY <1>8, <2>5, LeadsOn
  <2>7. Leads(NOR(a, b, t1) \o NOR(a, t1, t2) \o NOR(b, t1, t3) \o NOR(t2, t3, t4)
                  \o NOR(t4, c, t2) \o NOR(t2, t4, t3) \o NOR(t2, c, t4), m, m7, M)
    BY <1>9, <2>6, LeadsOn
  <2>8. Leads(NOR(a, b, t1) \o NOR(a, t1, t2) \o NOR(b, t1, t3) \o NOR(t2, t3, t4)
                  \o NOR(t4, c, t2) \o NOR(t2, t4, t3) \o NOR(t2, c, t4)
                  \o NOR(t4, t3, s), m, m8, M)
    BY <1>10, <2>7, LeadsOn
  <2> QED BY <1>11, <2>1, <2>8, LeadsOn, SMTT(30), Z3T(30)
<1>14. Len(p) = 18
  BY <1>12 DEF fullAdder, NOR, INIT1, Gate
<1>15. PICK A \in BOOLEAN, B \in BOOLEAN, C \in BOOLEAN : A = m[a] /\ B = m[b] /\ C = m[c]
  BY <1>2 DEF Memories
<1>16. m1[t1] = ~(A \/ B) /\ m1[a] = A /\ m1[b] = B /\ m1[c] = C
  BY <1>2, <1>3, <1>15 DEF Nor
<1>17. m2[t2] = (~A /\ B) /\ m2[t1] = ~(A \/ B) /\ m2[b] = B /\ m2[c] = C
  BY <1>2, <1>4, <1>16, Zenon DEF Nor
<1>18. m3[t3] = (A /\ ~B) /\ m3[t2] = (~A /\ B) /\ m3[t1] = ~(A \/ B) /\ m3[c] = C
  BY <1>2, <1>5, <1>17, Zenon DEF Nor
<1>19. m4[t4] = (A <=> B) /\ m4[t1] = ~(A \/ B) /\ m4[c] = C
  BY <1>2, <1>6, <1>18, Zenon DEF Nor
<1>20. m5[t2] = ~((A <=> B) \/ C) /\ m5[t4] = (A <=> B) /\ m5[t1] = ~(A \/ B) /\ m5[c] = C
  BY <1>2, <1>7, <1>19, Zenon DEF Nor
<1>21. m6[t3] = (~(A <=> B) /\ C) /\ m6[t2] = ~((A <=> B) \/ C) /\ m6[t1] = ~(A \/ B) /\ m6[c] = C
  BY <1>2, <1>8, <1>20, Zenon DEF Nor
<1>22. m7[t4] = ((A <=> B) /\ ~C) /\ m7[t3] = (~(A <=> B) /\ C) /\ m7[t2] = ~((A <=> B) \/ C)
       /\ m7[t1] = ~(A \/ B)
  BY <1>2, <1>9, <1>21 DEF Nor
<1>23. m8[s] = ~(((A <=> B) /\ ~C) \/ (~(A <=> B) /\ C)) /\ m8[t2] = ~((A <=> B) \/ C)
       /\ m8[t1] = ~(A \/ B)
  BY <1>2, <1>10, <1>22, Zenon DEF Nor
<1>24. m9[cout] = ~(~(A \/ B) \/ ~((A <=> B) \/ C)) /\ m9[s] = m8[s]
  BY <1>2, <1>11, <1>23, Zenon DEF Nor
<1>25. Bit(m9[s]) + 2 * Bit(m9[cout]) = Bit(A) + Bit(B) + Bit(C)
  BY <1>23, <1>24 DEF Bit
<1>26. ASSUME NEW k \in 1..M, k # s, k # cout, \A i \in 1..4 : k # t[i] PROVE m9[k] = m[k]
  <2>1. k # t1 /\ k # t2 /\ k # t3 /\ k # t4
    BY <1>1, <1>26
  <2>2. m4[k] = m[k]
    BY <1>3, <1>4, <1>5, <1>6, <2>1 DEF Nor
  <2>3. m9[k] = m4[k]
    BY <1>7, <1>8, <1>9, <1>10, <1>11, <1>26, <2>1 DEF Nor
  <2> QED BY <2>2, <2>3
<1>27. FullAdds(m, m9, a, b, c, s, cout, t, M)
  <2>1. m9 \in Memories(M)
    BY <1>11 DEF Nor
  <2> QED BY <1>15, <1>25, <1>26, <2>1 DEF FullAdds
<1> QED
  BY <1>12, <1>13, <1>14, <1>27 DEF Adds

-----------------------------------------------------------------------------
(* Routines of n like parts.                                               *)

\* The parts put together one by one.
Joined(f, s, n, S) ==
    /\ f \in [Nat -> Seq(S)] /\ f[0] = <<>>
    /\ \A i \in 0..(n - 1) : f[i + 1] = f[i] \o s[i + 1]

\* Concatenation puts the parts together.
LEMMA Concatenated ==
    ASSUME NEW S, NEW n \in Nat, NEW s \in [1..n -> Seq(S)]
    PROVE  \E f : Joined(f, s, n, S) /\ Concatenation(s) = f[n]
<1> DEFINE V == Seq(S)
           step == [k \in Nat |-> [p \in V |-> IF k + 1 \in 1..n THEN p \o s[k + 1] ELSE p]]
<1>1. step \in [Nat -> [V -> V]] /\ <<>> \in V
  <2>1. \A k \in Nat, p \in V : (IF k + 1 \in 1..n THEN p \o s[k + 1] ELSE p) \in V
    OBVIOUS
  <2> HIDE DEF V
  <2>2. <<>> \in V
    BY DEF V
  <2> QED BY <2>1, <2>2
<1>2. PICK f : Iterates(f, V, <<>>, step)
  <2> HIDE DEF step, V
  <2> QED BY <1>1, RecursiveFunction
<1>3. f \in [Nat -> V] /\ f[0] = <<>> /\ \A k \in Nat : f[k + 1] = step[k][f[k]]
  <2> HIDE DEF step, V
  <2> QED BY <1>2 DEF Iterates
<1>4. ASSUME NEW i \in 0..(n - 1) PROVE f[i + 1] = f[i] \o s[i + 1]
  <2>1. i \in Nat /\ i + 1 \in 1..n /\ f[i] \in V
    BY <1>3
  <2> HIDE DEF V
  <2>2. step[i][f[i]] = f[i] \o s[i + 1]
    BY <2>1, Zenon
  <2> QED BY <1>3, <2>1, <2>2, Zenon
<1>5. Joined(f, s, n, S)
  BY <1>3, <1>4, Zenon DEF Joined
<1> DEFINE upTo == CHOOSE g : g = [i \in 0..n |-> IF i = 0 THEN <<>> ELSE g[i - 1] \o s[i]]
           g == [i \in 0..n |-> f[i]]
<1>6. Concatenation(s) = upTo[n]
  <2>1. Len(s) = n
    OBVIOUS
  <2> QED BY <2>1 DEF Concatenation
<1>7. g = [i \in 0..n |-> IF i = 0 THEN <<>> ELSE g[i - 1] \o s[i]]
  <2>1. ASSUME NEW i \in 0..n PROVE g[i] = IF i = 0 THEN <<>> ELSE g[i - 1] \o s[i]
    <3>1. CASE i = 0
      BY <1>3, <3>1
    <3>2. CASE i # 0
      <4>1. i - 1 \in 0..(n - 1) /\ i - 1 \in 0..n /\ (i - 1) + 1 = i
        BY <3>2
      <4>2. f[(i - 1) + 1] = f[i - 1] \o s[(i - 1) + 1]
        BY <1>4, <4>1, Zenon
      <4> QED BY <3>2, <4>1, <4>2
    <3> QED BY <3>1, <3>2
  <2> QED BY <2>1
<1>8. upTo = [i \in 0..n |-> IF i = 0 THEN <<>> ELSE upTo[i - 1] \o s[i]]
  <2> HIDE DEF g
  <2> QED BY <1>7, Zenon
<1> HIDE DEF upTo
<1> DEFINE Good == {k \in Nat : k <= n => upTo[k] = f[k]}
<1>9. 0 \in Good
  BY <1>3, <1>8
<1>10. ASSUME NEW k \in Nat, k \in Good PROVE k + 1 \in Good
  <2> SUFFICES ASSUME k + 1 <= n PROVE upTo[k + 1] = f[k + 1]
    OBVIOUS
  <2>1. k + 1 \in 0..n /\ k + 1 # 0 /\ (k + 1) - 1 = k /\ k <= n /\ k \in 0..(n - 1)
    OBVIOUS
  <2>2. upTo[k + 1] = upTo[k] \o s[k + 1]
    BY <1>8, <2>1, Zenon
  <2> QED BY <1>4, <1>10, <2>1, <2>2, Zenon
<1>11. Nat \subseteq Good
  <2> HIDE DEF Good
  <2> QED BY <1>9, <1>10, SetInduction, Zenon
<1> QED
  BY <1>5, <1>6, <1>11

\* A sequence of the given length.
Long(p, S, length) == p \in Seq(S) /\ Len(p) = length

\* The length of a routine of n parts of the same length.
LEMMA ConcatenationLength ==
    ASSUME NEW S, NEW n \in Nat, NEW s \in [1..n -> Seq(S)], NEW l \in Nat,
           \A i \in 1..n : Len(s[i]) = l, NEW total, total = l * n
    PROVE  Long(Concatenation(s), S, total)
<1>1. PICK f : Joined(f, s, n, S) /\ Concatenation(s) = f[n]
  BY Concatenated
<1>2. f \in [Nat -> Seq(S)] /\ f[0] = <<>> /\ \A i \in 0..(n - 1) : f[i + 1] = f[i] \o s[i + 1]
  BY <1>1, Zenon DEF Joined
<1> DEFINE Good == {k \in Nat : k <= n => Len(f[k]) = l * k}
<1>3. 0 \in Good
  BY <1>2
<1>4. ASSUME NEW k \in Nat, k \in Good PROVE k + 1 \in Good
  <2> SUFFICES ASSUME k + 1 <= n PROVE Len(f[k + 1]) = l * (k + 1)
    OBVIOUS
  <2>1. k \in 0..(n - 1) /\ k + 1 \in 1..n /\ k <= n
    OBVIOUS
  <2>2. f[k + 1] = f[k] \o s[k + 1] /\ Len(f[k]) = l * k /\ Len(s[k + 1]) = l
    BY <1>2, <1>4, <2>1, Zenon
  <2>3. f[k] \in Seq(S) /\ s[k + 1] \in Seq(S)
    BY <1>2, <2>1, Zenon
  <2>4. Len(f[k + 1]) = l * k + l
    <3>1. Len(f[k] \o s[k + 1]) = Len(f[k]) + Len(s[k + 1])
      BY <2>3
    <3> QED BY <2>2, <3>1, Zenon
  <2> QED BY <2>4
<1>5. Nat \subseteq Good
  <2> HIDE DEF Good
  <2> QED BY <1>3, <1>4, SetInduction
<1> QED
  BY <1>1, <1>2, <1>5 DEF Long

\* If part i leads from every memory in I[i - 1] to one in I[i], the routine
\* leads from every one in I[0] to one in I[n].
LEMMA Loop ==
    ASSUME NEW M \in Nat, NEW n \in Nat, NEW s \in [1..n -> Seq(LegalGates(M))],
           NEW I, NEW m \in Memories(M), m \in I[0],
           \A i \in 1..n : \A m1 \in Memories(M) :
               m1 \in I[i - 1] => \E m2 : m2 \in I[i] /\ Leads(s[i], m1, m2, M)
    PROVE  \E m2 : m2 \in I[n] /\ Leads(Concatenation(s), m, m2, M)
<1>1. PICK f : Joined(f, s, n, LegalGates(M)) /\ Concatenation(s) = f[n]
  BY Concatenated, Zenon
<1>2. f[0] = <<>> /\ \A i \in 0..(n - 1) : f[i + 1] = f[i] \o s[i + 1]
  BY <1>1, Zenon DEF Joined
<1> DEFINE Good == {k \in Nat : k <= n => \E m2 : m2 \in I[k] /\ Leads(f[k], m, m2, M)}
<1>3. 0 \in Good
  BY <1>2, LeadsNowhere
<1>4. ASSUME NEW k \in Nat, k \in Good PROVE k + 1 \in Good
  <2> SUFFICES ASSUME k + 1 <= n PROVE \E m2 : m2 \in I[k + 1] /\ Leads(f[k + 1], m, m2, M)
    OBVIOUS
  <2>1. k \in 0..(n - 1) /\ k + 1 \in 1..n /\ k <= n /\ (k + 1) - 1 = k
    OBVIOUS
  <2>2. PICK m1 : m1 \in I[k] /\ Leads(f[k], m, m1, M)
    BY <1>4, <2>1
  <2>3. m1 \in Memories(M)
    BY <2>2, LeadsType, SMTT(30), Z3T(30)
  <2>4. PICK m2 : m2 \in I[k + 1] /\ Leads(s[k + 1], m1, m2, M)
    BY <2>1, <2>2, <2>3, Zenon
  <2>5. Leads(f[k] \o s[k + 1], m, m2, M)
    BY <2>2, <2>4, LeadsOn
  <2> QED BY <1>2, <2>1, <2>4, <2>5, Zenon
<1>5. Nat \subseteq Good
  <2> HIDE DEF Good
  <2> QED BY <1>3, <1>4, SetInduction, Zenon
<1> QED
  BY <1>1, <1>5

-----------------------------------------------------------------------------
(* Ripple carries: fixedAddition and fixedSubtraction.                     *)

\* An operand of a ripple carry, complemented for a subtraction: one bit of it
\* and the number in its first i cells.
Operand(b, neg) == IF neg THEN 1 - Bit(b) ELSE Bit(b)
Addend(m, y, i, neg) == IF neg THEN (Pow2[i] - 1) - Number(m, y, i) ELSE Number(m, y, i)

\* What a cell of a ripple carry does, T being the cells it works with.
Ripples(m, m2, a, b, c, s, cout, T, neg, M) ==
    /\ m2 \in Memories(M)
    /\ Bit(m2[s]) + 2 * Bit(m2[cout]) = Bit(m[a]) + Operand(m[b], neg) + Bit(m[c])
    /\ \A k \in 1..M : k # s /\ k # cout /\ k \notin T => m2[k] = m[k]

\* The first n cells of inter are free for a routine on the given cells.
Free(inter, n, cells, M) ==
    /\ inter \in Seq(1..M) /\ Len(inter) >= n
    /\ \A i, j \in 1..n : i # j => inter[i] # inter[j]
    /\ \A i \in 1..n : inter[i] \notin cells

\* They are cells.
LEMMA FreeCells ==
    ASSUME NEW M \in Nat, NEW inter, NEW n \in Nat, NEW cells, Free(inter, n, cells, M)
    PROVE  \A i \in 1..n : inter[i] \in 1..M
<1>1. inter \in Seq(1..M) /\ Len(inter) >= n
  BY DEF Free
<1>2. Len(inter) \in Nat /\ \A i \in 1..Len(inter) : inter[i] \in 1..M
  BY <1>1
<1> QED
  BY <1>1, <1>2

\* Program p of 20 gates subtracts a bit.
Subtracts(p, m, a, b, c, s, cout, T, M) ==
    /\ \E m2 : Leads(p, m, m2, M) /\ Ripples(m, m2, a, b, c, s, cout, T, TRUE, M)
    /\ Len(p) = 20

\* A full subtractor.
LEMMA LeadsFullSubtractor ==
    ASSUME NEW M \in Nat, NEW m \in Memories(M), NEW inter,
           NEW a \in 1..M, NEW b \in 1..M, NEW c \in 1..M, NEW s \in 1..M, NEW cout \in 1..M,
           s # cout, Free(inter, 5, {a, b, c, s, cout}, M), NEW T, \A i \in 1..5 : inter[i] \in T
    PROVE  Subtracts(fullSubtractor(a, b, c, s, cout, inter), m, a, b, c, s, cout, T, M)
<1> DEFINE t == After(inter, 1)
<1>1. PICK n \in 1..M, t1 \in 1..M, t2 \in 1..M, t3 \in 1..M, t4 \in 1..M :
          n = inter[1] /\ t1 = inter[2] /\ t2 = inter[3] /\ t3 = inter[4] /\ t4 = inter[5]
  <2>1. \A i \in 1..5 : inter[i] \in 1..M
    BY FreeCells
  <2>2. 1 \in 1..5 /\ 2 \in 1..5 /\ 3 \in 1..5 /\ 4 \in 1..5 /\ 5 \in 1..5
    OBVIOUS
  <2> QED BY <2>1, <2>2, Zenon
<1>2. t[1] = t1 /\ t[2] = t2 /\ t[3] = t3 /\ t[4] = t4
  <2>1. inter \in Seq(1..M) /\ Len(inter) >= 5
    BY DEF Free
  <2>2. t[1] = inter[2] /\ t[2] = inter[3] /\ t[3] = inter[4] /\ t[4] = inter[5]
    BY <2>1 DEF After
  <2> QED BY <1>1, <2>2
<1> HIDE DEF t
<1>3. /\ n # a /\ n # b /\ n # c /\ n # s /\ n # cout
      /\ t1 # a /\ t1 # b /\ t1 # c /\ t1 # s /\ t1 # cout /\ t1 # n
      /\ t2 # a /\ t2 # b /\ t2 # c /\ t2 # s /\ t2 # cout /\ t2 # n
      /\ t3 # a /\ t3 # b /\ t3 # c /\ t3 # s /\ t3 # cout /\ t3 # n
      /\ t4 # a /\ t4 # b /\ t4 # c /\ t4 # s /\ t4 # cout /\ t4 # n
      /\ t1 # t2 /\ t1 # t3 /\ t1 # t4 /\ t2 # t3 /\ t2 # t4 /\ t3 # t4
  <2>1. 1 \in 1..5 /\ 2 \in 1..5 /\ 3 \in 1..5 /\ 4 \in 1..5 /\ 5 \in 1..5
    OBVIOUS
  <2>2. \A i \in 1..5 : inter[i] # a /\ inter[i] # b /\ inter[i] # c /\ inter[i] # s /\ inter[i] # cout
    BY Zenon DEF Free
  <2>3. \A i, j \in 1..5 : i # j => inter[i] # inter[j]
    BY Zenon DEF Free
  <2>4. \A x : (x = n \/ x = t1 \/ x = t2 \/ x = t3 \/ x = t4) =>
            x # a /\ x # b /\ x # c /\ x # s /\ x # cout
    BY <1>1, <2>1, <2>2, Zenon
  <2>5. /\ t1 # n /\ t2 # n /\ t3 # n /\ t4 # n
        /\ t1 # t2 /\ t1 # t3 /\ t1 # t4 /\ t2 # t3 /\ t2 # t4 /\ t3 # t4
    BY <1>1, <2>3
  <2> QED BY <2>4, <2>5
<1>4. AdderCells(a, n, c, s, cout, t, M)
  <2>1. 1..4 = {1, 2, 3, 4}
    OBVIOUS
  <2> QED BY <1>2, <1>3, <2>1 DEF AdderCells
<1> DEFINE m1 == [m EXCEPT ![n] = ~m[b]]
<1>5. Leads(NOT(b, n), m, m1, M) /\ Len(NOT(b, n)) = 2
  BY <1>3, LeadsNOT
<1>6. m1 \in Memories(M) /\ m1[n] = ~m[b] /\ \A k \in 1..M : k # n => m1[k] = m[k]
  BY DEF Memories
<1> HIDE DEF m1
<1>7. /\ Len(fullAdder(a, n, c, s, cout, t)) = 18
      /\ \E m2 : /\ Leads(fullAdder(a, n, c, s, cout, t), m1, m2, M)
                 /\ FullAdds(m1, m2, a, n, c, s, cout, t, M)
  <2>1. Adds(fullAdder(a, n, c, s, cout, t), m1, a, n, c, s, cout, t, M)
    BY <1>4, <1>6, LeadsFullAdder, Zenon
  <2> QED BY <2>1, Zenon DEF Adds
<1>8. PICK m2 : /\ Leads(fullAdder(a, n, c, s, cout, t), m1, m2, M)
                /\ FullAdds(m1, m2, a, n, c, s, cout, t, M)
  BY <1>7
<1>9. fullSubtractor(a, b, c, s, cout, inter) = NOT(b, n) \o fullAdder(a, n, c, s, cout, t)
  BY <1>1 DEF fullSubtractor, t
<1>10. Leads(fullSubtractor(a, b, c, s, cout, inter), m, m2, M)
  BY <1>5, <1>8, <1>9, LeadsOn
<1>11. Len(fullSubtractor(a, b, c, s, cout, inter)) = 20
  <2>1. NOT(b, n) \in Seq(LegalGates(M)) /\ fullAdder(a, n, c, s, cout, t) \in Seq(LegalGates(M))
    BY <1>5, <1>8, LeadsType
  <2>2. Len(NOT(b, n) \o fullAdder(a, n, c, s, cout, t))
            = Len(NOT(b, n)) + Len(fullAdder(a, n, c, s, cout, t))
    BY <2>1
  <2> QED BY <1>5, <1>7, <1>9, <2>2
<1>12. Ripples(m, m2, a, b, c, s, cout, T, TRUE, M)
  <2>1. m1[a] = m[a] /\ m1[c] = m[c] /\ Bit(m1[n]) = 1 - Bit(m[b])
    <3>1. Bit(~m[b]) = 1 - Bit(m[b])
      <4>1. CASE m[b]
        BY <4>1 DEF Bit
      <4>2. CASE ~m[b]
        BY <4>2 DEF Bit
      <4> QED BY <4>1, <4>2
    <3> QED BY <1>3, <1>6, <3>1
  <2>2. Bit(m2[s]) + 2 * Bit(m2[cout]) = Bit(m1[a]) + Bit(m1[n]) + Bit(m1[c])
    BY <1>8 DEF FullAdds
  <2>3. Bit(m2[s]) + 2 * Bit(m2[cout]) = Bit(m[a]) + Operand(m[b], TRUE) + Bit(m[c])
    BY <2>1, <2>2, Zenon DEF Operand
  <2>4. ASSUME NEW k \in 1..M, k # s, k # cout, k \notin T PROVE m2[k] = m[k]
    <3>1. k # n /\ k # t1 /\ k # t2 /\ k # t3 /\ k # t4
      <4>1. \A i \in 1..5 : k # inter[i]
        BY <2>4
      <4> QED BY <1>1, <4>1
    <3>2. \A j \in 1..4 : k # t[j]
      <4>1. 1..4 = {1, 2, 3, 4}
        OBVIOUS
      <4> QED BY <1>2, <3>1, <4>1
    <3> QED BY <1>6, <1>8, <2>4, <3>1, <3>2 DEF FullAdds
  <2>5. m2 \in Memories(M)
    BY <1>8 DEF FullAdds
  <2> QED BY <2>3, <2>4, <2>5, Zenon DEF Ripples
<1> QED
  BY <1>10, <1>11, <1>12, Zenon DEF Subtracts

\* The cells of a ripple carry over N bits: the carry into bit i is in C[i - 1],
\* the carry out of it in C[i], T are the cells of the adders.  A sum may
\* replace an operand, but nothing that a later bit still reads.
RippleCells(x, y, z, C, T, N, M) ==
    /\ \A i \in 1..N : x[i] \in (1..M) \ T /\ y[i] \in (1..M) \ T /\ z[i] \in (1..M) \ T
    /\ \A i \in 0..N : C[i] \in (1..M) \ T
    /\ \A i, j \in 1..N : i < j => z[i] # z[j] /\ z[i] # x[j] /\ z[i] # y[j]
    /\ \A i, j \in 1..N : i < j => C[i] # x[j] /\ C[i] # y[j]
    /\ \A i, j \in 1..N : z[i] # C[j]

\* Memory m1 after i bits, from memory m.
Rippled(m, m1, x, y, z, C, T, neg, i, M) ==
    /\ m1 \in Memories(M)
    /\ Number(m1, z, i) + Bit(m1[C[i]]) * Pow2[i]
           = Number(m, x, i) + Addend(m, y, i, neg) + Bit(m[C[0]])
    /\ \A k \in 1..M : k \notin T /\ (\A j \in 1..i : k # z[j] /\ k # C[j]) => m1[k] = m[k]

\* Bits are 0 or 1.
LEMMA BitType ==
    ASSUME NEW b
    PROVE  Bit(b) \in {0, 1} /\ Bit(b) \in Int
BY DEF Bit

\* Numbers and powers of two are integers.
LEMMA NumberInt ==
    ASSUME NEW m, NEW cells, NEW i \in Nat
    PROVE  Number(m, cells, i) \in Int /\ Pow2[i] \in Int
<1>1. Number(m, cells, i) \in Nat
  BY NumberStep, Zenon
<1>2. Pow2[i] \in Nat
  BY Pow2Step
<1>3. \A v \in Nat : v \in Int
  OBVIOUS
<1> QED
  BY <1>1, <1>2, <1>3, Zenon

\* The operand has one bit more.
LEMMA AddendStep ==
    ASSUME NEW m, NEW y, NEW neg \in BOOLEAN, NEW i \in Nat
    PROVE  /\ Addend(m, y, 0, neg) = 0
           /\ Addend(m, y, i, neg) \in Int /\ Operand(m[y[i + 1]], neg) \in Int
           /\ Addend(m, y, i + 1, neg)
                  = Addend(m, y, i, neg) + Operand(m[y[i + 1]], neg) * Pow2[i]
<1>1. PICK u \in Int, v \in Int, b \in Int, p \in Int, q \in Int :
          /\ u = Number(m, y, i) /\ v = Number(m, y, i + 1) /\ b = Bit(m[y[i + 1]])
          /\ p = Pow2[i] /\ q = Pow2[i + 1]
  <2>1. \A k \in Nat : Number(m, y, k) \in Int /\ Pow2[k] \in Int
    BY NumberInt, Zenon
  <2>2. i + 1 \in Nat /\ Bit(m[y[i + 1]]) \in Int
    BY BitType
  <2> QED BY <2>1, <2>2, Zenon
<1>2. v = u + b * p /\ q = 2 * p
  <2>1. Number(m, y, i + 1) = Number(m, y, i) + Bit(m[y[i + 1]]) * Pow2[i]
    BY NumberStep, Zenon
  <2>2. Pow2[i + 1] = 2 * Pow2[i]
    BY Pow2Step
  <2> QED BY <1>1, <2>1, <2>2, Zenon
<1>3. (q - 1) - v = ((p - 1) - u) + (1 - b) * p
  <2>1. (1 - b) * p = p - b * p
    OBVIOUS
  <2> QED BY <1>2, <2>1
<1>4. Number(m, y, 0) = 0 /\ Pow2[0] = 1
  BY NumberStep, Pow2Step
<1>5. CASE neg
  BY <1>1, <1>3, <1>4, <1>5 DEF Addend, Operand
<1>6. CASE ~neg
  BY <1>1, <1>2, <1>4, <1>6 DEF Addend, Operand
<1> QED
  BY <1>5, <1>6

\* Nothing done yet.
LEMMA RippledNothing ==
    ASSUME NEW M \in Nat, NEW m \in Memories(M), NEW x, NEW y, NEW z, NEW C, NEW T,
           NEW neg \in BOOLEAN
    PROVE  Rippled(m, m, x, y, z, C, T, neg, 0, M)
<1>1. Number(m, z, 0) = 0 /\ Number(m, x, 0) = 0 /\ Addend(m, y, 0, neg) = 0 /\ Pow2[0] = 1
  BY NumberStep, AddendStep, Pow2Step
<1>2. Bit(m[C[0]]) \in Int
  BY BitType
<1> QED
  BY <1>1, <1>2 DEF Rippled

\* One bit more.
LEMMA RippledOn ==
    ASSUME NEW M \in Nat, NEW N \in Nat, NEW m \in Memories(M), NEW m1, NEW m2,
           NEW x, NEW y, NEW z, NEW C, NEW T, NEW neg \in BOOLEAN, NEW i \in 0..(N - 1),
           RippleCells(x, y, z, C, T, N, M), Rippled(m, m1, x, y, z, C, T, neg, i, M),
           Ripples(m1, m2, x[i + 1], y[i + 1], C[i], z[i + 1], C[i + 1], T, neg, M)
    PROVE  Rippled(m, m2, x, y, z, C, T, neg, i + 1, M)
<1>1. i \in Nat /\ i + 1 \in 1..N /\ i \in 0..N /\ i + 1 \in 0..N
  OBVIOUS
<1>2. m1[x[i + 1]] = m[x[i + 1]] /\ m1[y[i + 1]] = m[y[i + 1]]
  <2>1. x[i + 1] \in (1..M) \ T /\ y[i + 1] \in (1..M) \ T
    BY <1>1 DEF RippleCells
  <2>2. ASSUME NEW j \in 1..i
        PROVE  /\ x[i + 1] # z[j] /\ x[i + 1] # C[j]
               /\ y[i + 1] # z[j] /\ y[i + 1] # C[j]
    <3>1. j \in 1..N /\ j < i + 1
      BY <1>1, SMTT(30), Z3T(30)
    <3> QED BY <1>1, <3>1 DEF RippleCells
  <2> QED BY <2>1, <2>2 DEF Rippled
<1>3. Number(m2, z, i) = Number(m1, z, i)
  <2>1. ASSUME NEW j \in 1..i PROVE m2[z[j]] = m1[z[j]]
    <3>1. j \in 1..N /\ j < i + 1
      BY <1>1
    <3>2. z[j] \in (1..M) \ T /\ z[j] # z[i + 1] /\ z[j] # C[i + 1]
      BY <1>1, <3>1 DEF RippleCells
    <3> QED BY <3>2 DEF Ripples
  <2>2. SameNumber(m1, m2, z, i)
    BY <1>1, <2>1, NumberFrame, Zenon
  <2> QED BY <2>2 DEF SameNumber
<1>4. ASSUME NEW k \in 1..M, k \notin T, \A j \in 1..(i + 1) : k # z[j] /\ k # C[j]
      PROVE  m2[k] = m[k]
  <2>1. k # z[i + 1] /\ k # C[i + 1] /\ \A j \in 1..i : k # z[j] /\ k # C[j]
    BY <1>4
  <2>2. m2[k] = m1[k]
    BY <1>4, <2>1 DEF Ripples
  <2>3. m1[k] = m[k]
    BY <1>4, <2>1 DEF Rippled
  <2> QED BY <2>2, <2>3
<1>5. PICK nz \in Int, cz \in Int, p \in Int, nx \in Int, ny \in Int, c0 \in Int :
          /\ nz = Number(m1, z, i) /\ cz = Bit(m1[C[i]]) /\ p = Pow2[i]
          /\ nx = Number(m, x, i) /\ ny = Addend(m, y, i, neg) /\ c0 = Bit(m[C[0]])
  <2>1. Number(m1, z, i) \in Int /\ Number(m, x, i) \in Int /\ Pow2[i] \in Int
    BY <1>1, NumberInt, Zenon
  <2>2. Bit(m1[C[i]]) \in Int /\ Bit(m[C[0]]) \in Int
    BY BitType
  <2>3. Addend(m, y, i, neg) \in Int
    BY <1>1, AddendStep, Zenon
  <2> QED BY <2>1, <2>2, <2>3, Zenon
<1>6. PICK bz \in Int, bc \in Int, bx \in Int, by \in Int :
          /\ bz = Bit(m2[z[i + 1]]) /\ bc = Bit(m2[C[i + 1]])
          /\ bx = Bit(m[x[i + 1]]) /\ by = Operand(m[y[i + 1]], neg)
  BY <1>1, AddendStep, BitType, Zenon
<1>7. nz + cz * p = nx + ny + c0
  BY <1>5 DEF Rippled
<1>8. bz + 2 * bc = bx + by + cz
  BY <1>2, <1>5, <1>6, Zenon DEF Ripples
<1>9. (nz + bz * p) + bc * (2 * p) = (nx + bx * p) + (ny + by * p) + c0
  <2>1. (bz + 2 * bc) * p = (bx + by + cz) * p
    BY <1>8
  <2>2. (bz + 2 * bc) * p = bz * p + bc * (2 * p)
    OBVIOUS
  <2>3. (bx + by + cz) * p = bx * p + by * p + cz * p
    OBVIOUS
  <2>4. PICK u \in Int, v \in Int, w \in Int, r \in Int, s \in Int :
            u = bz * p /\ v = bc * (2 * p) /\ w = bx * p /\ r = by * p /\ s = cz * p
    OBVIOUS
  <2>5. u + v = w + r + s /\ nz + s = nx + ny + c0
    BY <1>7, <2>1, <2>2, <2>3, <2>4, Zenon
  <2>6. (nz + u) + v = (nx + w) + (ny + r) + c0
    BY <2>5
  <2> QED BY <2>4, <2>6, Zenon
<1>10. /\ Number(m2, z, i + 1) = nz + bz * p /\ Number(m, x, i + 1) = nx + bx * p
       /\ Addend(m, y, i + 1, neg) = ny + by * p /\ Pow2[i + 1] = 2 * p
  <2>1. /\ Number(m2, z, i + 1) = Number(m2, z, i) + Bit(m2[z[i + 1]]) * Pow2[i]
        /\ Number(m, x, i + 1) = Number(m, x, i) + Bit(m[x[i + 1]]) * Pow2[i]
    BY <1>1, NumberStep, Zenon
  <2>2. Addend(m, y, i + 1, neg) = Addend(m, y, i, neg) + Operand(m[y[i + 1]], neg) * Pow2[i]
    BY <1>1, AddendStep, ZenonT(30)
  <2>3. Pow2[i + 1] = 2 * Pow2[i]
    BY <1>1, Pow2Step
  <2> QED BY <1>3, <1>5, <1>6, <2>1, <2>2, <2>3, Zenon
<1>11. m2 \in Memories(M)
  BY DEF Ripples
<1> QED
  BY <1>4, <1>5, <1>6, <1>9, <1>10, <1>11, Zenon DEF Rippled

\* A routine whose part i adds bit i.
LEMMA Ripple ==
    ASSUME NEW M \in Nat, NEW N \in Nat, NEW m \in Memories(M), NEW s \in [1..N -> Seq(LegalGates(M))],
           NEW x, NEW y, NEW z, NEW C, NEW T, NEW neg \in BOOLEAN,
           RippleCells(x, y, z, C, T, N, M),
           \A i \in 1..N : \A m1 \in Memories(M) :
               \E m2 : /\ Leads(s[i], m1, m2, M)
                       /\ Ripples(m1, m2, x[i], y[i], C[i - 1], z[i], C[i], T, neg, M)
    PROVE  \E m2 : /\ Leads(Concatenation(s), m, m2, M)
                   /\ Rippled(m, m2, x, y, z, C, T, neg, N, M)
<1> DEFINE I == [i \in 0..N |-> {m1 \in Memories(M) : Rippled(m, m1, x, y, z, C, T, neg, i, M)}]
<1>1. m \in I[0]
  BY RippledNothing
<1>2. ASSUME NEW i \in 1..N, NEW m1 \in Memories(M), m1 \in I[i - 1]
      PROVE  \E m2 : m2 \in I[i] /\ Leads(s[i], m1, m2, M)
  <2>1. i - 1 \in 0..(N - 1) /\ (i - 1) + 1 = i
    OBVIOUS
  <2>2. Rippled(m, m1, x, y, z, C, T, neg, i - 1, M)
    BY <1>2
  <2>3. PICK m2 : /\ Leads(s[i], m1, m2, M)
                  /\ Ripples(m1, m2, x[i], y[i], C[i - 1], z[i], C[i], T, neg, M)
    BY <1>2
  <2>4. PICK j \in 0..(N - 1) : j = i - 1 /\ j + 1 = i
    BY <2>1
  <2>5. Ripples(m1, m2, x[j + 1], y[j + 1], C[j], z[j + 1], C[j + 1], T, neg, M)
    BY <2>3, <2>4
  <2>6. Rippled(m, m2, x, y, z, C, T, neg, j + 1, M)
    BY <2>2, <2>4, <2>5, RippledOn, Zenon
  <2>7. m2 \in Memories(M) /\ i \in 0..N
    BY <2>3, LeadsType
  <2> QED BY <2>3, <2>4, <2>6, <2>7
<1>3. \A m2 : m2 \in I[N] => Rippled(m, m2, x, y, z, C, T, neg, N, M)
  OBVIOUS
<1> HIDE DEF I
<1>4. \E m2 : m2 \in I[N] /\ Leads(Concatenation(s), m, m2, M)
  BY <1>1, <1>2, Loop, Zenon
<1> QED
  BY <1>3, <1>4

-----------------------------------------------------------------------------
(* fixedAddition and fixedSubtraction, neg for the latter.                 *)

\* The cells taken from inter: the carry and those of an adder.
Taken(inter, w) == {inter[i] : i \in 1..w}

\* The cells a sum needs: a sum may replace an operand.
SumCells(x, y, z, inter, cin, cout, w, N, M) ==
    /\ inter \in Seq(1..M) /\ Len(inter) >= w
    /\ \A i, j \in 1..w : i # j => inter[i] # inter[j]
    /\ \A i \in 1..N : /\ x[i] \in (1..M) \ Taken(inter, w)
                       /\ y[i] \in (1..M) \ Taken(inter, w)
                       /\ z[i] \in (1..M) \ Taken(inter, w)
    /\ \A i, j \in 1..N : i < j => z[i] # z[j] /\ z[i] # x[j] /\ z[i] # y[j]
    /\ \A i \in 1..N : z[i] # cout
    /\ cin \in {None, ConstantOne} \union ((1..M) \ Taken(inter, w))
    /\ cout \in {None} \union ((1..M) \ Taken(inter, w))

\* Where the carries are.
Carries(inter, cin, cout, N) ==
    [i \in 0..N |-> IF i = 0 THEN (IF cin > 0 THEN cin ELSE inter[1])
                    ELSE IF i = N /\ cout # None THEN cout ELSE inter[1]]

CarryValue(m, cin) == IF cin = None THEN 0 ELSE IF cin = ConstantOne THEN 1 ELSE Bit(m[cin])

\* What a sum does: m2 has the sum of two numbers of m, in z and the carry out,
\* and only these and the cells taken differ from m.
SumOf(m, m2, x, y, z, inter, cin, cout, neg, w, N, M) ==
    /\ m2 \in Memories(M)
    /\ Number(m2, z, N) + Bit(m2[Carries(inter, cin, cout, N)[N]]) * Pow2[N]
           = Number(m, x, N) + Addend(m, y, N, neg) + CarryValue(m, cin)
    /\ \A k \in 1..M : k \notin Taken(inter, w) /\ k # cout /\ (\A j \in 1..N : k # z[j])
                           => m2[k] = m[k]

\* The cells of the adders.
Work(inter, w) == {inter[i] : i \in 2..w}

\* The cells taken are cells; the carry is none of the adders'.
LEMMA TakenCells ==
    ASSUME NEW M \in Nat, NEW N \in Nat, NEW w \in Nat \ {0}, NEW x, NEW y, NEW z, NEW inter,
           NEW cin, NEW cout, SumCells(x, y, z, inter, cin, cout, w, N, M)
    PROVE  /\ inter[1] \in (1..M) \ Work(inter, w)
           /\ Taken(inter, w) = {inter[1]} \union Work(inter, w)
           /\ \A i \in 1..w : inter[i] \in 1..M
<1>1. inter \in Seq(1..M) /\ Len(inter) >= w /\ \A i, j \in 1..w : i # j => inter[i] # inter[j]
  BY DEF SumCells
<1>2. PICK l \in Nat : l = Len(inter) /\ l >= w
  BY <1>1
<1>3. ASSUME NEW i \in 1..w PROVE inter[i] \in 1..M
  <2>1. i \in 1..Len(inter)
    BY <1>2
  <2> QED BY <1>1, <2>1
<1>4. 1 \in 1..w /\ \A i \in 2..w : i \in 1..w /\ i # 1
  OBVIOUS
<1>5. \A i \in 1..w : i = 1 \/ i \in 2..w
  OBVIOUS
<1>6. inter[1] \notin Work(inter, w)
  BY <1>1, <1>4 DEF Work
<1>7. Taken(inter, w) = {inter[1]} \union Work(inter, w)
  BY <1>4, <1>5 DEF Taken, Work
<1> QED
  BY <1>3, <1>4, <1>6, <1>7

\* They are the cells of a ripple carry.
LEMMA SumRipples ==
    ASSUME NEW M \in Nat, NEW N \in Nat, NEW w \in Nat \ {0}, NEW x, NEW y, NEW z, NEW inter,
           NEW cin, NEW cout, SumCells(x, y, z, inter, cin, cout, w, N, M)
    PROVE  RippleCells(x, y, z, Carries(inter, cin, cout, N), Work(inter, w), N, M)
<1> DEFINE C == Carries(inter, cin, cout, N)
           T == Work(inter, w)
<1>1. inter[1] \in (1..M) \ T /\ Taken(inter, w) = {inter[1]} \union T
  BY TakenCells
<1>2. \A i \in 1..N : /\ x[i] \in (1..M) \ T /\ x[i] # inter[1]
                      /\ y[i] \in (1..M) \ T /\ y[i] # inter[1]
                      /\ z[i] \in (1..M) \ T /\ z[i] # inter[1] /\ z[i] # cout
  BY <1>1, SMTT(30), Z3T(30) DEF SumCells
<1>3. /\ cin \in {None, ConstantOne} \union ((1..M) \ T)
      /\ cout \in {None} \union ((1..M) \ T)
  BY <1>1 DEF SumCells
<1> HIDE DEF T
<1>4. \A i \in 0..N : C[i] \in (1..M) \ T
  BY <1>1, <1>3 DEF Carries, None, ConstantOne
<1>5. \A i \in 1..N : (C[i] = inter[1] \/ C[i] = cout) /\ (i < N => C[i] = inter[1])
  BY DEF Carries
<1> HIDE DEF C
<1>6. ASSUME NEW i \in 1..N, NEW j \in 1..N PROVE z[i] # C[j]
  BY <1>2, <1>5
<1>7. ASSUME NEW i \in 1..N, NEW j \in 1..N, i < j PROVE C[i] # x[j] /\ C[i] # y[j]
  <2>1. C[i] = inter[1]
    BY <1>5, <1>7
  <2> QED BY <1>2, <2>1
<1>8. \A i, j \in 1..N : i < j => z[i] # z[j] /\ z[i] # x[j] /\ z[i] # y[j]
  BY Zenon DEF SumCells
<1>9. RippleCells(x, y, z, C, T, N, M)
  BY <1>2, <1>4, <1>6, <1>7, <1>8 DEF RippleCells
<1> QED
  BY <1>9 DEF C, T

\* The carry set first, if a constant.
CarrySet(inter, cin) ==
    CASE cin = None -> INIT0(inter[1])
      [] cin = ConstantOne -> INIT1(inter[1])
      [] OTHER -> <<>>

\* It changes no other cell.
CarryIsSet(m, m1, inter, cin, N, M) ==
    /\ m1 \in Memories(M)
    /\ Bit(m1[Carries(inter, cin, None, N)[0]]) = CarryValue(m, cin)
    /\ \A k \in 1..M : k # inter[1] => m1[k] = m[k]

\* Setting it takes one gate.
LEMMA LeadsCarrySet ==
    ASSUME NEW M \in Nat, NEW N \in Nat, NEW m \in Memories(M), NEW inter, inter[1] \in 1..M,
           NEW cin \in {None, ConstantOne} \union (1..M)
    PROVE  /\ \E m1 : /\ Leads(CarrySet(inter, cin), m, m1, M)
                      /\ CarryIsSet(m, m1, inter, cin, N, M)
           /\ Len(CarrySet(inter, cin)) = IF cin > 0 THEN 0 ELSE 1
<1>1. PICK c \in 1..M : c = inter[1]
  OBVIOUS
<1>2. Carries(inter, cin, None, N)[0] = IF cin > 0 THEN cin ELSE c
  BY <1>1 DEF Carries
<1>3. /\ Leads(INIT0(c), m, [m EXCEPT ![c] = FALSE], M) /\ Len(INIT0(c)) = 1
      /\ Leads(INIT1(c), m, [m EXCEPT ![c] = TRUE], M) /\ Len(INIT1(c)) = 1
  BY LeadsINIT, Zenon
<1>4. ASSUME NEW v \in BOOLEAN
      PROVE  LET m1 == [m EXCEPT ![c] = v]
             IN  m1 \in Memories(M) /\ m1[c] = v /\ \A k \in 1..M : k # c => m1[k] = m[k]
  BY DEF Memories
<1>5. CASE cin = None
  <2> DEFINE m1 == [m EXCEPT ![c] = FALSE]
  <2>1. m1 \in Memories(M) /\ m1[c] = FALSE /\ \A k \in 1..M : k # c => m1[k] = m[k]
    BY <1>4, Zenon
  <2> HIDE DEF m1
  <2>2. CarrySet(inter, cin) = INIT0(c) /\ ~(cin > 0)
    BY <1>1, <1>5 DEF CarrySet, None, ConstantOne
  <2>3. CarryIsSet(m, m1, inter, cin, N, M)
    BY <1>1, <1>2, <1>5, <2>1, <2>2 DEF CarryIsSet, CarryValue, Bit
  <2> QED BY <1>3, <2>2, <2>3 DEF m1
<1>6. CASE cin = ConstantOne
  <2> DEFINE m1 == [m EXCEPT ![c] = TRUE]
  <2>1. m1 \in Memories(M) /\ m1[c] = TRUE /\ \A k \in 1..M : k # c => m1[k] = m[k]
    BY <1>4, Zenon
  <2> HIDE DEF m1
  <2>2. CarrySet(inter, cin) = INIT1(c) /\ ~(cin > 0) /\ cin # None
    BY <1>1, <1>6 DEF CarrySet, None, ConstantOne
  <2>3. CarryIsSet(m, m1, inter, cin, N, M)
    BY <1>1, <1>2, <1>6, <2>1, <2>2 DEF CarryIsSet, CarryValue, Bit
  <2> QED BY <1>3, <2>2, <2>3 DEF m1
<1>7. CASE cin \in 1..M
  <2>1. cin > 0 /\ cin # None /\ cin # ConstantOne
    BY <1>7 DEF None, ConstantOne
  <2>2. CarrySet(inter, cin) = <<>> /\ Len(<<>>) = 0
    BY <2>1 DEF CarrySet
  <2>3. CarryIsSet(m, m, inter, cin, N, M)
    BY <1>2, <2>1 DEF CarryIsSet, CarryValue
  <2> QED BY <2>1, <2>2, <2>3, LeadsNowhere
<1> QED
  BY <1>5, <1>6, <1>7

\* The carry set and then rippled through the bits is a sum.
LEMMA SummedUp ==
    ASSUME NEW M \in Nat, NEW N \in Nat \ {0}, NEW w \in Nat \ {0}, NEW m \in Memories(M),
           NEW m1, NEW m2, NEW x, NEW y, NEW z, NEW inter, NEW cin, NEW cout, NEW neg \in BOOLEAN,
           SumCells(x, y, z, inter, cin, cout, w, N, M),
           CarryIsSet(m, m1, inter, cin, N, M),
           Rippled(m1, m2, x, y, z, Carries(inter, cin, cout, N), Work(inter, w), neg, N, M)
    PROVE  SumOf(m, m2, x, y, z, inter, cin, cout, neg, w, N, M)
<1> DEFINE C == Carries(inter, cin, cout, N)
           T == Work(inter, w)
<1>1. inter[1] \in (1..M) \ T /\ Taken(inter, w) = {inter[1]} \union T
  BY TakenCells
<1>2. C[0] = Carries(inter, cin, None, N)[0]
  BY DEF Carries
<1>3. \A i \in 1..N : C[i] = inter[1] \/ C[i] = cout
  BY DEF Carries
<1> HIDE DEF C
<1>4. ASSUME NEW j \in 1..N PROVE m1[x[j]] = m[x[j]] /\ m1[y[j]] = m[y[j]]
  <2>1. x[j] \in 1..M /\ x[j] # inter[1] /\ y[j] \in 1..M /\ y[j] # inter[1]
    BY <1>1, SMTT(30), Z3T(30) DEF SumCells
  <2> QED BY <2>1 DEF CarryIsSet
<1>5. Number(m1, x, N) = Number(m, x, N) /\ Number(m1, y, N) = Number(m, y, N)
  <2>1. N \in Nat
    OBVIOUS
  <2>2. /\ \A j \in 1..N : m1[x[j]] = m[x[j]]
        /\ \A j \in 1..N : m1[y[j]] = m[y[j]]
    BY <1>4, Zenon
  <2>3. SameNumber(m, m1, x, N) /\ SameNumber(m, m1, y, N)
    BY <2>1, <2>2, NumberFrame, Zenon
  <2> QED BY <2>3, Zenon DEF SameNumber
<1>6. Addend(m1, y, N, neg) = Addend(m, y, N, neg)
  BY <1>5, Zenon DEF Addend
<1>7. Bit(m1[C[0]]) = CarryValue(m, cin)
  BY <1>2 DEF CarryIsSet
<1>8. Number(m2, z, N) + Bit(m2[C[N]]) * Pow2[N] = Number(m, x, N) + Addend(m, y, N, neg) + CarryValue(m, cin)
  <2>1. Number(m2, z, N) + Bit(m2[C[N]]) * Pow2[N]
            = Number(m1, x, N) + Addend(m1, y, N, neg) + Bit(m1[C[0]])
    BY Zenon DEF Rippled, C
  <2> QED BY <1>5, <1>6, <1>7, <2>1, Zenon
<1>9. ASSUME NEW k \in 1..M, k \notin Taken(inter, w), k # cout, \A j \in 1..N : k # z[j]
      PROVE  m2[k] = m[k]
  <2>1. k # inter[1] /\ k \notin T
    BY <1>1, <1>9
  <2>2. \A j \in 1..N : k # z[j] /\ k # C[j]
    BY <1>3, <1>9, <2>1
  <2>3. m2[k] = m1[k]
    BY <2>1, <2>2 DEF Rippled, C
  <2>4. m1[k] = m[k]
    BY <2>1 DEF CarryIsSet
  <2> QED BY <2>3, <2>4
<1>10. m2 \in Memories(M)
  BY DEF Rippled
<1> QED
  BY <1>8, <1>9, <1>10, Zenon DEF SumOf, C

\* The parts s of a sum: part i, of l gates, adds bit i.
SumParts(s, l, x, y, z, inter, cin, cout, neg, w, N, M) ==
    /\ s = [i \in 1..N |-> s[i]]
    /\ \A i \in 1..N : \A m1 \in Memories(M) :
           /\ \E m2 : /\ Leads(s[i], m1, m2, M)
                      /\ Ripples(m1, m2, x[i], y[i], Carries(inter, cin, cout, N)[i - 1], z[i],
                                 Carries(inter, cin, cout, N)[i], Work(inter, w), neg, M)
           /\ Len(s[i]) = l

\* From memory m, program p ends with the sum, after l cycles per bit and one
\* for a constant carry in.
Sums(p, l, m, x, y, z, inter, cin, cout, neg, w, N, M) ==
    /\ \E m2 : /\ Leads(p, m, m2, M)
               /\ SumOf(m, m2, x, y, z, inter, cin, cout, neg, w, N, M)
    /\ Len(p) = l * N + IF cin > 0 THEN 0 ELSE 1

\* A routine of N parts that each add a bit, after the carry is set.
LEMMA LeadsSum ==
    ASSUME NEW M \in Nat, NEW N \in Nat \ {0}, NEW w \in Nat \ {0}, NEW l \in Nat,
           NEW m \in Memories(M), NEW s,
           NEW x, NEW y, NEW z, NEW inter, NEW cin, NEW cout, NEW neg \in BOOLEAN,
           SumCells(x, y, z, inter, cin, cout, w, N, M),
           SumParts(s, l, x, y, z, inter, cin, cout, neg, w, N, M)
    PROVE  Sums(CarrySet(inter, cin) \o Concatenation(s), l, m, x, y, z, inter, cin, cout, neg, w, N, M)
<1> DEFINE C == Carries(inter, cin, cout, N)
           T == Work(inter, w)
<1>1. inter[1] \in 1..M /\ cin \in {None, ConstantOne} \union (1..M)
  BY TakenCells DEF SumCells
<1>2. /\ Len(CarrySet(inter, cin)) = IF cin > 0 THEN 0 ELSE 1
      /\ \E m1 : Leads(CarrySet(inter, cin), m, m1, M) /\ CarryIsSet(m, m1, inter, cin, N, M)
  BY <1>1, LeadsCarrySet
<1>3. PICK m1 : Leads(CarrySet(inter, cin), m, m1, M) /\ CarryIsSet(m, m1, inter, cin, N, M)
  BY <1>2
<1>4. m1 \in Memories(M)
  BY <1>3, LeadsType
<1>5. s \in [1..N -> Seq(LegalGates(M))]
  <2>1. ASSUME NEW i \in 1..N PROVE s[i] \in Seq(LegalGates(M))
    <3>1. PICK m2 : Leads(s[i], m, m2, M)
      BY DEF SumParts
    <3> QED BY <3>1, LeadsType
  <2>2. s = [i \in 1..N |-> s[i]]
    BY DEF SumParts
  <2> QED BY <2>1, <2>2
<1>6. RippleCells(x, y, z, C, T, N, M)
  BY SumRipples
<1> HIDE DEF C, T
<1>7. \A i \in 1..N : \A m3 \in Memories(M) :
          \E m2 : Leads(s[i], m3, m2, M) /\ Ripples(m3, m2, x[i], y[i], C[i - 1], z[i], C[i], T, neg, M)
  BY Zenon DEF C, T, SumParts
<1>8. \E m2 : Leads(Concatenation(s), m1, m2, M) /\ Rippled(m1, m2, x, y, z, C, T, neg, N, M)
  BY <1>4, <1>5, <1>6, <1>7, Ripple, Zenon
<1>9. PICK m2 : Leads(Concatenation(s), m1, m2, M) /\ Rippled(m1, m2, x, y, z, C, T, neg, N, M)
  BY <1>8
<1>10. SumOf(m, m2, x, y, z, inter, cin, cout, neg, w, N, M)
  BY <1>3, <1>9, SummedUp DEF C, T
<1>11. Leads(CarrySet(inter, cin) \o Concatenation(s), m, m2, M)
  BY <1>3, <1>9, LeadsOn
<1>12. Len(CarrySet(inter, cin) \o Concatenation(s)) = l * N + IF cin > 0 THEN 0 ELSE 1
  <2>1. \A i \in 1..N : Len(s[i]) = l
    BY DEF SumParts
  <2>2. Concatenation(s) \in Seq(LegalGates(M)) /\ Len(Concatenation(s)) = l * N
    <3>1. PICK k : k = l * N
      OBVIOUS
    <3>2. Long(Concatenation(s), LegalGates(M), k)
      BY <1>5, <2>1, <3>1, ConcatenationLength
    <3> QED BY <3>1, <3>2 DEF Long
  <2>3. CarrySet(inter, cin) \in Seq(LegalGates(M))
    BY <1>3, LeadsType
  <2>4. Len(CarrySet(inter, cin) \o Concatenation(s)) = Len(CarrySet(inter, cin)) + Len(Concatenation(s))
    BY <2>2, <2>3
  <2>5. PICK u \in Int, v \in Int : u = l * N /\ v = IF cin > 0 THEN 0 ELSE 1
    OBVIOUS
  <2>6. Len(CarrySet(inter, cin) \o Concatenation(s)) = v + u
    BY <1>2, <2>2, <2>4, <2>5, Zenon
  <2>7. v + u = u + v
    OBVIOUS
  <2> QED BY <2>5, <2>6, <2>7, Zenon
<1> QED
  BY <1>10, <1>11, <1>12, Zenon DEF Sums

\* The n cells t of an adder.
AdderWork(t, n, T, M) ==
    /\ t \in Seq(1..M) /\ Len(t) >= n
    /\ \A i \in 1..n : t[i] \in T \intersect (1..M)
    /\ \A i, j \in 1..n : i # j => t[i] # t[j]

\* The cells handed to an adder.
LEMMA WorkCells ==
    ASSUME NEW M \in Nat, NEW N \in Nat, NEW w \in Nat \ {0}, NEW x, NEW y, NEW z, NEW inter,
           NEW cin, NEW cout, SumCells(x, y, z, inter, cin, cout, w, N, M), NEW n, n = w - 1
    PROVE  AdderWork(After(inter, 1), n, Work(inter, w), M)
<1> DEFINE t == After(inter, 1)
<1>1. inter \in Seq(1..M) /\ Len(inter) >= w /\ \A i, j \in 1..w : i # j => inter[i] # inter[j]
  BY DEF SumCells
<1>2. PICK l \in Nat : l = Len(inter) /\ l >= w
  BY <1>1
<1>3. t \in Seq(1..M) /\ Len(t) = l - 1 /\ \A i \in 1..(l - 1) : t[i] = inter[i + 1]
  <2> DEFINE S == 1..M
  <2>1. inter \in Seq(S)
    BY <1>1
  <2> HIDE DEF S
  <2>2. t \in Seq(S) /\ Len(t) = l - 1 /\ \A i \in 1..(l - 1) : t[i] = inter[i + 1]
    BY <1>2, <2>1 DEF After
  <2> QED BY <2>2 DEF S
<1> HIDE DEF t
<1>4. \A i \in 1..(w - 1) : t[i] = inter[i + 1] /\ i + 1 \in 2..w /\ i + 1 \in 1..w
  BY <1>2, <1>3
<1>5. \A i \in 1..w : inter[i] \in 1..M
  BY TakenCells
<1>6. \A i \in 1..(w - 1) : t[i] \in Work(inter, w) \intersect (1..M)
  BY <1>4, <1>5 DEF Work
<1>7. ASSUME NEW i \in 1..(w - 1), NEW j \in 1..(w - 1), i # j PROVE t[i] # t[j]
  <2>1. i + 1 \in 1..w /\ j + 1 \in 1..w /\ i + 1 # j + 1
    BY <1>7
  <2> QED BY <1>1, <1>4, <2>1
<1>8. Len(t) >= w - 1
  BY <1>2, <1>3
<1> QED
  BY <1>3, <1>6, <1>7, <1>8 DEF t, AdderWork

\* The cells of one bit.
LEMMA BitCells ==
    ASSUME NEW M \in Nat, NEW N \in Nat, NEW w \in Nat \ {0}, NEW x, NEW y, NEW z, NEW inter,
           NEW cin, NEW cout, SumCells(x, y, z, inter, cin, cout, w, N, M), NEW i \in 1..N
    PROVE  LET C == Carries(inter, cin, cout, N)
               T == Work(inter, w)
           IN  /\ x[i] \in (1..M) \ T /\ y[i] \in (1..M) \ T /\ z[i] \in (1..M) \ T
               /\ C[i - 1] \in (1..M) \ T /\ C[i] \in (1..M) \ T /\ z[i] # C[i]
<1> DEFINE C == Carries(inter, cin, cout, N)
           T == Work(inter, w)
<1>1. RippleCells(x, y, z, C, T, N, M)
  BY SumRipples
<1> HIDE DEF C, T
<1>2. i - 1 \in 0..N /\ i \in 0..N
  OBVIOUS
<1>3. /\ x[i] \in (1..M) \ T /\ y[i] \in (1..M) \ T /\ z[i] \in (1..M) \ T
      /\ C[i - 1] \in (1..M) \ T /\ C[i] \in (1..M) \ T /\ z[i] # C[i]
  BY <1>1, <1>2 DEF RippleCells
<1> QED
  BY <1>3 DEF C, T

\* fixedAddition ends with the sum, after 18 cycles per bit and one for a
\* constant carry in.
LEMMA LeadsAddition ==
    ASSUME NEW M \in Nat, NEW N \in Nat \ {0}, NEW m \in Memories(M),
           NEW x, NEW y, NEW z, NEW inter, NEW cin, NEW cout, Len(x) = N,
           SumCells(x, y, z, inter, cin, cout, 5, N, M), \A i \in 1..N : x[i] # y[i]
    PROVE  Sums(fixedAddition(x, y, z, inter, cin, cout), 18, m, x, y, z, inter, cin, cout, FALSE, 5, N, M)
<1> DEFINE C == Carries(inter, cin, cout, N)
           t == After(inter, 1)
           s == [i \in 1..N |-> fullAdder(x[i], y[i], C[i - 1], z[i], C[i], t)]
<1>1. fixedAddition(x, y, z, inter, cin, cout) = CarrySet(inter, cin) \o Concatenation(s)
  <2>1. \A i \in 1..N : /\ C[i - 1] = IF i = 1 /\ cin > 0 THEN cin ELSE inter[1]
                        /\ C[i] = IF i = N /\ cout # None THEN cout ELSE inter[1]
    BY DEF Carries
  <2> HIDE DEF C
  <2>2. s = [i \in 1..N |-> fullAdder(x[i], y[i], IF i = 1 /\ cin > 0 THEN cin ELSE inter[1], z[i],
                                      IF i = N /\ cout # None THEN cout ELSE inter[1], t)]
    BY <2>1
  <2> QED BY <2>2, ZenonT(30) DEF fixedAddition, Each, CarrySet
<1> HIDE DEF C
<1>2. ASSUME NEW i \in 1..N, NEW m1 \in Memories(M)
      PROVE  /\ \E m2 : /\ Leads(s[i], m1, m2, M)
                        /\ Ripples(m1, m2, x[i], y[i], C[i - 1], z[i], C[i], Work(inter, 5), FALSE, M)
             /\ Len(s[i]) = 18
  <2>1. /\ x[i] \in (1..M) \ Work(inter, 5) /\ y[i] \in (1..M) \ Work(inter, 5)
        /\ z[i] \in (1..M) \ Work(inter, 5) /\ C[i - 1] \in (1..M) \ Work(inter, 5)
        /\ C[i] \in (1..M) \ Work(inter, 5) /\ z[i] # C[i]
    BY BitCells DEF C
  <2>2. /\ \A j \in 1..4 : t[j] \in Work(inter, 5) /\ t[j] \in 1..M
        /\ \A j, k \in 1..4 : j # k => t[j] # t[k]
    <3>1. 4 = 5 - 1 /\ 5 \in Nat \ {0} /\ N \in Nat
      OBVIOUS
    <3>2. AdderWork(t, 4, Work(inter, 5), M)
      BY <3>1, WorkCells, Zenon
    <3> QED BY <3>2, Zenon DEF AdderWork
  <2> HIDE DEF t
  <2>3. AdderCells(x[i], y[i], C[i - 1], z[i], C[i], t, M)
    BY <2>1, <2>2, ZenonT(30) DEF AdderCells
  <2>4. s[i] = fullAdder(x[i], y[i], C[i - 1], z[i], C[i], t)
    OBVIOUS
  <2> HIDE DEF s
  <2>5. /\ Len(s[i]) = 18
        /\ \E m2 : Leads(s[i], m1, m2, M) /\ FullAdds(m1, m2, x[i], y[i], C[i - 1], z[i], C[i], t, M)
    <3>1. Adds(fullAdder(x[i], y[i], C[i - 1], z[i], C[i], t), m1, x[i], y[i], C[i - 1], z[i], C[i], t, M)
      BY <2>3, LeadsFullAdder, Zenon
    <3> QED BY <2>4, <3>1, Zenon DEF Adds
  <2>6. PICK m2 : Leads(s[i], m1, m2, M) /\ FullAdds(m1, m2, x[i], y[i], C[i - 1], z[i], C[i], t, M)
    BY <2>5, Zenon
  <2>7. Ripples(m1, m2, x[i], y[i], C[i - 1], z[i], C[i], Work(inter, 5), FALSE, M)
    BY <2>2, <2>6, SMTT(30), Z3T(30) DEF FullAdds, Ripples, Operand
  <2> QED BY <2>5, <2>6, <2>7, ZenonT(30)
<1>3. s = [i \in 1..N |-> s[i]]
  BY Zenon
<1> HIDE DEF s
<1>4. SumParts(s, 18, x, y, z, inter, cin, cout, FALSE, 5, N, M)
  BY <1>2, <1>3, Zenon DEF C, SumParts
<1>5. PICK l \in Nat, neg \in BOOLEAN, w \in Nat \ {0} : l = 18 /\ neg = FALSE /\ w = 5
  <2>1. 18 \in Nat /\ 5 \in Nat \ {0}
    OBVIOUS
  <2> QED BY <2>1, Zenon
<1>6. /\ SumParts(s, l, x, y, z, inter, cin, cout, neg, w, N, M)
      /\ SumCells(x, y, z, inter, cin, cout, w, N, M)
  BY <1>4, <1>5, Zenon
<1>7. Sums(CarrySet(inter, cin) \o Concatenation(s), l, m, x, y, z, inter, cin, cout, neg, w, N, M)
  BY <1>6, LeadsSum, ZenonT(30)
<1> QED
  BY <1>1, <1>5, <1>7, Zenon

\* fixedSubtraction ends with the difference, after 20 cycles per bit and one
\* for the carry.
LEMMA LeadsSubtraction ==
    ASSUME NEW M \in Nat, NEW N \in Nat \ {0}, NEW m \in Memories(M),
           NEW x, NEW y, NEW z, NEW inter, NEW cout, Len(x) = N,
           SumCells(x, y, z, inter, ConstantOne, cout, 6, N, M)
    PROVE  Sums(fixedSubtraction(x, y, z, inter, cout), 20, m, x, y, z, inter, ConstantOne, cout, TRUE, 6, N, M)
<1> DEFINE C == Carries(inter, ConstantOne, cout, N)
           t == After(inter, 1)
           s == [i \in 1..N |-> fullSubtractor(x[i], y[i], C[i - 1], z[i], C[i], t)]
<1>1. fixedSubtraction(x, y, z, inter, cout) = CarrySet(inter, ConstantOne) \o Concatenation(s)
  <2>1. \A i \in 1..N : /\ C[i - 1] = inter[1]
                        /\ C[i] = IF i = N /\ cout # None THEN cout ELSE inter[1]
    BY DEF Carries, ConstantOne
  <2> HIDE DEF C
  <2>2. s = [i \in 1..N |-> fullSubtractor(x[i], y[i], inter[1], z[i],
                                           IF i = N /\ cout # None THEN cout ELSE inter[1], t)]
    BY <2>1, Zenon
  <2>3. CarrySet(inter, ConstantOne) = INIT1(inter[1])
    BY DEF CarrySet, ConstantOne, None
  <2> QED BY <2>2, <2>3, Zenon DEF fixedSubtraction, Each
<1> HIDE DEF C
<1>2. ASSUME NEW i \in 1..N, NEW m1 \in Memories(M)
      PROVE  /\ \E m2 : /\ Leads(s[i], m1, m2, M)
                        /\ Ripples(m1, m2, x[i], y[i], C[i - 1], z[i], C[i], Work(inter, 6), TRUE, M)
             /\ Len(s[i]) = 20
  <2>1. /\ x[i] \in (1..M) \ Work(inter, 6) /\ y[i] \in (1..M) \ Work(inter, 6)
        /\ z[i] \in (1..M) \ Work(inter, 6) /\ C[i - 1] \in (1..M) \ Work(inter, 6)
        /\ C[i] \in (1..M) \ Work(inter, 6) /\ z[i] # C[i]
    BY BitCells DEF C
  <2>2. /\ t \in Seq(1..M) /\ Len(t) >= 5
        /\ \A j \in 1..5 : t[j] \in Work(inter, 6)
        /\ \A j, k \in 1..5 : j # k => t[j] # t[k]
    <3>1. 5 = 6 - 1 /\ 6 \in Nat \ {0} /\ N \in Nat
      OBVIOUS
    <3>2. AdderWork(t, 5, Work(inter, 6), M)
      BY <3>1, WorkCells, Zenon
    <3> QED BY <3>2, Zenon DEF AdderWork
  <2> HIDE DEF t
  <2>3. Free(t, 5, {x[i], y[i], C[i - 1], z[i], C[i]}, M)
    BY <2>1, <2>2, Zenon DEF Free
  <2>4. s[i] = fullSubtractor(x[i], y[i], C[i - 1], z[i], C[i], t)
    OBVIOUS
  <2> HIDE DEF s
  <2>5. Subtracts(s[i], m1, x[i], y[i], C[i - 1], z[i], C[i], Work(inter, 6), M)
    <3>1. PICK a \in 1..M, b \in 1..M, c \in 1..M, d \in 1..M, e \in 1..M, T \in {Work(inter, 6)} :
              a = x[i] /\ b = y[i] /\ c = C[i - 1] /\ d = z[i] /\ e = C[i]
      BY <2>1, SMTT(30), Z3T(30)
    <3>2. d # e /\ Free(t, 5, {a, b, c, d, e}, M) /\ \A j \in 1..5 : t[j] \in T
      BY <2>1, <2>2, <2>3, <3>1, Zenon
    <3>3. Subtracts(fullSubtractor(a, b, c, d, e, t), m1, a, b, c, d, e, T, M)
      BY <3>2, LeadsFullSubtractor, Zenon
    <3> QED BY <2>4, <3>1, <3>3, Zenon
  <2> QED BY <2>5, Zenon DEF Subtracts
<1>3. s = [i \in 1..N |-> s[i]]
  OBVIOUS
<1> HIDE DEF s
<1>4. SumParts(s, 20, x, y, z, inter, ConstantOne, cout, TRUE, 6, N, M)
  BY <1>2, <1>3, Zenon DEF C, SumParts
<1>5. PICK l \in Nat, neg \in BOOLEAN, w \in Nat \ {0} : l = 20 /\ neg = TRUE /\ w = 6
  <2>1. 20 \in Nat /\ 6 \in Nat \ {0}
    OBVIOUS
  <2> QED BY <2>1, Zenon
<1>6. /\ SumParts(s, l, x, y, z, inter, ConstantOne, cout, neg, w, N, M)
      /\ SumCells(x, y, z, inter, ConstantOne, cout, w, N, M)
  BY <1>4, <1>5, Zenon
<1>7. Sums(CarrySet(inter, ConstantOne) \o Concatenation(s), l, m, x, y, z, inter, ConstantOne, cout,
           neg, w, N, M)
  BY <1>6, LeadsSum
<1> QED
  BY <1>1, <1>5, <1>7, Zenon

-----------------------------------------------------------------------------
(* Sums of the numbers loaded into an array.                               *)

\* A number of n cells is below 2^n.
LEMMA NumberBound ==
    ASSUME NEW m, NEW cells, NEW n \in Nat
    PROVE  Number(m, cells, n) \in 0..(Pow2[n] - 1)
<1> DEFINE Good == {k \in Nat : Number(m, cells, k) \in 0..(Pow2[k] - 1)}
<1>1. 0 \in Good
  BY NumberStep, Pow2Step
<1>2. ASSUME NEW k \in Nat, k \in Good PROVE k + 1 \in Good
  <2>1. PICK u \in Int, v \in Int, b \in {0, 1}, p \in Int, q \in Int :
            /\ u = Number(m, cells, k) /\ v = Number(m, cells, k + 1) /\ b = Bit(m[cells[k + 1]])
            /\ p = Pow2[k] /\ q = Pow2[k + 1]
    <3>1. \A i \in Nat : Number(m, cells, i) \in Int /\ Pow2[i] \in Int
      BY NumberInt, Zenon
    <3>2. k + 1 \in Nat /\ Bit(m[cells[k + 1]]) \in {0, 1}
      BY BitType
    <3> QED BY <3>1, <3>2, Zenon
  <2>2. v = u + b * p /\ q = 2 * p
    <3>1. Number(m, cells, k + 1) = Number(m, cells, k) + Bit(m[cells[k + 1]]) * Pow2[k]
      BY NumberStep, ZenonT(30)
    <3>2. Pow2[k + 1] = 2 * Pow2[k]
      BY Pow2Step
    <3> QED BY <2>1, <3>1, <3>2, Zenon
  <2>3. u \in 0..(p - 1)
    BY <1>2, <2>1, Zenon
  <2>4. v \in 0..(q - 1)
    BY <2>2, <2>3
  <2>5. Number(m, cells, k + 1) \in 0..(Pow2[k + 1] - 1)
    BY <2>1, <2>4, Zenon
  <2> QED BY <2>5
<1>3. Nat \subseteq Good
  <2> HIDE DEF Good
  <2> QED BY <1>1, <1>2, SetInduction
<1> QED
  BY <1>3

\* The remainder, from any quotient.
LEMMA Remainder ==
    ASSUME NEW p \in Nat \ {0}, NEW v \in 0..(p - 1), NEW q \in Int, NEW u \in Int, u = v + q * p
    PROVE  u % p = v
<1>1. PICK d \in Int, r \in Int : d = u \div p /\ r = u % p
  OBVIOUS
<1>2. r \in 0..(p - 1) /\ u = p * d + r
  BY <1>1
<1>3. v - r = (d - q) * p
  BY <1>2
<1>4. PICK e \in Int : e = d - q
  OBVIOUS
<1>5. v - r = e * p
  BY <1>3, <1>4
<1>6. ~(e >= 1)
  <2> SUFFICES ASSUME e >= 1 PROVE FALSE
    OBVIOUS
  <2>1. e * p >= p
    OBVIOUS
  <2> QED BY <1>2, <1>5, <2>1
<1>7. ~(e <= -1)
  <2> SUFFICES ASSUME e <= -1 PROVE FALSE
    OBVIOUS
  <2>1. e * p <= -p
    OBVIOUS
  <2> QED BY <1>2, <1>5, <2>1
<1>8. e = 0
  BY <1>6, <1>7
<1> QED
  BY <1>1, <1>2, <1>5, <1>8

\* The arrangement of a sum of N bits in M columns: the operands, zl cells for
\* the result, and inter the cells left, at least the w a sum takes.
Arranged(x, y, z, low, inter, N, zl, w, M) ==
    /\ x = Cells(0, N) /\ y = Cells(N, N) /\ z = Cells(2 * N, zl)
    /\ low = SubSeq(z, 1, N) /\ inter = Cells(2 * N + zl, M - (2 * N + zl))
    /\ zl \in {N, N + 1} /\ w \in Nat \ {0} /\ M >= 2 * N + zl + w

\* Where the cells are.
LEMMA ArrangedCells ==
    ASSUME NEW M \in Nat, NEW N \in Nat \ {0}, NEW zl, NEW w, NEW x, NEW y, NEW z, NEW low, NEW inter,
           Arranged(x, y, z, low, inter, N, zl, w, M)
    PROVE  /\ \A i \in 1..N : /\ x[i] = i /\ y[i] = N + i /\ z[i] = 2 * N + i /\ low[i] = 2 * N + i
           /\ zl = N + 1 => z[N + 1] = 3 * N + 1
           /\ \A i \in 1..w : inter[i] = (2 * N + zl) + i
           /\ inter \in Seq(1..M) /\ Len(inter) >= w
           /\ DOMAIN x = 1..N /\ DOMAIN y = 1..N /\ Len(x) = N /\ Len(y) = N /\ Len(z) = zl /\ Len(low) = N
<1>1. /\ zl \in Nat /\ zl >= N /\ zl <= N + 1 /\ w \in Nat /\ M >= 2 * N + zl + w
      /\ 2 * N + zl \in Nat /\ M - (2 * N + zl) \in Nat /\ M - (2 * N + zl) >= w
  BY DEF Arranged
<1>2. /\ x = [i \in 1..N |-> 0 + i] /\ y = [i \in 1..N |-> N + i] /\ z = [i \in 1..zl |-> 2 * N + i]
      /\ low = SubSeq(z, 1, N)
  BY DEF Arranged, Cells
<1>3. x \in Seq(Nat) /\ y \in Seq(Nat) /\ z \in Seq(Nat) /\ Len(x) = N /\ Len(y) = N /\ Len(z) = zl
  BY <1>1, <1>2
<1>4. Len(low) = N /\ \A i \in 1..N : low[i] = z[i]
  BY <1>1, <1>2, <1>3
<1>5. \A i \in 1..N : x[i] = i /\ y[i] = N + i /\ z[i] = 2 * N + i /\ low[i] = 2 * N + i
  BY <1>1, <1>2, <1>4
<1>6. zl = N + 1 => z[N + 1] = 3 * N + 1
  BY <1>1, <1>2
<1>7. PICK l \in Nat, k \in Nat : l = M - (2 * N + zl) /\ k = 2 * N + zl /\ l >= w /\ k + l = M
  BY <1>1
<1>8. inter = [i \in 1..l |-> k + i]
  BY <1>7 DEF Arranged, Cells
<1>9. \A i \in 1..l : k + i \in 1..M
  BY <1>7
<1>10. inter \in Seq(1..M) /\ Len(inter) = l
  BY <1>8, <1>9
<1>11. \A i \in 1..w : inter[i] = k + i
  BY <1>1, <1>7, <1>8
<1> QED
  BY <1>2, <1>3, <1>4, <1>5, <1>6, <1>7, <1>10, <1>11, Zenon

\* They suit a sum.
LEMMA ArrangedSum ==
    ASSUME NEW M \in Nat, NEW N \in Nat \ {0}, NEW zl, NEW w, NEW x, NEW y, NEW z, NEW low, NEW inter,
           Arranged(x, y, z, low, inter, N, zl, w, M),
           NEW cin \in {None, ConstantOne}, NEW cout, cout = None \/ (zl = N + 1 /\ cout = z[N + 1])
    PROVE  SumCells(x, y, low, inter, cin, cout, w, N, M) /\ \A i \in 1..N : x[i] # y[i]
<1>1. /\ zl \in Nat /\ zl >= N /\ zl <= N + 1 /\ w \in Nat /\ M >= 2 * N + zl + w
  BY DEF Arranged
<1>2. /\ \A i \in 1..N : x[i] = i /\ y[i] = N + i /\ low[i] = 2 * N + i
      /\ zl = N + 1 => z[N + 1] = 3 * N + 1
      /\ inter \in Seq(1..M) /\ Len(inter) >= w
  BY ArrangedCells
<1>3. \A i \in 1..w : inter[i] = (2 * N + zl) + i
  BY ArrangedCells
<1>4. \A i, j \in 1..w : i # j => inter[i] # inter[j]
  BY <1>1, <1>3
<1>5. \A v \in Taken(inter, w) : v > 2 * N + zl
  BY <1>1, <1>3 DEF Taken
<1>6. \A i \in 1..N : /\ x[i] \in (1..M) \ Taken(inter, w)
                      /\ y[i] \in (1..M) \ Taken(inter, w)
                      /\ low[i] \in (1..M) \ Taken(inter, w)
  <2>1. \A k \in 1..(2 * N + zl) : k \in (1..M) \ Taken(inter, w)
    BY <1>1, <1>5
  <2>2. \A i \in 1..N : /\ x[i] \in 1..(2 * N + zl) /\ y[i] \in 1..(2 * N + zl)
                        /\ low[i] \in 1..(2 * N + zl)
    BY <1>1, <1>2, SMTT(30), Z3T(30)
  <2> QED BY <2>1, <2>2, Zenon
<1>7. \A i, j \in 1..N : i < j => low[i] # low[j] /\ low[i] # x[j] /\ low[i] # y[j]
  BY <1>2
<1>8. /\ cout \in {None} \union ((1..M) \ Taken(inter, w))
      /\ \A i \in 1..N : low[i] # cout
  BY <1>1, <1>2, <1>5, SMTT(30), Z3T(30) DEF None
<1>9. SumCells(x, y, low, inter, cin, cout, w, N, M)
  BY <1>2, <1>4, <1>6, <1>7, <1>8 DEF SumCells
<1> QED
  BY <1>2, <1>9

\* m2 is m with bits in the cells c + 1 .. c + N.
WrittenAt(m, m2, c, N, bits, M) ==
    /\ m2 \in Memories(M)
    /\ \A i \in 1..N : m2[c + i] = bits[i]
    /\ \A k \in 1..M : k <= c \/ k > c + N => m2[k] = m[k]

\* Written writes consecutive cells.
LEMMA WrittenCells ==
    ASSUME NEW M \in Nat, NEW N \in Nat, NEW c \in Nat, c + N <= M, NEW m \in Memories(M),
           NEW bits \in [1..N -> BOOLEAN]
    PROVE  WrittenAt(m, Written(m, Cells(c, N), bits), c, N, bits, M)
<1> DEFINE cells == Cells(c, N)
           at(k) == {i \in DOMAIN cells : cells[i] = k}
           m2 == [k \in DOMAIN m |-> IF at(k) = {} THEN m[k] ELSE bits[CHOOSE i \in at(k) : TRUE]]
<1>1. Written(m, cells, bits) = m2
  BY DEF Written
<1>2. DOMAIN cells = 1..N /\ \A i \in 1..N : cells[i] = c + i
  BY DEF Cells
<1> HIDE DEF cells
<1>3. DOMAIN m = 1..M /\ \A k \in 1..M : m[k] \in BOOLEAN
  BY DEF Memories
<1>4. ASSUME NEW k \in 1..M, k <= c \/ k > c + N PROVE at(k) = {}
  BY <1>2, <1>4
<1>5. ASSUME NEW i \in 1..N PROVE at(c + i) = {i}
  BY <1>2
<1> HIDE DEF at
<1>6. ASSUME NEW i \in 1..N PROVE m2[c + i] = bits[i]
  <2>1. c + i \in DOMAIN m
    BY <1>3
  <2>2. (CHOOSE j \in {i} : TRUE) = i
    OBVIOUS
  <2> QED BY <1>5, <2>1, <2>2, SMTT(30), Z3T(30)
<1>7. ASSUME NEW k \in 1..M, k <= c \/ k > c + N PROVE m2[k] = m[k]
  BY <1>3, <1>4, <1>7
<1>8. ASSUME NEW k \in 1..M PROVE m2[k] \in BOOLEAN
  <2>1. CASE k <= c \/ k > c + N
    BY <1>3, <1>7, <2>1
  <2>2. CASE ~(k <= c \/ k > c + N)
    <3>1. k - c \in 1..N /\ c + (k - c) = k
      BY <2>2
    <3> QED BY <1>6, <3>1, Zenon
  <2> QED BY <2>1, <2>2
<1>9. m2 \in Memories(M)
  BY <1>3, <1>8, SMTT(30), Z3T(30) DEF Memories
<1> QED
  BY <1>1, <1>6, <1>7, <1>9, Zenon DEF cells, WrittenAt

\* The operands u and v are in their cells.
Holds(m, x, y, u, v, N) ==
    \A i \in 1..N : m[x[i]] = Bits(u, N)[i] /\ m[y[i]] = Bits(v, N)[i]

\* A row with the operands written.
LEMMA LoadedRow ==
    ASSUME NEW M \in Nat, NEW N \in Nat \ {0}, NEW zl, NEW w, NEW x, NEW y, NEW z, NEW low, NEW inter,
           Arranged(x, y, z, low, inter, N, zl, w, M), NEW fill \in BOOLEAN, NEW u, NEW v, NEW m,
           m = Written(Written([c \in 1..M |-> fill], x, Bits(u, N)), y, Bits(v, N))
    PROVE  m \in Memories(M) /\ Holds(m, x, y, u, v, N)
<1>1. /\ \A i \in 1..N : x[i] = 0 + i /\ y[i] = N + i
  BY ArrangedCells
<1>2. x = Cells(0, N) /\ y = Cells(N, N) /\ 0 + N <= M /\ N + N <= M
  BY DEF Arranged
<1> DEFINE m0 == [c \in 1..M |-> fill]
           m1 == Written(m0, Cells(0, N), Bits(u, N))
<1>3. m0 \in Memories(M)
  BY DEF Memories
<1>4. Bits(u, N) \in [1..N -> BOOLEAN] /\ Bits(v, N) \in [1..N -> BOOLEAN]
  BY DEF Bits
<1> HIDE DEF m0
<1>5. m1 \in Memories(M) /\ \A i \in 1..N : m1[0 + i] = Bits(u, N)[i]
  <2>1. WrittenAt(m0, m1, 0, N, Bits(u, N), M)
    BY <1>2, <1>3, <1>4, WrittenCells
  <2> QED BY <2>1, Zenon DEF WrittenAt
<1> HIDE DEF m1
<1>6. m = Written(m1, Cells(N, N), Bits(v, N))
  BY <1>2 DEF m1, m0
<1>7. /\ m \in Memories(M) /\ \A i \in 1..N : m[N + i] = Bits(v, N)[i]
      /\ \A k \in 1..M : k <= N \/ k > N + N => m[k] = m1[k]
  <2>1. WrittenAt(m1, Written(m1, Cells(N, N), Bits(v, N)), N, N, Bits(v, N), M)
    BY <1>2, <1>4, <1>5, WrittenCells
  <2> QED BY <1>6, <2>1, Zenon DEF WrittenAt
<1>8. \A i \in 1..N : m[0 + i] = m1[0 + i]
  BY <1>2, <1>7
<1> QED
  BY <1>1, <1>5, <1>7, <1>8, SMTT(30), Z3T(30) DEF Holds

\* What the cells of an operand hold, and its number.
LEMMA HeldNumbers ==
    ASSUME NEW N \in Nat \ {0}, NEW m, NEW x, NEW y,
           NEW u \in 0..(Pow2[N] - 1), NEW v \in 0..(Pow2[N] - 1), Holds(m, x, y, u, v, N)
    PROVE  Number(m, x, N) = u /\ Number(m, y, N) = v
<1>1. Pow2[N] \in Nat
  BY Pow2Step
<1>2. u \in Nat /\ v \in Nat /\ u < Pow2[N] /\ v < Pow2[N]
  BY <1>1
<1>3. \A j \in 1..N : m[x[j]] = (BitAt(u, j - 1) = 1) /\ m[y[j]] = (BitAt(v, j - 1) = 1)
  BY SMTT(30), Z3T(30) DEF Holds, Bits
<1>4. Number(m, x, N) = LowBits(u, N) /\ Number(m, y, N) = LowBits(v, N)
  BY <1>2, <1>3, NumberOfBits
<1>5. LowBits(u, N) = u /\ LowBits(v, N) = v
  BY <1>2, LowBitsBound, Zenon
<1> QED
  BY <1>4, <1>5

\* The operands are still in their cells, and the result in low and the carry.
SumHeld(m, x, y, low, inter, cin, cout, u, v, neg, N) ==
    /\ Holds(m, x, y, u, v, N)
    /\ Number(m, low, N) + Bit(m[Carries(inter, cin, cout, N)[N]]) * Pow2[N]
           = u + (IF neg THEN (Pow2[N] - 1) - v ELSE v) + (IF cin = None THEN 0 ELSE 1)

\* A sum of operands loaded leaves them in their cells; its result.
LEMMA SumOfLoaded ==
    ASSUME NEW M \in Nat, NEW N \in Nat \ {0}, NEW zl, NEW w, NEW x, NEW y, NEW z, NEW low, NEW inter,
           Arranged(x, y, z, low, inter, N, zl, w, M),
           NEW cin \in {None, ConstantOne}, NEW cout, cout = None \/ (zl = N + 1 /\ cout = z[N + 1]),
           NEW u \in 0..(Pow2[N] - 1), NEW v \in 0..(Pow2[N] - 1), NEW m \in Memories(M), NEW m2,
           NEW neg \in BOOLEAN, Holds(m, x, y, u, v, N),
           SumOf(m, m2, x, y, low, inter, cin, cout, neg, w, N, M)
    PROVE  SumHeld(m2, x, y, low, inter, cin, cout, u, v, neg, N)
<1>1. Number(m, x, N) = u /\ Number(m, y, N) = v
  BY HeldNumbers, Zenon
<1>2. CarryValue(m, cin) = IF cin = None THEN 0 ELSE 1
  BY DEF CarryValue, None, ConstantOne
<1>3. Addend(m, y, N, neg) = IF neg THEN (Pow2[N] - 1) - v ELSE v
  BY <1>1, Zenon DEF Addend
<1>4. Number(m2, low, N) + Bit(m2[Carries(inter, cin, cout, N)[N]]) * Pow2[N]
          = u + (IF neg THEN (Pow2[N] - 1) - v ELSE v) + (IF cin = None THEN 0 ELSE 1)
  BY <1>1, <1>2, <1>3, Zenon DEF SumOf
<1>5. ASSUME NEW i \in 1..N PROVE m2[x[i]] = m[x[i]] /\ m2[y[i]] = m[y[i]]
  <2>1. zl \in Nat /\ zl >= N /\ w \in Nat \ {0} /\ M >= 2 * N + zl + w
    BY DEF Arranged
  <2>2. /\ x[i] = i /\ y[i] = N + i /\ \A j \in 1..N : low[j] = 2 * N + j
        /\ zl = N + 1 => z[N + 1] = 3 * N + 1
    BY ArrangedCells
  <2>3. \A j \in 1..w : inter[j] = (2 * N + zl) + j
    BY ArrangedCells, SMTT(30), Z3T(30)
  <2>4. \A k \in Taken(inter, w) : k > 2 * N + zl
    BY <2>1, <2>3, SMTT(30), Z3T(30) DEF Taken
  <2>5. ASSUME NEW k \in 1..(2 * N) PROVE m2[k] = m[k]
    <3>1. k \in 1..M /\ k \notin Taken(inter, w) /\ k # cout /\ \A j \in 1..N : k # low[j]
      BY <2>1, <2>2, <2>4 DEF None
    <3> QED BY <3>1 DEF SumOf
  <2>6. i \in 1..(2 * N) /\ N + i \in 1..(2 * N)
    BY SMTT(30), Z3T(30)
  <2> QED BY <2>2, <2>5, <2>6, Zenon
<1>6. Holds(m2, x, y, u, v, N)
  BY <1>5, ZenonT(30), SMTT(30) DEF Holds
<1> QED
  BY <1>4, <1>6, Zenon DEF SumHeld

\* The result of a sum, as ArithmeticRight has it.
ResultOf(op, m, z, low, u, v, N) ==
    CASE op = "add" -> Number(m, z, N + 1) = u + v
      [] op = "inc" -> Number(m, low, N) = (u + v + 1) % Pow2[N]
      [] op = "sub" -> Number(m, low, N) = (u - v) % Pow2[N] /\ (m[z[N + 1]] <=> u >= v)

\* From memory m, program p computes it and keeps the operands.
Computes(p, op, m, x, y, z, low, u, v, N, M) ==
    /\ \E m2 : Leads(p, m, m2, M) /\ Holds(m2, x, y, u, v, N) /\ ResultOf(op, m2, z, low, u, v, N)
    /\ Len(p) = IF op = "sub" THEN 20 * N + 1 ELSE 18 * N + 1

\* The routines as the rows of an array run them.
RoutineOf(op, x, y, z, low, inter, N) ==
    CASE op = "add" -> fixedAddition(x, y, low, inter, None, z[N + 1])
      [] op = "inc" -> fixedAddition(x, y, low, inter, ConstantOne, None)
      [] op = "sub" -> fixedSubtraction(x, y, low, inter, z[N + 1])

\* An addition with its carry out.
LEMMA AddComputes ==
    ASSUME NEW M \in Nat, NEW N \in Nat \ {0}, NEW x, NEW y, NEW z, NEW low, NEW inter,
           Arranged(x, y, z, low, inter, N, N + 1, 5, M),
           NEW u \in 0..(Pow2[N] - 1), NEW v \in 0..(Pow2[N] - 1), NEW m \in Memories(M),
           Holds(m, x, y, u, v, N)
    PROVE  Computes(RoutineOf("add", x, y, z, low, inter, N), "add", m, x, y, z, low, u, v, N, M)
<1> DEFINE p == fixedAddition(x, y, low, inter, None, z[N + 1])
           c == Carries(inter, None, z[N + 1], N)[N]
<1>1. RoutineOf("add", x, y, z, low, inter, N) = p
  BY DEF RoutineOf
<1>2. SumCells(x, y, low, inter, None, z[N + 1], 5, N, M) /\ \A i \in 1..N : x[i] # y[i]
  BY ArrangedSum, Zenon
<1>3. Len(x) = N /\ Len(low) = N /\ z[N + 1] = 3 * N + 1
  BY ArrangedCells
<1>4. Sums(p, 18, m, x, y, low, inter, None, z[N + 1], FALSE, 5, N, M)
  BY <1>2, <1>3, LeadsAddition, Zenon
<1>5. c = z[N + 1]
  BY <1>3 DEF Carries, None
<1>6. Len(p) = 18 * N + 1
  BY <1>4 DEF Sums, None
<1> HIDE DEF p, c
<1>7. PICK m2 : Leads(p, m, m2, M) /\ SumOf(m, m2, x, y, low, inter, None, z[N + 1], FALSE, 5, N, M)
  BY <1>4, Zenon DEF Sums
<1>8. /\ Holds(m2, x, y, u, v, N)
      /\ Number(m2, low, N) + Bit(m2[c]) * Pow2[N]
             = u + (IF FALSE THEN (Pow2[N] - 1) - v ELSE v) + (IF None = None THEN 0 ELSE 1)
  <2>1. PICK neg \in BOOLEAN : neg = FALSE
    BY Zenon
  <2>2. SumOf(m, m2, x, y, low, inter, None, z[N + 1], neg, 5, N, M)
    BY <1>7, <2>1, Zenon
  <2>3. SumHeld(m2, x, y, low, inter, None, z[N + 1], u, v, neg, N)
    BY <2>2, SumOfLoaded, ZenonT(30)
  <2> QED BY <2>1, <2>3, Zenon DEF SumHeld, c
<1>9. Number(m2, z, N + 1) = u + v
  <2>1. Number(m2, z, N + 1) = Number(m2, z, N) + Bit(m2[z[N + 1]]) * Pow2[N]
    BY NumberStep, Zenon
  <2>2. \A i \in 1..N : low[i] = z[i]
    BY ArrangedCells, SMTT(30), Z3T(30)
  <2>3. Number(m2, low, N) = Number(m2, z, N)
    BY <2>2, NumberLike
  <2>4. Number(m2, z, N + 1) = u + v + 0
    BY <1>5, <1>8, <2>1, <2>3, Zenon
  <2>5. u \in Int /\ v \in Int
    OBVIOUS
  <2> QED BY <2>4, <2>5
<1>10. ResultOf("add", m2, z, low, u, v, N)
  BY <1>9, SMTT(30), Z3T(30) DEF ResultOf
<1> QED
  BY <1>1, <1>6, <1>7, <1>8, <1>10 DEF Computes

\* An addition with a carry in of 1 and no carry out.
LEMMA IncComputes ==
    ASSUME NEW M \in Nat, NEW N \in Nat \ {0}, NEW x, NEW y, NEW z, NEW low, NEW inter,
           Arranged(x, y, z, low, inter, N, N, 5, M),
           NEW u \in 0..(Pow2[N] - 1), NEW v \in 0..(Pow2[N] - 1), NEW m \in Memories(M),
           Holds(m, x, y, u, v, N)
    PROVE  Computes(RoutineOf("inc", x, y, z, low, inter, N), "inc", m, x, y, z, low, u, v, N, M)
<1> DEFINE p == fixedAddition(x, y, low, inter, ConstantOne, None)
           c == Carries(inter, ConstantOne, None, N)[N]
<1>1. RoutineOf("inc", x, y, z, low, inter, N) = p
  BY DEF RoutineOf
<1>2. SumCells(x, y, low, inter, ConstantOne, None, 5, N, M) /\ \A i \in 1..N : x[i] # y[i]
  BY ArrangedSum, Zenon
<1>3. Len(x) = N
  BY ArrangedCells
<1>4. Sums(p, 18, m, x, y, low, inter, ConstantOne, None, FALSE, 5, N, M)
  BY <1>2, <1>3, LeadsAddition, Zenon
<1>5. Len(p) = 18 * N + 1
  BY <1>4 DEF Sums, ConstantOne
<1> HIDE DEF p, c
<1>6. PICK m2 : Leads(p, m, m2, M) /\ SumOf(m, m2, x, y, low, inter, ConstantOne, None, FALSE, 5, N, M)
  BY <1>4, Zenon DEF Sums
<1>7. /\ Holds(m2, x, y, u, v, N)
      /\ Number(m2, low, N) + Bit(m2[c]) * Pow2[N] = u + v + (IF ConstantOne = None THEN 0 ELSE 1)
  <2>1. PICK neg \in BOOLEAN : neg = FALSE
    BY Zenon
  <2>2. SumOf(m, m2, x, y, low, inter, ConstantOne, None, neg, 5, N, M)
    BY <1>6, <2>1, Zenon
  <2>3. SumHeld(m2, x, y, low, inter, ConstantOne, None, u, v, neg, N)
    BY <2>2, SumOfLoaded, ZenonT(30)
  <2> QED BY <2>1, <2>3, Zenon DEF SumHeld, c
<1>8. Number(m2, low, N) = (u + v + 1) % Pow2[N]
  <2>1. PICK s \in Int, b \in Int, q \in Nat \ {0} :
            s = Number(m2, low, N) /\ b = Bit(m2[c]) /\ q = Pow2[N]
    <3>1. Number(m2, low, N) \in Int /\ Bit(m2[c]) \in Int
      BY NumberInt, BitType
    <3>2. Pow2[N] \in Nat \ {0}
      BY Pow2Step
    <3> QED BY <3>1, <3>2, Zenon
  <2>2. s \in 0..(q - 1)
    BY <2>1, NumberBound
  <2>3. (IF ConstantOne = None THEN 0 ELSE 1) = 1
    BY DEF ConstantOne, None
  <2>4. s + b * q = u + v + 1
    BY <1>7, <2>1, <2>3, Zenon
  <2>5. PICK a \in Int : a = u + v + 1
    OBVIOUS
  <2>6. a = s + b * q
    BY <2>4, <2>5
  <2>7. a % q = s
    BY <2>2, <2>6, Remainder
  <2> QED BY <2>1, <2>5, <2>7, Zenon
<1>9. ResultOf("inc", m2, z, low, u, v, N)
  BY <1>8, SMTT(30), Z3T(30) DEF ResultOf
<1> QED
  BY <1>1, <1>5, <1>6, <1>7, <1>9 DEF Computes

\* A subtraction; its carry out tells whether it did not borrow.
LEMMA SubComputes ==
    ASSUME NEW M \in Nat, NEW N \in Nat \ {0}, NEW x, NEW y, NEW z, NEW low, NEW inter,
           Arranged(x, y, z, low, inter, N, N + 1, 6, M),
           NEW u \in 0..(Pow2[N] - 1), NEW v \in 0..(Pow2[N] - 1), NEW m \in Memories(M),
           Holds(m, x, y, u, v, N)
    PROVE  Computes(RoutineOf("sub", x, y, z, low, inter, N), "sub", m, x, y, z, low, u, v, N, M)
<1> DEFINE p == fixedSubtraction(x, y, low, inter, z[N + 1])
           c == Carries(inter, ConstantOne, z[N + 1], N)[N]
<1>1. RoutineOf("sub", x, y, z, low, inter, N) = p
  BY DEF RoutineOf
<1>2. SumCells(x, y, low, inter, ConstantOne, z[N + 1], 6, N, M)
  BY ArrangedSum, Zenon
<1>3. Len(x) = N /\ z[N + 1] = 3 * N + 1
  BY ArrangedCells
<1>4. Sums(p, 20, m, x, y, low, inter, ConstantOne, z[N + 1], TRUE, 6, N, M)
  BY <1>2, <1>3, LeadsSubtraction, Zenon
<1>5. c = z[N + 1]
  BY <1>3 DEF Carries, None
<1>6. Len(p) = 20 * N + 1
  BY <1>4 DEF Sums, ConstantOne
<1> HIDE DEF p, c
<1>7. PICK m2 : /\ Leads(p, m, m2, M)
                /\ SumOf(m, m2, x, y, low, inter, ConstantOne, z[N + 1], TRUE, 6, N, M)
  BY <1>4, Zenon DEF Sums
<1>8. /\ Holds(m2, x, y, u, v, N)
      /\ Number(m2, low, N) + Bit(m2[c]) * Pow2[N]
             = u + ((Pow2[N] - 1) - v) + (IF ConstantOne = None THEN 0 ELSE 1)
  <2>1. PICK neg \in BOOLEAN : neg = TRUE
    BY Zenon
  <2>2. SumOf(m, m2, x, y, low, inter, ConstantOne, z[N + 1], neg, 6, N, M)
    BY <1>7, <2>1, Zenon
  <2>3. SumHeld(m2, x, y, low, inter, ConstantOne, z[N + 1], u, v, neg, N)
    BY <2>2, SumOfLoaded, ZenonT(30)
  <2> QED BY <2>1, <2>3, Zenon DEF SumHeld, c
<1>9. PICK s \in Int, b \in {0, 1}, q \in Nat \ {0} :
          s = Number(m2, low, N) /\ b = Bit(m2[c]) /\ q = Pow2[N]
  <2>1. Number(m2, low, N) \in Int /\ Bit(m2[c]) \in {0, 1}
    BY NumberInt, BitType
  <2>2. Pow2[N] \in Nat \ {0}
    BY Pow2Step
  <2> QED BY <2>1, <2>2, Zenon
<1>10. s \in 0..(q - 1) /\ u \in 0..(q - 1) /\ v \in 0..(q - 1)
  BY <1>9, NumberBound
<1>11. s + b * q = u + ((q - 1) - v) + 1
  <2>1. (IF ConstantOne = None THEN 0 ELSE 1) = 1
    BY DEF ConstantOne, None
  <2> QED BY <1>8, <1>9, <2>1, Zenon
<1>12. s = (u - v) % q
  <2>1. PICK a \in Int, e \in Int : a = u - v /\ e = b - 1
    BY <1>10
  <2>2. a = s + e * q
    BY <1>10, <1>11, <2>1
  <2> QED BY <1>10, <2>1, <2>2, Remainder, SMTT(30), Z3T(30)
<1>13. b = 1 <=> u >= v
  BY <1>10, <1>11
<1>14. m2[c] <=> b = 1
  BY <1>9 DEF Bit
<1>15. ResultOf("sub", m2, z, low, u, v, N)
  <2>1. Number(m2, low, N) = (u - v) % Pow2[N] /\ (m2[z[N + 1]] <=> u >= v)
    BY <1>5, <1>9, <1>12, <1>13, <1>14, SMTT(30), Z3T(30)
  <2> QED BY <2>1, ZenonT(30) DEF ResultOf
<1> QED
  BY <1>1, <1>6, <1>7, <1>8, <1>15 DEF Computes

\* A run of program p from operands to result: t are the memories it goes
\* through.
SumTrace(t, p, op, x, y, z, low, u, v, N, M) ==
    /\ Trace(t, p, M) /\ Len(p) = IF op = "sub" THEN 20 * N + 1 ELSE 18 * N + 1
    /\ Holds(t[Len(p)], x, y, u, v, N) /\ ResultOf(op, t[Len(p)], z, low, u, v, N)

\* The routines have such runs.
LEMMA SumRuns ==
    ASSUME NEW M \in Nat, NEW N \in Nat \ {0}, NEW op \in {"add", "inc", "sub"},
           NEW x, NEW y, NEW z, NEW low, NEW inter,
           Arranged(x, y, z, low, inter, N, IF op = "inc" THEN N ELSE N + 1,
                    IF op = "sub" THEN 6 ELSE 5, M),
           NEW u \in 0..(Pow2[N] - 1), NEW v \in 0..(Pow2[N] - 1), NEW m \in Memories(M),
           Holds(m, x, y, u, v, N)
    PROVE  \E t : /\ SumTrace(t, RoutineOf(op, x, y, z, low, inter, N), op, x, y, z, low, u, v, N, M)
                  /\ t[0] = m
<1>1. Computes(RoutineOf(op, x, y, z, low, inter, N), op, m, x, y, z, low, u, v, N, M)
  <2>1. CASE op = "add"
    <3>1. Arranged(x, y, z, low, inter, N, N + 1, 5, M)
      BY <2>1
    <3> QED BY <2>1, <3>1, AddComputes
  <2>2. CASE op = "inc"
    <3>1. Arranged(x, y, z, low, inter, N, N, 5, M)
      BY <2>2
    <3> QED BY <2>2, <3>1, IncComputes
  <2>3. CASE op = "sub"
    <3>1. Arranged(x, y, z, low, inter, N, N + 1, 6, M)
      BY <2>3
    <3> QED BY <2>3, <3>1, SubComputes
  <2> QED BY <2>1, <2>2, <2>3, SMTT(30), Z3T(30)
<1> DEFINE p == RoutineOf(op, x, y, z, low, inter, N)
<1> HIDE DEF p
<1>2. PICK m2 : Leads(p, m, m2, M) /\ Holds(m2, x, y, u, v, N) /\ ResultOf(op, m2, z, low, u, v, N)
  BY <1>1, Zenon DEF Computes, p
<1>3. Len(p) = IF op = "sub" THEN 20 * N + 1 ELSE 18 * N + 1
  BY <1>1, Zenon DEF Computes, p
<1>4. PICK t : Trace(t, p, M) /\ t[0] = m /\ t[Len(p)] = m2
  BY <1>2, Zenon DEF Leads
<1>5. SumTrace(t, p, op, x, y, z, low, u, v, N, M)
  BY <1>2, <1>3, <1>4, ZenonT(30) DEF SumTrace
<1> QED
  BY <1>4, <1>5, SMTT(30), Z3T(30) DEF p

\* Every step of a run performs a legal gate.
LEMMA TraceGate ==
    ASSUME NEW M \in Nat, NEW p, NEW t, Trace(t, p, M)
    PROVE  /\ Len(p) \in Nat
           /\ \A k \in 1..Len(p) :
                  /\ Legal(p[k]) /\ p[k].op \in {"INIT0", "INIT1", "NOT", "NOR"}
                  /\ p[k].out \in 1..M /\ t[k] = perform(t[k - 1], p[k])
<1>1. p \in Seq(LegalGates(M)) /\ \A k \in 1..Len(p) : t[k] = perform(t[k - 1], p[k])
  BY DEF Trace
<1>2. Len(p) \in Nat
  BY <1>1
<1>3. ASSUME NEW k \in 1..Len(p)
      PROVE  Legal(p[k]) /\ p[k].op \in {"INIT0", "INIT1", "NOT", "NOR"} /\ p[k].out \in 1..M
  <2>1. p[k] \in LegalGates(M)
    BY <1>1
  <2> QED BY <2>1, Zenon DEF LegalGates
<1> QED
  BY <1>1, <1>2, <1>3, SMTT(30), Z3T(30)

=============================================================================
