--------------------------- MODULE PimArrayProofs ---------------------------
(***************************************************************************)
(* What the array simulator does with the sums of AritPIM, additions and   *)
(* subtractions of every width: the invariant says where in the run of the *)
(* routine the row is, and that this run ends with the result.             *)
(***************************************************************************)
EXTENDS PimArray, SerialPimProofs

\* The columns of the row, the lower cells of its result and its free cells.
columns == JobList[job].num_cols
low_ == SubSeq(z_, 1, N_)
inter_ == Cells(2 * N_ + ZLen(op_, N_), columns - (2 * N_ + ZLen(op_, N_)))

\* A row that adds or subtracts: numbers of N_ bits, in columns enough for the
\* cells the routine takes.
SumRow ==
    /\ op_ \in {"add", "inc", "sub"}
    /\ N_ \in Nat \ {0} /\ columns \in Nat /\ JobList[job].fills \subseteq BOOLEAN
    /\ columns >= 2 * N_ + ZLen(op_, N_) + (IF op_ = "sub" THEN 6 ELSE 5)
    /\ program = ProgramOf(op_, N_, Ne_, columns)
    /\ operands \in (0..(Pow2[N_] - 1)) \X (0..(Pow2[N_] - 1))

\* The row is where it should be in a run of its program.
OnTrack ==
    \E t : /\ SumTrace(t, program, op_, x_, y_, z_, low_, operands[1], operands[2], N_, columns)
           /\ pc \in 1..(Len(program) + 1) /\ memory = t[pc - 1]
           /\ latency = pc - 1 /\ maxUsed \in 0..columns

\* A row has one of the jobs, with operands of this job.
HasJob == job \in 1..Len(JobList) /\ operands \in Operands(JobList[job])

\* The inductive invariant: a row that adds or subtracts is on track.
SumInvariant == HasJob /\ (op_ \in SumOps => SumRow /\ OnTrack)

-----------------------------------------------------------------------------
\* Where the operands, the result and the free cells of such a row are.
LEMMA RowArranged ==
    ASSUME SumRow
    PROVE  /\ Arranged(x_, y_, z_, low_, inter_, N_, IF op_ = "inc" THEN N_ ELSE N_ + 1,
                       IF op_ = "sub" THEN 6 ELSE 5, columns)
           /\ program = RoutineOf(op_, x_, y_, z_, low_, inter_, N_)
           /\ Len(x_) = N_ /\ Len(y_) = N_ /\ Len(z_) = ZLen(op_, N_) /\ Len(low_) = N_
           /\ DOMAIN x_ = 1..N_ /\ DOMAIN y_ = 1..N_
<1> DEFINE op == op_
           N == N_
           M == columns
           zl == ZLen(op, N)
<1>1. /\ op \in {"add", "inc", "sub"} /\ N \in Nat \ {0} /\ M \in Nat
      /\ M >= 2 * N + zl + (IF op = "sub" THEN 6 ELSE 5) /\ program = ProgramOf(op, N, Ne_, M)
  BY DEF SumRow
<1>2. zl = IF op = "inc" THEN N ELSE N + 1
  BY <1>1 DEF ZLen
<1>3. /\ x_ = XCells(op, N, M) /\ y_ = YCells(op, N, M) /\ z_ = ZCells(op, N, M)
      /\ low_ = SubSeq(z_, 1, N) /\ inter_ = Cells(2 * N + zl, M - (2 * N + zl))
  BY DEF x_, y_, z_, low_, inter_, columns
<1> HIDE DEF op, N, M
<1>4. XLen(op, N) = N /\ YLen(op, N) = N
  BY <1>1 DEF XLen, YLen
<1>5. x_ = Cells(0, N) /\ y_ = Cells(N, N) /\ z_ = Cells(2 * N, zl)
  <2>1. XCells(op, N, M) = Cells(0, XLen(op, N))
    BY <1>1 DEF XCells, Partitioned
  <2>2. YCells(op, N, M) = Cells(XLen(op, N), YLen(op, N))
    BY <1>1 DEF YCells
  <2>3. ZCells(op, N, M) = Cells(XLen(op, N) + YLen(op, N), ZLen(op, N))
    BY <1>1 DEF ZCells, Partitioned
  <2>4. N + N = 2 * N
    BY <1>1
  <2> QED BY <1>3, <1>4, <2>1, <2>2, <2>3, <2>4, Zenon
<1> HIDE DEF zl
<1>6. Arranged(x_, y_, z_, low_, inter_, N, zl, IF op = "sub" THEN 6 ELSE 5, M)
  <2>1. zl \in {N, N + 1} /\ (IF op = "sub" THEN 6 ELSE 5) \in Nat \ {0}
    BY <1>2
  <2> QED BY <1>1, <1>3, <1>5, <2>1, Zenon DEF Arranged
<1>7. /\ Len(x_) = N /\ Len(y_) = N /\ Len(z_) = zl /\ Len(low_) = N
      /\ DOMAIN x_ = 1..N /\ DOMAIN y_ = 1..N
  BY <1>1, <1>6, ArrangedCells
<1>8. Len(x_) + Len(y_) + Len(z_) = 2 * N + zl
  BY <1>1, <1>2, <1>7
<1>9. ProgramOf(op, N, Ne_, M) = RoutineOf(op, x_, y_, z_, low_, inter_, N)
  <2> DEFINE x == XCells(op, N, M)
             y == YCells(op, N, M)
             z == ZCells(op, N, M)
             used == Len(x) + Len(y) + Len(z)
             inter == Cells(used, M - used)
  <2>1. inter = inter_
    BY <1>3, <1>8, Zenon
  <2>2. CASE op = "add"
    <3>1. ProgramOf(op, N, Ne_, M) = fixedAddition(x, y, SubSeq(z, 1, N), inter, None, z[N + 1])
      BY <2>2 DEF ProgramOf
    <3>2. RoutineOf(op, x_, y_, z_, low_, inter_, N) = fixedAddition(x_, y_, low_, inter_, None, z_[N + 1])
      BY <2>2 DEF RoutineOf
    <3> QED BY <1>3, <2>1, <3>1, <3>2, Zenon
  <2>3. CASE op = "inc"
    <3>1. ProgramOf(op, N, Ne_, M) = fixedAddition(x, y, SubSeq(z, 1, N), inter, ConstantOne, None)
      BY <2>3 DEF ProgramOf
    <3>2. RoutineOf(op, x_, y_, z_, low_, inter_, N) = fixedAddition(x_, y_, low_, inter_, ConstantOne, None)
      BY <2>3 DEF RoutineOf
    <3> QED BY <1>3, <2>1, <3>1, <3>2, Zenon
  <2>4. CASE op = "sub"
    <3>1. ProgramOf(op, N, Ne_, M) = fixedSubtraction(x, y, SubSeq(z, 1, N), inter, z[N + 1])
      BY <2>4 DEF ProgramOf
    <3>2. RoutineOf(op, x_, y_, z_, low_, inter_, N) = fixedSubtraction(x_, y_, low_, inter_, z_[N + 1])
      BY <2>4 DEF RoutineOf
    <3> QED BY <1>3, <2>1, <3>1, <3>2, Zenon
  <2> QED BY <1>1, <2>2, <2>3, <2>4
<1> QED
  BY <1>1, <1>2, <1>6, <1>7, <1>9, Zenon DEF op, N, M, zl

\* A row starts on track: its operands are in their cells, and the routine has
\* a run from there to the result, whatever the other cells hold.
LEMMA Starts ==
    ASSUME ArrayInit, SumRow
    PROVE  OnTrack
<1> DEFINE u == operands[1]
           v == operands[2]
<1>1. /\ op_ \in {"add", "inc", "sub"} /\ N_ \in Nat \ {0} /\ columns \in Nat
      /\ JobList[job].fills \subseteq BOOLEAN
      /\ u \in 0..(Pow2[N_] - 1) /\ v \in 0..(Pow2[N_] - 1)
  BY DEF SumRow
<1>2. /\ Arranged(x_, y_, z_, low_, inter_, N_, IF op_ = "inc" THEN N_ ELSE N_ + 1,
                  IF op_ = "sub" THEN 6 ELSE 5, columns)
      /\ program = RoutineOf(op_, x_, y_, z_, low_, inter_, N_)
      /\ Len(x_) = N_ /\ Len(y_) = N_
  BY RowArranged
<1>3. PICK fill \in BOOLEAN :
          memory = Written(Written([c \in 1..columns |-> fill], x_, Bits(u, N_)), y_, Bits(v, N_))
  BY <1>1, <1>2, Zenon DEF ArrayInit, columns
<1>4. memory \in Memories(columns) /\ Holds(memory, x_, y_, u, v, N_)
  BY <1>1, <1>2, <1>3, LoadedRow, Zenon
<1>5. PICK t : SumTrace(t, program, op_, x_, y_, z_, low_, u, v, N_, columns) /\ t[0] = memory
  <2>1. \E t : /\ SumTrace(t, RoutineOf(op_, x_, y_, z_, low_, inter_, N_), op_, x_, y_, z_, low_,
                           u, v, N_, columns)
               /\ t[0] = memory
    BY <1>1, <1>2, <1>4, SumRuns
  <2> QED BY <1>2, <2>1, Zenon
<1>6. Trace(t, program, columns)
  BY <1>5, Zenon DEF SumTrace
<1>7. Len(program) \in Nat
  BY <1>1, <1>6, TraceGate
<1>8. pc = 1 /\ latency = 0 /\ maxUsed = 0
  BY Zenon DEF ArrayInit
<1>9. pc \in 1..(Len(program) + 1) /\ pc - 1 = 0 /\ maxUsed \in 0..columns
  BY <1>1, <1>7, <1>8
<1> QED
  BY <1>5, <1>8, <1>9, Zenon DEF OnTrack

\* A row knows its job throughout.
LEMMA JobKept ==
    ASSUME job' = job, operands' = operands
    PROVE  /\ op_' = op_ /\ N_' = N_ /\ columns' = columns /\ program' = program
           /\ x_' = x_ /\ y_' = y_ /\ z_' = z_ /\ low_' = low_ /\ SumRow' = SumRow
BY Zenon DEF op_, N_, Ne_, columns, program, x_, y_, z_, low_, SumRow

\* A gate takes a row on track one memory further; a sum has no host accesses.
LEMMA StaysOnTrack ==
    ASSUME SumRow, OnTrack, [ArrayNext]_arrayVars
    PROVE  OnTrack'
<1>1. job' = job /\ operands' = operands
  BY Zenon DEF ArrayNext, PerformGate, Host, arrayVars
<1>2. /\ op_' = op_ /\ N_' = N_ /\ columns' = columns /\ program' = program
      /\ x_' = x_ /\ y_' = y_ /\ z_' = z_ /\ low_' = low_
  BY <1>1, JobKept
<1>3. columns \in Nat /\ op_ \in {"add", "inc", "sub"}
  BY Zenon DEF SumRow
<1>4. PICK t : /\ SumTrace(t, program, op_, x_, y_, z_, low_, operands[1], operands[2], N_, columns)
               /\ pc \in 1..(Len(program) + 1) /\ memory = t[pc - 1]
               /\ latency = pc - 1 /\ maxUsed \in 0..columns
  BY Zenon DEF OnTrack
<1>5. SumTrace(t, program, op_, x_, y_, z_, low_, operands[1], operands[2], N_, columns)'
  BY <1>1, <1>2, <1>4
<1>6. Trace(t, program, columns)
  BY <1>4, Zenon DEF SumTrace
<1>7. /\ Len(program) \in Nat
      /\ \A k \in 1..Len(program) :
             /\ IsGate(program[k]) /\ program[k].out \in 1..columns
             /\ t[k] = perform(t[k - 1], program[k])
  BY <1>3, <1>6, TraceGate DEF IsGate
<1>8. CASE PerformGate
  <2>1. pc \in 1..Len(program)
    BY <1>4, <1>7, <1>8 DEF PerformGate, Running
  <2>2. memory' = perform(memory, program[pc])
    <3>1. op_ \notin Partitioned
      BY <1>3 DEF Partitioned
    <3> QED BY <1>8, <3>1, Zenon DEF PerformGate
  <2>3. /\ latency' = latency + 1 /\ pc' = pc + 1
        /\ maxUsed' = IF program[pc].out > maxUsed THEN program[pc].out ELSE maxUsed
    BY <1>8, Zenon DEF PerformGate
  <2>4. pc' \in 1..(Len(program) + 1) /\ pc' - 1 = pc /\ latency' = pc' - 1
    BY <1>4, <1>7, <2>1, <2>3
  <2>5. maxUsed' \in 0..columns
    BY <1>3, <1>4, <1>7, <2>1, <2>3
  <2>6. memory' = t[pc' - 1]
    BY <1>4, <1>7, <2>1, <2>2, <2>4, Zenon
  <2> QED BY <1>2, <1>5, <2>4, <2>5, <2>6 DEF OnTrack
<1>9. CASE Host
  <2>1. pc \in 1..Len(program)
    BY <1>4, <1>7, <1>9 DEF Host, Running
  <2> QED BY <1>7, <1>9, <2>1, Zenon DEF Host
<1>10. CASE UNCHANGED arrayVars
  BY <1>2, <1>4, <1>5, <1>10 DEF OnTrack, arrayVars
<1> QED
  BY <1>8, <1>9, <1>10 DEF ArrayNext

\* The assumption on the jobs is what a sum needs.
LEMMA SumsHaveRows ==
    ASSUME HasJob, op_ \in SumOps
    PROVE  SumRow
<1>1. JobList[job].op \in SumOps /\ job \in 1..Len(JobList)
  BY Zenon DEF HasJob, op_
<1> DEFINE j == JobList[job]
<1>2. /\ j.N \in Nat \ {0} /\ j.num_cols \in Nat /\ j.fills \subseteq BOOLEAN
      /\ j.num_cols >= 2 * j.N + ZLen(j.op, j.N) + (IF j.op = "sub" THEN 6 ELSE 5)
      /\ j.program = ProgramOf(j.op, j.N, j.Ne, j.num_cols)
      /\ Operands(j) \subseteq (0..(Pow2[j.N] - 1)) \X (0..(Pow2[j.N] - 1))
  BY <1>1, JobsAssumption, Zenon
<1>3. operands \in (0..(Pow2[j.N] - 1)) \X (0..(Pow2[j.N] - 1))
  BY <1>2, Zenon DEF HasJob
<1> QED
  BY <1>1, <1>2, <1>3, Zenon DEF SumRow, SumOps, op_, N_, Ne_, columns, program

\* Whatever the jobs, a row that adds or subtracts stays on track: its memory is
\* at each gate the one that a run from its operands to the result has there.
THEOREM SumsOnTrack == ArraySpec => []SumInvariant
<1>1. ArrayInit => SumInvariant
  <2>1. ArrayInit => HasJob
    BY Zenon DEF ArrayInit, HasJob
  <2> QED BY <2>1, SumsHaveRows, Starts, Zenon DEF SumInvariant
<1>2. SumInvariant /\ [ArrayNext]_arrayVars => SumInvariant'
  <2> SUFFICES ASSUME SumInvariant, [ArrayNext]_arrayVars PROVE SumInvariant'
    OBVIOUS
  <2>1. job' = job /\ operands' = operands
    BY Zenon DEF ArrayNext, PerformGate, Host, arrayVars
  <2>2. HasJob'
    BY <2>1, Zenon DEF SumInvariant, HasJob
  <2>3. op_' = op_ /\ SumRow' = SumRow
    BY <2>1, JobKept
  <2>4. op_ \in SumOps => OnTrack'
    BY StaysOnTrack DEF SumInvariant
  <2>5. op_ \in SumOps => SumRow
    BY Zenon DEF SumInvariant
  <2> QED BY <2>2, <2>3, <2>4, <2>5, Zenon DEF SumInvariant
<1> QED
  BY <1>1, <1>2, PTL DEF ArraySpec

-----------------------------------------------------------------------------
\* A row on track performs legal gates only.
LEMMA TrackLegal ==
    ASSUME SumRow, OnTrack
    PROVE  GatesLegal
<1>1. columns \in Nat /\ op_ \in {"add", "inc", "sub"}
  BY Zenon DEF SumRow
<1>2. PICK t : Trace(t, program, columns) /\ pc \in 1..(Len(program) + 1)
  BY Zenon DEF OnTrack, SumTrace
<1>3. Len(program) \in Nat /\ \A k \in 1..Len(program) : Legal(program[k])
  BY <1>1, <1>2, TraceGate
<1>4. Running => pc \in 1..Len(program)
  BY <1>2, <1>3 DEF Running
<1>5. op_ \notin Partitioned
  BY <1>1 DEF Partitioned
<1> QED
  BY <1>3, <1>4, <1>5, Zenon DEF GatesLegal

\* What a row on track has come to when it has finished.
Ended ==
    /\ Holds(memory, x_, y_, operands[1], operands[2], N_)
    /\ ResultOf(op_, memory, z_, low_, operands[1], operands[2], N_)
    /\ latency = (IF op_ = "sub" THEN 20 * N_ + 1 ELSE 18 * N_ + 1)
    /\ maxUsed <= columns

\* After its last gate a row on track is in the last memory of its run.
LEMMA TrackEnds ==
    ASSUME SumRow, OnTrack, Finished
    PROVE  Ended
<1>1. columns \in Nat
  BY Zenon DEF SumRow
<1>2. PICK t : /\ SumTrace(t, program, op_, x_, y_, z_, low_, operands[1], operands[2], N_, columns)
               /\ pc \in 1..(Len(program) + 1) /\ memory = t[pc - 1]
               /\ latency = pc - 1 /\ maxUsed \in 0..columns
  BY Zenon DEF OnTrack
<1>3. /\ Trace(t, program, columns)
      /\ Len(program) = (IF op_ = "sub" THEN 20 * N_ + 1 ELSE 18 * N_ + 1)
      /\ Holds(t[Len(program)], x_, y_, operands[1], operands[2], N_)
      /\ ResultOf(op_, t[Len(program)], z_, low_, operands[1], operands[2], N_)
  BY <1>2, Zenon DEF SumTrace
<1>4. Len(program) \in Nat
  BY <1>1, <1>3, TraceGate
<1>5. pc - 1 = Len(program) /\ maxUsed <= columns
  BY <1>1, <1>2, <1>4 DEF Finished
<1> QED
  BY <1>2, <1>3, <1>5, Zenon DEF Ended

\* A value in the memory is the number its cells hold.
LEMMA ValueIsNumber ==
    ASSUME NEW cells
    PROVE  Value(cells) = Number(memory, cells, Len(cells))
BY Zenon DEF Value, Number

\* A finished row still has its operands, within its columns.
LEMMA EndedKept ==
    ASSUME SumRow, Ended
    PROVE  OperandsKept
<1>1. N_ \in Nat /\ columns \in Nat /\ op_ \in {"add", "inc", "sub"}
  BY DEF SumRow
<1>2. op_ \notin Partitioned
  BY <1>1 DEF Partitioned
<1>3. Len(x_) = N_ /\ Len(y_) = N_ /\ DOMAIN x_ = 1..N_ /\ DOMAIN y_ = 1..N_
  BY RowArranged
<1>4. \A i \in 1..N_ : /\ memory[x_[i]] = Bits(operands[1], N_)[i]
                       /\ memory[y_[i]] = Bits(operands[2], N_)[i]
  BY Zenon DEF Ended, Holds
<1>5. maxUsed <= columns \div 1
  <2>1. columns \div 1 = columns
    BY <1>1
  <2> QED BY <2>1, Zenon DEF Ended
<1>6. /\ [i \in 1..N_ |-> memory[x_[i]]] = Bits(operands[1], N_)
      /\ [i \in 1..N_ |-> memory[y_[i]]] = Bits(operands[2], N_)
  <2>1. \A v : Bits(v, N_) = [i \in 1..N_ |-> Bits(v, N_)[i]]
    BY DEF Bits
  <2> QED BY <1>4, <2>1, Zenon
<1> QED
  BY <1>2, <1>3, <1>5, <1>6, Zenon DEF OperandsKept, columns

\* A finished row has its result.
LEMMA EndedRight ==
    ASSUME SumRow, Ended
    PROVE  ArithmeticRight
<1>1. N_ \in Nat /\ op_ \in {"add", "inc", "sub"}
  BY DEF SumRow
<1>2. Len(z_) = ZLen(op_, N_) /\ Len(low_) = N_
  BY RowArranged
<1>3. Value(z_) = Number(memory, z_, Len(z_)) /\ Value(low_) = Number(memory, low_, N_)
  BY <1>2, ValueIsNumber, Zenon
<1>4. ResultOf(op_, memory, z_, low_, operands[1], operands[2], N_)
  BY Zenon DEF Ended
<1>5. CASE op_ = "add"
  <2>1. Len(z_) = N_ + 1
    BY <1>2, <1>5 DEF ZLen
  <2>2. Value(z_) = operands[1] + operands[2]
    BY <1>3, <1>4, <1>5, <2>1 DEF ResultOf
  <2> QED BY <1>5, <2>2 DEF ArithmeticRight
<1>6. CASE op_ = "inc"
  <2>1. Value(low_) = (operands[1] + operands[2] + 1) % Pow2[N_]
    BY <1>3, <1>4, <1>6 DEF ResultOf
  <2> QED BY <1>6, <2>1 DEF ArithmeticRight, low_
<1>7. CASE op_ = "sub"
  <2>1. /\ Value(low_) = (operands[1] - operands[2]) % Pow2[N_]
        /\ memory[z_[N_ + 1]] <=> operands[1] >= operands[2]
    BY <1>3, <1>4, <1>7 DEF ResultOf
  <2> QED BY <1>7, <2>1 DEF ArithmeticRight, low_
<1> QED
  BY <1>1, <1>5, <1>6, <1>7

\* A finished row has taken the documented cycles.
LEMMA EndedCycles ==
    ASSUME SumRow, Finished => Ended
    PROVE  CyclesAsDocumented
<1>1. op_ \in {"add", "inc", "sub"}
  BY DEF SumRow
<1>2. op_ \notin Partitioned
  BY <1>1 DEF Partitioned
<1>3. Finished => latency = (IF op_ = "sub" THEN 20 * N_ + 1 ELSE 18 * N_ + 1)
  BY Zenon DEF Ended
<1> QED
  BY <1>1, <1>2, <1>3, SMTT(30), Z3T(30) DEF CyclesAsDocumented

\* The simulator's assertions hold for every gate of an addition or subtraction
\* of any width, from any memory: no gate reads its own output or a cell twice.
THEOREM SumsLegal == ArraySpec => [](op_ \in SumOps => GatesLegal)
<1>1. SumInvariant => (op_ \in SumOps => GatesLegal)
  BY TrackLegal DEF SumInvariant
<1> QED
  BY <1>1, SumsOnTrack, PTL

\* An addition or subtraction leaves its operands as they were and stays within
\* the columns of the array.
THEOREM SumsKeepOperands == ArraySpec => [](op_ \in SumOps => OperandsKept)
<1>1. SumInvariant => (op_ \in SumOps => OperandsKept)
  <2>1. SumRow /\ OnTrack /\ Finished => OperandsKept
    BY TrackEnds, EndedKept
  <2>2. ~Finished => OperandsKept
    BY Zenon DEF OperandsKept
  <2> QED BY <2>1, <2>2 DEF SumInvariant
<1> QED
  BY <1>1, SumsOnTrack, PTL

\* It ends with the sum and its carry, or the difference and its borrow, for
\* operands of every width and whatever the other cells held before.
THEOREM SumsRight == ArraySpec => [](op_ \in SumOps => ArithmeticRight)
<1>1. SumInvariant => (op_ \in SumOps => ArithmeticRight)
  <2>1. SumRow /\ OnTrack /\ Finished => ArithmeticRight
    BY TrackEnds, EndedRight
  <2>2. ~Finished => ArithmeticRight
    BY Zenon DEF ArithmeticRight
  <2> QED BY <2>1, <2>2 DEF SumInvariant
<1> QED
  BY <1>1, SumsOnTrack, PTL

\* It takes the 18 cycles per bit of an addition or the 20 of a subtraction, and
\* one for the carry in.
THEOREM SumsCycles == ArraySpec => [](op_ \in SumOps => CyclesAsDocumented)
<1>1. SumInvariant => (op_ \in SumOps => CyclesAsDocumented)
  BY TrackEnds, EndedCycles DEF SumInvariant
<1> QED
  BY <1>1, SumsOnTrack, PTL
=============================================================================
