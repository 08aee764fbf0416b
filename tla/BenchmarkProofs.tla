-------------------------- MODULE BenchmarkProofs --------------------------
(***************************************************************************)
(* Proofs about the DDR benchmark, for every number of points and every    *)
(* polling limit, wherever ps7_init gives up and whenever the host stops   *)
(* the CPU.                                                                *)
(***************************************************************************)
EXTENDS Benchmark, TLAPS

-----------------------------------------------------------------------------
(* The tables and the values.                                              *)

\* In each table of ps7_init an instruction other than EXIT has a successor.
LEMMA TablesEnd ==
  /\ Len(Tables) = 5
  /\ \A t \in 1..5 : 1 \in 1..Len(Tables[t])
  /\ \A t \in 1..5 : \A o \in 1..Len(Tables[t]) :
        Tables[t][o] # "EXIT" => o + 1 \in 1..Len(Tables[t])
  <1> USE DEF Tables, ps7_mio_init_data, ps7_pll_init_data, ps7_clock_init_data,
              ps7_ddr_init_data, ps7_peripherals_init_data
  <1>1. Len(Tables) = 5
    OBVIOUS
  <1>2. ASSUME NEW t \in 1..5 PROVE 1 \in 1..Len(Tables[t])
    OBVIOUS
  <1>3. ASSUME NEW t \in 1..5, NEW o \in 1..Len(Tables[t]), Tables[t][o] # "EXIT"
        PROVE  o + 1 \in 1..Len(Tables[t])
    <2>1. ASSUME t \in {1, 3, 5} PROVE Len(Tables[t]) = 3 /\ Tables[t][3] = "EXIT"
      BY <2>1
    <2>2. ASSUME t = 2 PROVE Len(Tables[t]) = 6 /\ Tables[t][6] = "EXIT"
      BY <2>2
    <2>3. ASSUME t = 4 PROVE Len(Tables[t]) = 3 /\ Tables[t][3] = "EXIT"
      BY <2>3
    <2> HIDE DEF Tables
    <2>4. CASE t = 2
      BY <1>3, <2>2, <2>4
    <2>5. CASE t \in {1, 3, 5} \/ t = 4
      BY <1>3, <2>1, <2>3, <2>5
    <2>6. QED
      BY <2>4, <2>5
  <1>4. QED
    BY <1>1, <1>2, <1>3

\* The words of the results, and the marker among them.
LEMMA CellsAre ==
  /\ SUMMARY \in Nat /\ SUMMARY > MARKER
  /\ MARKER \in Cells
  /\ \A w \in Cells : w \in Nat /\ w <= SUMMARY + 4
  BY PointsAssumption DEF SUMMARY, MARKER, Cells

\* No result and no started marker is the completed marker.
LEMMA CompletedDiffers ==
  /\ Started # Completed
  /\ \A w \in Cells : Result(w) # Completed
  <1>1. Started # Completed
    BY DEF Started, Completed, Value
  <1>2. ASSUME NEW w \in Cells PROVE Result(w) # Completed
    <2>1. w \in Nat /\ SUMMARY \in Nat
      BY CellsAre
    <2>2. (w % 4) + 1 \in 1..4
      BY <2>1
    <2>3. Field[(w % 4) + 1] # "0xFFFFFFFF"
      BY <2>2 DEF Field
    <2>4. QED
      BY <2>3 DEF Result, Completed, Value
  <1>3. QED
    BY <1>1, <1>2

-----------------------------------------------------------------------------
(* One step of the CPU or of the host.                                     *)

\* The instructions of the tables keep table, op and polls in range, and touch
\* neither the programmable logic nor DDR.
LEMMA ConfigStep ==
  ASSUME Inductive,
         ConfigWrite \/ PollHit \/ PollMiss \/ PollTimeout \/ ConfigExit
  PROVE  /\ pc = "ps7_config" /\ pc' \in {"ps7_config", "Unlock"}
         /\ table' \in 1..Len(Tables) /\ op' \in 1..Len(Tables[table'])
         /\ polls' \in 0..POLL_TIME
         /\ slcr' \in BOOLEAN /\ ddr' \in BOOLEAN
         /\ pl' = pl /\ i' = i /\ mem' = mem
  <1>1. /\ table \in 1..5 /\ op \in 1..Len(Tables[table]) /\ polls \in 0..POLL_TIME
        /\ slcr \in BOOLEAN /\ ddr \in BOOLEAN
    BY TablesEnd DEF Inductive, TypeOK
  <1>2. CASE ConfigWrite
    <2>1. Tables[table][op] # "EXIT" /\ op' = op + 1 /\ table' = table /\ polls' = polls
      BY <1>2 DEF ConfigWrite, At, Instruction
    <2>2. op' \in 1..Len(Tables[table'])
      BY <1>1, <2>1, TablesEnd
    <2>3. QED
      BY <1>1, <1>2, <2>1, <2>2, TablesEnd DEF ConfigWrite, At
  <1>3. CASE PollHit
    <2>1. Tables[table][op] # "EXIT" /\ op' = op + 1 /\ table' = table /\ polls' = 0
      BY <1>3 DEF PollHit, At, Instruction
    <2>2. op' \in 1..Len(Tables[table'])
      <3>1. op + 1 \in 1..Len(Tables[table])
        BY <1>1, <2>1, TablesEnd
      <3>2. QED
        BY <2>1, <3>1
    <2>3. polls' \in 0..POLL_TIME
      BY <2>1, PollAssumption
    <2>4. QED
      BY <1>1, <1>3, <2>1, <2>2, <2>3, TablesEnd DEF PollHit, At
  <1>4. CASE PollMiss
    <2>1. polls' \in 0..POLL_TIME
      BY <1>1, <1>4, PollAssumption DEF PollMiss
    <2>2. QED
      BY <1>1, <1>4, <2>1, TablesEnd DEF PollMiss, At
  <1>5. CASE PollTimeout
    BY <1>1, <1>5, TablesEnd, Zenon DEF PollTimeout, At
  <1>6. CASE ConfigExit
    <2>1. table' \in 1..5 /\ op' \in 1..Len(Tables[table'])
      <3>1. CASE table < Len(Tables)
        <4>1. table' = table + 1 /\ op' = 1
          BY <1>6, <3>1 DEF ConfigExit
        <4>2. table' \in 1..5
          BY <1>1, <3>1, <4>1, TablesEnd
        <4>3. QED
          BY <4>1, <4>2, TablesEnd
      <3>2. CASE ~(table < Len(Tables))
        BY <1>1, <1>6, <3>2 DEF ConfigExit
      <3>3. QED
        BY <3>1, <3>2
    <2>2. QED
      BY <1>1, <1>6, <2>1, TablesEnd DEF ConfigExit, At
  <1>7. QED
    BY <1>2, <1>3, <1>4, <1>5, <1>6

\* A step that leaves pc, the index, DDR and the enabled logic as they are,
\* or moves only from the tables to enable_pl, keeps the invariant.
LEMMA ConfigInductive ==
  ASSUME Inductive, host' \in {"Running", "Stopped", "Reported", "Failed"},
         ConfigWrite \/ PollHit \/ PollMiss \/ PollTimeout \/ ConfigExit
  PROVE  Inductive'
  <1>1. /\ pc' \in {"ps7_config", "Unlock"}
        /\ table' \in 1..Len(Tables) /\ op' \in 1..Len(Tables[table'])
        /\ polls' \in 0..POLL_TIME
        /\ slcr' \in BOOLEAN /\ ddr' \in BOOLEAN
        /\ pl' = pl /\ i' = i /\ mem' = mem /\ i = 0
    BY ConfigStep DEF Inductive, Storing, Pc
  <1>2. TypeOK'
    BY <1>1 DEF Inductive, TypeOK, Pc
  <1>3. Enabling'
    BY <1>1 DEF Enabling, Main
  <1>4. Storing'
    BY <1>1 DEF Inductive, Storing, Pc
  <1>5. QED
    BY <1>2, <1>3, <1>4 DEF Inductive

\* enable_pl: the registers are unlocked, every part is enabled, and they are
\* locked again.
LEMMA EnableInductive ==
  ASSUME Inductive, host' \in {"Running", "Stopped", "Reported", "Failed"}, enable_pl
  PROVE  Inductive'
  <1>1. /\ table' = table /\ op' = op /\ polls' = polls /\ ddr' = ddr
        /\ i' = i /\ mem' = mem
    BY DEF enable_pl, Unlock, Enable, Lock
  <1>2. /\ pc \in {"Unlock", "Fclk", "Resets", "Shifters", "Lock"}
        /\ pc' \in {"Fclk", "Resets", "Shifters", "Lock", "Mark"}
        /\ slcr' \in BOOLEAN /\ pl' \subseteq {"Fclk", "Resets", "Shifters"}
    BY Zenon DEF enable_pl, Unlock, Enable, Lock, Inductive, TypeOK
  <1>3. TypeOK'
    BY <1>1, <1>2 DEF Inductive, TypeOK, Pc
  <1>4. Enabling'
    <2>1. CASE Unlock
      BY <2>1 DEF Unlock, Enabling, Main
    <2>2. CASE Enable("Fclk", "Resets")
      BY <2>2 DEF Enable, Inductive, Enabling, Main
    <2>3. CASE Enable("Resets", "Shifters")
      BY <2>3 DEF Enable, Inductive, Enabling, Main
    <2>4. CASE Enable("Shifters", "Lock")
      BY <2>4 DEF Enable, Inductive, Enabling, Main
    <2>5. CASE Lock
      BY <2>5 DEF Lock, Inductive, Enabling, Main
    <2>6. QED
      BY <2>1, <2>2, <2>3, <2>4, <2>5 DEF enable_pl
  <1>5. Storing'
    BY <1>1, <1>2 DEF Inductive, Storing, Pc
  <1>6. QED
    BY <1>3, <1>4, <1>5 DEF Inductive

\* benchmark_main keeps what boot has left, and its words in their types.
LEMMA MainTypes ==
  ASSUME Inductive, host' \in {"Running", "Stopped", "Reported", "Failed"},
         boot' = boot, pc' \in Pc, i' \in 0..(SUMMARY + 5), DOMAIN mem' = Cells,
         \A w \in Cells : mem'[w] \in {mem[w], Started, Completed, Result(w)}
  PROVE  TypeOK'
  <1>1. \A w \in Cells : mem[w] \in {Old, Started, Completed, Result(w)}
    BY DEF Inductive, TypeOK
  <1>2. \A w \in Cells : mem'[w] \in {Old, Started, Completed, Result(w)}
    BY <1>1
  <1>3. QED
    BY <1>2 DEF Inductive, TypeOK, boot

\* From enable_pl's end on main keeps the logic enabled and the lock.
LEMMA MainEnabled ==
  ASSUME Inductive, boot' = boot, pc \in Main, pc' \in Main \union {"BusLock"}
  PROVE  Enabling'
  BY DEF Inductive, Enabling, Main, boot

\* A store changes one word, or locks up the bus.
LEMMA StoreEffect ==
  ASSUME Inductive, NEW w \in Cells, NEW value, NEW next, StoreWord(w, value, next)
  PROVE  /\ DOMAIN mem' = Cells
         /\ \/ /\ pc' = next
               /\ mem'[w] = value
               /\ \A u \in Cells \ {w} : mem'[u] = mem[u]
            \/ pc' = "BusLock" /\ mem' = mem
  BY DEF Inductive, Storing, StoreWord

\* The started marker.
LEMMA MarkInductive ==
  ASSUME Inductive, host' \in {"Running", "Stopped", "Reported", "Failed"}, Mark
  PROVE  Inductive'
  <1>1. pc = "Mark" /\ boot' = boot /\ i' = i /\ i = 0
    BY DEF Mark, Inductive, Storing, Pc
  <1>2. /\ DOMAIN mem' = Cells
        /\ \/ /\ pc' = "Measure"
              /\ mem'[MARKER] = Started
              /\ \A u \in Cells \ {MARKER} : mem'[u] = mem[u]
           \/ pc' = "BusLock" /\ mem' = mem
    BY CellsAre, StoreEffect DEF Mark
  <1>3. i' \in 0..(SUMMARY + 5) /\ i' < N_POINTS
    BY <1>1, CellsAre, PointsAssumption
  <1>4. TypeOK'
    BY <1>1, <1>2, <1>3, MainTypes DEF Pc
  <1>5. Enabling'
    BY <1>1, <1>2, MainEnabled DEF Main
  <1>6. Storing'
    BY <1>2, <1>3, CompletedDiffers DEF Storing
  <1>7. QED
    BY <1>4, <1>5, <1>6 DEF Inductive

\* A measurement.
LEMMA MeasureInductive ==
  ASSUME Inductive, host' \in {"Running", "Stopped", "Reported", "Failed"}, Measure
  PROVE  Inductive'
  <1>1. /\ pc = "Measure" /\ boot' = boot /\ mem' = mem
        /\ DOMAIN mem = Cells /\ mem[MARKER] # Completed
    BY DEF Measure, Inductive, Storing
  <1>2. i \in Nat /\ SUMMARY = 4 * N_POINTS
    BY CellsAre DEF Inductive, TypeOK, SUMMARY
  <1>3. \/ pc' = "Measure" /\ i' = i + 1 /\ i' < N_POINTS
        \/ pc' = "Store" /\ i' = 0
    BY <1>1 DEF Measure
  <1>4. i' \in 0..(SUMMARY + 5) /\ 0 \in Cells
    BY <1>2, <1>3, PointsAssumption DEF Cells
  <1>5. TypeOK'
    BY <1>1, <1>3, <1>4, MainTypes DEF Pc
  <1>6. Enabling'
    BY <1>1, <1>3, MainEnabled DEF Main
  <1>7. \A w \in Cells : ~(w < 0)
    BY CellsAre
  <1>8. Storing'
    BY <1>1, <1>3, <1>4, <1>7 DEF Storing
  <1>9. QED
    BY <1>5, <1>6, <1>8 DEF Inductive

\* A word of the results: all below the index are of this run, and the last
\* one completes them.
LEMMA StoreInductive ==
  ASSUME Inductive, host' \in {"Running", "Stopped", "Reported", "Failed"}, Store
  PROVE  Inductive'
  <1>1. /\ pc = "Store" /\ boot' = boot /\ i' = i + 1 /\ i \in Cells
        /\ mem[MARKER] # Completed
        /\ \A w \in Cells : w < i => mem[w] = Result(w)
    BY DEF Store, Inductive, Storing
  <1>2. /\ DOMAIN mem' = Cells
        /\ \/ /\ pc' = IF i + 1 \in Cells THEN "Store" ELSE "Finish"
              /\ mem'[i] = Result(i)
              /\ \A u \in Cells \ {i} : mem'[u] = mem[u]
           \/ pc' = "BusLock" /\ mem' = mem
    BY <1>1, StoreEffect DEF Store
  <1>3. /\ i \in Nat /\ i' \in 0..(SUMMARY + 5)
        /\ i + 1 \notin Cells => \A w \in Cells : w < i + 1
        /\ \A w \in Cells : w < i + 1 => w < i \/ w = i
    BY <1>1, CellsAre DEF Cells
  <1>4. TypeOK'
    BY <1>1, <1>2, <1>3, MainTypes DEF Pc
  <1>5. Enabling'
    BY <1>1, <1>2, MainEnabled DEF Main
  <1>6. CASE pc' = "BusLock"
    BY <1>2, <1>4, <1>5, <1>6 DEF Storing, Inductive
  <1>7. CASE pc' # "BusLock"
    <2>1. \A w \in Cells : w < i + 1 => mem'[w] = Result(w)
      BY <1>1, <1>2, <1>3, <1>7
    <2>2. mem'[MARKER] # Completed
      BY <1>1, <1>2, <1>7, CellsAre, CompletedDiffers
    <2>3. CASE i + 1 \in Cells
      BY <1>1, <1>2, <1>7, <2>1, <2>2, <2>3, <1>4, <1>5 DEF Storing, Inductive
    <2>4. CASE i + 1 \notin Cells
      <3>1. \A w \in Cells : mem'[w] = Result(w)
        BY <1>3, <2>1, <2>4
      <3>2. pc' = "Finish"
        BY <1>2, <1>7, <2>4
      <3>3. QED
        BY <1>2, <3>1, <3>2, <2>2, <1>4, <1>5 DEF Storing, Inductive
    <2>5. QED
      BY <2>3, <2>4
  <1>8. QED
    BY <1>6, <1>7

\* The completed marker.
LEMMA FinishInductive ==
  ASSUME Inductive, host' \in {"Running", "Stopped", "Reported", "Failed"}, Finish
  PROVE  Inductive'
  <1>1. /\ pc = "Finish" /\ boot' = boot /\ i' = i
        /\ \A w \in Cells : mem[w] = Result(w)
    BY DEF Finish, Inductive, Storing
  <1>2. /\ DOMAIN mem' = Cells
        /\ \/ /\ pc' = "Spin"
              /\ mem'[MARKER] = Completed
              /\ \A u \in Cells \ {MARKER} : mem'[u] = mem[u]
           \/ pc' = "BusLock" /\ mem' = mem
    BY CellsAre, StoreEffect DEF Finish
  <1>3. i' \in 0..(SUMMARY + 5)
    BY <1>1 DEF Inductive, TypeOK
  <1>4. TypeOK'
    BY <1>1, <1>2, <1>3, MainTypes DEF Pc
  <1>5. Enabling'
    BY <1>1, <1>2, MainEnabled DEF Main
  <1>6. Storing'
    BY <1>1, <1>2 DEF Storing
  <1>7. QED
    BY <1>4, <1>5, <1>6 DEF Inductive

\* The host leaves the processor and DDR alone.
LEMMA HostInductive ==
  ASSUME Inductive, Host
  PROVE  Inductive'
  <1>1. /\ UNCHANGED <<pc, boot, i, mem>>
        /\ host' \in {"Running", "Stopped", "Reported", "Failed"}
    BY DEF Host, HostStop, HostRead, HostTimeout
  <1>2. TypeOK'
    BY <1>1 DEF Inductive, TypeOK, boot
  <1>3. Enabling' /\ Storing'
    BY <1>1 DEF Inductive, Enabling, Storing, boot
  <1>4. QED
    BY <1>2, <1>3 DEF Inductive

\* A machine out of reset.
LEMMA InitInductive == Init => Inductive
  <1> SUFFICES ASSUME Init PROVE Inductive
    OBVIOUS
  <1>1. /\ pc = "ps7_config" /\ table = 1 /\ op = 1 /\ polls = 0
        /\ slcr = FALSE /\ pl = {} /\ ddr = FALSE /\ i = 0 /\ host = "Running"
    BY DEF Init
  <1>2. DOMAIN mem = Cells /\ \A w \in Cells : mem[w] \in {Old, Completed}
    BY DEF Init
  <1>3. i \in 0..(SUMMARY + 5) /\ polls \in 0..POLL_TIME
    BY <1>1, CellsAre, PollAssumption
  <1>4. table \in 1..Len(Tables) /\ op \in 1..Len(Tables[table])
    BY <1>1, TablesEnd
  <1>5. TypeOK
    BY <1>1, <1>2, <1>3, <1>4, Zenon DEF TypeOK, Pc
  <1>6. Enabling
    BY <1>1 DEF Enabling, Main
  <1>7. Storing
    BY <1>1, <1>2 DEF Storing
  <1>8. QED
    BY <1>5, <1>6, <1>7 DEF Inductive

-----------------------------------------------------------------------------
\* Where main is tells what has been enabled and stored, for every number of
\* points and polls, with every outcome of ps7_init.
THEOREM InductiveHolds == Spec => []Inductive
  <1>1. Inductive /\ [Next]_vars => Inductive'
    <2> SUFFICES ASSUME Inductive, [Next]_vars PROVE Inductive'
      OBVIOUS
    <2>1. CASE Cpu
      <3>1. host' \in {"Running", "Stopped", "Reported", "Failed"}
        BY <2>1 DEF Cpu
      <3>2. CASE ConfigWrite \/ PollHit \/ PollMiss \/ PollTimeout \/ ConfigExit
        BY <3>1, <3>2, ConfigInductive
      <3>3. CASE enable_pl
        BY <3>1, <3>3, EnableInductive
      <3>4. CASE benchmark_main
        BY <3>1, <3>4, MarkInductive, MeasureInductive, StoreInductive, FinishInductive
           DEF benchmark_main
      <3>5. QED
        BY <2>1, <3>2, <3>3, <3>4 DEF Cpu
    <2>2. CASE Host
      BY <2>2, HostInductive
    <2>3. CASE UNCHANGED vars
      <3>1. TypeOK'
        BY <2>3 DEF vars, boot, Inductive, TypeOK
      <3>2. Enabling' /\ Storing'
        BY <2>3 DEF vars, boot, Inductive, Enabling, Storing
      <3>3. QED
        BY <3>1, <3>2 DEF Inductive
    <2>4. QED
      BY <2>1, <2>2, <2>3 DEF Next
  <1>2. QED
    BY <1>1, InitInductive, PTL DEF Spec

\* Every variable keeps its type.
THEOREM TypeCorrect == Spec => []TypeOK
  BY InductiveHolds, PTL DEF Inductive

\* The programmable logic is enabled before its first access, even when
\* ps7_init gave up half way.
THEOREM EnabledCorrect == Spec => []PlEnabledBeforeAccess
  <1>1. Inductive => PlEnabledBeforeAccess
    BY Zenon DEF Inductive, TypeOK, Enabling, Main, PlEnabledBeforeAccess
  <1>2. QED
    BY <1>1, InductiveHolds, PTL

\* The completed marker of a run is its last word.
THEOREM MarkerCorrect == Spec => []MarkerComesLast
  <1>1. Inductive => MarkerComesLast
    BY DEF Inductive, Storing, MarkerComesLast
  <1>2. QED
    BY <1>1, InductiveHolds, PTL

\* A report of a completed run has the values of every point, for every
\* number of points.
THEOREM ReportCorrect == Spec => []CompletedReportIsRight
  <1>1. Inductive => CompletedReportIsRight
    <2> SUFFICES ASSUME Inductive, pc = "Spin", NEW p \in Points
                 PROVE  /\ Cycles(p) = IF 4 * p = MARKER THEN None ELSE Value("cycles", p)
                        /\ \A f \in 1..3 : mem[4 * p + f] = Value(Field[f + 1], p)
      BY DEF CompletedReportIsRight
    <2>1. \A w \in Cells : mem[w] = IF w = MARKER THEN Completed ELSE Result(w)
      BY DEF Inductive, Storing
    <2>2. p \in Nat /\ p < N_POINTS /\ N_POINTS \in Nat
      BY PointsAssumption DEF Points
    <2>3. 4 * p \in Cells /\ 4 * p < SUMMARY
      BY <2>2 DEF Cells, SUMMARY
    <2>4. Result(4 * p) = Value("cycles", p)
      <3>1. (4 * p) % 4 = 0 /\ (4 * p) \div 4 = p
        BY <2>2
      <3>2. Field[1] = "cycles"
        BY DEF Field
      <3>3. QED
        BY <2>3, <3>1, <3>2 DEF Result
    <2>5. Cycles(p) = IF 4 * p = MARKER THEN None ELSE Value("cycles", p)
      BY <2>1, <2>3, <2>4, CompletedDiffers DEF Cycles
    <2>6. ASSUME NEW f \in 1..3 PROVE mem[4 * p + f] = Value(Field[f + 1], p)
      <3>1. /\ 4 * p + f \in Cells /\ 4 * p + f < SUMMARY /\ 4 * p + f # MARKER
            /\ (4 * p + f) % 4 = f /\ (4 * p + f) \div 4 = p
        BY <2>2 DEF Cells, SUMMARY, MARKER
      <3>2. Result(4 * p + f) = Value(Field[f + 1], p)
        BY <3>1 DEF Result
      <3>3. QED
        BY <2>1, <3>1, <3>2
    <2>7. QED
      BY <2>5, <2>6
  <1>2. QED
    BY <1>1, InductiveHolds, PTL
=============================================================================
