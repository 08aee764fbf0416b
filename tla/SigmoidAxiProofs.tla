-------------------------- MODULE SigmoidAxiProofs --------------------------
(***************************************************************************)
(* Proofs about sigmoid_top under any AXI4-Lite master, for every set of   *)
(* words, every core function and both kinds of core output.               *)
(***************************************************************************)
EXTENDS SigmoidAxi, TLAPS

-----------------------------------------------------------------------------
(* One edge of the wrapper, whoever drives its port: types.                *)

\* A word zero-extended to the bus is an unsigned 16-bit number.
LEMMA U16Range == \A v \in Word : U16(v) \in BusWord
  <1> SUFFICES ASSUME NEW v \in Word PROVE U16(v) \in BusWord
    OBVIOUS
  <1>1. MinWord \in Int /\ MaxWord \in Int
    BY DEF MinWord, MaxWord
  <1>2. v \in Int
    BY <1>1 DEF Word
  <1>3. U16(v) \in Int /\ 0 <= U16(v) /\ U16(v) <= MaxBusWord
    BY <1>2 DEF U16, MaxBusWord
  <1>4. MaxBusWord \in Int
    BY DEF MaxBusWord
  <1>5. QED
    BY <1>3, <1>4 DEF BusWord

\* The small numbers the control registers read as are bus words.
LEMMA SmallBusWords == 0 \in BusWord /\ 1 \in BusWord /\ 2 \in BusWord /\ 3 \in BusWord
  <1>1. MaxBusWord \in Int /\ 3 <= MaxBusWord
    BY DEF MaxBusWord
  <1>2. QED
    BY <1>1 DEF BusWord

\* The write channel keeps its registers in their types.
LEMMA WriteTypes ==
  ASSUME SlaveTypeOK, MasterTypeOK, WriteChannel
  PROVE  /\ aw_ready' \in BOOLEAN /\ w_ready' \in BOOLEAN
         /\ b_valid' \in BOOLEAN
         /\ x_reg' \in Words /\ start_reg' \in BOOLEAN
  <1>1. CASE WriteReset
    BY <1>1, WordsAssumption, Zenon DEF WriteReset
  <1>2. CASE WriteAccept
    BY <1>2 DEF WriteAccept, SlaveTypeOK, MasterTypeOK
  <1>3. CASE WriteIdle
    BY <1>3, Zenon DEF WriteIdle, SlaveTypeOK
  <1>4. QED
    BY <1>1, <1>2, <1>3 DEF WriteChannel

\* Every register reads as an unsigned 16-bit number.
LEMMA RegisterAtRange ==
  ASSUME SlaveTypeOK, NEW a \in Addr
  PROVE  RegisterAt(a) \in BusWord
  <1>1. x_reg \in Word /\ y_reg \in Word
    BY WordsAssumption, SigmoidAssumption DEF SlaveTypeOK, Results
  <1>2. U16(x_reg) \in BusWord /\ U16(y_reg) \in BusWord
    BY <1>1, U16Range
  <1>3. QED
    BY <1>2, SmallBusWords DEF RegisterAt, Addr, Bit, SlaveTypeOK

\* The read channel keeps its registers in their types.
LEMMA ReadTypes ==
  ASSUME SlaveTypeOK, MasterTypeOK, ReadChannel
  PROVE  ar_ready' \in BOOLEAN /\ r_valid' \in BOOLEAN /\ r_data' \in BusWord
  <1>1. CASE ReadReset
    BY <1>1, SmallBusWords, Zenon DEF ReadReset
  <1>2. CASE ReadAccept
    BY <1>2, RegisterAtRange DEF ReadAccept, MasterTypeOK
  <1>3. CASE ReadIdle
    BY <1>3, Zenon DEF ReadIdle, SlaveTypeOK
  <1>4. QED
    BY <1>1, <1>2, <1>3 DEF ReadChannel

\* The FSM keeps its registers in their types.
LEMMA FsmTypes ==
  ASSUME SlaveTypeOK, ProcessingFSM
  PROVE  /\ state' \in State /\ busy' \in BOOLEAN /\ done' \in BOOLEAN
         /\ sigmoid_x' \in Words /\ y_reg' \in Results \union {0}
  <1>1. CASE FsmReset
    BY <1>1, WordsAssumption, Zenon DEF FsmReset, State
  <1>2. CASE FsmIdle
    BY <1>2, Zenon DEF FsmIdle, SlaveTypeOK, State
  <1>3. CASE FsmLoad
    BY <1>3 DEF FsmLoad, SlaveTypeOK, State
  <1>4. CASE FsmWait
    BY <1>4 DEF FsmWait, SlaveTypeOK, State
  <1>5. CASE FsmStore
    BY <1>5, Zenon DEF FsmStore, SlaveTypeOK, State
  <1>6. QED
    BY <1>1, <1>2, <1>3, <1>4, <1>5 DEF ProcessingFSM

\* One edge keeps every register of the wrapper and the core in its type.
LEMMA SlaveTypes ==
  ASSUME SlaveTypeOK, MasterTypeOK, SlaveStep
  PROVE  SlaveTypeOK'
  <1>1. sigmoid_x' \in Words
    BY FsmTypes DEF SlaveStep
  <1>2. sigmoid_y' \in Results
    BY <1>1 DEF SlaveStep, CoreOutput, Results, SlaveTypeOK
  <1>3. Results' = Results
    BY DEF Results
  <1>4. QED
    BY <1>2, <1>3, WriteTypes, ReadTypes, FsmTypes DEF SlaveStep, SlaveTypeOK

-----------------------------------------------------------------------------
\* After reset the registers satisfy the inductive invariant.
LEMMA InitInductive == Init => Inductive
  <1> SUFFICES ASSUME Init PROVE Inductive
    OBVIOUS
  <1>1. Sigmoid(0) \in Results
    BY WordsAssumption DEF Results
  <1>2. SlaveTypeOK
    BY <1>1, WordsAssumption, SmallBusWords
      , Zenon DEF Init, SlaveInit, MasterInit, SlaveTypeOK, State
  <1>3. MasterTypeOK
    BY WordsAssumption, Zenon DEF Init, MasterInit, MasterTypeOK, Addr
  <1>4. TypeOK
    BY <1>2, <1>3, WordsAssumption DEF Init, TypeOK
  <1>5. /\ writesOpen + Bit(aw_ready) = Bit(b_valid)
        /\ readsOpen + Bit(ar_ready) = Bit(r_valid)
    BY DEF Init, SlaveInit, MasterInit, Bit
  <1>6. QED
    BY <1>4, <1>5 DEF Init, SlaveInit, MasterInit, Inductive

\* An edge keeps the signals of the master in their types.
LEMMA MasterTypes ==
  ASSUME MasterTypeOK, Master
  PROVE  MasterTypeOK'
  <1>1. awvalid' \in BOOLEAN /\ awaddr' \in Addr
    BY AddrsAssumption, Zenon DEF Master, AwChannel, NoAw, MasterTypeOK, Addr
  <1>2. wvalid' \in BOOLEAN /\ wdata' \in Words /\ wstrb0' \in BOOLEAN
    BY WordsAssumption, Zenon DEF Master, WChannel, NoW, MasterTypeOK
  <1>3. arvalid' \in BOOLEAN /\ araddr' \in Addr
    BY AddrsAssumption, Zenon DEF Master, ArChannel, NoAr, MasterTypeOK, Addr
  <1>4. QED
    BY <1>1, <1>2, <1>3 DEF Master, ResponseReady, Reset, MasterTypeOK

\* An edge keeps the history in its types.
LEMMA HistoryTypes ==
  ASSUME TypeOK, History
  PROVE  startX' \in Words /\ jobX' \in Words /\ prevX' \in Words
  BY WordsAssumption DEF TypeOK, SlaveTypeOK, History

\* One edge answers the writes as the counters expect: the response pending
\* is that of the write being acknowledged or of the one handshaken.
LEMMA WriteCounted ==
  ASSUME Inductive, WriteChannel, Master
  PROVE  /\ aw_ready' <=> w_ready'
         /\ aw_ready' => awvalid' /\ wvalid'
         /\ writesOpen' \in 0..1
         /\ writesOpen' + Bit(aw_ready') = Bit(b_valid')
         /\ start_reg' => b_valid'
  <1>a. /\ aw_ready \in BOOLEAN /\ w_ready \in BOOLEAN /\ b_valid \in BOOLEAN
        /\ writesOpen \in 0..1 /\ writesOpen + Bit(aw_ready) = Bit(b_valid)
        /\ aw_ready <=> w_ready
    BY DEF Inductive, TypeOK, SlaveTypeOK
  <1>1. CASE WriteReset
    <2>1. writesOpen' = 0
      BY <1>1 DEF WriteReset, Master, StillOpen
    <2>2. ~aw_ready' /\ ~w_ready' /\ ~b_valid' /\ ~start_reg'
      BY <1>1 DEF WriteReset
    <2>3. QED
      BY <2>1, <2>2 DEF Bit
  <1>2. CASE WriteAccept
    <2>1. writesOpen = 0 /\ ~aw_ready /\ ~w_ready
      <3>1. Bit(b_valid) = 0
        BY <1>2 DEF WriteAccept, Bit
      <3>2. writesOpen = 0 /\ Bit(aw_ready) = 0
        BY <1>a, <3>1 DEF Bit
      <3>3. QED
        BY <1>a, <3>2 DEF Bit
    <2>2. awvalid' /\ wvalid'
      BY <1>2, <2>1, Zenon DEF WriteAccept, Master, AwChannel, WChannel, NoAw, NoW
    <2>3. writesOpen' = 0
      BY <1>2, <2>1 DEF WriteAccept, Master, StillOpen, AwHandshake, BHandshake, Bit
    <2>4. aw_ready' /\ w_ready' /\ b_valid'
      BY <1>2 DEF WriteAccept
    <2>5. QED
      BY <2>2, <2>3, <2>4 DEF Bit
  <1>3. CASE WriteIdle
    <2>1. writesOpen' = writesOpen + Bit(aw_ready) - Bit(b_valid /\ bready)
      <3>1. AwHandshake <=> aw_ready
        BY DEF AwHandshake, Inductive
      <3>2. QED
        BY <1>3, <3>1 DEF WriteIdle, Master, StillOpen, BHandshake, Bit
    <2>2. ~aw_ready' /\ ~w_ready' /\ ~start_reg'
      BY <1>3 DEF WriteIdle
    <2>3. b_valid' <=> b_valid /\ ~bready
      BY <1>3, Zenon DEF WriteIdle
    <2>4. writesOpen' = Bit(b_valid')
      BY <1>a, <2>1, <2>3 DEF Bit
    <2>5. QED
      BY <2>2, <2>4 DEF Bit
  <1>4. QED
    BY <1>1, <1>2, <1>3 DEF WriteChannel

\* The same for reads.
LEMMA ReadCounted ==
  ASSUME Inductive, ReadChannel, Master
  PROVE  /\ ar_ready' => arvalid'
         /\ readsOpen' \in 0..1
         /\ readsOpen' + Bit(ar_ready') = Bit(r_valid')
  <1>a. /\ ar_ready \in BOOLEAN /\ r_valid \in BOOLEAN
        /\ readsOpen \in 0..1 /\ readsOpen + Bit(ar_ready) = Bit(r_valid)
    BY DEF Inductive, TypeOK, SlaveTypeOK
  <1>1. CASE ReadReset
    <2>1. readsOpen' = 0
      BY <1>1 DEF ReadReset, Master, StillOpen
    <2>2. ~ar_ready' /\ ~r_valid'
      BY <1>1 DEF ReadReset
    <2>3. QED
      BY <2>1, <2>2 DEF Bit
  <1>2. CASE ReadAccept
    <2>1. readsOpen = 0 /\ ~ar_ready
      <3>1. Bit(r_valid) = 0
        BY <1>2 DEF ReadAccept, Bit
      <3>2. readsOpen = 0 /\ Bit(ar_ready) = 0
        BY <1>a, <3>1 DEF Bit
      <3>3. QED
        BY <3>2 DEF Bit
    <2>2. arvalid'
      BY <1>2, <2>1, Zenon DEF ReadAccept, Master, ArChannel, NoAr
    <2>3. readsOpen' = 0
      BY <1>2, <2>1 DEF ReadAccept, Master, StillOpen, ArHandshake, RHandshake, Bit
    <2>4. ar_ready' /\ r_valid'
      BY <1>2 DEF ReadAccept
    <2>5. QED
      BY <2>2, <2>3, <2>4 DEF Bit
  <1>3. CASE ReadIdle
    <2>1. readsOpen' = readsOpen + Bit(ar_ready) - Bit(r_valid /\ rready)
      <3>1. ArHandshake <=> ar_ready
        BY DEF ArHandshake, Inductive
      <3>2. QED
        BY <1>3, <3>1 DEF ReadIdle, Master, StillOpen, RHandshake, Bit
    <2>2. ~ar_ready' /\ (r_valid' <=> r_valid /\ ~rready)
      BY <1>3, Zenon DEF ReadIdle
    <2>3. readsOpen' = Bit(r_valid')
      BY <1>a, <2>1, <2>2 DEF Bit
    <2>4. QED
      BY <2>2, <2>3 DEF Bit
  <1>4. QED
    BY <1>1, <1>2, <1>3 DEF ReadChannel

\* A start and the operand it was written with: no other write is carried
\* out by the edge on which the FSM takes the start.
LEMMA StartTracked ==
  ASSUME Inductive, WriteChannel, History
  PROVE  /\ start_reg' => startX' = x_reg'
         /\ rst_n /\ start_reg => x_reg' = x_reg
  <1> USE DEF Inductive, TypeOK, SlaveTypeOK, MasterTypeOK
  <1>1. CASE WriteReset
    BY <1>1 DEF WriteReset
  <1>2. CASE WriteAccept
    BY <1>2 DEF WriteAccept, History
  <1>3. CASE WriteIdle
    BY <1>3 DEF WriteIdle
  <1>4. QED
    BY <1>1, <1>2, <1>3 DEF WriteChannel

\* The FSM's status bits, and the operands its registers hold.
Pipeline ==
  /\ busy <=> state # "IDLE"
  /\ done => state = "IDLE"
  /\ state = "LOAD" => x_reg = jobX
  /\ sigmoid_x = IF state = "LOAD" THEN prevX ELSE jobX
  /\ Transparent => sigmoid_y = Sigmoid(sigmoid_x)
  /\ ~Transparent /\ state = "WAIT" => sigmoid_y = Sigmoid(prevX)
  /\ (state = "STORE" \/ done) =>
         y_reg = Sigmoid(IF Transparent THEN jobX ELSE prevX)

\* One edge moves the operands through the pipeline in step with the
\* history: LOAD samples the operand of the start, and WAIT stores what the
\* core shows at that edge.
LEMMA PipelineTracked ==
  ASSUME Inductive, SlaveStep, History
  PROVE  Pipeline'
  <1>1. sigmoid_y' = Sigmoid(IF Transparent THEN sigmoid_x' ELSE sigmoid_x)
    BY DEF SlaveStep, CoreOutput
  <1>2. Transparent => sigmoid_y' = Sigmoid(sigmoid_x')
    BY <1>1
  <1>3. CASE FsmReset
    <2>1. jobX' = 0 /\ prevX' = 0
      BY <1>3 DEF FsmReset, History
    <2>2. QED
      BY <1>2, <1>3, <2>1 DEF FsmReset, Pipeline
  <1>4. CASE FsmIdle
    <2>1. ~busy
      BY <1>4 DEF FsmIdle, Inductive
    <2>2. CASE start_reg
      <3>1. /\ state' = "LOAD" /\ busy' = TRUE /\ done' = FALSE
            /\ sigmoid_x' = sigmoid_x
        BY <1>4, <2>1, <2>2 DEF FsmIdle
      <3>2. jobX' = startX /\ prevX' = jobX
        BY <1>4, <3>1 DEF FsmIdle, History
      <3>3. x_reg' = startX
        BY <1>4, <2>2, StartTracked, Zenon DEF FsmIdle, Inductive, SlaveStep
      <3>4. sigmoid_x = jobX
        BY <1>4 DEF FsmIdle, Inductive
      <3>5. QED
        BY <1>2, <3>1, <3>2, <3>3, <3>4 DEF Pipeline
    <2>3. CASE ~start_reg
      <3>1. /\ state' = "IDLE" /\ busy' = busy /\ done' = FALSE
            /\ sigmoid_x' = sigmoid_x
        BY <1>4, <2>3 DEF FsmIdle
      <3>2. jobX' = jobX /\ prevX' = prevX
        BY <1>4, <3>1 DEF FsmIdle, History
      <3>3. sigmoid_x = jobX
        BY <1>4 DEF FsmIdle, Inductive
      <3>4. QED
        BY <1>2, <2>1, <3>1, <3>2, <3>3 DEF Pipeline
    <2>4. QED
      BY <2>2, <2>3
  <1>5. CASE FsmLoad
    <2>1. jobX' = jobX /\ prevX' = prevX
      BY <1>5 DEF FsmLoad, History
    <2>2. sigmoid_x = prevX /\ x_reg = jobX /\ busy /\ ~done
      BY <1>5 DEF FsmLoad, Inductive
    <2>3. QED
      BY <1>1, <1>2, <1>5, <2>1, <2>2 DEF FsmLoad, Pipeline
  <1>6. CASE FsmWait
    <2>1. jobX' = jobX /\ prevX' = prevX
      BY <1>6 DEF FsmWait, History
    <2>2. sigmoid_x = jobX /\ busy /\ ~done
      BY <1>6 DEF FsmWait, Inductive
    <2>3. sigmoid_y = Sigmoid(IF Transparent THEN jobX ELSE prevX)
      BY <1>6, <2>2 DEF FsmWait, Inductive
    <2>4. QED
      BY <1>2, <1>6, <2>1, <2>2, <2>3 DEF FsmWait, Pipeline
  <1>7. CASE FsmStore
    <2>1. jobX' = jobX /\ prevX' = prevX
      BY <1>7 DEF FsmStore, History
    <2>2. /\ sigmoid_x = jobX
          /\ y_reg = Sigmoid(IF Transparent THEN jobX ELSE prevX)
      BY <1>7 DEF FsmStore, Inductive
    <2>3. QED
      BY <1>2, <1>7, <2>1, <2>2 DEF FsmStore, Pipeline
  <1>8. QED
    BY <1>3, <1>4, <1>5, <1>6, <1>7 DEF SlaveStep, ProcessingFSM

\* An edge of the clock preserves the inductive invariant.
LEMMA NextInductive == Inductive /\ [Next]_vars => Inductive'
  <1> SUFFICES ASSUME Inductive, [Next]_vars PROVE Inductive'
    OBVIOUS
  <1>1. CASE UNCHANGED vars
    <2>1. /\ UNCHANGED <<aw_ready, w_ready, b_valid, x_reg, start_reg>>
          /\ UNCHANGED <<ar_ready, r_valid, r_data>>
          /\ UNCHANGED <<state, busy, done, sigmoid_x, y_reg, sigmoid_y>>
          /\ UNCHANGED <<rst_n, awvalid, awaddr, wvalid, wdata, wstrb0, bready>>
          /\ UNCHANGED <<arvalid, araddr, rready>>
          /\ UNCHANGED <<writesOpen, readsOpen, startX, jobX, prevX>>
      BY <1>1 DEF vars, slaveVars, writeRegs, readRegs, fsmRegs, masterVars,
         writeWires, readWires, history
    <2>2. TypeOK
      BY DEF Inductive
    <2>3. SlaveTypeOK'
      BY <2>1, <2>2 DEF TypeOK, SlaveTypeOK, Results
    <2>4. MasterTypeOK'
      BY <2>1, <2>2 DEF TypeOK, MasterTypeOK
    <2>5. TypeOK'
      BY <2>1, <2>2, <2>3, <2>4 DEF TypeOK
    <2>6. QED
      BY <2>1, <2>5 DEF Inductive, Bit
  <1>2. CASE Next
    <2>1. SlaveStep /\ Master /\ History
      BY <1>2 DEF Next
    <2>2. SlaveTypeOK' /\ MasterTypeOK'
      BY <2>1, SlaveTypes, MasterTypes DEF Inductive, TypeOK
    <2>3. startX' \in Words /\ jobX' \in Words /\ prevX' \in Words
      BY <2>1, HistoryTypes DEF Inductive
    <2>4. /\ aw_ready' <=> w_ready'
          /\ aw_ready' => awvalid' /\ wvalid'
          /\ writesOpen' \in 0..1
          /\ writesOpen' + Bit(aw_ready') = Bit(b_valid')
          /\ start_reg' => b_valid'
      BY <2>1, WriteCounted DEF SlaveStep
    <2>5. /\ ar_ready' => arvalid'
          /\ readsOpen' \in 0..1
          /\ readsOpen' + Bit(ar_ready') = Bit(r_valid')
      BY <2>1, ReadCounted DEF SlaveStep
    <2>6. start_reg' => startX' = x_reg'
      BY <2>1, StartTracked DEF SlaveStep
    <2>7. Pipeline'
      BY <2>1, PipelineTracked
    <2>8. TypeOK'
      BY <2>2, <2>3, <2>4, <2>5 DEF TypeOK
    <2>9. QED
      BY <2>4, <2>5, <2>6, <2>7, <2>8 DEF Inductive, Pipeline
  <1>3. QED
    BY <1>1, <1>2

-----------------------------------------------------------------------------
\* The inductive invariant holds in every reachable state, for every set of
\* words, every core function, either kind of core output and every choice
\* of addresses.
THEOREM InductiveHolds == Spec => []Inductive
  BY InitInductive, NextInductive, PTL DEF Spec

\* Registers, wires and counters keep their types: in particular the master
\* never has more than one write or one read unanswered.
THEOREM TypeCorrect == Spec => []TypeOK
  <1>1. Inductive => TypeOK
    BY DEF Inductive
  <1>2. QED
    BY <1>1, InductiveHolds, PTL

\* The write channel of sigmoid_top acknowledges and answers every write
\* exactly once.
THEOREM WritesAnswered == Spec => []WritesAnsweredOnce
  <1>1. Inductive => WritesAnsweredOnce
    BY DEF Inductive, WritesAnsweredOnce, AwHandshake, WHandshake
  <1>2. QED
    BY <1>1, InductiveHolds, PTL

\* The read channel of sigmoid_top answers every read exactly once.
THEOREM ReadsAnswered == Spec => []ReadsAnsweredOnce
  <1>1. Inductive => ReadsAnsweredOnce
    BY DEF Inductive, ReadsAnsweredOnce, ArHandshake
  <1>2. QED
    BY <1>1, InductiveHolds, PTL

\* When done is up, Y is the result of the job that was started (or of the
\* one before, behind a core with a registered output).
THEOREM ResultCorrect == Spec => []ResultOfJob
  <1>1. Inductive => ResultOfJob
    BY DEF Inductive, ResultOfJob
  <1>2. QED
    BY <1>1, InductiveHolds, PTL

\* busy and done describe the state of the FSM.
THEOREM StatusCorrect == Spec => []StatusCoherent
  <1>1. Inductive => StatusCoherent
    BY DEF Inductive, StatusCoherent
  <1>2. QED
    BY <1>1, InductiveHolds, PTL

\* The interrupt is a pulse of one cycle.
THEOREM DonePulse == Spec => DoneIsPulse
  <1>1. Inductive /\ [Next]_vars => [irq => ~irq']_vars
    <2> SUFFICES ASSUME Inductive, Next, irq PROVE ~irq'
      OBVIOUS
    <2>1. state = "IDLE"
      BY DEF Inductive, irq
    <2>2. FsmReset \/ FsmIdle
      BY <2>1 DEF Next, SlaveStep, ProcessingFSM, FsmLoad, FsmWait, FsmStore
    <2>3. QED
      BY <2>2 DEF FsmReset, FsmIdle, irq
  <1>2. QED
    BY <1>1, InductiveHolds, PTL DEF Spec, DoneIsPulse

\* No response is dropped or changed before the master has taken it.
THEOREM ResponsesHeld == Spec => ResponseHeld
  <1>1. [Next]_vars =>
          [rst_n => /\ r_valid /\ ~rready => r_valid' /\ r_data' = r_data
                    /\ b_valid /\ ~bready => b_valid']_vars
    BY Zenon DEF Next, SlaveStep, WriteChannel, WriteReset, WriteAccept, WriteIdle,
       ReadChannel, ReadReset, ReadAccept, ReadIdle
  <1>2. QED
    BY <1>1, PTL DEF Spec, ResponseHeld

-----------------------------------------------------------------------------
\* A write of CTRL leaves X alone, and X always holds a word.
LEMMA OperandKept ==
  ASSUME Inductive, WriteChannel, rst_n
  PROVE  /\ start_reg' => x_reg' = x_reg
         /\ start_reg' \in BOOLEAN
  BY Zenon DEF WriteChannel, WriteReset, WriteAccept, WriteIdle

\* Every edge is a step of the accelerator or leaves it unchanged: the start
\* is written outside LOAD and WAIT, WAIT finishes the job, LOAD only moves
\* the operand, and X may be written at any time but the edge after a start.
LEMMA StepSimulation ==
  ASSUME Inductive, Inductive', Next
  PROVE  [Accel!Next]_(Accel!vars)
  <1> USE DEF Accel!Next, Accel!vars
  <1>1. SlaveStep /\ History
    BY DEF Next
  <1>2. x_reg' \in Words
    BY DEF Inductive, TypeOK, SlaveTypeOK
  <1>3. CASE FsmReset
    <2>1. x_reg' = 0 /\ start_reg' = FALSE
      BY <1>1, <1>3 DEF SlaveStep, WriteChannel, WriteReset, WriteAccept,
         WriteIdle, FsmReset
    <2>2. jobX' = 0
      BY <1>1, <1>3 DEF History, FsmReset
    <2>3. Job' = {} /\ Held' = Sigmoid(0) /\ y_reg' = 0
      BY <1>3, <2>1, <2>2 DEF FsmReset, Job, Held
    <2>4. QED
      BY <2>1, <2>3 DEF Accel!Reset
  <1>4. CASE FsmIdle /\ start_reg
    <2>1. ~busy
      BY <1>4 DEF FsmIdle, Inductive
    <2>2. state' = "LOAD" /\ y_reg' = y_reg /\ state = "IDLE" /\ rst_n
      BY <1>4, <2>1 DEF FsmIdle
    <2>3. x_reg' = x_reg
      BY <1>1, <1>4, <2>2, StartTracked DEF SlaveStep
    <2>4. prevX' = jobX
      BY <1>1, <2>2 DEF History
    <2>5. Job' = Job /\ Held' = Held
      BY <1>4, <2>2, <2>3, <2>4 DEF Job, Held
    <2>6. QED
      BY <2>2, <2>3, <2>5
  <1>5. CASE (FsmIdle /\ ~start_reg) \/ FsmStore
    <2>1. state' = "IDLE" /\ y_reg' = y_reg /\ rst_n /\ Job = {}
      BY <1>5 DEF FsmIdle, FsmStore, Job
    <2>2. jobX' = jobX
      BY <1>1, <2>1 DEF History
    <2>3. Held' = Held
      BY <1>5, <2>1, <2>2 DEF Held, FsmIdle, FsmStore
    <2>4. CASE start_reg'
      <3>1. x_reg' = x_reg
        BY <1>1, <2>1, <2>4, OperandKept DEF SlaveStep
      <3>2. Job' = {x_reg}
        BY <2>1, <2>4, <3>1 DEF Job
      <3>3. QED
        BY <2>1, <2>3, <3>1, <3>2 DEF Accel!Start
    <2>5. CASE ~start_reg'
      <3>1. Job' = {}
        BY <2>1, <2>5 DEF Job
      <3>2. QED
        BY <1>2, <2>1, <2>3, <3>1 DEF Accel!Write
    <2>6. QED
      BY <2>4, <2>5
  <1>6. CASE FsmLoad
    <2>1. Job = {x_reg} /\ Job' = {x_reg} /\ y_reg' = y_reg
      BY <1>6 DEF FsmLoad, Job
    <2>2. prevX' = prevX
      BY <1>1, <1>6 DEF History, FsmLoad
    <2>3. Held' = Held
      BY <1>6, <2>2 DEF FsmLoad, Held
    <2>4. QED
      BY <1>2, <2>1, <2>3 DEF Accel!Write
  <1>7. CASE FsmWait
    <2>1. Job = {sigmoid_x} /\ Job' = {} /\ y_reg' = sigmoid_y
      BY <1>7 DEF FsmWait, Job
    <2>2. jobX' = jobX /\ sigmoid_x = jobX
      BY <1>1, <1>7 DEF History, FsmWait, Inductive
    <2>3. Held = Sigmoid(prevX) /\ Held' = Sigmoid(sigmoid_x)
      BY <1>7, <2>2 DEF FsmWait, Held
    <2>4. y_reg' = IF ~Transparent THEN Held ELSE Sigmoid(sigmoid_x)
      BY <1>7, <2>1, <2>3 DEF FsmWait, Inductive
    <2>5. QED
      BY <1>2, <2>1, <2>3, <2>4 DEF Accel!Finish
  <1>8. QED
    BY <1>1, <1>3, <1>4, <1>5, <1>6, <1>7 DEF SlaveStep, ProcessingFSM

\* The wrapper with its core implements the accelerator, for every core
\* function and every traffic on the bus: the initial states correspond and
\* every edge is a step of the accelerator or a stutter.
THEOREM Refinement == Spec => ImplementsAccelSafety
  <1>1. Init => Accel!Init
    BY DEF Init, SlaveInit, MasterInit, Accel!Init, Job, Held
  <1>2. Inductive /\ Inductive' /\ [Next]_vars => [Accel!Next]_(Accel!vars)
    <2>1. ASSUME UNCHANGED vars PROVE UNCHANGED Accel!vars
      BY <2>1 DEF vars, slaveVars, writeRegs, fsmRegs, history, Accel!vars,
         Job, Held
    <2>2. QED
      BY <2>1, StepSimulation
  <1>3. QED
    BY <1>1, <1>2, InductiveHolds, PTL
    DEF Spec, ImplementsAccelSafety, Accel!Spec

=============================================================================
