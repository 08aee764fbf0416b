------------------------ MODULE SigmoidDriverProofs ------------------------
(***************************************************************************)
(* Proofs about sigmoid_top driven by the programs of the repository, for  *)
(* every set of words, core function, number of points and delay of the    *)
(* interconnect.                                                           *)
(***************************************************************************)
EXTENDS SigmoidDriver, TLAPS

\* A store is presented and not yet taken.
Pending == awvalid /\ ~aw_ready

-----------------------------------------------------------------------------
(* Types.                                                                  *)

\* The small numbers the control registers read as, and a word zero-extended
\* to the bus, are bus words.
LEMMA BusWords ==
  {0, 1, 2, 3} \subseteq BusWord /\ \A v \in Word : U16(v) \in BusWord
  <1>1. MinWord \in Int /\ MaxWord \in Int /\ MaxBusWord \in Int /\ 3 <= MaxBusWord
    BY DEF MinWord, MaxWord, MaxBusWord
  <1>2. ASSUME NEW v \in Word PROVE U16(v) \in Int /\ 0 <= U16(v) /\ U16(v) <= MaxBusWord
    <2>1. v \in Int
      BY <1>1 DEF Word
    <2>2. QED
      BY <2>1 DEF U16, MaxBusWord
  <1>3. QED
    BY <1>1, <1>2 DEF BusWord

\* One edge keeps every register of the wrapper and the core in its type.
LEMMA SlaveTypes ==
  ASSUME SlaveTypeOK, MasterTypeOK, SlaveStep
  PROVE  SlaveTypeOK'
  <1>1. /\ aw_ready' \in BOOLEAN /\ w_ready' \in BOOLEAN /\ b_valid' \in BOOLEAN
        /\ x_reg' \in Words /\ start_reg' \in BOOLEAN
    BY WordsAssumption, Zenon DEF SlaveTypeOK, MasterTypeOK, SlaveStep,
       WriteChannel, WriteReset, WriteAccept, WriteIdle
  <1>2. \A a \in Addr : RegisterAt(a) \in BusWord
    <2>1. x_reg \in Word /\ y_reg \in Word \union {0}
      BY WordsAssumption, SigmoidAssumption DEF SlaveTypeOK, Results
    <2>2. U16(x_reg) \in BusWord /\ U16(y_reg) \in BusWord
      BY <2>1, BusWords, WordsAssumption
    <2>3. QED
      BY <2>2, BusWords DEF RegisterAt, Addr, Bit, SlaveTypeOK
  <1>3. ar_ready' \in BOOLEAN /\ r_valid' \in BOOLEAN /\ r_data' \in BusWord
    BY <1>2, BusWords, Zenon DEF SlaveTypeOK, MasterTypeOK, SlaveStep,
       ReadChannel, ReadReset, ReadAccept, ReadIdle
  <1>4. /\ state' \in State /\ busy' \in BOOLEAN /\ done' \in BOOLEAN
        /\ sigmoid_x' \in Words /\ y_reg' \in Results \union {0}
    BY WordsAssumption, Zenon DEF SlaveTypeOK, SlaveStep, State,
       ProcessingFSM, FsmReset, FsmIdle, FsmLoad, FsmWait, FsmStore
  <1>5. sigmoid_y' \in Results /\ Results' = Results
    BY <1>4 DEF SlaveStep, CoreOutput, Results, SlaveTypeOK
  <1>6. QED
    BY <1>1, <1>3, <1>4, <1>5 DEF SlaveTypeOK

-----------------------------------------------------------------------------
(* One edge of the slave.                                                  *)

\* The store that is pending is taken when no answer is.
LEMMA Taken ==
  ASSUME Bus, Pending, ~b_valid, WriteChannel
  PROVE  /\ aw_ready' /\ w_ready' /\ b_valid'
         /\ x_reg' = IF awaddr = "X" /\ wstrb0 THEN wdata ELSE x_reg
         /\ start_reg' <=> awaddr = "CTRL" /\ wdata % 2 = 1
  BY Zenon DEF Bus, Pending, WriteChannel, WriteReset, WriteAccept, WriteIdle

\* Otherwise the answer is what can change on the write channel.
LEMMA NotTaken ==
  ASSUME Bus, ~(Pending /\ ~b_valid), WriteChannel
  PROVE  /\ ~aw_ready' /\ ~w_ready' /\ ~start_reg' /\ x_reg' = x_reg
         /\ b_valid' <=> b_valid /\ ~bready
  BY Zenon DEF Bus, Pending, WriteChannel, WriteReset, WriteAccept, WriteIdle

\* One edge without a new start brings the FSM one step nearer to its rest.
LEMMA Nearer ==
  ASSUME Bus, Fsm, ProcessingFSM, ~start_reg'
  PROVE  /\ AtMost(0) => AtMost(0)'
         /\ AtMost(1) => AtMost(0)'
         /\ AtMost(2) => AtMost(1)'
         /\ AtMost(3) => AtMost(2)'
         /\ AtMost(3)'
  <1>1. /\ state = "IDLE" /\ ~start_reg => state' = "IDLE"
        /\ state = "STORE" => state' = "IDLE"
        /\ state = "WAIT" => state' = "STORE"
        /\ state = "LOAD" => state' = "WAIT"
    BY DEF Bus, ProcessingFSM, FsmReset, FsmIdle, FsmLoad, FsmWait, FsmStore
  <1>2. state' \in {"IDLE", "LOAD", "WAIT", "STORE"}
    BY <1>1 DEF Bus, ProcessingFSM, FsmReset, FsmIdle, FsmLoad, FsmWait, FsmStore
  <1>3. QED
    BY <1>1, <1>2 DEF AtMost

\* A bound on the edges that remain is also a larger one.
LEMMA Further ==
  /\ AtMost(0) => AtMost(1)
  /\ AtMost(1) => AtMost(2)
  /\ AtMost(2) => AtMost(3)
  BY DEF AtMost

\* An FSM at rest that is not started stays at rest.
LEMMA IdleStays ==
  ASSUME Bus, ProcessingFSM, AtMost(0)
  PROVE  state' = "IDLE"
  <1>1. rst_n /\ state = "IDLE" /\ ~start_reg
    BY DEF AtMost, Bus
  <1>2. FsmIdle
    BY <1>1 DEF ProcessingFSM, FsmReset, FsmLoad, FsmWait, FsmStore
  <1>3. QED
    BY <1>1, <1>2 DEF FsmIdle

\* Busy and done follow the state, and no start comes while the FSM works.
LEMMA FsmStep ==
  ASSUME Bus, Fsm, ProcessingFSM, state \in State,
         start_reg' => aw_ready' /\ AtMost(0)
  PROVE  Fsm'
  <1>1. busy' <=> state' # "IDLE"
    BY DEF Bus, Fsm, State, ProcessingFSM, FsmReset, FsmIdle, FsmLoad, FsmWait, FsmStore
  <1>2. done' => state' = "IDLE"
    BY Zenon DEF Bus, Fsm, State, ProcessingFSM, FsmReset, FsmIdle, FsmLoad, FsmWait, FsmStore
  <1>3. AtMost(0) => state' = "IDLE"
    BY IdleStays
  <1>4. QED
    BY <1>1, <1>2, <1>3 DEF Fsm

\* The job of a point goes on with its operand.
LEMMA JobStep ==
  ASSUME Bus, Fsm, JobRuns, SlaveStep, state \in State,
         ~start_reg', x_reg' = x_reg, x_raw' = x_raw
  PROVE  JobRuns'
  <1>1. ProcessingFSM /\ CoreOutput /\ rst_n
    BY DEF SlaveStep, Bus
  <1>2. state' = "WAIT" => state = "LOAD" /\ sigmoid_x' = x_reg
    BY <1>1 DEF State, ProcessingFSM, FsmReset, FsmIdle, FsmLoad, FsmWait, FsmStore
  <1>3. Transparent /\ state' = "WAIT" => sigmoid_y' = Sigmoid(x_raw')
    BY <1>1, <1>2 DEF CoreOutput, JobRuns
  <1>4. Transparent /\ AtMost(1)' => y_reg' = Sigmoid(x_raw')
    <2> SUFFICES ASSUME Transparent, AtMost(1)' PROVE y_reg' = Sigmoid(x_raw')
      OBVIOUS
    <2>1. CASE state = "WAIT"
      BY <1>1, <2>1 DEF JobRuns, ProcessingFSM, FsmReset, FsmIdle, FsmLoad, FsmWait, FsmStore
    <2>2. CASE state = "LOAD"
      BY <1>1, <2>2 DEF AtMost, ProcessingFSM, FsmReset, FsmIdle, FsmLoad, FsmWait, FsmStore
    <2>3. CASE state = "STORE"
      <3>1. AtMost(1)
        BY <2>3 DEF AtMost, Fsm
      <3>2. QED
        BY <1>1, <2>3, <3>1 DEF JobRuns, ProcessingFSM, FsmReset, FsmIdle, FsmLoad, FsmWait, FsmStore
    <2>4. CASE state = "IDLE"
      <3>1. ~start_reg
        BY <1>1, <2>4 DEF AtMost, Fsm, ProcessingFSM, FsmReset, FsmIdle, FsmLoad, FsmWait, FsmStore
      <3>2. AtMost(1)
        BY <2>4, <3>1 DEF AtMost
      <3>3. QED
        BY <1>1, <2>4, <3>2 DEF JobRuns, ProcessingFSM, FsmReset, FsmIdle, FsmLoad, FsmWait, FsmStore
    <2>5. QED
      BY <2>1, <2>2, <2>3, <2>4 DEF State
  <1>5. QED
    BY <1>2, <1>3, <1>4 DEF JobRuns

-----------------------------------------------------------------------------
(* The bus.                                                                *)

\* The part of Bus about stores.
Stores ==
    /\ awvalid <=> wvalid
    /\ aw_ready => awvalid /\ b_valid
    /\ stores = Bit(Pending) + Bit(b_valid)
    /\ stores # 0 => delay = 0

\* The counters stay in their ranges.
LEMMA Counted ==
  ASSUME TypeOK, Stores', NEW k \in 0..1, Count(k)
  PROVE  stores' \in 0..2 /\ delay' \in 0..ReadDelay
  <1>1. stores' \in 0..2
    BY DEF Stores, Bit
  <1>2. delay \in 0..ReadDelay
    BY DEF TypeOK
  <1>3. delay' \in 0..ReadDelay
    BY <1>2, ReadDelayAssumption DEF Count
  <1>4. QED
    BY <1>1, <1>3

\* A store is presented only when none is pending, and is pending then.
LEMMA StorePresented ==
  ASSUME TypeOK, Bus, WriteChannel, NEW addr, NEW data,
         PresentStore(addr, data), Count(1)
  PROVE  /\ Stores' /\ Pending'
         /\ awaddr' = addr /\ wdata' = data /\ wstrb0'
         /\ x_reg' = x_reg /\ ~start_reg'
         /\ b_valid' => b_valid
  <1>1. ~Pending /\ awvalid' /\ wvalid' /\ awaddr' = addr /\ wdata' = data /\ wstrb0'
    BY DEF PresentStore, WriteFree, Pending
  <1>2. ~aw_ready' /\ ~start_reg' /\ x_reg' = x_reg /\ (b_valid' <=> b_valid /\ ~bready)
    BY <1>1, NotTaken
  <1>3. Pending'
    BY <1>1, <1>2 DEF Pending
  <1>4. stores = Bit(b_valid)
    BY <1>1 DEF Bus, Pending, Bit
  <1>5. stores' = 1 + Bit(b_valid')
    BY <1>2, <1>4 DEF Count, BHandshake, Bit
  <1>6. stores' # 0 => delay' = 0
    BY DEF Count
  <1>7. stores' = Bit(Pending') + Bit(b_valid')
    BY <1>3, <1>5 DEF Bit
  <1>8. QED
    BY <1>1, <1>2, <1>3, <1>6, <1>7, Zenon DEF Stores

\* Without a new store: the pending one is held, taken, or none is there.
LEMMA StoreHeld ==
  ASSUME TypeOK, Bus, WriteChannel, HoldStore, Count(0)
  PROVE  /\ Stores'
         /\ Pending' <=> Pending /\ b_valid
         /\ Pending => awaddr' = awaddr /\ wdata' = wdata /\ (wstrb0' <=> wstrb0)
         /\ stores = 0 => stores' = 0
  <1>1. CASE Pending /\ ~b_valid
    <2>1. aw_ready' /\ b_valid'
      BY <1>1, Taken
    <2>2. awvalid' = awvalid /\ wvalid' = wvalid /\ awaddr' = awaddr /\ wdata' = wdata /\ wstrb0' = wstrb0
      BY <1>1 DEF HoldStore, WriteFree, Pending
    <2>3. awvalid' /\ wvalid' /\ ~Pending'
      <3>1. awvalid /\ wvalid
        BY <1>1 DEF Pending, Bus
      <3>2. QED
        BY <2>1, <2>2, <3>1 DEF Pending
    <2>4. stores = 1
      BY <1>1 DEF Bus, Pending, Bit
    <2>5. stores' = 1
      BY <1>1, <2>4 DEF Count, BHandshake, Bit
    <2>6. stores' = Bit(Pending') + Bit(b_valid')
      <3>1. Bit(Pending') = 0
        BY <2>3 DEF Bit
      <3>2. Bit(b_valid') = 1
        BY <2>1 DEF Bit
      <3>3. QED
        BY <2>5, <3>1, <3>2
    <2>7. stores' # 0 => delay' = 0
      BY DEF Count
    <2>8. Stores'
      BY <2>1, <2>3, <2>6, <2>7, Zenon DEF Stores
    <2>9. stores # 0
      BY <2>4
    <2>10. wstrb0' <=> wstrb0
      BY <2>2
    <2>11. QED
      BY <1>1, <2>2, <2>3, <2>8, <2>9, <2>10
  <1>2. CASE Pending /\ b_valid
    <2>1. ~aw_ready' /\ (b_valid' <=> b_valid /\ ~bready)
      BY <1>2, NotTaken
    <2>2. awvalid' = awvalid /\ wvalid' = wvalid /\ awaddr' = awaddr /\ wdata' = wdata /\ wstrb0' = wstrb0
      BY <1>2 DEF HoldStore, WriteFree, Pending
    <2>3. awvalid' /\ wvalid' /\ Pending'
      <3>1. awvalid /\ wvalid
        BY <1>2 DEF Pending, Bus
      <3>2. QED
        BY <2>1, <2>2, <3>1 DEF Pending
    <2>4. stores = 2
      BY <1>2 DEF Bus, Pending, Bit
    <2>5. stores' = 2 - Bit(BHandshake)
      BY <2>4 DEF Count, Bit
    <2>6. stores' = Bit(Pending') + Bit(b_valid')
      BY <1>2, <2>1, <2>3, <2>5 DEF Bit, BHandshake
    <2>7. stores' # 0 => delay' = 0
      BY DEF Count
    <2>8. Stores'
      BY <2>1, <2>3, <2>6, <2>7, Zenon DEF Stores
    <2>9. stores # 0
      BY <2>4
    <2>10. wstrb0' <=> wstrb0
      BY <2>2
    <2>11. QED
      BY <1>2, <2>2, <2>3, <2>8, <2>9, <2>10
  <1>3. CASE ~Pending
    <2>1. ~aw_ready' /\ (b_valid' <=> b_valid /\ ~bready)
      BY <1>3, NotTaken
    <2>2. ~awvalid' /\ ~wvalid' /\ ~Pending'
      BY <1>3 DEF HoldStore, WriteFree, Pending, NoAw, NoW
    <2>3. stores = Bit(b_valid)
      BY <1>3 DEF Bus, Pending, Bit
    <2>4. stores' = Bit(b_valid')
      BY <2>1, <2>3 DEF Count, BHandshake, Bit
    <2>5. stores' = Bit(Pending') + Bit(b_valid')
      BY <2>2, <2>4 DEF Bit
    <2>6. stores' # 0 => delay' = 0
      BY DEF Count
    <2>7. stores = 0 => stores' = 0
      BY <2>1, <2>3, <2>4 DEF Bit
    <2>8. QED
      BY <1>3, <2>1, <2>2, <2>5, <2>6, <2>7 DEF Stores
  <1>4. QED
    BY <1>1, <1>2, <1>3

\* While the program waits for no load the read channel is quiet; a load that
\* is presented stays for the slave to take.
LEMMA LoadQuiet ==
  ASSUME Bus, ReadChannel, pc \notin {"WaitStatus", "WaitY"}
  PROVE  /\ ~r_valid' /\ ~ar_ready'
         /\ HoldLoad => ~arvalid'
  BY Zenon DEF Bus, ReadChannel, ReadReset, ReadAccept, ReadIdle, HoldLoad, NoAr

\* A load that is presented is answered by the next edge.
LEMMA LoadAnswered ==
  ASSUME Bus, ReadChannel, HoldLoad, pc \in {"WaitStatus", "WaitY"}, ~r_valid
  PROVE  /\ r_valid' /\ ar_ready' /\ arvalid' /\ araddr' = araddr
         /\ r_data' = RegisterAt(araddr)
  <1>1. arvalid /\ ~ar_ready /\ rst_n
    BY DEF Bus
  <1>2. r_valid' /\ ar_ready' /\ r_data' = RegisterAt(araddr)
    BY <1>1 DEF ReadChannel, ReadReset, ReadAccept, ReadIdle
  <1>3. arvalid' = arvalid /\ araddr' = araddr
    BY <1>1 DEF HoldLoad
  <1>4. QED
    BY <1>1, <1>2, <1>3

\* The answer stays until it is taken, and the address is withdrawn.
LEMMA AnswerHeld ==
  ASSUME Bus, ReadChannel, HoldLoad, r_valid
  PROVE  /\ r_valid' <=> ~rready
         /\ ~ar_ready' /\ ~arvalid' /\ r_data' = r_data
  <1>1. rst_n /\ ~(arvalid /\ ~ar_ready)
    BY DEF Bus
  <1>2. (r_valid' <=> ~rready) /\ ~ar_ready' /\ r_data' = r_data
    BY <1>1, Zenon DEF ReadChannel, ReadReset, ReadAccept, ReadIdle
  <1>3. ~arvalid'
    BY <1>1 DEF HoldLoad, NoAr
  <1>4. QED
    BY <1>2, <1>3

-----------------------------------------------------------------------------
(* What every edge keeps.                                                  *)

\* A start is a store to CTRL that is taken, and it finds the FSM at rest.
LEMMA StartSeen ==
  ASSUME Inductive, Edge
  PROVE  start_reg' => aw_ready' /\ AtMost(0)
  <1> SUFFICES ASSUME start_reg' PROVE aw_ready' /\ AtMost(0)
    OBVIOUS
  <1>1. Bus /\ Point /\ WriteChannel /\ pc \in Pc
    BY DEF Inductive, Edge, SlaveStep, TypeOK
  <1>2. Pending /\ ~b_valid
    BY <1>1, NotTaken
  <1>3. aw_ready' /\ awaddr = "CTRL"
    BY <1>1, <1>2, Taken
  <1>4. stores # 0
    BY <1>1, <1>2 DEF Bus, Pending, Bit
  <1>5. pc \in {"StoreCtrl", "LoadStatus", "LoadY"}
    BY <1>1, <1>4 DEF Bus, Pc
  <1>6. AtMost(0)
    BY <1>1, <1>2, <1>5 DEF Point, Pending
  <1>7. QED
    BY <1>3, <1>6

\* So the FSM, its busy bit and its done bit stay in step.
LEMMA FsmKept ==
  ASSUME Inductive, Edge
  PROVE  Fsm'
  BY StartSeen, FsmStep DEF Inductive, Edge, SlaveStep, TypeOK, SlaveTypeOK

\* The stores and the loads make up the bus.
LEMMA BusFrom ==
  ASSUME Bus, Edge, Stores',
         ar_ready' <=> arvalid' /\ r_valid',
         pc' \in {"WaitStatus", "WaitY"} <=> arvalid' \/ r_valid',
         arvalid' => araddr' = IF pc' = "WaitY" THEN "Y" ELSE "STATUS",
         pc' \in {"StoreX", "WaitStatus", "WaitY", "End"} => stores' = 0
  PROVE  Bus'
  BY DEF Bus, Edge, Stores, Pending

\* A program between its loads, or at the end of one, leaves the read channel
\* quiet.
LEMMA BusQuiet ==
  ASSUME Bus, Edge, Stores', HoldLoad,
         pc \in {"WaitStatus", "WaitY"} => RHandshake,
         pc' \notin {"WaitStatus", "WaitY"},
         pc' \in {"StoreX", "End"} => stores' = 0
  PROVE  Bus'
  <1>1. ReadChannel
    BY DEF Edge, SlaveStep
  <1>2. ~ar_ready' /\ ~r_valid' /\ ~arvalid'
    BY <1>1, LoadQuiet, AnswerHeld DEF RHandshake
  <1>3. QED
    BY <1>2, BusFrom

\* A load is presented when all stores are answered: the store to CTRL is
\* taken, and with the edge none is outstanding.
LEMMA LoadPresented ==
  ASSUME TypeOK, Bus, StoresDone, Count(0)
  PROVE  ~Pending /\ stores' = 0
  <1>1. stores = Bit(BHandshake) /\ stores = Bit(Pending) + Bit(b_valid)
    BY DEF StoresDone, Bus, Pending
  <1>2. ~Pending
    BY <1>1 DEF Bit, BHandshake
  <1>3. stores' = 0
    BY <1>1 DEF Count, Bit
  <1>4. QED
    BY <1>2, <1>3

\* No store is pending when none is outstanding.
LEMMA NonePending ==
  ASSUME Bus, stores = 0
  PROVE  ~Pending /\ ~b_valid
  BY DEF Bus, Pending, Bit

\* With the store to CTRL taken, the job of the point goes on.
LEMMA JobGoesOn ==
  ASSUME Inductive, Edge, JobRuns, ~Pending, x_raw' = x_raw
  PROVE  JobRuns' /\ ~start_reg' /\ AtMost(3)'
  <1>1. Bus /\ Fsm /\ SlaveStep /\ WriteChannel /\ ProcessingFSM /\ state \in State
    BY DEF Inductive, Edge, SlaveStep, TypeOK, SlaveTypeOK
  <1>2. ~start_reg' /\ x_reg' = x_reg
    BY <1>1, NotTaken
  <1>3. QED
    BY <1>1, <1>2, JobStep, Nearer

\* What is read back from a zero-extended word.
LEMMA SignedBack == \A v \in Word : S16(U16(v)) = v
  <1> SUFFICES ASSUME NEW v \in Word PROVE S16(U16(v)) = v
    OBVIOUS
  <1>1. MinWord \in Int /\ MaxWord \in Int
    BY DEF MinWord, MaxWord
  <1>2. v \in Int /\ MinWord <= v /\ v <= MaxWord
    BY <1>1 DEF Word
  <1>3. v \in Int /\ v + 32768 >= 0 /\ v + 32768 < 65536
    BY <1>2 DEF MinWord, MaxWord
  <1>4. S16(U16(v)) = (((v % 65536) + 32768) % 65536) - 32768
    BY DEF S16, U16
  <1>5. (((v % 65536) + 32768) % 65536) = v + 32768
    BY <1>3
  <1>6. QED
    BY <1>3, <1>4, <1>5

\* A word read back is a signed 16-bit number.
LEMMA SignedRange == \A v \in Int : S16(v) \in Word
  <1> SUFFICES ASSUME NEW v \in Int PROVE S16(v) \in Word
    OBVIOUS
  <1>1. MinWord \in Int /\ MaxWord \in Int
    BY DEF MinWord, MaxWord
  <1>2. S16(v) \in Int /\ MinWord <= S16(v) /\ S16(v) <= MaxWord
    BY DEF S16, MinWord, MaxWord
  <1>3. QED
    BY <1>1, <1>2 DEF Word

-----------------------------------------------------------------------------
(* Types.                                                                  *)

\* The wires of the CPU stay in their types.
LEMMA WireTypes ==
  ASSUME MasterTypeOK, Edge,
         HoldStore \/ \E addr \in Addr : \E data \in Words : PresentStore(addr, data),
         HoldLoad \/ \E addr \in Addr : PresentLoad(addr)
  PROVE  MasterTypeOK'
  <1>1. awvalid' \in BOOLEAN /\ wvalid' \in BOOLEAN /\ wstrb0' \in BOOLEAN
    BY Zenon DEF MasterTypeOK, HoldStore, PresentStore, NoAw, NoW
  <1>2. awaddr' \in Addr
    BY DEF MasterTypeOK, HoldStore, PresentStore, NoAw, Addr
  <1>3. wdata' \in Words
    BY WordsAssumption DEF MasterTypeOK, HoldStore, PresentStore, NoW
  <1>4. arvalid' \in BOOLEAN
    BY Zenon DEF MasterTypeOK, HoldLoad, PresentLoad, NoAr
  <1>5. araddr' \in Addr
    BY DEF MasterTypeOK, HoldLoad, PresentLoad, NoAr, Addr
  <1>6. QED
    BY <1>1, <1>2, <1>3, <1>4, <1>5 DEF MasterTypeOK, Edge, ResponseReady

\* Slave, wires and the program's own variables make up the types.
LEMMA TypesFrom ==
  ASSUME TypeOK, Edge, Stores', NEW k \in 0..1, Count(k),
         HoldStore \/ \E addr \in Addr : \E data \in Words : PresentStore(addr, data),
         HoldLoad \/ \E addr \in Addr : PresentLoad(addr),
         pc' \in Pc, i' \in 0..NumPoints, x_raw' \in Words, y_raw' \in Word
  PROVE  TypeOK'
  <1>1. SlaveTypeOK'
    BY SlaveTypes DEF TypeOK, Edge
  <1>2. MasterTypeOK'
    BY WireTypes DEF TypeOK
  <1>3. stores' \in 0..2 /\ delay' \in 0..ReadDelay
    BY Counted
  <1>4. polling' \in BOOLEAN
    BY DEF TypeOK, Edge
  <1>5. QED
    BY <1>1, <1>2, <1>3, <1>4 DEF TypeOK

-----------------------------------------------------------------------------
(* The actions of the program.                                             *)

\* The store to X: the FSM is at rest when it is presented.
LEMMA StoreXInductive ==
  ASSUME Inductive, Edge, StoreX
  PROVE  Inductive'
  <1>1. /\ TypeOK /\ Bus /\ Fsm /\ Point /\ WriteChannel /\ ProcessingFSM
        /\ pc = "StoreX" /\ pc' = "StoreCtrl" /\ HoldLoad /\ Count(1) /\ i' = i /\ y_raw' = y_raw
    BY DEF Inductive, Edge, SlaveStep, StoreX
  <1>2. PICK v \in Words : x_raw' = v /\ PresentStore("X", v)
    BY DEF StoreX
  <1>3. /\ Stores' /\ Pending'
        /\ awaddr' = "X" /\ wdata' = v /\ wstrb0'
        /\ ~start_reg' /\ (b_valid' => b_valid)
    BY <1>1, <1>2, StorePresented
  <1>4. ~b_valid'
    BY <1>1, <1>3, NonePending DEF Bus
  <1>5. AtMost(0)'
    BY <1>1, <1>3, Nearer DEF Point
  <1>6. i' < NumPoints
    BY <1>1 DEF Point
  <1>7. Point'
    BY <1>1, <1>2, <1>3, <1>4, <1>5, <1>6 DEF Point, Pending
  <1>8. Bus'
    BY <1>1, <1>3, BusQuiet
  <1>9. TypeOK'
    <2>1. i' \in 0..NumPoints /\ y_raw' \in Word /\ pc' \in Pc
      BY <1>1 DEF TypeOK, Pc
    <2>2. "X" \in Addr
      BY DEF Addr
    <2>3. QED
      BY <1>1, <1>2, <1>3, <2>1, <2>2, TypesFrom
  <1>10. QED
    BY <1>7, <1>8, <1>9, FsmKept DEF Inductive

\* The store to CTRL: the one to X has been taken.
LEMMA StoreCtrlInductive ==
  ASSUME Inductive, Edge, StoreCtrl
  PROVE  Inductive'
  <1>1. /\ TypeOK /\ Bus /\ Fsm /\ Point /\ WriteChannel /\ ProcessingFSM
        /\ pc = "StoreCtrl" /\ pc' = (IF polling THEN "LoadStatus" ELSE "LoadY")
        /\ PresentStore("CTRL", 1) /\ HoldLoad /\ Count(1)
        /\ i' = i /\ x_raw' = x_raw /\ y_raw' = y_raw /\ polling' = polling
    BY DEF Inductive, Edge, SlaveStep, StoreCtrl
  <1>2. /\ Stores' /\ Pending'
        /\ awaddr' = "CTRL" /\ wdata' = 1
        /\ x_reg' = x_reg /\ ~start_reg'
    BY <1>1, StorePresented
  <1>3. x_reg' = x_raw'
    <2>1. ~(awvalid /\ ~aw_ready)
      BY <1>1 DEF PresentStore, WriteFree
    <2>2. QED
      BY <1>1, <1>2, <2>1 DEF Point
  <1>4. AtMost(0)'
    BY <1>1, <1>2, Nearer DEF Point
  <1>5. stores' # 0
    BY <1>2 DEF Stores, Bit
  <1>6. i' < NumPoints
    BY <1>1 DEF Point
  <1>7. Point'
    BY <1>1, <1>2, <1>3, <1>4, <1>5, <1>6 DEF Point, Pending
  <1>8. Bus'
    BY <1>1, <1>2, BusQuiet
  <1>9. TypeOK'
    <2>1. i' \in 0..NumPoints /\ x_raw' \in Words /\ y_raw' \in Word /\ pc' \in Pc
      BY <1>1 DEF TypeOK, Pc
    <2>2. "CTRL" \in Addr
      BY DEF Addr
    <2>3. QED
      BY <1>1, <1>2, <2>1, <2>2, StartAssumption, TypesFrom
  <1>10. QED
    BY <1>7, <1>8, <1>9, FsmKept DEF Inductive

\* A load that is presented leaves the bus in step.
LEMMA LoadBus ==
  ASSUME Inductive, Edge, pc \notin {"WaitStatus", "WaitY"},
         NEW addr, PresentLoad(addr), HoldStore, Count(0),
         \/ pc' = "WaitStatus" /\ addr = "STATUS"
         \/ pc' = "WaitY" /\ addr = "Y"
  PROVE  Bus' /\ Stores' /\ ~Pending /\ ~r_valid'
  <1>1. /\ TypeOK /\ Bus /\ WriteChannel /\ ReadChannel /\ StoresDone
        /\ arvalid' /\ araddr' = addr
    BY DEF Inductive, Edge, SlaveStep, PresentLoad
  <1>2. ~Pending /\ stores' = 0
    BY <1>1, LoadPresented
  <1>3. Stores'
    BY <1>1, StoreHeld
  <1>4. ~r_valid' /\ ~ar_ready'
    BY <1>1, LoadQuiet
  <1>5. /\ ar_ready' <=> arvalid' /\ r_valid'
        /\ pc' \in {"WaitStatus", "WaitY"} <=> arvalid' \/ r_valid'
        /\ arvalid' => araddr' = IF pc' = "WaitY" THEN "Y" ELSE "STATUS"
    BY <1>1, <1>4
  <1>6. QED
    BY <1>1, <1>2, <1>3, <1>4, <1>5, BusFrom

\* A poll: the job of the point goes on while it is read.
LEMMA LoadStatusInductive ==
  ASSUME Inductive, Edge, LoadStatus
  PROVE  Inductive'
  <1>1. /\ TypeOK /\ Bus /\ Fsm /\ Point
        /\ pc = "LoadStatus" /\ pc' = "WaitStatus"
        /\ PresentLoad("STATUS") /\ HoldStore /\ Count(0)
        /\ i' = i /\ x_raw' = x_raw /\ y_raw' = y_raw /\ polling' = polling
    BY DEF Inductive, Edge, LoadStatus
  <1>2. Bus' /\ Stores' /\ ~Pending /\ ~r_valid'
    BY <1>1, LoadBus
  <1>3. JobRuns /\ polling /\ i < NumPoints
    BY <1>1, <1>2 DEF Point, Pending
  <1>4. JobRuns' /\ AtMost(3)'
    BY <1>1, <1>2, <1>3, JobGoesOn
  <1>5. Point'
    BY <1>1, <1>2, <1>3, <1>4 DEF Point
  <1>6. TypeOK'
    <2>1. i' \in 0..NumPoints /\ x_raw' \in Words /\ y_raw' \in Word /\ pc' \in Pc
      BY <1>1 DEF TypeOK, Pc
    <2>2. "STATUS" \in Addr
      BY DEF Addr
    <2>3. QED
      BY <1>1, <1>2, <2>1, <2>2, TypesFrom
  <1>7. QED
    BY <1>2, <1>5, <1>6, FsmKept DEF Inductive

\* The load of Y: a program that has waited finds the FSM storing or at rest.
LEMMA LoadYInductive ==
  ASSUME Inductive, Edge, LoadY
  PROVE  Inductive'
  <1>1. /\ TypeOK /\ Bus /\ Fsm /\ Point /\ ProcessingFSM
        /\ pc = "LoadY" /\ pc' = "WaitY"
        /\ PresentLoad("Y") /\ HoldStore /\ Count(0)
        /\ i' = i /\ x_raw' = x_raw /\ y_raw' = y_raw /\ polling' = polling
    BY DEF Inductive, Edge, SlaveStep, LoadY
  <1>2. Bus' /\ Stores' /\ ~Pending /\ ~r_valid'
    BY <1>1, LoadBus
  <1>3. JobRuns /\ i < NumPoints
    BY <1>1, <1>2 DEF Point, Pending
  <1>4. JobRuns' /\ ~start_reg' /\ AtMost(3)'
    BY <1>1, <1>2, <1>3, JobGoesOn
  <1>5. ASSUME Patient PROVE AtMost(1)'
    <2>1. CASE polling
      <3>1. AtMost(0)'
        BY <1>1, <1>4, <2>1, Nearer DEF Point
      <3>2. QED
        BY <3>1 DEF AtMost
    <2>2. CASE ~polling
      <3>1. ReadDelay >= 2
        BY <1>5, <2>2 DEF Patient
      <3>2. (IF stores = 0 THEN delay ELSE 0) >= ReadDelay
        BY <1>1, <2>2 DEF PresentLoad, StoresDone
      <3>3. delay \in Int
        BY <1>1, ReadDelayAssumption DEF TypeOK
      <3>4. stores = 0 /\ delay >= 2
        BY <3>1, <3>2, <3>3, ReadDelayAssumption
      <3>5. AtMost(2)
        BY <1>1, <3>4 DEF Point
      <3>6. QED
        BY <1>1, <1>4, <3>5, Nearer
    <2>3. QED
      BY <2>1, <2>2
  <1>6. Patient' => AtMost(1)'
    <2>1. Patient' => Patient
      BY <1>1 DEF Patient
    <2>2. QED
      BY <1>5, <2>1
  <1>7. Point'
    BY <1>1, <1>2, <1>3, <1>4, <1>6 DEF Point
  <1>8. TypeOK'
    <2>1. i' \in 0..NumPoints /\ x_raw' \in Words /\ y_raw' \in Word /\ pc' \in Pc
      BY <1>1 DEF TypeOK, Pc
    <2>2. "Y" \in Addr
      BY DEF Addr
    <2>3. QED
      BY <1>1, <1>2, <2>1, <2>2, TypesFrom
  <1>9. QED
    BY <1>2, <1>7, <1>8, FsmKept DEF Inductive

\* The end of a load: no store is outstanding and the job has gone on.
LEMMA LoadEnds ==
  ASSUME Inductive, Edge, pc \in {"WaitStatus", "WaitY"}, RHandshake,
         HoldStore, HoldLoad, Count(0), x_raw' = x_raw,
         pc' \notin {"WaitStatus", "WaitY"}
  PROVE  /\ Bus' /\ Stores' /\ stores' = 0 /\ ~Pending'
         /\ JobRuns' /\ ~start_reg' /\ AtMost(3)' /\ AtMost(2)'
  <1>1. /\ TypeOK /\ Bus /\ Fsm /\ Point /\ WriteChannel /\ ProcessingFSM
    BY DEF Inductive, Edge, SlaveStep
  <1>2. stores = 0 /\ ~Pending /\ ~b_valid
    BY <1>1, NonePending DEF Bus
  <1>3. Stores' /\ stores' = 0 /\ ~Pending'
    BY <1>1, <1>2, StoreHeld
  <1>4. JobRuns /\ AtMost(3)
    BY <1>1 DEF Point
  <1>5. JobRuns' /\ ~start_reg' /\ AtMost(3)'
    BY <1>2, <1>4, JobGoesOn
  <1>6. AtMost(2)'
    BY <1>1, <1>4, <1>5, Nearer
  <1>7. Bus'
    BY <1>1, <1>3, BusQuiet
  <1>8. QED
    BY <1>3, <1>5, <1>6, <1>7

\* The status is taken: with the done bit in it the FSM is at rest.
LEMMA TakeStatusInductive ==
  ASSUME Inductive, Edge, TakeStatus
  PROVE  Inductive'
  <1>1. /\ TypeOK /\ Bus /\ Fsm /\ Point /\ ProcessingFSM
        /\ pc = "WaitStatus" /\ RHandshake
        /\ pc' = (IF (r_data \div 2) % 2 = 1 THEN "LoadY" ELSE "LoadStatus")
        /\ HoldStore /\ HoldLoad /\ Count(0)
        /\ i' = i /\ x_raw' = x_raw /\ y_raw' = y_raw /\ polling' = polling
    BY DEF Inductive, Edge, SlaveStep, TakeStatus
  <1>2. /\ Bus' /\ Stores' /\ stores' = 0 /\ ~Pending'
        /\ JobRuns' /\ ~start_reg' /\ AtMost(3)' /\ AtMost(2)'
    BY <1>1, LoadEnds
  <1>3. polling /\ i < NumPoints
    BY <1>1 DEF Point
  <1>4. pc' = "LoadY" => AtMost(0)'
    <2>1. pc' = "LoadY" => AtMost(0)
      BY <1>1 DEF Point, RHandshake
    <2>2. QED
      BY <1>1, <1>2, <2>1, Nearer
  <1>5. Point'
    <2>1. pc' \in {"LoadY", "LoadStatus"}
      BY <1>1
    <2>2. QED
      BY <1>1, <1>2, <1>3, <1>4, <2>1 DEF Point, Pending
  <1>6. TypeOK'
    <2>1. i' \in 0..NumPoints /\ x_raw' \in Words /\ y_raw' \in Word /\ pc' \in Pc
      BY <1>1 DEF TypeOK, Pc
    <2>2. QED
      BY <1>1, <1>2, <2>1, TypesFrom
  <1>7. QED
    BY <1>2, <1>5, <1>6, FsmKept DEF Inductive

\* The result is taken: the next point begins with the FSM at rest after the
\* edge at the latest.
LEMMA TakeYInductive ==
  ASSUME Inductive, Edge, TakeY
  PROVE  Inductive'
  <1>1. /\ TypeOK /\ Bus /\ Fsm /\ Point /\ ProcessingFSM
        /\ pc = "WaitY" /\ RHandshake
        /\ pc' = (IF i' = NumPoints THEN "End" ELSE "StoreX")
        /\ HoldStore /\ HoldLoad /\ Count(0)
        /\ y_raw' = S16(r_data) /\ i' = i + 1 /\ x_raw' = x_raw /\ polling' = polling
    BY DEF Inductive, Edge, SlaveStep, TakeY
  <1>2. /\ Bus' /\ Stores' /\ stores' = 0 /\ ~Pending'
        /\ JobRuns' /\ ~start_reg' /\ AtMost(3)' /\ AtMost(2)'
    BY <1>1, LoadEnds
  <1>3. i' \in 0..NumPoints /\ (pc' # "End" => i' < NumPoints)
    <2>1. i \in 0..NumPoints /\ i < NumPoints
      BY <1>1 DEF TypeOK, Point
    <2>2. QED
      BY <1>1, <2>1, NumPointsAssumption
  <1>4. AtMost(1)'
    BY <1>1, <1>2, Nearer DEF Point, RHandshake
  <1>5. Patient' /\ Transparent => y_raw' = Sigmoid(x_raw')
    <2>1. Patient' => Patient
      BY <1>1 DEF Patient
    <2>2. Patient /\ Transparent => r_data = U16(Sigmoid(x_raw))
      BY <1>1 DEF Point, RHandshake
    <2>3. Sigmoid(x_raw) \in Word
      BY <1>1, SigmoidAssumption DEF TypeOK
    <2>4. S16(U16(Sigmoid(x_raw))) = Sigmoid(x_raw)
      BY <2>3, SignedBack
    <2>5. QED
      BY <1>1, <2>1, <2>2, <2>4
  <1>6. Point'
    <2>1. pc' \in {"StoreX", "End"}
      BY <1>1
    <2>2. QED
      BY <1>2, <1>3, <1>4, <1>5, <2>1 DEF Point, Pending
  <1>7. TypeOK'
    <2>1. x_raw' \in Words /\ pc' \in Pc
      BY <1>1 DEF TypeOK, Pc
    <2>2. r_data \in Int
      BY <1>1 DEF TypeOK, SlaveTypeOK, BusWord
    <2>3. y_raw' \in Word
      BY <1>1, <2>2, SignedRange
    <2>4. QED
      BY <1>1, <1>2, <1>3, <2>1, <2>3, TypesFrom
  <1>8. QED
    BY <1>2, <1>6, <1>7, FsmKept DEF Inductive

-----------------------------------------------------------------------------
(* A cycle in which the program gets no further.                           *)

\* Stores and loads that are presented stay, and the slave takes or answers
\* them.
LEMMA StallBus ==
  ASSUME Inductive, Edge, Stall
  PROVE  Bus' /\ Stores'
  <1>1. /\ TypeOK /\ Bus /\ WriteChannel /\ ReadChannel
        /\ HoldStore /\ HoldLoad /\ Count(0) /\ pc' = pc
        /\ ~(pc \in {"WaitStatus", "WaitY"} /\ RHandshake)
    BY DEF Inductive, Edge, SlaveStep, Stall
  <1>2. Stores' /\ (stores = 0 => stores' = 0)
    BY <1>1, StoreHeld
  <1>3. pc' \in {"StoreX", "WaitStatus", "WaitY", "End"} => stores' = 0
    BY <1>1, <1>2 DEF Bus
  <1>4. CASE pc \notin {"WaitStatus", "WaitY"}
    BY <1>1, <1>2, <1>3, <1>4, BusQuiet
  <1>5. CASE pc \in {"WaitStatus", "WaitY"} /\ r_valid
    <2>1. r_valid' /\ ~ar_ready' /\ ~arvalid'
      BY <1>1, <1>5, AnswerHeld DEF RHandshake
    <2>2. QED
      BY <1>1, <1>2, <1>3, <1>5, <2>1, BusFrom
  <1>6. CASE pc \in {"WaitStatus", "WaitY"} /\ ~r_valid
    <2>1. r_valid' /\ ar_ready' /\ arvalid' /\ araddr' = araddr
      BY <1>1, <1>6, LoadAnswered
    <2>2. araddr' = IF pc' = "WaitY" THEN "Y" ELSE "STATUS"
      BY <1>1, <1>6, <2>1, SMTT(30), Z3T(30) DEF Bus
    <2>3. QED
      BY <1>1, <1>2, <1>3, <1>6, <2>1, <2>2, BusFrom
  <1>7. QED
    BY <1>4, <1>5, <1>6

\* Before a point, and after the last one, the FSM comes to rest or stays so.
LEMMA StallBetween ==
  ASSUME Inductive, Edge, Stall, pc \in {"StoreX", "End"}
  PROVE  Point'
  <1>1. /\ TypeOK /\ Bus /\ Fsm /\ Point /\ WriteChannel /\ ProcessingFSM
        /\ pc' = pc /\ i' = i /\ x_raw' = x_raw /\ y_raw' = y_raw /\ polling' = polling
    BY DEF Inductive, Edge, SlaveStep, Stall
  <1>2. ~Pending
    BY <1>1, NonePending DEF Bus
  <1>3. AtMost(0)'
    <2>1. ~start_reg'
      BY <1>1, <1>2, NotTaken
    <2>2. QED
      BY <1>1, <2>1, Nearer DEF Point
  <1>4. AtMost(1)'
    BY <1>3 DEF AtMost
  <1>5. pc' # "End" => i' < NumPoints
    BY <1>1 DEF Point
  <1>6. i' > 0 /\ Patient' /\ Transparent => y_raw' = Sigmoid(x_raw')
    <2>1. Patient' => Patient
      BY <1>1 DEF Patient
    <2>2. QED
      BY <1>1, <2>1 DEF Point
  <1>7. QED
    BY <1>1, <1>4, <1>5, <1>6 DEF Point

\* Between the two stores of a point: the operand is taken into x_reg.
LEMMA StallStore ==
  ASSUME Inductive, Edge, Stall, pc = "StoreCtrl"
  PROVE  Point'
  <1>1. /\ TypeOK /\ Bus /\ Fsm /\ Point /\ WriteChannel /\ ProcessingFSM
        /\ HoldStore /\ Count(0)
        /\ pc' = pc /\ i' = i /\ x_raw' = x_raw
    BY DEF Inductive, Edge, SlaveStep, Stall
  <1>2. Pending => ~b_valid /\ awaddr = "X" /\ wdata = x_raw /\ wstrb0
    BY <1>1 DEF Point, Pending
  <1>3. ~Pending'
    BY <1>1, <1>2, StoreHeld
  <1>4. x_reg' = x_raw' /\ ~start_reg'
    <2>1. CASE Pending
      BY <1>1, <1>2, <2>1, Taken
    <2>2. CASE ~Pending
      <3>1. x_reg = x_raw
        BY <1>1, <2>2 DEF Point, Pending
      <3>2. QED
        BY <1>1, <2>2, <3>1, NotTaken
    <2>3. QED
      BY <2>1, <2>2
  <1>5. AtMost(0)'
    BY <1>1, <1>4, Nearer DEF Point
  <1>6. i' < NumPoints
    BY <1>1 DEF Point
  <1>7. QED
    BY <1>1, <1>3, <1>4, <1>5, <1>6 DEF Point, Pending

\* Before a load: the store to CTRL is held, or taken and the FSM started, or
\* the job goes on; every edge after the answer brings it nearer to its end.
LEMMA StallLoad ==
  ASSUME Inductive, Edge, Stall, pc \in {"LoadStatus", "LoadY"}
  PROVE  Point'
  <1>1. /\ TypeOK /\ Bus /\ Fsm /\ Point /\ WriteChannel /\ ProcessingFSM
        /\ HoldStore /\ Count(0)
        /\ pc' = pc /\ i' = i /\ x_raw' = x_raw /\ polling' = polling
    BY DEF Inductive, Edge, SlaveStep, Stall
  <1>2. i' < NumPoints /\ (pc' = "LoadStatus" => polling')
    BY <1>1 DEF Point
  <1>3. Stores' /\ (Pending' <=> Pending /\ b_valid) /\ (stores = 0 => stores' = 0)
    BY <1>1, StoreHeld
  <1>4. pc = "LoadY" /\ polling => stores = 0 /\ AtMost(0)
    BY <1>1 DEF Point
  <1>5. Pending => AtMost(0) /\ awaddr = "CTRL" /\ wdata = 1 /\ x_reg = x_raw /\ stores # 0
    <2>1. Pending => AtMost(0) /\ awaddr = "CTRL" /\ wdata = 1 /\ x_reg = x_raw
      BY <1>1 DEF Point, Pending
    <2>2. Pending => stores # 0
      BY <1>1, NonePending
    <2>3. QED
      BY <2>1, <2>2
  <1>6. CASE Pending /\ ~b_valid
    <2>1. b_valid' /\ x_reg' = x_reg /\ start_reg'
      BY <1>1, <1>5, <1>6, Taken
    <2>2. stores' # 0
      BY <1>3, <2>1 DEF Stores, Bit
    <2>3. state' = "IDLE"
      BY <1>1, <1>5, <1>6, IdleStays
    <2>4. JobRuns'
      BY <1>1, <1>5, <1>6, <2>1, <2>3 DEF JobRuns, AtMost
    <2>5. ~(pc' = "LoadY" /\ polling')
      BY <1>1, <1>4, <1>5, <1>6
    <2>6. QED
      BY <1>1, <1>2, <1>3, <1>6, <2>2, <2>4, <2>5 DEF Point, Pending
  <1>7. CASE Pending /\ b_valid
    <2>1. x_reg' = x_reg /\ ~start_reg'
      BY <1>1, <1>7, NotTaken
    <2>2. AtMost(0)'
      BY <1>1, <1>5, <1>7, <2>1, Nearer
    <2>3. awaddr' = "CTRL" /\ wdata' = 1
      BY <1>1, <1>5, <1>7, StoreHeld
    <2>4. stores' # 0
      BY <1>3, <1>7 DEF Stores, Bit
    <2>5. ~(pc' = "LoadY" /\ polling')
      BY <1>1, <1>4, <1>5, <1>7, SMTT(30), Z3T(30)
    <2>6. QED
      BY <1>1, <1>2, <1>3, <1>5, <1>7, <2>1, <2>2, <2>3, <2>4, <2>5 DEF Point, Pending
  <1>8. CASE ~Pending
    <2>1. JobRuns
      BY <1>1, <1>8 DEF Point, Pending
    <2>2. JobRuns' /\ ~start_reg' /\ AtMost(3)'
      BY <1>1, <1>8, <2>1, JobGoesOn
    <2>3. stores' = 0 /\ delay' >= 2 => AtMost(2)'
      <3> SUFFICES ASSUME stores' = 0, delay' >= 2 PROVE AtMost(2)'
        OBVIOUS
      <3>1. delay \in Int
        BY <1>1, ReadDelayAssumption DEF TypeOK
      <3>2. delay # 0
        BY <1>1, <3>1, ReadDelayAssumption DEF Count
      <3>3. stores = 0
        BY <1>1, <3>2 DEF Bus
      <3>4. AtMost(3)
        BY <1>1, <3>3 DEF Point
      <3>5. QED
        BY <1>1, <2>2, <3>4, Nearer
    <2>4. pc' = "LoadY" /\ polling' => stores' = 0 /\ AtMost(0)'
      BY <1>1, <1>3, <1>4, <2>2, Nearer
    <2>5. QED
      BY <1>1, <1>2, <1>3, <1>8, <2>2, <2>3, <2>4 DEF Point, Pending
  <1>9. QED
    BY <1>6, <1>7, <1>8

\* During a load: the answer shows the register as the edge found it.
LEMMA StallWait ==
  ASSUME Inductive, Edge, Stall, pc \in {"WaitStatus", "WaitY"}
  PROVE  Point'
  <1>1. /\ TypeOK /\ Bus /\ Fsm /\ Point /\ ProcessingFSM /\ ReadChannel
        /\ HoldLoad /\ Count(0) /\ ~RHandshake
        /\ pc' = pc /\ i' = i /\ x_raw' = x_raw /\ polling' = polling
    BY DEF Inductive, Edge, SlaveStep, Stall
  <1>2. i' < NumPoints /\ (pc' = "WaitStatus" => polling')
    BY <1>1 DEF Point
  <1>3. JobRuns /\ AtMost(3) /\ ~Pending
    BY <1>1, NonePending DEF Point, Bus
  <1>4. JobRuns' /\ ~start_reg' /\ AtMost(3)'
    BY <1>1, <1>3, JobGoesOn
  <1>5. AtMost(2)'
    BY <1>1, <1>3, <1>4, Nearer
  <1>6. pc' = "WaitY" /\ Patient' => AtMost(1) /\ AtMost(1)'
    <2>1. Patient' => Patient
      BY <1>1 DEF Patient
    <2>2. pc' = "WaitY" /\ Patient' => AtMost(1)
      BY <1>1, <2>1 DEF Point
    <2>3. pc' = "WaitY" /\ Patient' => AtMost(0)'
      BY <1>1, <1>4, <2>2, Nearer
    <2>4. QED
      BY <2>2, <2>3 DEF AtMost
  <1>7. pc' = "WaitStatus" /\ r_valid' /\ (r_data' \div 2) % 2 = 1 => AtMost(0)'
    <2> SUFFICES ASSUME pc' = "WaitStatus", (r_data' \div 2) % 2 = 1 PROVE AtMost(0)'
      OBVIOUS
    <2>1. CASE r_valid
      <3>1. r_data' = r_data
        BY <1>1, <2>1, AnswerHeld
      <3>2. AtMost(0)
        BY <1>1, <2>1, <3>1 DEF Point
      <3>3. QED
        BY <1>1, <1>4, <3>2, Nearer
    <2>2. CASE ~r_valid
      <3>1. araddr = "STATUS"
        BY <1>1, <2>2 DEF Bus
      <3>2. r_data' = 2 * Bit(done) + Bit(busy)
        BY <1>1, <2>2, <3>1, LoadAnswered DEF RegisterAt
      <3>3. done
        BY <3>2 DEF Bit
      <3>4. AtMost(0)
        BY <1>1, <1>3, <3>3 DEF AtMost, Fsm
      <3>5. QED
        BY <1>1, <1>4, <3>4, Nearer
    <2>3. QED
      BY <2>1, <2>2
  <1>8. pc' = "WaitY" /\ Patient' /\ Transparent => r_data' = U16(Sigmoid(x_raw'))
    <2> SUFFICES ASSUME pc' = "WaitY", Patient', Transparent PROVE r_data' = U16(Sigmoid(x_raw'))
      OBVIOUS
    <2>1. CASE r_valid
      <3>1. r_data' = r_data
        BY <1>1, <2>1, AnswerHeld
      <3>2. Patient
        BY <1>1 DEF Patient
      <3>3. QED
        BY <1>1, <2>1, <3>1, <3>2 DEF Point
    <2>2. CASE ~r_valid
      <3>1. araddr = "Y"
        BY <1>1, <2>2 DEF Bus
      <3>2. r_data' = U16(y_reg)
        BY <1>1, <2>2, <3>1, LoadAnswered DEF RegisterAt
      <3>3. y_reg = Sigmoid(x_raw)
        BY <1>3, <1>6 DEF JobRuns
      <3>4. QED
        BY <1>1, <3>2, <3>3
    <2>3. QED
      BY <2>1, <2>2
  <1>9. QED
    BY <1>1, <1>2, <1>4, <1>5, <1>6, <1>7, <1>8 DEF Point

\* All of the invariant over a stall.
LEMMA StallInductive ==
  ASSUME Inductive, Edge, Stall
  PROVE  Inductive'
  <1>1. pc \in Pc
    BY DEF Inductive, TypeOK
  <1>2. Point'
    BY <1>1, StallBetween, StallStore, StallLoad, StallWait DEF Pc
  <1>3. TypeOK'
    <2>1. /\ TypeOK /\ HoldStore /\ HoldLoad /\ Count(0)
          /\ pc' \in Pc /\ i' \in 0..NumPoints /\ x_raw' \in Words /\ y_raw' \in Word
      BY DEF Inductive, TypeOK, Stall
    <2>2. QED
      BY <2>1, StallBus, TypesFrom
  <1>4. QED
    BY <1>2, <1>3, StallBus, FsmKept DEF Inductive

-----------------------------------------------------------------------------
(* The theorems.                                                           *)

\* Before the first edge nothing is outstanding and the FSM is at rest.
LEMMA InitInductive == Init => Inductive
  <1> SUFFICES ASSUME Init PROVE Inductive
    OBVIOUS
  <1>1. SlaveInit /\ MasterInit /\ stores = 0 /\ pc = "StoreX" /\ i = 0
    BY DEF Init
  <1>2. SlaveTypeOK
    BY <1>1, WordsAssumption, BusWords, Zenon DEF SlaveInit, SlaveTypeOK, State, Results
  <1>3. MasterTypeOK
    BY <1>1, WordsAssumption, Zenon DEF MasterInit, MasterTypeOK, Addr
  <1>4. 0 \in Word
    BY WordsAssumption
  <1>5. TypeOK
    <2>1. polling \in BOOLEAN /\ pc \in Pc /\ x_raw \in Words /\ y_raw \in Word
      BY <1>4, ProgramsAssumption, WordsAssumption DEF Init, Pc
    <2>2. i \in 0..NumPoints /\ stores \in 0..2 /\ delay \in 0..ReadDelay
      BY NumPointsAssumption, ReadDelayAssumption DEF Init
    <2>3. QED
      BY <1>2, <1>3, <2>1, <2>2 DEF TypeOK
  <1>6. Bus
    BY <1>1 DEF SlaveInit, MasterInit, Bus, Bit
  <1>7. Fsm
    BY <1>1 DEF SlaveInit, Fsm
  <1>8. Point
    <2>1. AtMost(1)
      BY <1>1 DEF SlaveInit, AtMost
    <2>2. i < NumPoints /\ ~(i > 0)
      BY <1>1, NumPointsAssumption
    <2>3. QED
      BY <1>1, <2>1, <2>2 DEF Point
  <1>9. QED
    BY <1>5, <1>6, <1>7, <1>8 DEF Inductive

\* A step that changes nothing keeps the invariant.
LEMMA StutterInductive == Inductive /\ UNCHANGED vars => Inductive'
  <1> SUFFICES ASSUME Inductive, UNCHANGED vars PROVE Inductive'
    OBVIOUS
  <1>1. /\ UNCHANGED <<aw_ready, w_ready, b_valid, x_reg, start_reg>>
        /\ UNCHANGED <<ar_ready, r_valid, r_data>>
        /\ UNCHANGED <<state, busy, done, sigmoid_x, y_reg, sigmoid_y>>
        /\ UNCHANGED <<rst_n, awvalid, awaddr, wvalid, wdata, wstrb0, bready>>
        /\ UNCHANGED <<arvalid, araddr, rready>>
        /\ UNCHANGED <<polling, pc, i, x_raw, y_raw, stores, delay>>
    BY DEF vars, slaveVars, writeRegs, readRegs, fsmRegs, masterVars, writeWires,
       readWires, cpuVars
  <1>2. TypeOK'
    <2>1. TypeOK
      BY DEF Inductive
    <2>2. SlaveTypeOK'
      BY <1>1, <2>1 DEF TypeOK, SlaveTypeOK
    <2>3. MasterTypeOK'
      BY <1>1, <2>1 DEF TypeOK, MasterTypeOK
    <2>4. QED
      BY <1>1, <2>1, <2>2, <2>3 DEF TypeOK
  <1>3. Bus'
    BY <1>1 DEF Inductive, Bus
  <1>4. Fsm'
    BY <1>1 DEF Inductive, Fsm
  <1>5. Point'
    <2>1. Point
      BY DEF Inductive
    <2>2. (JobRuns <=> JobRuns') /\ (Patient <=> Patient')
      BY <1>1 DEF JobRuns, AtMost, Patient
    <2>3. /\ AtMost(0)' <=> AtMost(0)
          /\ AtMost(1)' <=> AtMost(1)
          /\ AtMost(2)' <=> AtMost(2)
          /\ AtMost(3)' <=> AtMost(3)
      BY <1>1 DEF AtMost
    <2>4. QED
      BY <1>1, <2>1, <2>2, <2>3, ZenonT(60) DEF Point
  <1>6. QED
    BY <1>2, <1>3, <1>4, <1>5 DEF Inductive

\* Program, bus and FSM of sigmoid_top stay in step at every edge, for every
\* program of the repository, whatever the delay of the interconnect and
\* whichever core is behind the wrapper.
THEOREM InductiveHolds == Spec => []Inductive
  <1>1. Inductive /\ [Next]_vars => Inductive'
    BY StoreXInductive, StoreCtrlInductive, LoadStatusInductive, TakeStatusInductive,
       LoadYInductive, TakeYInductive, StallInductive, StutterInductive DEF Next, Access
  <1>2. QED
    BY <1>1, InitInductive, PTL DEF Spec

\* Every register, wire and counter keeps its type.
THEOREM TypeCorrect == Spec => []TypeOK
  <1>1. Inductive => TypeOK
    BY DEF Inductive
  <1>2. QED
    BY <1>1, InductiveHolds, PTL

\* No start is dropped by the FSM (sigmoid_top.v looks at start_reg in IDLE
\* only), even for a program that does not wait for the result of a point:
\* its load of Y takes long enough for the job to end before the next start.
THEOREM StartCorrect == Spec => []NoStartLost
  <1>1. Inductive => NoStartLost
    BY DEF Inductive, Fsm, NoStartLost
  <1>2. QED
    BY <1>1, InductiveHolds, PTL

\* With the open latch of the cores, every program reads the result of its own
\* point for every point, if the interconnect takes two edges from the answer
\* to the load; a program that polls does so without any such delay.
THEOREM ResultCorrect ==
  ASSUME Transparent, ReadDelay >= 2 \/ Programs = {TRUE}
  PROVE  Spec => []ReadsOwnResult
  <1>1. CASE ReadDelay >= 2
    <2>1. Inductive => ReadsOwnResult
      BY <1>1 DEF Inductive, Point, Patient, ReadsOwnResult
    <2>2. QED
      BY <2>1, InductiveHolds, PTL
  <1>2. CASE Programs = {TRUE}
    <2>1. Init => polling
      BY <1>2 DEF Init
    <2>2. polling /\ [Next]_vars => polling'
      BY Zenon DEF Next, Edge, vars, cpuVars
    <2>3. Inductive /\ polling => ReadsOwnResult
      BY DEF Inductive, Point, Patient, ReadsOwnResult
    <2>4. QED
      BY <2>1, <2>2, <2>3, InductiveHolds, PTL DEF Spec
  <1>3. QED
    BY <1>1, <1>2, Zenon
=============================================================================
