--------------------------- MODULE AdderTopProofs ---------------------------
(***************************************************************************)
(* Proofs about truncated_adder_top for every set of words and every       *)
(* adder: what SUM holds, under any AXI4-Lite master, and that requests    *)
(* are answered once, under a master with one request at a time.           *)
(***************************************************************************)
EXTENDS AdderTop, TLAPS

-----------------------------------------------------------------------------
(* SUM and the start bit: any master.                                      *)

\* What the FSM needs to be typed for this part.
FsmTyped ==
    /\ state \in {"IDLE", "CALC", "DONE"} /\ done \in BOOLEAN
    /\ reg_ctrl_start \in BOOLEAN /\ quiet \in Nat

\* After an edge the quiet counter is k > 0 only if it was k - 1 and neither
\* an operand nor the start bit has changed.
LEMMA QuietGrows ==
  ASSUME quiet \in Nat, Observe, NEW k \in Nat \ {0}, quiet' >= k
  PROVE  /\ quiet >= k - 1
         /\ reg_a' = reg_a /\ reg_b' = reg_b /\ reg_ctrl_start' = reg_ctrl_start
  BY AdderAssumption DEF Observe

\* An edge keeps the quiet counter a natural number.
LEMMA QuietNat ==
  ASSUME quiet \in Nat, Observe
  PROVE  quiet' \in Nat
  BY DEF Observe

\* In reset the wrapper forgets its start bit and its done bit.
LEMMA ResetSettled ==
  ASSUME WriteReset, FsmReset
  PROVE  Settling'
  BY DEF WriteReset, FsmReset, Settling

\* From IDLE: the sum is as old as it was, and CALC is entered by the start
\* bit, which the edge before the last must have had as well.
LEMMA IdleSettled ==
  ASSUME FsmTyped, Settling, Observe, FsmIdle
  PROVE  Settling'
  <1>1. state' \in {"IDLE", "CALC"} /\ ~done' /\ reg_sum' = reg_sum
    BY DEF FsmIdle, FsmTyped
  <1>2. CASE state' = "IDLE"
    <2>1. ASSUME quiet' >= 2 PROVE reg_ctrl_start' = reg_ctrl_start
      BY <2>1, QuietGrows DEF FsmTyped
    <2>2. ASSUME reg_ctrl_start', quiet' >= 2 PROVE FALSE
      BY <2>1, <2>2, <1>2, Zenon DEF FsmIdle
    <2>3. QED
      BY <1>1, <1>2, <2>2 DEF Settling
  <1>3. CASE state' = "CALC"
    <2>1. ASSUME quiet' >= 3 PROVE reg_sum' = Add(reg_a', reg_b')
      <3>1. /\ quiet >= 3 - 1
            /\ reg_a' = reg_a /\ reg_b' = reg_b /\ reg_ctrl_start' = reg_ctrl_start
        BY <2>1, QuietGrows DEF FsmTyped
      <3>2. quiet >= 2
        BY <3>1 DEF FsmTyped
      <3>3. reg_sum = Add(reg_a, reg_b)
        BY <1>3, <3>2 DEF Settling, FsmIdle
      <3>4. QED
        BY <1>1, <3>1, <3>3
    <2>2. QED
      BY <1>1, <1>3, <2>1 DEF Settling
  <1>4. QED
    BY <1>1, <1>2, <1>3

\* From CALC: the sum is that of the operands before the edge.
LEMMA CalcSettled ==
  ASSUME FsmTyped, Observe, FsmCalc
  PROVE  Settling'
  <1>1. state' = "DONE" /\ reg_sum' = Add(reg_a, reg_b)
    BY DEF FsmCalc
  <1>2. ASSUME quiet' >= 1 PROVE reg_a' = reg_a /\ reg_b' = reg_b
    BY <1>2, QuietGrows DEF FsmTyped
  <1>3. QED
    BY <1>1, <1>2 DEF Settling

\* From DONE: the sum stays.
LEMMA DoneSettled ==
  ASSUME FsmTyped, Settling, Observe, FsmDone
  PROVE  Settling'
  <1>1. state' = "IDLE" /\ reg_sum' = reg_sum
    BY DEF FsmDone
  <1>2. ASSUME quiet' >= 2 PROVE reg_sum = Add(reg_a', reg_b')
    <2>1. quiet >= 2 - 1 /\ reg_a' = reg_a /\ reg_b' = reg_b
      BY <1>2, QuietGrows DEF FsmTyped
    <2>2. quiet >= 1
      BY <2>1 DEF FsmTyped
    <2>3. QED
      BY <2>1, <2>2 DEF Settling, FsmDone
  <1>3. QED
    BY <1>1, <1>2 DEF Settling

\* One edge keeps the FSM typed.
LEMMA FsmTypes ==
  ASSUME FsmTyped, WriteChannel, ControlFSM, Observe, wdata \in Nat
  PROVE  FsmTyped'
  <1>1. state' \in {"IDLE", "CALC", "DONE"} /\ done' \in BOOLEAN
    BY Zenon DEF FsmTyped, ControlFSM, FsmReset, FsmIdle, FsmCalc, FsmDone
  <1>2. reg_ctrl_start' \in BOOLEAN
    BY Zenon DEF FsmTyped, WriteChannel, WriteReset, WriteExecute
  <1>3. quiet' \in Nat
    BY QuietNat DEF FsmTyped
  <1>4. QED
    BY <1>1, <1>2, <1>3 DEF FsmTyped

\* One edge keeps the age of SUM.
LEMMA StepSettled ==
  ASSUME FsmTyped, Settling, WriteChannel, ControlFSM, Observe
  PROVE  Settling'
  <1>1. CASE FsmReset
    <2>1. WriteReset
      BY <1>1 DEF FsmReset, WriteChannel
    <2>2. QED
      BY <1>1, <2>1, ResetSettled
  <1>2. CASE FsmIdle
    BY <1>2, IdleSettled
  <1>3. CASE FsmCalc
    BY <1>3, CalcSettled
  <1>4. CASE FsmDone
    BY <1>4, DoneSettled
  <1>5. QED
    BY <1>1, <1>2, <1>3, <1>4 DEF ControlFSM

\* The words on the bus stay words.
LEMMA DataStays ==
  ASSUME wdata \in Words, WChannel(Words)
  PROVE  wdata' \in Words
  BY AdderAssumption DEF WChannel, NoW

\* The age of SUM is an invariant of truncated_adder_top under every AXI4-Lite
\* master, pipelining ones included.
THEOREM SettlingHolds == Spec => [](FsmTyped /\ wdata \in Words /\ Settling)
  <1>1. Init => FsmTyped /\ wdata \in Words /\ Settling
    BY AdderAssumption, Zenon DEF Init, MasterInit, FsmTyped, Settling
  <1>2. FsmTyped /\ wdata \in Words /\ Settling /\ [Next]_vars
            => (FsmTyped /\ wdata \in Words /\ Settling)'
    <2> SUFFICES ASSUME FsmTyped, wdata \in Words, Settling, [Next]_vars
                 PROVE  (FsmTyped /\ wdata \in Words /\ Settling)'
      OBVIOUS
    <2>1. CASE Next
      <3>1. WriteChannel /\ ControlFSM /\ Observe /\ WChannel(Words)
        BY <2>1 DEF Next, SlaveStep, Master
      <3>2. wdata \in Nat
        BY AdderAssumption
      <3>3. QED
        BY <3>1, <3>2, FsmTypes, StepSettled, DataStays
    <2>2. CASE UNCHANGED vars
      BY <2>2 DEF vars, fsmRegs, writeRegs, observers, masterVars, writeWires,
                  FsmTyped, Settling
    <2>3. QED
      BY <2>1, <2>2
  <1>3. QED
    BY <1>1, <1>2, PTL DEF Spec

\* A done bit two edges after the last change belongs to the operands the
\* registers hold, for every adder and every master.
THEOREM FreshCorrect == Spec => []DoneIsFresh
  <1>1. FsmTyped /\ Settling => DoneIsFresh
    BY DEF FsmTyped, Settling, DoneIsFresh
  <1>2. QED
    BY <1>1, SettlingHolds, PTL

\* With the start bit set three quiet edges settle SUM, for every adder and
\* every master.
THEOREM SettlesCorrect == Spec => []SumSettles
  <1>1. FsmTyped /\ Settling => SumSettles
    BY DEF FsmTyped, Settling, SumSettles
  <1>2. QED
    BY <1>1, SettlingHolds, PTL

-----------------------------------------------------------------------------
(* Requests and answers: a master with one request at a time.              *)

\* One edge keeps the registers of the write channel in their types.
LEMMA WriteTypes ==
  ASSUME TypeOK, WriteChannel
  PROVE  /\ aw_ready' \in BOOLEAN /\ w_ready' \in BOOLEAN /\ b_valid' \in BOOLEAN
         /\ reg_a' \in Words /\ reg_b' \in Words /\ reg_ctrl_start' \in BOOLEAN
  <1>1. CASE WriteReset
    BY <1>1, AdderAssumption, Zenon DEF WriteReset
  <1>2. CASE rst_n /\ WriteReady /\ WriteExecute
    <2>1. aw_ready' \in BOOLEAN /\ w_ready' \in BOOLEAN
      BY <1>2 DEF WriteReady
    <2>2. reg_a' \in Words /\ reg_b' \in Words
      BY <1>2 DEF WriteExecute, TypeOK
    <2>3. b_valid' \in BOOLEAN /\ reg_ctrl_start' \in BOOLEAN
      BY <1>2, Zenon DEF WriteExecute, TypeOK
    <2>4. QED
      BY <2>1, <2>2, <2>3
  <1>3. QED
    BY <1>1, <1>2 DEF WriteChannel

\* The sums of two words, and the 0 of the reset.
LEMMA SumsHave ==
  /\ 0 \in Sums
  /\ \A v, w \in Words : Add(v, w) \in Sums
  <1>1. 0 \in Sums
    BY DEF Sums
  <1>2. ASSUME NEW v \in Words, NEW w \in Words PROVE Add(v, w) \in Sums
    BY DEF Sums
  <1>3. QED
    BY <1>1, <1>2

\* One edge keeps the registers of the FSM in their types.
LEMMA SumTypes ==
  ASSUME TypeOK, ControlFSM
  PROVE  /\ state' \in {"IDLE", "CALC", "DONE"} /\ busy' \in BOOLEAN /\ done' \in BOOLEAN
         /\ reg_sum' \in Sums
  <1>1. CASE FsmReset
    BY <1>1, SumsHave, Zenon DEF FsmReset
  <1>2. CASE FsmIdle
    BY <1>2, Zenon DEF FsmIdle, TypeOK
  <1>3. CASE FsmCalc
    <2>1. reg_a \in Words /\ reg_b \in Words
      BY DEF TypeOK
    <2>2. Add(reg_a, reg_b) \in Sums
      BY <2>1, SumsHave
    <2>3. QED
      BY <1>3, <2>2, Zenon DEF FsmCalc
  <1>4. CASE FsmDone
    BY <1>4 DEF FsmDone, TypeOK
  <1>5. QED
    BY <1>1, <1>2, <1>3, <1>4 DEF ControlFSM

\* Every register reads as a word, a sum or a few control bits.
LEMMA RegisterTypes ==
  ASSUME TypeOK
  PROVE  RegisterAt(araddr) \in Words \union Sums \union 0..3
  <1>1. araddr \in Addr /\ reg_a \in Words /\ reg_b \in Words /\ reg_sum \in Sums
    BY DEF TypeOK
  <1>2. 2 * Bit(done) + Bit(busy) \in 0..3 /\ Bit(reg_ctrl_start) \in 0..3 /\ 0 \in 0..3
    BY DEF Bit
  <1>3. QED
    BY <1>1, <1>2 DEF RegisterAt, Addr

\* One edge keeps the registers of the read channel in their types.
LEMMA ReadTypes ==
  ASSUME TypeOK, ReadChannel
  PROVE  /\ ar_ready' \in BOOLEAN /\ r_valid' \in BOOLEAN
         /\ r_data' \in Words \union Sums \union 0..3
  <1>1. CASE ReadReset
    BY <1>1, SumsHave, Zenon DEF ReadReset
  <1>2. CASE rst_n /\ ar_ready' = (~ar_ready /\ arvalid) /\ ReadData
    <2>1. ar_ready' \in BOOLEAN /\ r_valid' \in BOOLEAN
      BY <1>2, Zenon DEF ReadData
    <2>2. r_data' \in {RegisterAt(araddr), r_data}
      BY <1>2 DEF ReadData
    <2>3. QED
      BY <2>1, <2>2, RegisterTypes DEF TypeOK
  <1>3. QED
    BY <1>1, <1>2 DEF ReadChannel

\* One edge keeps the master's wires in their types.
LEMMA MasterTypes ==
  ASSUME TypeOK, Master
  PROVE  /\ {rst_n, awvalid, wvalid, wstrb0, bready, arvalid, rready}' \subseteq BOOLEAN
         /\ awaddr' \in Addr /\ araddr' \in Addr /\ wdata' \in Words
  <1>1. awvalid' \in BOOLEAN /\ awaddr' \in Addr
    BY AdderAssumption, Zenon DEF Master, AwChannel, NoAw, TypeOK, Addr
  <1>2. wvalid' \in BOOLEAN /\ wstrb0' \in BOOLEAN
    BY Zenon DEF Master, WChannel, NoW, TypeOK
  <1>3. arvalid' \in BOOLEAN /\ araddr' \in Addr
    BY AdderAssumption, Zenon DEF Master, ArChannel, NoAr, TypeOK, Addr
  <1>4. wdata' \in Words
    BY DataStays DEF Master, TypeOK
  <1>5. QED
    BY <1>1, <1>2, <1>3, <1>4 DEF Master, ResponseReady, Reset

\* One edge keeps the quiet counter below its bound.
LEMMA QuietBounded ==
  ASSUME quiet \in 0..MaxQuiet, Observe
  PROVE  quiet' \in 0..MaxQuiet
  BY AdderAssumption DEF Observe

\* Under reset everything is forgotten, requests and answers.
LEMMA ResetAnswering ==
  ASSUME ~rst_n, WriteChannel, ReadChannel, Master
  PROVE  Answering'
  <1>1. ~aw_ready' /\ ~w_ready' /\ ~b_valid' /\ ~ar_ready' /\ ~r_valid'
    BY DEF WriteChannel, WriteReset, ReadChannel, ReadReset
  <1>2. ~awvalid' /\ ~wvalid' /\ ~arvalid'
    BY DEF Master, AwChannel, WChannel, ArChannel, NoAw, NoW, NoAr
  <1>3. writesOpen' = 0 /\ readsOpen' = 0
    BY DEF Master, StillOpen
  <1>4. QED
    BY <1>1, <1>2, <1>3 DEF Answering, Bit

\* Out of reset the write channel keeps the answers: READY rises for a request
\* that is there and stays, the handshake that takes it raises the response,
\* and no request is presented beside an unanswered one.
LEMMA WriteAnswering ==
  ASSUME TypeOK, Answering, rst_n, ~Pipelined, WriteChannel, Master
  PROVE  /\ aw_ready' <=> w_ready'
         /\ aw_ready' => awvalid' /\ wvalid'
         /\ awvalid' \/ wvalid' => ~b_valid'
         /\ writesOpen' = Bit(b_valid')
  <1>1. WriteReady /\ WriteExecute
    BY DEF WriteChannel, WriteReset
  <1>2. aw_ready' <=> w_ready'
    BY <1>1 DEF WriteReady
  <1>3. aw_ready' => awvalid' /\ wvalid'
    <2>1. ASSUME aw_ready' PROVE ~aw_ready /\ ~w_ready /\ awvalid /\ wvalid
      BY <1>1, <2>1, Zenon DEF WriteReady, Answering
    <2>2. ASSUME aw_ready' PROVE awvalid'
      <3>1. awvalid /\ ~aw_ready
        BY <2>1, <2>2
      <3>2. awvalid' = awvalid
        BY <3>1, Zenon DEF Master, AwChannel
      <3>3. QED
        BY <3>1, <3>2
    <2>3. ASSUME aw_ready' PROVE wvalid'
      <3>1. wvalid /\ ~w_ready
        BY <2>1, <2>3
      <3>2. wvalid' = wvalid
        BY <3>1, Zenon DEF Master, WChannel
      <3>3. QED
        BY <3>1, <3>2
    <2>4. QED
      BY <2>2, <2>3
  <1>4. b_valid' <=> AwHandshake \/ (b_valid /\ ~bready)
    BY <1>1, Zenon DEF WriteExecute, AwHandshake, WHandshake, Answering
  <1>5. writesOpen' = Bit(b_valid')
    <2>1. writesOpen' = writesOpen + Bit(AwHandshake) - Bit(BHandshake)
      BY DEF Master, StillOpen
    <2>2. writesOpen = Bit(b_valid)
      BY DEF Answering
    <2>3. CASE AwHandshake
      <3>1. ~b_valid
        BY <2>3 DEF AwHandshake, Answering
      <3>2. QED
        BY <1>4, <2>1, <2>2, <2>3, <3>1 DEF Bit, BHandshake
    <2>4. CASE ~AwHandshake
      BY <1>4, <2>1, <2>2, <2>4 DEF Bit, BHandshake
    <2>5. QED
      BY <2>3, <2>4
  <1>6. OneAtATime
    BY DEF Master
  <1>7. writesOpen' = 0 => ~b_valid'
    BY <1>5 DEF Bit
  <1>8. awvalid' => ~b_valid'
    <2>1. CASE ~awvalid \/ aw_ready
      BY <1>6, <1>7, <2>1 DEF OneAtATime
    <2>2. CASE awvalid /\ ~aw_ready
      BY <1>4, <2>2 DEF Answering, AwHandshake
    <2>3. QED
      BY <2>1, <2>2
  <1>9. wvalid' => ~b_valid'
    <2>1. CASE ~wvalid \/ w_ready
      BY <1>6, <1>7, <2>1 DEF OneAtATime
    <2>2. CASE wvalid /\ ~w_ready
      BY <1>4, <2>2 DEF Answering, AwHandshake
    <2>3. QED
      BY <2>1, <2>2
  <1>10. QED
    BY <1>2, <1>3, <1>5, <1>8, <1>9

\* The same for the read channel, which answers only when no data is pending.
LEMMA ReadAnswering ==
  ASSUME TypeOK, Answering, rst_n, ~Pipelined, ReadChannel, Master
  PROVE  /\ ar_ready' => arvalid'
         /\ arvalid' => ~r_valid'
         /\ readsOpen' = Bit(r_valid')
  <1>1. (ar_ready' <=> ~ar_ready /\ arvalid) /\ ReadData
    BY Zenon DEF ReadChannel, ReadReset
  <1>2. ar_ready' => arvalid'
    BY <1>1, Zenon DEF Master, ArChannel
  <1>3. r_valid' <=> ArHandshake \/ (r_valid /\ ~rready)
    BY <1>1, Zenon DEF ReadData, ArHandshake, Answering
  <1>4. readsOpen' = Bit(r_valid')
    <2>1. readsOpen' = readsOpen + Bit(ArHandshake) - Bit(RHandshake)
      BY DEF Master, StillOpen
    <2>2. readsOpen = Bit(r_valid)
      BY DEF Answering
    <2>3. CASE ArHandshake
      <3>1. ~r_valid
        BY <2>3 DEF ArHandshake, Answering
      <3>2. QED
        BY <1>3, <2>1, <2>2, <2>3, <3>1 DEF Bit, RHandshake
    <2>4. CASE ~ArHandshake
      BY <1>3, <2>1, <2>2, <2>4 DEF Bit, RHandshake
    <2>5. QED
      BY <2>3, <2>4
  <1>5. OneAtATime
    BY DEF Master
  <1>6. readsOpen' = 0 => ~r_valid'
    BY <1>4 DEF Bit
  <1>7. arvalid' => ~r_valid'
    <2>1. CASE ~arvalid \/ ar_ready
      BY <1>5, <1>6, <2>1 DEF OneAtATime
    <2>2. CASE arvalid /\ ~ar_ready
      BY <1>3, <2>2 DEF Answering, ArHandshake
    <2>3. QED
      BY <2>1, <2>2
  <1>8. QED
    BY <1>2, <1>4, <1>7

\* One edge keeps the answers.
LEMMA StepAnswering ==
  ASSUME TypeOK, Answering, ~Pipelined, SlaveStep, Master
  PROVE  Answering'
  <1>1. WriteChannel /\ ReadChannel
    BY DEF SlaveStep
  <1>2. CASE ~rst_n
    BY <1>1, <1>2, ResetAnswering
  <1>3. CASE rst_n
    BY <1>1, <1>3, WriteAnswering, ReadAnswering DEF Answering
  <1>4. QED
    BY <1>2, <1>3

\* One edge keeps the types; the counters have theirs from the answers.
LEMMA StepTypes ==
  ASSUME TypeOK, Answering', SlaveStep, Master, Observe
  PROVE  TypeOK'
  <1>1. WriteChannel /\ ControlFSM /\ ReadChannel
    BY DEF SlaveStep
  <1>2. writesOpen' \in 0..1 /\ readsOpen' \in 0..1
    BY DEF Answering, Bit
  <1>3. quiet' \in 0..MaxQuiet
    BY QuietBounded DEF TypeOK
  <1>4. Sums' = Sums
    BY DEF Sums
  <1>5. /\ aw_ready' \in BOOLEAN /\ w_ready' \in BOOLEAN /\ b_valid' \in BOOLEAN
        /\ reg_a' \in Words /\ reg_b' \in Words /\ reg_ctrl_start' \in BOOLEAN
    BY <1>1, WriteTypes
  <1>6. /\ state' \in {"IDLE", "CALC", "DONE"} /\ busy' \in BOOLEAN /\ done' \in BOOLEAN
        /\ reg_sum' \in Sums
    BY <1>1, SumTypes
  <1>7. /\ ar_ready' \in BOOLEAN /\ r_valid' \in BOOLEAN
        /\ r_data' \in Words \union Sums \union 0..3
    BY <1>1, ReadTypes
  <1>8. /\ {rst_n, awvalid, wvalid, wstrb0, bready, arvalid, rready}' \subseteq BOOLEAN
        /\ awaddr' \in Addr /\ araddr' \in Addr /\ wdata' \in Words
    BY MasterTypes
  <1>9. /\ {aw_ready, w_ready, b_valid, ar_ready, r_valid, busy, done}' \subseteq BOOLEAN
        /\ {reg_a, reg_b, wdata}' \subseteq Words
    BY <1>5, <1>6, <1>7, <1>8
  <1>10. QED
    BY <1>2, <1>3, <1>4, <1>5, <1>6, <1>7, <1>8, <1>9 DEF TypeOK

\* What the part about SUM asks for is part of the types.
LEMMA TypedFsm ==
  ASSUME TypeOK
  PROVE  FsmTyped
  <1>1. quiet \in Nat
    BY AdderAssumption DEF TypeOK
  <1>2. QED
    BY <1>1 DEF TypeOK, FsmTyped

\* The reset state satisfies the inductive invariant.
LEMMA InitInductive == Init => Inductive
  <1> SUFFICES ASSUME Init PROVE Inductive
    OBVIOUS
  <1>1. TypeOK
    <2>1. /\ {aw_ready, w_ready, b_valid, ar_ready, r_valid, busy, done} \subseteq BOOLEAN
          /\ {rst_n, awvalid, wvalid, wstrb0, bready, arvalid, rready} \subseteq BOOLEAN
      BY Zenon DEF Init, MasterInit
    <2>2. /\ awaddr \in Addr /\ araddr \in Addr
          /\ state \in {"IDLE", "CALC", "DONE"} /\ reg_ctrl_start \in BOOLEAN
      BY Zenon DEF Init, MasterInit, Addr
    <2>3. {reg_a, reg_b, wdata} \subseteq Words /\ r_data \in Words \union Sums \union 0..3
      BY AdderAssumption DEF Init, MasterInit
    <2>4. writesOpen \in 0..1 /\ readsOpen \in 0..1 /\ quiet \in 0..MaxQuiet
      BY AdderAssumption DEF Init
    <2>5. reg_sum \in Sums
      BY SumsHave DEF Init
    <2>6. QED
      BY <2>1, <2>2, <2>3, <2>4, <2>5 DEF TypeOK
  <1>2. Answering
    BY DEF Init, MasterInit, Answering, Bit
  <1>3. Settling
    BY DEF Init, Settling
  <1>4. QED
    BY <1>1, <1>2, <1>3 DEF Inductive

\* Types, answers and the age of SUM are preserved by every edge, for every
\* adder and every master with one request at a time.
THEOREM InductiveHolds ==
  ASSUME ~Pipelined
  PROVE  Spec => []Inductive
  <1>1. Inductive /\ [Next]_vars => Inductive'
    <2> SUFFICES ASSUME Inductive, [Next]_vars PROVE Inductive'
      OBVIOUS
    <2>1. CASE Next
      <3>1. SlaveStep /\ Master /\ Observe /\ TypeOK /\ Answering /\ Settling
        BY <2>1 DEF Next, Inductive
      <3>2. Answering'
        BY <3>1, StepAnswering
      <3>3. TypeOK'
        BY <3>1, <3>2, StepTypes
      <3>4. Settling'
        BY <3>1, TypedFsm, StepSettled DEF SlaveStep
      <3>5. QED
        BY <3>2, <3>3, <3>4 DEF Inductive
    <2>2. CASE UNCHANGED vars
      <3>1. TypeOK'
        <4>1. /\ UNCHANGED <<aw_ready, w_ready, b_valid, reg_a, reg_b, reg_ctrl_start>>
              /\ UNCHANGED <<ar_ready, r_valid, r_data, state, busy, done, reg_sum>>
              /\ UNCHANGED <<rst_n, awvalid, awaddr, wvalid, wdata, wstrb0, bready>>
              /\ UNCHANGED <<arvalid, araddr, rready, writesOpen, readsOpen, quiet>>
          BY <2>2 DEF vars, writeRegs, readRegs, fsmRegs, observers, masterVars,
                      writeWires, readWires
        <4>2. TypeOK
          BY DEF Inductive
        <4>3. /\ {aw_ready, w_ready, b_valid, ar_ready, r_valid, busy, done}' \subseteq BOOLEAN
              /\ {rst_n, awvalid, wvalid, wstrb0, bready, arvalid, rready}' \subseteq BOOLEAN
          BY <4>1, <4>2 DEF TypeOK
        <4>4. /\ {reg_a, reg_b, wdata}' \subseteq Words /\ reg_ctrl_start' \in BOOLEAN
              /\ awaddr' \in Addr /\ araddr' \in Addr
              /\ state' \in {"IDLE", "CALC", "DONE"}
          BY <4>1, <4>2 DEF TypeOK
        <4>5. /\ reg_sum' \in Sums /\ r_data' \in Words \union Sums \union 0..3
              /\ writesOpen' \in 0..1 /\ readsOpen' \in 0..1 /\ quiet' \in 0..MaxQuiet
          BY <4>1, <4>2 DEF TypeOK
        <4>6. QED
          BY <4>3, <4>4, <4>5 DEF TypeOK
      <3>2. Answering'
        BY <2>2 DEF vars, writeRegs, readRegs, observers, masterVars,
                    writeWires, readWires, Inductive, Answering
      <3>3. Settling'
        BY <2>2 DEF vars, writeRegs, fsmRegs, observers, Inductive, Settling
      <3>4. QED
        BY <3>1, <3>2, <3>3 DEF Inductive
    <2>3. QED
      BY <2>1, <2>2
  <1>2. QED
    BY <1>1, InitInductive, PTL DEF Spec

\* Every variable keeps its type, with at most one request unanswered.
THEOREM TypeCorrect ==
  ASSUME ~Pipelined
  PROVE  Spec => []TypeOK
  BY InductiveHolds, PTL DEF Inductive

\* Every write and every read of such a master is answered once.
THEOREM AnswersCorrect ==
  ASSUME ~Pipelined
  PROVE  Spec => []RequestsAnswered
  <1>1. Inductive => RequestsAnswered
    BY DEF Inductive, Answering, RequestsAnswered, AwHandshake, WHandshake
  <1>2. QED
    BY <1>1, InductiveHolds, PTL

\* No pending response disappears or changes before it is taken, whatever the
\* master does: the guards of the two always blocks suffice.
THEOREM HeldCorrect == Spec => ResponseHeld
  <1>1. [Next]_vars =>
          [rst_n => /\ r_valid /\ ~rready => r_valid' /\ r_data' = r_data
                    /\ b_valid /\ ~bready => b_valid']_vars
    <2> SUFFICES ASSUME Next, rst_n
                 PROVE  /\ r_valid /\ ~rready => r_valid' /\ r_data' = r_data
                        /\ b_valid /\ ~bready => b_valid'
      BY DEF Next
    <2>1. ReadData /\ WriteExecute
      BY DEF Next, SlaveStep, ReadChannel, ReadReset, WriteChannel, WriteReset
    <2>2. r_valid /\ ~rready => r_valid' /\ r_data' = r_data
      BY <2>1, Zenon DEF ReadData
    <2>3. b_valid /\ ~bready => b_valid'
      BY <2>1, Zenon DEF WriteExecute
    <2>4. QED
      BY <2>2, <2>3
  <1>2. QED
    BY <1>1, PTL DEF Spec, ResponseHeld
=============================================================================
