--------------------------- MODULE SigmoidDriver ---------------------------
(***************************************************************************)
(* sigmoid_top driven by the programs of the repository: for every point   *)
(* write X, write CTRL, then either poll STATUS until its done bit is set  *)
(* (main.c, sigmoid_bench.c) or execute DSB (the DDR benchmarks), and      *)
(* read Y.                                                                 *)
(*                                                                         *)
(* The CPU reaches the slave through the PS7 master port and an            *)
(* interconnect (external).  A store is posted: the next one may be        *)
(* presented as soon as the slave has taken the last.  A load is presented *)
(* only when every store has been answered, which DSB and the ordering of  *)
(* device memory both ensure; of the load of a program that does not poll  *)
(* it is assumed that it comes at least ReadDelay edges after the answer,  *)
(* the time the answer and the load spend in the interconnect.             *)
(* Every request and every response may be delayed further.                *)
(***************************************************************************)
EXTENDS SigmoidTop

CONSTANTS
    Programs,   \* the values polling may take
    NumPoints,  \* points the program processes
    ReadDelay   \* least number of edges from a write's answer to the load
                \* of a program that does not poll

ASSUME ProgramsAssumption == Programs \subseteq BOOLEAN
ASSUME NumPointsAssumption == NumPoints \in Nat \ {0}
ASSUME ReadDelayAssumption == ReadDelay \in Nat
ASSUME StartAssumption == 1 \in Words  \* the word stored to CTRL

VARIABLES
    polling, \* the program: TRUE: waits for the done bit; FALSE: DSB only
    pc,      \* the bus access the program is at
    i,       \* points completed
    x_raw,   \* operand of the current point
    y_raw,   \* result read for the current point
    stores,  \* stores issued and not yet answered
    delay    \* edges since the last answer, up to ReadDelay

cpuVars == <<polling, pc, i, x_raw, y_raw, stores, delay>>
vars == <<slaveVars, masterVars, cpuVars>>

Pc == {"StoreX", "StoreCtrl", "LoadStatus", "WaitStatus", "LoadY", "WaitY",
       "End"}

TypeOK ==
    /\ SlaveTypeOK /\ MasterTypeOK
    /\ polling \in BOOLEAN /\ pc \in Pc /\ i \in 0..NumPoints
    /\ x_raw \in Words /\ y_raw \in Word
    /\ stores \in 0..2 /\ delay \in 0..ReadDelay

-----------------------------------------------------------------------------
(* The bus interface of the CPU.                                           *)

\* The write channel is free for another store after this edge.
WriteFree == ~awvalid \/ aw_ready

PresentStore(addr, data) ==
    /\ WriteFree
    /\ awvalid' = TRUE /\ awaddr' = addr
    /\ wvalid' = TRUE /\ wdata' = data /\ wstrb0' = TRUE

HoldStore ==
    IF WriteFree
      THEN NoAw /\ NoW
      ELSE UNCHANGED <<awvalid, awaddr, wvalid, wdata, wstrb0>>

\* All stores are answered by this edge, and long enough ago.
StoresDone ==
    /\ stores = Bit(BHandshake)
    /\ (IF stores = 0 THEN delay ELSE 0) >= (IF polling THEN 0 ELSE ReadDelay)

\* Faulty variant: a load that does not wait (no DSB).
PresentLoadNow(addr) == arvalid' = TRUE /\ araddr' = addr

PresentLoad(addr) ==
    /\ StoresDone
    /\ arvalid' = TRUE /\ araddr' = addr

HoldLoad ==
    IF arvalid /\ ~ar_ready
      THEN UNCHANGED <<arvalid, araddr>>
      ELSE NoAr

Count(issued) ==
    /\ stores' = stores + issued - Bit(BHandshake)
    /\ delay' = IF stores' # 0 THEN 0
                ELSE IF delay < ReadDelay THEN delay + 1 ELSE delay

-----------------------------------------------------------------------------
(* The program, one action per bus access and one for every wait.          *)

StoreX ==
    /\ pc = "StoreX"
    /\ \E v \in Words : x_raw' = v /\ PresentStore("X", v)
    /\ HoldLoad /\ Count(1)
    /\ pc' = "StoreCtrl"
    /\ UNCHANGED <<i, y_raw>>

StoreCtrl ==
    /\ pc = "StoreCtrl"
    /\ PresentStore("CTRL", 1)
    /\ HoldLoad /\ Count(1)
    /\ pc' = IF polling THEN "LoadStatus" ELSE "LoadY"
    /\ UNCHANGED <<i, x_raw, y_raw>>

LoadStatus ==
    /\ pc = "LoadStatus"
    /\ PresentLoad("STATUS")
    /\ HoldStore /\ Count(0)
    /\ pc' = "WaitStatus"
    /\ UNCHANGED <<i, x_raw, y_raw>>

\* The loop leaves when bit 1 of the status is set.
TakeStatus ==
    /\ pc = "WaitStatus" /\ RHandshake
    /\ HoldStore /\ HoldLoad /\ Count(0)
    /\ pc' = IF (r_data \div 2) % 2 = 1 THEN "LoadY" ELSE "LoadStatus"
    /\ UNCHANGED <<i, x_raw, y_raw>>

LoadY ==
    /\ pc = "LoadY"
    /\ PresentLoad("Y")
    /\ HoldStore /\ Count(0)
    /\ pc' = "WaitY"
    /\ UNCHANGED <<i, x_raw, y_raw>>

\* (int16_t) of the low half of the word read.
TakeY ==
    /\ pc = "WaitY" /\ RHandshake
    /\ HoldStore /\ HoldLoad /\ Count(0)
    /\ y_raw' = S16(r_data)
    /\ i' = i + 1
    /\ pc' = IF i' = NumPoints THEN "End" ELSE "StoreX"
    /\ UNCHANGED x_raw

\* A cycle in which the program gets no further.
Stall ==
    /\ ~(pc \in {"WaitStatus", "WaitY"} /\ RHandshake)
    /\ HoldStore /\ HoldLoad /\ Count(0)
    /\ UNCHANGED <<pc, i, x_raw, y_raw>>

Access == StoreX \/ StoreCtrl \/ LoadStatus \/ TakeStatus \/ LoadY \/ TakeY

Init ==
    /\ SlaveInit /\ MasterInit
    /\ polling \in Programs /\ pc = "StoreX" /\ i = 0
    /\ x_raw = 0 /\ y_raw = 0
    /\ stores = 0 /\ delay = ReadDelay

\* One clock edge: the slave, and the interconnect's choice of readiness.
\* The reset stays released while a program runs.
Edge ==
    /\ SlaveStep
    /\ ResponseReady
    /\ UNCHANGED <<rst_n, polling>>

Next == (Edge /\ Access) \/ (Edge /\ Stall)

Spec == Init /\ [][Next]_vars

\* The clock runs, the interconnect delivers every request, and it takes
\* every response in the end.
FairSpec ==
    /\ Spec
    /\ WF_vars(Next)
    /\ WF_vars(Edge /\ Access)
    /\ WF_vars(Next /\ bready')
    /\ WF_vars(Next /\ rready')

-----------------------------------------------------------------------------
\* The result read for a point is the sigmoid of that point's operand, not
\* of the one before it and not a value the core had not finished.
ReadsOwnResult ==
    (pc \in {"StoreX", "End"} /\ i > 0) => y_raw = Sigmoid(x_raw)

\* The start pulse of a point always finds the FSM in IDLE: no start is
\* dropped because the job of the point before is still running.
NoStartLost == start_reg => state = "IDLE"

\* At most k edges until the FSM rests, with no start that it has yet to see.
AtMost(k) ==
    /\ ~start_reg
    /\ \/ state = "IDLE"
       \/ k >= 1 /\ state = "STORE"
       \/ k >= 2 /\ state = "WAIT"
       \/ k >= 3 /\ state = "LOAD"

\* The bus between two edges: a store is presented, taken or answered, a load
\* is presented or answered, and stores counts what is outstanding.
Bus ==
    /\ rst_n
    /\ awvalid <=> wvalid
    /\ aw_ready => awvalid /\ b_valid
    /\ stores = Bit(awvalid /\ ~aw_ready) + Bit(b_valid)
    /\ stores # 0 => delay = 0
    /\ ar_ready <=> arvalid /\ r_valid
    /\ pc \in {"WaitStatus", "WaitY"} <=> arvalid \/ r_valid
    /\ arvalid => araddr = IF pc = "WaitY" THEN "Y" ELSE "STATUS"
    /\ pc \in {"StoreX", "WaitStatus", "WaitY", "End"} => stores = 0

\* The FSM is idle where the wrapper says so, and a start is seen by the edge
\* after the store to CTRL was taken.
Fsm ==
    /\ busy <=> state # "IDLE"
    /\ done => state = "IDLE"
    /\ start_reg => aw_ready /\ state = "IDLE"

\* The operand of the point is in x_reg, and what the FSM has computed so far
\* is of this operand.
JobRuns ==
    /\ x_reg = x_raw
    /\ state = "WAIT" => sigmoid_x = x_raw
    /\ Transparent /\ state = "WAIT" => sigmoid_y = Sigmoid(x_raw)
    /\ Transparent /\ AtMost(1) => y_reg = Sigmoid(x_raw)

\* The program has left enough time, or waits for the done bit.
Patient == polling \/ ReadDelay >= 2

\* Where the slave is for every access the program is at.
Point ==
    /\ pc # "End" => i < NumPoints
    /\ pc \in {"StoreX", "End"} => AtMost(1)
    /\ pc = "StoreCtrl" =>
         /\ AtMost(0)
         /\ IF awvalid /\ ~aw_ready
              THEN ~b_valid /\ awaddr = "X" /\ wdata = x_raw /\ wstrb0
              ELSE x_reg = x_raw
    /\ pc \in {"LoadStatus", "LoadY"} =>
         IF awvalid /\ ~aw_ready
           THEN AtMost(0) /\ awaddr = "CTRL" /\ wdata = 1 /\ x_reg = x_raw
           ELSE JobRuns
    /\ pc \in {"WaitStatus", "WaitY"} => JobRuns /\ AtMost(3)
    /\ pc \in {"LoadStatus", "LoadY"} /\ stores = 0 => AtMost(3)
    /\ pc \in {"LoadStatus", "LoadY"} /\ stores = 0 /\ delay >= 2 => AtMost(2)
    /\ pc \in {"LoadStatus", "WaitStatus"} => polling
    /\ pc = "LoadY" /\ polling => stores = 0 /\ AtMost(0)
    /\ pc = "WaitStatus" /\ r_valid /\ (r_data \div 2) % 2 = 1 => AtMost(0)
    /\ pc = "WaitY" /\ r_valid => AtMost(2)
    /\ pc = "WaitY" /\ Patient => AtMost(1)
    /\ pc = "WaitY" /\ r_valid /\ Patient /\ Transparent => r_data = U16(Sigmoid(x_raw))
    /\ pc \in {"StoreX", "End"} /\ i > 0 /\ Patient /\ Transparent => y_raw = Sigmoid(x_raw)

\* The invariant the proofs rest on: program, bus and FSM of sigmoid_top are in
\* step at every edge.
Inductive == TypeOK /\ Bus /\ Fsm /\ Point

\* A program with DSB only gets through all its points: no store, load or
\* response of the loop waits for ever.
DsbTerminates == ~polling => <>(pc = "End")

\* Every program gets through all its points.
Terminates == <>(pc = "End")

=============================================================================
