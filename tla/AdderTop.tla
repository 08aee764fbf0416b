------------------------------ MODULE AdderTop ------------------------------
(***************************************************************************)
(* The AXI4-Lite wrapper truncated_adder_top.v, driven by an AXI4-Lite     *)
(* master.  One step is one rising edge of s_axi_aclk and the conjunction  *)
(* of the three always blocks, as in SigmoidTop.  Unlike sigmoid_top it    *)
(* acknowledges first and carries the write out at the handshake, keeps    *)
(* the start bit until it is overwritten, and ignores the write strobes.   *)
(***************************************************************************)
EXTENDS AxiLite

CONSTANTS
    Words,       \* the operand words that travel on the bus
    Add(_, _),   \* the function of the adder behind the wrapper
    Pipelined,   \* TRUE: the master presents requests while others are
                 \* unanswered; FALSE: one write and one read at a time
    WriteAddrs, ReadAddrs,  \* the addresses the master uses
    MaxQuiet     \* bound of the quiet counter

Addr == {"A", "B", "CTRL", "STATUS", "SUM", "OTHER"}

ASSUME AdderAssumption ==
    /\ Words \subseteq Nat /\ 0 \in Words
    /\ \A v, w \in Words : Add(v, w) \in Nat
    /\ Pipelined \in BOOLEAN
    /\ WriteAddrs \subseteq Addr /\ ReadAddrs \subseteq Addr
    /\ MaxQuiet \in Nat

VARIABLES
    reg_a, reg_b, reg_ctrl_start,     \* written by the write channel
    state, busy, done, reg_sum,       \* written by the FSM
    writesOpen, readsOpen,            \* requests taken and not answered
    quiet                             \* edges since an operand or the start bit last changed

writeRegs == <<aw_ready, w_ready, b_valid, reg_a, reg_b, reg_ctrl_start>>
readRegs == <<ar_ready, r_valid, r_data>>
fsmRegs == <<state, busy, done, reg_sum>>
observers == <<writesOpen, readsOpen, quiet>>
vars == <<writeRegs, readRegs, fsmRegs, masterVars, observers>>

Sums == {Add(v, w) : v \in Words, w \in Words} \union {0}

TypeOK ==
    /\ {aw_ready, w_ready, b_valid, ar_ready, r_valid, busy, done} \subseteq BOOLEAN
    /\ {rst_n, awvalid, wvalid, wstrb0, bready, arvalid, rready} \subseteq BOOLEAN
    /\ awaddr \in Addr /\ araddr \in Addr
    /\ {reg_a, reg_b, wdata} \subseteq Words /\ reg_ctrl_start \in BOOLEAN
    /\ state \in {"IDLE", "CALC", "DONE"}
    /\ reg_sum \in Sums /\ r_data \in Words \union Sums \union 0..3
    /\ writesOpen \in 0..1 /\ readsOpen \in 0..1
    /\ quiet \in 0..MaxQuiet

-----------------------------------------------------------------------------
(* Write channel.                                                          *)

WriteReset ==
    /\ ~rst_n
    /\ aw_ready' = FALSE /\ w_ready' = FALSE /\ b_valid' = FALSE
    /\ reg_a' = 0 /\ reg_b' = 0 /\ reg_ctrl_start' = FALSE

\* READY is up for one cycle once address and data are both there.
WriteReady ==
    /\ aw_ready' = (~aw_ready /\ awvalid /\ wvalid)
    /\ w_ready' = (~aw_ready /\ awvalid /\ wvalid)

\* Faulty variant: the response goes away without BREADY.
WriteExecuteDrops ==
    IF AwHandshake /\ WHandshake
      THEN /\ reg_a' = IF awaddr = "A" THEN wdata ELSE reg_a
           /\ reg_b' = IF awaddr = "B" THEN wdata ELSE reg_b
           /\ reg_ctrl_start' = IF awaddr = "CTRL" THEN wdata % 2 = 1
                                                   ELSE reg_ctrl_start
           /\ b_valid' = TRUE
      ELSE b_valid' = FALSE /\ UNCHANGED <<reg_a, reg_b, reg_ctrl_start>>

\* At the handshake the register is written and the response raised, even if
\* the response before it is still pending.
WriteExecute ==
    IF AwHandshake /\ WHandshake
      THEN /\ reg_a' = IF awaddr = "A" THEN wdata ELSE reg_a
           /\ reg_b' = IF awaddr = "B" THEN wdata ELSE reg_b
           /\ reg_ctrl_start' = IF awaddr = "CTRL" THEN wdata % 2 = 1
                                                   ELSE reg_ctrl_start
           /\ b_valid' = TRUE
      ELSE /\ b_valid' = (b_valid /\ ~bready)
           /\ UNCHANGED <<reg_a, reg_b, reg_ctrl_start>>

WriteChannel == WriteReset \/ (rst_n /\ WriteReady /\ WriteExecute)

-----------------------------------------------------------------------------
(* Processing FSM.                                                         *)

FsmReset ==
    /\ ~rst_n
    /\ state' = "IDLE" /\ busy' = FALSE /\ done' = FALSE /\ reg_sum' = 0

\* Faulty variant: done stays up until the next result.
FsmIdleKeepsDone ==
    /\ rst_n /\ state = "IDLE"
    /\ IF reg_ctrl_start THEN busy' = TRUE /\ state' = "CALC"
                         ELSE UNCHANGED <<busy, state>>
    /\ UNCHANGED <<done, reg_sum>>

FsmIdle ==
    /\ rst_n /\ state = "IDLE"
    /\ done' = FALSE
    /\ IF reg_ctrl_start THEN busy' = TRUE /\ state' = "CALC"
                         ELSE UNCHANGED <<busy, state>>
    /\ UNCHANGED reg_sum

FsmCalc ==
    /\ rst_n /\ state = "CALC"
    /\ reg_sum' = Add(reg_a, reg_b)
    /\ busy' = FALSE /\ done' = TRUE
    /\ state' = "DONE"

\* Faulty variant: the FSM waits in DONE for the start bit to be cleared.
FsmDoneWaits ==
    /\ rst_n /\ state = "DONE"
    /\ state' = IF reg_ctrl_start THEN "DONE" ELSE "IDLE"
    /\ UNCHANGED <<busy, done, reg_sum>>

FsmDone ==
    /\ rst_n /\ state = "DONE"
    /\ state' = "IDLE"
    /\ UNCHANGED <<busy, done, reg_sum>>

ControlFSM == FsmReset \/ FsmIdle \/ FsmCalc \/ FsmDone

-----------------------------------------------------------------------------
(* Read channel.                                                           *)

RegisterAt(addr) ==
    CASE addr = "A"      -> reg_a
      [] addr = "B"      -> reg_b
      [] addr = "CTRL"   -> Bit(reg_ctrl_start)
      [] addr = "STATUS" -> 2 * Bit(done) + Bit(busy)
      [] addr = "SUM"    -> reg_sum
      [] addr = "OTHER"  -> 0

ReadReset ==
    /\ ~rst_n
    /\ ar_ready' = FALSE /\ r_valid' = FALSE /\ r_data' = 0

\* Faulty variant: pending data goes away untaken.
ReadDataDrops ==
    IF ArHandshake /\ ~r_valid
      THEN r_valid' = TRUE /\ r_data' = RegisterAt(araddr)
      ELSE r_valid' = FALSE /\ UNCHANGED r_data

\* At the handshake the data is raised, unless data is still pending: then
\* the address has been taken and gets no answer.
ReadData ==
    IF ArHandshake /\ ~r_valid
      THEN r_valid' = TRUE /\ r_data' = RegisterAt(araddr)
      ELSE r_valid' = (r_valid /\ ~rready) /\ UNCHANGED r_data

ReadChannel ==
    \/ ReadReset
    \/ rst_n /\ ar_ready' = (~ar_ready /\ arvalid) /\ ReadData

SlaveStep == WriteChannel /\ ControlFSM /\ ReadChannel

-----------------------------------------------------------------------------
(* The master, and what is observed of the slave.                          *)

\* A request presented by this edge finds none unanswered.
OneAtATime ==
    /\ awvalid' /\ (~awvalid \/ aw_ready) => writesOpen' = 0
    /\ wvalid' /\ (~wvalid \/ w_ready) => writesOpen' = 0
    /\ arvalid' /\ (~arvalid \/ ar_ready) => readsOpen' = 0

Master ==
    /\ writesOpen' = StillOpen(writesOpen, AwHandshake, BHandshake)
    /\ readsOpen' = StillOpen(readsOpen, ArHandshake, RHandshake)
    /\ AwChannel(WriteAddrs) /\ WChannel(Words) /\ ArChannel(ReadAddrs)
    /\ ResponseReady /\ Reset
    /\ Pipelined \/ OneAtATime

Observe ==
    quiet' = IF <<reg_a, reg_b, reg_ctrl_start>>' # <<reg_a, reg_b, reg_ctrl_start>>
               THEN 0
               ELSE IF quiet < MaxQuiet THEN quiet + 1 ELSE quiet

Init ==
    /\ MasterInit
    /\ aw_ready = FALSE /\ w_ready = FALSE /\ b_valid = FALSE
    /\ reg_a = 0 /\ reg_b = 0 /\ reg_ctrl_start = FALSE
    /\ state = "IDLE" /\ busy = FALSE /\ done = FALSE /\ reg_sum = 0
    /\ ar_ready = FALSE /\ r_valid = FALSE /\ r_data = 0
    /\ writesOpen = 0 /\ readsOpen = 0
    /\ quiet = 0

Next == SlaveStep /\ Master /\ Observe

Spec == Init /\ [][Next]_vars

-----------------------------------------------------------------------------
\* Every write the slave takes is answered once: address and data are taken
\* by the same edge, and a response is pending exactly when a write is open.
\* Every address it takes is answered with data once, likewise.
RequestsAnswered ==
    /\ AwHandshake <=> WHandshake
    /\ writesOpen = Bit(b_valid)
    /\ readsOpen = Bit(r_valid)

\* Data that is valid and not taken stays as it is, and no pending response
\* disappears.
ResponseHeld ==
    [][rst_n => /\ r_valid /\ ~rready => r_valid' /\ r_data' = r_data
                /\ b_valid /\ ~bready => b_valid']_vars

\* A done bit seen two edges after the last change of an operand is not left
\* over from the operands before: SUM holds the sum of the present ones.
DoneIsFresh == (done /\ quiet >= 2) => reg_sum = Add(reg_a, reg_b)

\* With the start bit set, three edges without a change are enough for SUM to
\* hold the sum of the operands, wherever the free-running FSM was.
SumSettles == (reg_ctrl_start /\ quiet >= 3) => reg_sum = Add(reg_a, reg_b)

\* Between the edges of one request at a time: READY is up for both channels
\* or none and only for a request that is there, and a request that is there
\* finds none unanswered.
Answering ==
    /\ aw_ready <=> w_ready
    /\ aw_ready => awvalid /\ wvalid
    /\ ar_ready => arvalid
    /\ awvalid \/ wvalid => ~b_valid
    /\ arvalid => ~r_valid
    /\ writesOpen = Bit(b_valid)
    /\ readsOpen = Bit(r_valid)

\* Where the free-running FSM stands after so many edges without a change,
\* and whether SUM has been computed since.
Settling ==
    /\ state = "CALC" => ~done
    /\ \/ state = "DONE" /\ quiet >= 1
       \/ state = "IDLE" /\ (reg_ctrl_start \/ done) /\ quiet >= 2
       \/ state = "CALC" /\ reg_ctrl_start /\ quiet >= 3
       => reg_sum = Add(reg_a, reg_b)

\* The invariant the proofs rest on: types, answers and the age of SUM,
\* preserved by every edge of truncated_adder_top.v and of a master with one
\* request at a time.
Inductive == TypeOK /\ Answering /\ Settling

=============================================================================
