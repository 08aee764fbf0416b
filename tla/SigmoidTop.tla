----------------------------- MODULE SigmoidTop -----------------------------
(***************************************************************************)
(* The AXI4-Lite wrapper sigmoid_top.v (the two copies of it, around the   *)
(* Azevedo and the Vaisnav core, have the same logic).                     *)
(*                                                                         *)
(* One step is one rising edge of clk.  The three always blocks use        *)
(* non-blocking assignments, so each reads the registers as they were      *)
(* before the edge and they all take effect together: the step is the      *)
(* conjunction of WriteChannel, ReadChannel, ProcessingFSM and CoreOutput. *)
(* The port is that of AxiLite; the modules that extend this one say how a *)
(* master drives it.  Of the write strobes only bit 0 is looked at.        *)
(***************************************************************************)
EXTENDS SigmoidCore, AxiLite

CONSTANTS
    Words,       \* the 16-bit words that travel on the bus
    Sigmoid(_),  \* the function of the core behind the wrapper
    Transparent  \* TRUE: the core's output follows sigmoid_x within the
                 \* cycle (a latch open while ck = '1'); FALSE: it is a
                 \* register clocked by the same edge as sigmoid_x

ASSUME WordsAssumption == Words \subseteq Word /\ 0 \in Words
ASSUME SigmoidAssumption == \A v \in Words : Sigmoid(v) \in Word
ASSUME TransparentAssumption == Transparent \in BOOLEAN

VARIABLES
    x_reg, start_reg,                     \* written by the write channel
    state, busy, done, sigmoid_x, y_reg,  \* written by the FSM
    sigmoid_y                             \* output of the core

writeRegs == <<aw_ready, w_ready, b_valid, x_reg, start_reg>>
readRegs == <<ar_ready, r_valid, r_data>>
fsmRegs == <<state, busy, done, sigmoid_x, y_reg>>
slaveVars == <<writeRegs, readRegs, fsmRegs, sigmoid_y>>

\* The decoded addresses; "OTHER" is any address the case statements leave
\* to their default, 0x10 among them.
Addr == {"X", "Y", "CTRL", "STATUS", "OTHER"}

State == {"IDLE", "LOAD", "WAIT", "STORE"}

\* Values the core can show: the sigmoid of a word.
Results == {Sigmoid(v) : v \in Words}

SlaveTypeOK ==
    /\ aw_ready \in BOOLEAN /\ w_ready \in BOOLEAN /\ b_valid \in BOOLEAN
    /\ x_reg \in Words /\ start_reg \in BOOLEAN
    /\ ar_ready \in BOOLEAN /\ r_valid \in BOOLEAN /\ r_data \in BusWord
    /\ state \in State /\ busy \in BOOLEAN /\ done \in BOOLEAN
    /\ sigmoid_x \in Words /\ y_reg \in Results \union {0}
    /\ sigmoid_y \in Results

MasterTypeOK ==
    /\ rst_n \in BOOLEAN
    /\ awvalid \in BOOLEAN /\ awaddr \in Addr
    /\ wvalid \in BOOLEAN /\ wdata \in Words /\ wstrb0 \in BOOLEAN
    /\ bready \in BOOLEAN
    /\ arvalid \in BOOLEAN /\ araddr \in Addr /\ rready \in BOOLEAN

-----------------------------------------------------------------------------
(* Write channel.                                                          *)

\* Faulty variants: the response goes away without BREADY; the start bit is
\* not cleared after its cycle.
WriteIdleWith(b, start) ==
    /\ rst_n /\ ~(awvalid /\ wvalid /\ ~b_valid)
    /\ aw_ready' = FALSE /\ w_ready' = FALSE
    /\ b_valid' = b /\ start_reg' = start
    /\ UNCHANGED x_reg

WriteIdleDrops == WriteIdleWith(FALSE, FALSE)
WriteIdleSticky == WriteIdleWith(b_valid /\ ~bready, start_reg)

WriteReset ==
    /\ ~rst_n
    /\ aw_ready' = FALSE /\ w_ready' = FALSE /\ b_valid' = FALSE
    /\ x_reg' = 0 /\ start_reg' = FALSE

\* Address and data are both there and no response is pending: the write is
\* carried out at once, acknowledged and answered.  start_reg lasts a cycle.
WriteAccept ==
    /\ rst_n /\ awvalid /\ wvalid /\ ~b_valid
    /\ aw_ready' = TRUE /\ w_ready' = TRUE /\ b_valid' = TRUE
    /\ x_reg' = IF awaddr = "X" /\ wstrb0 THEN wdata ELSE x_reg
    /\ start_reg' = (awaddr = "CTRL" /\ wdata % 2 = 1)

WriteIdle ==
    /\ rst_n /\ ~(awvalid /\ wvalid /\ ~b_valid)
    /\ aw_ready' = FALSE /\ w_ready' = FALSE
    /\ b_valid' = (b_valid /\ ~bready)
    /\ start_reg' = FALSE
    /\ UNCHANGED x_reg

\* Faulty variant: a write without the strobe is not acknowledged.
WriteChannelStrobed ==
    \/ WriteReset
    \/ wstrb0 /\ WriteAccept
    \/ WriteIdle
    \/ /\ rst_n /\ awvalid /\ wvalid /\ ~b_valid /\ ~wstrb0
       /\ start_reg' = FALSE
       /\ aw_ready' = FALSE /\ w_ready' = FALSE
       /\ UNCHANGED <<b_valid, x_reg>>

WriteChannel == WriteReset \/ WriteAccept \/ WriteIdle

-----------------------------------------------------------------------------
(* Read channel.                                                           *)

\* The word at an address, zero-extended to the bus.
RegisterAt(addr) ==
    CASE addr = "X"      -> U16(x_reg)
      [] addr = "Y"      -> U16(y_reg)
      [] addr = "CTRL"   -> Bit(start_reg)
      [] addr = "STATUS" -> 2 * Bit(done) + Bit(busy)
      [] addr = "OTHER"  -> 0

\* Faulty variants: the pending data is overwritten; it goes away without
\* RREADY.
ReadAcceptBlind ==
    /\ rst_n /\ arvalid
    /\ ar_ready' = TRUE /\ r_valid' = TRUE
    /\ r_data' = RegisterAt(araddr)

ReadIdleDrops ==
    /\ rst_n /\ ~(arvalid /\ ~r_valid)
    /\ ar_ready' = FALSE /\ r_valid' = FALSE
    /\ UNCHANGED r_data

ReadReset ==
    /\ ~rst_n
    /\ ar_ready' = FALSE /\ r_valid' = FALSE /\ r_data' = 0

ReadAccept ==
    /\ rst_n /\ arvalid /\ ~r_valid
    /\ ar_ready' = TRUE /\ r_valid' = TRUE
    /\ r_data' = RegisterAt(araddr)

ReadIdle ==
    /\ rst_n /\ ~(arvalid /\ ~r_valid)
    /\ ar_ready' = FALSE
    /\ r_valid' = (r_valid /\ ~rready)
    /\ UNCHANGED r_data

ReadChannel == ReadReset \/ ReadAccept \/ ReadIdle

-----------------------------------------------------------------------------
(* Processing FSM.                                                         *)

\* Faulty variants: a start skips LOAD; done is not set.
FsmIdleSkipsLoad ==
    /\ rst_n /\ state = "IDLE"
    /\ done' = FALSE
    /\ IF start_reg /\ ~busy
         THEN busy' = TRUE /\ state' = "WAIT"
         ELSE UNCHANGED <<busy, state>>
    /\ UNCHANGED <<sigmoid_x, y_reg>>

FsmStoreSilent ==
    /\ rst_n /\ state = "STORE"
    /\ busy' = FALSE /\ done' = FALSE /\ state' = "IDLE"
    /\ UNCHANGED <<sigmoid_x, y_reg>>

FsmReset ==
    /\ ~rst_n
    /\ state' = "IDLE" /\ busy' = FALSE /\ done' = FALSE
    /\ sigmoid_x' = 0 /\ y_reg' = 0

FsmIdle ==
    /\ rst_n /\ state = "IDLE"
    /\ done' = FALSE
    /\ IF start_reg /\ ~busy
         THEN busy' = TRUE /\ state' = "LOAD"
         ELSE UNCHANGED <<busy, state>>
    /\ UNCHANGED <<sigmoid_x, y_reg>>

FsmLoad ==
    /\ rst_n /\ state = "LOAD"
    /\ sigmoid_x' = x_reg
    /\ state' = "WAIT"
    /\ UNCHANGED <<busy, done, y_reg>>

FsmWait ==
    /\ rst_n /\ state = "WAIT"
    /\ y_reg' = sigmoid_y
    /\ state' = "STORE"
    /\ UNCHANGED <<busy, done, sigmoid_x>>

FsmStore ==
    /\ rst_n /\ state = "STORE"
    /\ busy' = FALSE /\ done' = TRUE
    /\ state' = "IDLE"
    /\ UNCHANGED <<sigmoid_x, y_reg>>

ProcessingFSM == FsmReset \/ FsmIdle \/ FsmLoad \/ FsmWait \/ FsmStore

\* The interrupt line.
irq == done

\* The core's output after the edge: the sigmoid of the operand before the
\* edge (a register) or of the operand after it (an open latch).  The core
\* has no reset.
CoreOutput ==
    sigmoid_y' = Sigmoid(IF Transparent THEN sigmoid_x' ELSE sigmoid_x)

-----------------------------------------------------------------------------
SlaveInit ==
    /\ aw_ready = FALSE /\ w_ready = FALSE /\ b_valid = FALSE
    /\ x_reg = 0 /\ start_reg = FALSE
    /\ ar_ready = FALSE /\ r_valid = FALSE /\ r_data = 0
    /\ state = "IDLE" /\ busy = FALSE /\ done = FALSE
    /\ sigmoid_x = 0 /\ y_reg = 0
    /\ sigmoid_y = Sigmoid(0)

SlaveStep == WriteChannel /\ ReadChannel /\ ProcessingFSM /\ CoreOutput

=============================================================================
