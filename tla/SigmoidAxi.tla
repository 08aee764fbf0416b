----------------------------- MODULE SigmoidAxi -----------------------------
(***************************************************************************)
(* sigmoid_top driven by any AXI4-Lite master, and what it then does: each *)
(* request is answered once, every job yields its result, and the whole    *)
(* implements the accelerator of SigmoidAccel.                             *)
(***************************************************************************)
EXTENDS SigmoidTop

CONSTANTS
    WriteAddrs,  \* the addresses the master writes
    ReadAddrs    \* the addresses the master reads

ASSUME AddrsAssumption == WriteAddrs \subseteq Addr /\ ReadAddrs \subseteq Addr

VARIABLES
    \* what the master has counted
    writesOpen,  \* writes handshaken minus responses taken
    readsOpen,   \* addresses handshaken minus data taken
    \* history of the operands
    startX,      \* x_reg when the last start was written
    jobX,        \* startX of the job the FSM took last
    prevX        \* startX of the job before that one

history == <<startX, jobX, prevX>>
vars == <<slaveVars, masterVars, writesOpen, readsOpen, history>>

TypeOK ==
    /\ SlaveTypeOK /\ MasterTypeOK
    /\ writesOpen \in 0..1 /\ readsOpen \in 0..1
    /\ startX \in Words /\ jobX \in Words /\ prevX \in Words

-----------------------------------------------------------------------------
Master ==
    /\ AwChannel(WriteAddrs) /\ WChannel(Words) /\ ArChannel(ReadAddrs)
    /\ ResponseReady /\ Reset
    /\ writesOpen' = StillOpen(writesOpen, AwHandshake, BHandshake)
    /\ readsOpen' = StillOpen(readsOpen, ArHandshake, RHandshake)

\* The history follows the slave: startX is taken when a start is written,
\* jobX and prevX move on when the FSM leaves IDLE.
History ==
    /\ startX' = IF rst_n THEN (IF start_reg' THEN x_reg ELSE startX) ELSE 0
    /\ IF rst_n /\ state = "IDLE" /\ state' # "IDLE"
         THEN jobX' = startX /\ prevX' = jobX
         ELSE IF rst_n THEN UNCHANGED <<jobX, prevX>>
                       ELSE jobX' = 0 /\ prevX' = 0

Init ==
    /\ SlaveInit /\ MasterInit
    /\ writesOpen = 0 /\ readsOpen = 0
    /\ startX = 0 /\ jobX = 0 /\ prevX = 0

Next == SlaveStep /\ Master /\ History

Spec == Init /\ [][Next]_vars

\* The clock runs and the master does not refuse responses forever.
Fairness ==
    /\ WF_vars(Next)
    /\ WF_vars(Next /\ bready')
    /\ WF_vars(Next /\ rready')

FairSpec == Spec /\ Fairness

-----------------------------------------------------------------------------
\* What an edge of the clock preserves, strong enough to imply the properties
\* below.  An acknowledged write still has its response pending, and so has
\* a start, hence no other write is carried out until the FSM has seen it;
\* the operands of the pipeline are those of the history.
Inductive ==
    /\ TypeOK
    /\ aw_ready <=> w_ready
    /\ aw_ready => awvalid /\ wvalid
    /\ ar_ready => arvalid
    /\ writesOpen + Bit(aw_ready) = Bit(b_valid)
    /\ readsOpen + Bit(ar_ready) = Bit(r_valid)
    /\ start_reg => b_valid /\ startX = x_reg
    /\ busy <=> state # "IDLE"
    /\ done => state = "IDLE"
    /\ state = "LOAD" => x_reg = jobX
    /\ sigmoid_x = IF state = "LOAD" THEN prevX ELSE jobX
    /\ Transparent => sigmoid_y = Sigmoid(sigmoid_x)
    /\ ~Transparent /\ state = "WAIT" => sigmoid_y = Sigmoid(prevX)
    /\ (state = "STORE" \/ done) =>
           y_reg = Sigmoid(IF Transparent THEN jobX ELSE prevX)

(* The accelerator this system implements.  A job exists from the start    *)
(* the FSM is about to take until WAIT copies the result.                  *)

Job ==
    CASE state = "IDLE" /\ start_reg  -> {x_reg}
      [] state = "IDLE" /\ ~start_reg -> {}
      [] state = "LOAD"               -> {x_reg}
      [] state = "WAIT"               -> {sigmoid_x}
      [] state = "STORE"              -> {}

Held == Sigmoid(IF state \in {"LOAD", "WAIT"} THEN prevX ELSE jobX)

Accel == INSTANCE SigmoidAccel WITH
    x <- x_reg, job <- Job, held <- Held, y <- y_reg, Lag <- ~Transparent

\* The wrapper with its core implements the accelerator: no interleaving of
\* bus traffic, jobs and resets shows a result the accelerator could not.
ImplementsAccel == Accel!FairSpec

\* The safety part of it.
ImplementsAccelSafety == Accel!Spec

-----------------------------------------------------------------------------
\* Every write the slave carries out is acknowledged once and answered once,
\* whatever the order of AWVALID and WVALID and however long BREADY stays
\* low: address and data are taken by the same edge, and the responses owed
\* are those of the handshaken write and of the one being acknowledged.
WritesAnsweredOnce ==
    /\ AwHandshake <=> WHandshake
    /\ aw_ready => AwHandshake
    /\ writesOpen + Bit(aw_ready) = Bit(b_valid)

\* The same for reads.
ReadsAnsweredOnce ==
    /\ ar_ready => ArHandshake
    /\ readsOpen + Bit(ar_ready) = Bit(r_valid)

\* When done rises, Y holds the sigmoid of the operand X held when the start
\* was written (core with a transparent output), or of the operand of the
\* job before (core with a registered output, which WAIT samples one edge
\* too early).  No write can slip between the start and the LOAD state.
ResultOfJob ==
    done => y_reg = Sigmoid(IF Transparent THEN jobX ELSE prevX)

\* The STATUS register never shows busy and done together, and busy is set
\* for exactly the time the FSM is away from IDLE.
StatusCoherent == (busy <=> state # "IDLE") /\ ~(busy /\ done)

\* done, and with it the interrupt, lasts one cycle, also when the next
\* start is already waiting.
DoneIsPulse == [][irq => ~irq']_vars

\* A response waits unchanged for the master: data that is valid and not
\* taken stays as it is, and no response disappears.
ResponseHeld ==
    [][rst_n => /\ r_valid /\ ~rready => r_valid' /\ r_data' = r_data
                /\ b_valid /\ ~bready => b_valid']_vars

\* A start the FSM sees in IDLE is followed by done, unless a reset comes.
StartServed == (start_reg /\ state = "IDLE") ~> (done \/ ~rst_n)

\* A write whose address and data are both presented is acknowledged, even
\* if the response to the write before it is still pending.
WriteAcknowledged == (awvalid /\ wvalid) ~> (aw_ready \/ ~rst_n)

=============================================================================
