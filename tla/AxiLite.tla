------------------------------ MODULE AxiLite ------------------------------
(***************************************************************************)
(* The AXI4-Lite port of a slave, and a master that may do everything the  *)
(* protocol allows: raise AWVALID and WVALID in either order or together,  *)
(* present the next request while the response to the last one is pending, *)
(* read and write at the same time and stall the response channels.  It    *)
(* keeps the one rule a slave depends on: VALID and its payload hold until *)
(* READY.  The interconnect shares the slave's reset (peripheral_aresetn), *)
(* so the master's requests are dropped by the same edge.                  *)
(*                                                                         *)
(* b_resp and r_resp are OKAY from reset on and are left out.              *)
(***************************************************************************)
EXTENDS Integers

VARIABLES
    \* driven by the slave
    aw_ready, w_ready, b_valid, ar_ready, r_valid, r_data,
    \* driven by the master and by the reset controller
    rst_n, awvalid, awaddr, wvalid, wdata, wstrb0, bready,
    arvalid, araddr, rready

writeWires == <<awvalid, awaddr, wvalid, wdata, wstrb0, bready>>
readWires == <<arvalid, araddr, rready>>
masterVars == <<rst_n, writeWires, readWires>>

Bit(b) == IF b THEN 1 ELSE 0

AwHandshake == awvalid /\ aw_ready
WHandshake == wvalid /\ w_ready
BHandshake == b_valid /\ bready
ArHandshake == arvalid /\ ar_ready
RHandshake == r_valid /\ rready

-----------------------------------------------------------------------------
(* The master after the edge.  A payload that is not valid is parked at a  *)
(* fixed value: the slaves do not look at it.                              *)

NoAw == awvalid' = FALSE /\ awaddr' = "OTHER"
NoW == wvalid' = FALSE /\ wdata' = 0 /\ wstrb0' = FALSE
NoAr == arvalid' = FALSE /\ araddr' = "OTHER"

AwChannel(addrs) ==
    \/ (~rst_n \/ ~awvalid \/ aw_ready) /\ NoAw
    \/ /\ rst_n /\ (~awvalid \/ aw_ready)
       /\ awvalid' = TRUE /\ awaddr' \in addrs
    \/ rst_n /\ awvalid /\ ~aw_ready /\ UNCHANGED <<awvalid, awaddr>>

WChannel(words) ==
    \/ (~rst_n \/ ~wvalid \/ w_ready) /\ NoW
    \/ /\ rst_n /\ (~wvalid \/ w_ready)
       /\ wvalid' = TRUE /\ wdata' \in words /\ wstrb0' \in BOOLEAN
    \/ rst_n /\ wvalid /\ ~w_ready /\ UNCHANGED <<wvalid, wdata, wstrb0>>

ArChannel(addrs) ==
    \/ (~rst_n \/ ~arvalid \/ ar_ready) /\ NoAr
    \/ /\ rst_n /\ (~arvalid \/ ar_ready)
       /\ arvalid' = TRUE /\ araddr' \in addrs
    \/ rst_n /\ arvalid /\ ~ar_ready /\ UNCHANGED <<arvalid, araddr>>

\* The master's ends of the response channels, and the reset.
ResponseReady == bready' \in BOOLEAN /\ rready' \in BOOLEAN
Reset == rst_n' \in BOOLEAN

MasterInit ==
    /\ rst_n = TRUE
    /\ awvalid = FALSE /\ awaddr = "OTHER"
    /\ wvalid = FALSE /\ wdata = 0 /\ wstrb0 = FALSE
    /\ arvalid = FALSE /\ araddr = "OTHER"
    /\ bready = FALSE /\ rready = FALSE

\* Requests taken and not yet answered, after the edge.
StillOpen(open, taken, answered) ==
    IF rst_n THEN open + Bit(taken) - Bit(answered) ELSE 0

=============================================================================
