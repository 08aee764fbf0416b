----------------------------- MODULE Benchmark -----------------------------
(***************************************************************************)
(* One run of the DDR benchmark: main initialises the processing system    *)
(* (ps7_init), enables the programmable logic (enable_pl) and runs         *)
(* benchmark_main, which measures the points and stores the results and a  *)
(* marker in DDR.  On the host, run_benchmark.py starts the CPU through    *)
(* the debugger, waits a fixed time, stops it, reads the results and       *)
(* reports.  DDR keeps its contents over a system reset.                   *)
(*                                                                         *)
(* The accesses of a measurement to the accelerator are SigmoidDriver's;   *)
(* here a measurement is one step.  A word of DDR is abstracted to what it *)
(* is: a value of this run, with its point, or something left from before. *)
(***************************************************************************)
EXTENDS Integers, Sequences

CONSTANTS
    N_POINTS,  \* points measured; the marker lies on a word of point 2
    POLL_TIME  \* PS7_MASK_POLL_TIME

ASSUME PointsAssumption == N_POINTS \in Nat /\ N_POINTS > 2
ASSUME PollAssumption == POLL_TIME \in Nat

VARIABLES
    pc,       \* where main is
    table,    \* ps7_init: the configuration table being interpreted
    op,       \* ps7_config: the next instruction of the table
    polls,    \* ps7_config: unsuccessful polls of the current instruction
    slcr,     \* the system control registers accept writes
    pl,       \* what is enabled of the programmable logic
    ddr,      \* the DDR controller is initialised
    i,        \* loop index of benchmark_main (points, then words)
    mem,      \* the words of DDR from RESULTS_BASE
    host      \* the host script

boot == <<table, op, polls, slcr, pl, ddr>>
vars == <<pc, boot, i, mem, host>>

\* MARKER_ADDR - RESULTS_BASE in words, and the summary behind the points.
MARKER == 8
SUMMARY == 4 * N_POINTS
Cells == 0..(SUMMARY + 4)

Value(kind, point) == [kind |-> kind, point |-> point]
Old == Value("old", 0)
Started == Value("0xDEADBEEF", 0)
Completed == Value("0xFFFFFFFF", 0)
Field == <<"cycles", "y", "ideal", "err">>
Result(w) == IF w < SUMMARY THEN Value(Field[(w % 4) + 1], w \div 4)
                            ELSE Value("summary", w - SUMMARY)

\* The tables; the register writes between the instructions that matter are
\* left out.  The DDR table writes no control register that is locked.
ps7_mio_init_data == <<"UNLOCK", "LOCK", "EXIT">>
ps7_pll_init_data == <<"UNLOCK", "POLL", "POLL", "POLL", "LOCK", "EXIT">>
ps7_clock_init_data == <<"UNLOCK", "LOCK", "EXIT">>
ps7_ddr_init_data == <<"POLL", "POLL", "EXIT">>
ps7_peripherals_init_data == <<"UNLOCK", "LOCK", "EXIT">>

\* The order in which ps7_init interprets them.
Tables ==
    <<ps7_mio_init_data, ps7_pll_init_data, ps7_clock_init_data,
      ps7_ddr_init_data, ps7_peripherals_init_data>>
DDR_TABLE == 4

Pc == {"ps7_config", "Unlock", "Fclk", "Resets", "Shifters", "Lock", "Mark",
       "Measure", "Store", "Finish", "Spin", "BusLock"}

TypeOK ==
    /\ pc \in Pc
    /\ table \in 1..Len(Tables) /\ op \in 1..Len(Tables[table])
    /\ polls \in 0..POLL_TIME
    /\ slcr \in BOOLEAN /\ ddr \in BOOLEAN
    /\ pl \subseteq {"Fclk", "Resets", "Shifters"}
    /\ i \in 0..(SUMMARY + 5)
    /\ \A w \in Cells : mem[w] \in {Old, Started, Completed, Result(w)}
    /\ host \in {"Running", "Stopped", "Reported", "Failed"}

\* Before main: reset, with DDR as it was (the image of a completed run, or
\* anything else).
Init ==
    /\ pc = "ps7_config" /\ table = 1 /\ op = 1 /\ polls = 0
    /\ slcr = FALSE /\ pl = {} /\ ddr = FALSE
    /\ i = 0
    /\ \E m \in {Old, Completed} : mem = [w \in Cells |-> IF w = MARKER THEN m ELSE Old]
    /\ host = "Running"

-----------------------------------------------------------------------------
(* ps7_config, one instruction at a time, and ps7_init around it.          *)

Instruction == Tables[table][op]

At(instruction) == pc = "ps7_config" /\ Instruction = instruction

\* A write of the unlock or the lock code.
ConfigWrite ==
    /\ At("UNLOCK") \/ At("LOCK")
    /\ slcr' = (Instruction = "UNLOCK")
    /\ op' = op + 1
    /\ UNCHANGED <<pc, table, polls, pl, ddr, i, mem>>

\* The polled bit is set (the hardware decides when).
PollHit ==
    /\ At("POLL")
    /\ op' = op + 1 /\ polls' = 0
    /\ UNCHANGED <<pc, table, slcr, pl, ddr, i, mem>>

\* Faulty variant: the counter wraps before it reaches the limit.
PollMissWraps ==
    /\ At("POLL") /\ polls < POLL_TIME
    /\ polls' = (polls + 1) % POLL_TIME
    /\ UNCHANGED <<pc, table, op, slcr, pl, ddr, i, mem>>

PollMiss ==
    /\ At("POLL") /\ polls < POLL_TIME
    /\ polls' = polls + 1
    /\ UNCHANGED <<pc, table, op, slcr, pl, ddr, i, mem>>

\* PS7_INIT_TIMEOUT: ps7_init returns at once and main ignores its result.
\* Only at the last poll of the DDR table has the controller been enabled;
\* it may come up all the same.
PollTimeout ==
    /\ At("POLL") /\ polls = POLL_TIME
    /\ pc' = "Unlock"
    /\ ddr' \in {FALSE, table = DDR_TABLE /\ op = 2}
    /\ UNCHANGED <<table, op, polls, slcr, pl, i, mem>>

\* PS7_INIT_SUCCESS of one table: on to the next one, or back to main.
ConfigExit ==
    /\ At("EXIT")
    /\ ddr' = (table >= DDR_TABLE)
    /\ IF table < Len(Tables)
         THEN table' = table + 1 /\ op' = 1 /\ UNCHANGED pc
         ELSE pc' = "Unlock" /\ UNCHANGED <<table, op>>
    /\ UNCHANGED <<polls, slcr, pl, i, mem>>

-----------------------------------------------------------------------------
(* enable_pl.                                                              *)

\* Faulty variant: enable_pl does not unlock the control registers.
UnlockForgotten ==
    /\ pc = "Unlock"
    /\ pc' = "Fclk"
    /\ UNCHANGED <<boot, i, mem>>

Unlock ==
    /\ pc = "Unlock"
    /\ slcr' = TRUE
    /\ pc' = "Fclk"
    /\ UNCHANGED <<table, op, polls, pl, ddr, i, mem>>

\* A write to a control register, which has no effect while they are locked.
Enable(unit, next) ==
    /\ pc = unit
    /\ pl' = IF slcr THEN pl \union {unit} ELSE pl
    /\ pc' = next
    /\ UNCHANGED <<table, op, polls, slcr, ddr, i, mem>>

Lock ==
    /\ pc = "Lock"
    /\ slcr' = FALSE
    /\ pc' = "Mark"
    /\ UNCHANGED <<table, op, polls, pl, ddr, i, mem>>

enable_pl ==
    \/ Unlock
    \/ Enable("Fclk", "Resets")
    \/ Enable("Resets", "Shifters")
    \/ Enable("Shifters", "Lock")
    \/ Lock

-----------------------------------------------------------------------------
(* benchmark_main.                                                         *)

\* A store to DDR; without an initialised controller the bus locks up.
StoreWord(w, value, next) ==
    IF ddr
      THEN mem' = [mem EXCEPT ![w] = value] /\ pc' = next
      ELSE pc' = "BusLock" /\ UNCHANGED mem

Mark ==
    /\ pc = "Mark"
    /\ StoreWord(MARKER, Started, "Measure")
    /\ UNCHANGED <<boot, i>>

\* One point: cycles_buf[i] and y_raw_buf[i] are taken, on the stack.
Measure ==
    /\ pc = "Measure"
    /\ IF i + 1 < N_POINTS
         THEN i' = i + 1 /\ UNCHANGED pc
         ELSE i' = 0 /\ pc' = "Store"
    /\ UNCHANGED <<boot, mem>>

\* Faulty variant: the summary is left out.
StoreShort ==
    /\ pc = "Store"
    /\ i' = i + 1
    /\ StoreWord(i, Result(i), IF i + 1 < SUMMARY THEN "Store" ELSE "Finish")
    /\ UNCHANGED boot

\* The words of the points in order, then the five of the summary.
Store ==
    /\ pc = "Store"
    /\ i' = i + 1
    /\ StoreWord(i, Result(i), IF i + 1 \in Cells THEN "Store" ELSE "Finish")
    /\ UNCHANGED boot

Finish ==
    /\ pc = "Finish"
    /\ StoreWord(MARKER, Completed, "Spin")
    /\ UNCHANGED <<boot, i>>

benchmark_main == Mark \/ Measure \/ Store \/ Finish

Cpu ==
    /\ host = "Running" /\ UNCHANGED host
    /\ \/ ConfigWrite \/ PollHit \/ PollMiss \/ PollTimeout \/ ConfigExit
       \/ enable_pl
       \/ benchmark_main

-----------------------------------------------------------------------------
(* The host: con, after 10000, stop, mrd.                                  *)

HostStop ==
    /\ host = "Running"
    /\ host' = "Stopped"
    /\ UNCHANGED <<pc, boot, i, mem>>

\* With the words read the script reports, whatever they are; a bus that is
\* locked up, or DDR without its controller, yields fewer than 400 words and
\* an error.
HostRead ==
    /\ host = "Stopped"
    /\ host' = IF ddr /\ pc # "BusLock" THEN "Reported" ELSE "Failed"
    /\ UNCHANGED <<pc, boot, i, mem>>

\* The debugger does not come back within the timeout.
HostTimeout ==
    /\ host \in {"Running", "Stopped"}
    /\ host' = "Failed"
    /\ UNCHANGED <<pc, boot, i, mem>>

Host == HostStop \/ HostRead \/ HostTimeout

None == Value("none", 0)

\* Faulty variant: every first word is taken for a cycle count.
CyclesUnfiltered(p) == mem[4 * p]

\* The cycle count the script takes from the words of a point: one of
\* 0xFFFF0000 or more is none.
Cycles(p) == IF mem[4 * p] = Completed THEN None ELSE mem[4 * p]

Next == Cpu \/ Host

Spec == Init /\ [][Next]_vars

\* The CPU executes until the host stops it, which it need not do.
FairSpec == Spec /\ WF_vars(Cpu)

-----------------------------------------------------------------------------
Points == 0..(N_POINTS - 1)

\* Whatever ps7_init returned and wherever it left off, the programmable
\* logic has clock, released resets and level shifters before the first
\* access to it, and the control registers are locked again.
PlEnabledBeforeAccess ==
    pc = "Measure" => pl = {"Fclk", "Resets", "Shifters"} /\ ~slcr

\* Once a run has set the started marker, the completed marker appears only
\* when every other word of the results is one of this run.
MarkerComesLast ==
    (pc \in {"Measure", "Store", "Finish", "Spin"} /\ mem[MARKER] = Completed)
        => \A w \in Cells \ {MARKER} : mem[w] = Result(w)

\* A report taken after the benchmark has completed has for every point the
\* values of that point.  Only the cycle count under the marker is missing,
\* and the marker is not taken for one.
CompletedReportIsRight ==
    (host = "Reported" /\ pc = "Spin") =>
        \A p \in Points :
            /\ Cycles(p) = IF 4 * p = MARKER THEN None ELSE Value("cycles", p)
            /\ \A f \in 1..3 : mem[4 * p + f] = Value(Field[f + 1], p)

Main == {"Mark", "Measure", "Store", "Finish", "Spin"}

\* What enable_pl has done so far.
Enabling ==
    /\ pc \in {"Fclk", "Resets", "Shifters", "Lock"} => slcr
    /\ pc \in {"Resets", "Shifters", "Lock"} \union Main => "Fclk" \in pl
    /\ pc \in {"Shifters", "Lock"} \union Main => "Resets" \in pl
    /\ pc \in {"Lock"} \union Main => "Shifters" \in pl
    /\ pc \in Main => ~slcr

\* What benchmark_main has stored so far.
Storing ==
    /\ DOMAIN mem = Cells
    /\ pc \in Pc \ {"Measure", "Store", "Finish", "Spin", "BusLock"} => i = 0
    /\ pc = "Measure" => i < N_POINTS
    /\ pc = "Store" => i \in Cells
    /\ pc = "Store" => \A w \in Cells : w < i => mem[w] = Result(w)
    /\ pc = "Finish" => \A w \in Cells : mem[w] = Result(w)
    /\ pc = "Spin" => \A w \in Cells : mem[w] = IF w = MARKER THEN Completed ELSE Result(w)
    /\ pc \in {"Measure", "Store", "Finish"} => mem[MARKER] # Completed

\* The invariant the proofs rest on: how far main has got in enabling the
\* programmable logic and in storing the results is what its pc says.
Inductive == TypeOK /\ Enabling /\ Storing

\* Every poll of ps7_init ends: the CPU gets to its final loop, locks up or
\* is stopped.
BootEnds == <>(pc \in {"Spin", "BusLock"} \/ host # "Running")

\* DDR is written only after ps7_init has initialised it.
DdrWrittenAfterInit == pc # "BusLock"

=============================================================================
