---------------------------- MODULE SigmoidAccel ----------------------------
(***************************************************************************)
(* What the accelerator promises to its user, without bus, clock or        *)
(* pipeline: X holds an operand, a start takes the operand X holds at that *)
(* moment as a job, and when the job finishes Y holds its sigmoid.  With   *)
(* Lag the result is one job late: Y gets the sigmoid of the job before.   *)
(***************************************************************************)
CONSTANTS
    Words,       \* operands
    Sigmoid(_),  \* the function computed
    Lag          \* TRUE: results come one job late

VARIABLES
    x,     \* the operand register
    job,   \* the operand being worked on: {} or a singleton
    held,  \* the sigmoid of the last finished job
    y      \* the result register

vars == <<x, job, held, y>>

Init ==
    /\ x = 0 /\ job = {} /\ y = 0
    /\ held = Sigmoid(0)

\* The operand register is written at any time, jobs are not affected.
Write ==
    /\ x' \in Words
    /\ UNCHANGED <<job, held, y>>

Start ==
    /\ job = {}
    /\ job' = {x}
    /\ UNCHANGED <<x, held, y>>

\* The job finishes; X may be written by the same clock edge.
Finish ==
    \E v \in job :
        /\ y' = IF Lag THEN held ELSE Sigmoid(v)
        /\ held' = Sigmoid(v)
        /\ job' = {}
        /\ x' \in Words

\* A reset drops the job and clears the registers.
Reset ==
    /\ x' = 0 /\ job' = {} /\ y' = 0
    /\ held' = Sigmoid(0)

Next == Write \/ Start \/ Finish \/ Reset

Spec == Init /\ [][Next]_vars

FairSpec == Spec /\ WF_vars(Finish)

=============================================================================
