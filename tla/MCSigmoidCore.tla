--------------------------- MODULE MCSigmoidCore ---------------------------
(***************************************************************************)
(* A sweep of the whole 16-bit operand space through both cores.  The      *)
(* benchmark's ideal values serve as the reference: the sigmoid is         *)
(* monotone, so its value at x lies between the ideal values of any        *)
(* stimulus below x and any stimulus above x.                              *)
(***************************************************************************)
EXTENDS SigmoidCore, StimuliPoints, Sweep

VARIABLE word

CoreInit == word = 0

\* The next operand of the sweep; the word wraps around.
CoreNext == unit = "core" /\ word' = S16(word + 1)

Abs(v) == IF v < 0 THEN -v ELSE v

\* y/4096 and i/1000000 on the common scale 1/64000000.
OfWord(y) == y * 15625
OfIdeal(i) == i * 64

\* y is within err/64000000 of every ideal value the sigmoid's monotonicity
\* allows at this operand.
WithinEnvelope(y, err) ==
    \A p \in DOMAIN x_raw_points :
        /\ x_raw_points[p] <= word => OfWord(y) >= OfIdeal(ideal_points[p]) - err
        /\ x_raw_points[p] >= word => OfWord(y) <= OfIdeal(ideal_points[p]) + err

-----------------------------------------------------------------------------
\* Every operand of sigmoid.v yields an output within 0.0069 of the ideal
\* sigmoid's envelope, every operand of sigmoid.vhdl but the most negative word
\* one within 0.0190: no region, bound or coefficient is off, and no slice or
\* shift loses a significant bit.  The outputs stay in the documented range 0.0
\* to 1.0, but for two units below and one above in sigmoid.v, where the
\* polynomials meet the constants.
CoresAccurate ==
    unit = "core" =>
        /\ WithinEnvelope(Azevedo(word), 441600)
        /\ Azevedo(word) \in -2..(ONE + 1)
        /\ word # MinWord => /\ WithinEnvelope(Vaisnav(word), 1216000)
                             /\ Vaisnav(word) \in 0..ONE

\* At each of the 100 benchmark stimuli sigmoid.vhdl is within the maximum
\* absolute error of 0.0179 that the benchmark reports (0.01795 before
\* rounding).
VaisnavReportedError ==
    unit = "core" => \A p \in DOMAIN x_raw_points :
        x_raw_points[p] = word =>
            Abs(OfWord(Vaisnav(word)) - OfIdeal(ideal_points[p])) <= 1148800

\* sigmoid.vhdl applies the sign by reflection: the outputs of x and -x add
\* up to exactly 1.0, at every segment border too.
VaisnavReflects == unit = "core" /\ word # MinWord => Vaisnav(word) + Vaisnav(-word) = ONE

\* From one operand to the next the output of sigmoid.vhdl rises by at most
\* one unit and falls by at most 15: the shifts never lose a carry, and the
\* only descent is the step between the segments at 2.375.  That of sigmoid.v
\* changes by at most 50 units (0.0123), at the region borders too.
CoresSmooth ==
    unit = "core" /\ word # MaxWord =>
        /\ Abs(Azevedo(word + 1) - Azevedo(word)) <= 50
        /\ word # MinWord =>
            /\ Vaisnav(word + 1) - Vaisnav(word) \in -15..1
            /\ Vaisnav(word + 1) < Vaisnav(word) => word + 1 \in {limit_2432, 1 - limit_2432}

=============================================================================
