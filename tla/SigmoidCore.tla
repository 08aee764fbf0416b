---------------------------- MODULE SigmoidCore ----------------------------
(***************************************************************************)
(* The two sigmoid datapaths as functions on 16-bit Q4.12 words.           *)
(*                                                                         *)
(* Azevedo is the Verilog piecewise polynomial (sigmoid.v), Vaisnav the    *)
(* VHDL piecewise-linear shift-and-add core (sigmoid.vhdl).  Both keep     *)
(* the width of the hardware: every 16-bit result is wrapped by S16.       *)
(* When the value computed here becomes visible to the wrapper, a clock    *)
(* edge later or within the cycle, is modelled in SigmoidTop.              *)
(***************************************************************************)
EXTENDS Integers

ONE == 4096
MinWord == -32768
MaxWord == 32767
Word == MinWord..MaxWord

MaxBusWord == 65535
BusWord == 0..MaxBusWord

\* The signed 16-bit value of the low 16 bits of v.
S16(v) == ((v + 32768) % 65536) - 32768

\* The unsigned 16-bit value of a signed word ({16'd0, x_reg} on the bus).
U16(v) == v % 65536

-----------------------------------------------------------------------------
(* Azevedo: region bounds and polynomial coefficients.                     *)

XINF == -22282
XMIN == -13312
XMED == 0
XMAX == 13312
XSUP == 22282

\* Faulty variant: the slice is one bit off.
SliceOffByOne(tmp) == S16(tmp \div 2048)

\* tmp[27:12] of a 32-bit signed product, taken as a signed 16-bit word.
Slice(tmp) == S16(tmp \div 4096)

Linear(k1, k0, x) == Slice(k1 * x + k0 * ONE)

Quadratic(k2, k1, k0, x) == Slice(x * Linear(k2, k1, x) + k0 * ONE)

Azevedo(x) ==
    CASE x <= XINF               -> 0
      [] XINF < x /\ x <= XMIN   -> Linear(58, 314, x)
      [] XMIN < x /\ x <= XMED   -> Quadratic(165, 1116, 2057, x)
      [] XMED < x /\ x <= XMAX   -> Quadratic(-165, 1116, 2039, x)
      [] XMAX < x /\ x <= XSUP   -> Linear(58, 3782, x)
      [] XSUP < x                -> ONE

-----------------------------------------------------------------------------
(* Vaisnav: segment limits and intercepts of the package.                  *)

limit_5120 == 20480
limit_2432 == 9728
limit_1024 == 4096
indep_864 == 3456
indep_640 == 2560
indep_512 == 2048

\* abs on a 16-bit signed: the most negative word is its own absolute value.
AbsWord(x) == IF x < 0 THEN S16(-x) ELSE x

\* Faulty variants: the intercepts of two segments are swapped; the outer
\* segment starts early.
SegmentSwapped(a) ==
    CASE a >= limit_5120                      -> ONE
      [] limit_2432 <= a /\ a < limit_5120    -> S16((a \div 32) + indep_640)
      [] limit_1024 <= a /\ a < limit_2432    -> S16((a \div 8) + indep_864)
      [] a < limit_1024                       -> S16((a \div 4) + indep_512)

SegmentEarly(a) ==
    CASE a >= limit_5120                      -> ONE
      [] limit_1024 < a /\ a < limit_5120     -> S16((a \div 32) + indep_864)
      [] a <= limit_1024                      -> S16((a \div 4) + indep_512)

\* The output for the magnitude, before the sign is applied.
Segment(a) ==
    CASE a >= limit_5120                      -> ONE
      [] limit_2432 <= a /\ a < limit_5120    -> S16((a \div 32) + indep_864)
      [] limit_1024 <= a /\ a < limit_2432    -> S16((a \div 8) + indep_640)
      [] a < limit_1024                       -> S16((a \div 4) + indep_512)

\* Faulty variant: the sign is applied by complement without the carry.
VaisnavComplement(x) ==
    IF x >= 0 THEN Segment(AbsWord(x)) ELSE S16(ONE - 1 - Segment(AbsWord(x)))

Vaisnav(x) ==
    IF x >= 0 THEN Segment(AbsWord(x)) ELSE S16(ONE - Segment(AbsWord(x)))

=============================================================================
