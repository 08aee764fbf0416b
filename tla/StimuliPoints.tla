--------------------------- MODULE StimuliPoints ---------------------------
(***************************************************************************)
(* The benchmark's stimuli (stimuli_points.h): 100 Q4.12 operands and the  *)
(* value of the ideal sigmoid at each, in millionths.                      *)
(***************************************************************************)
EXTENDS Integers

x_raw_points == <<
    -3415, -20063, 13320, -8248, -5390, -12548, 2704, -13857, -15390, -2747,
    2543, -13339, 2180, -5943, 18762, -16741, 19605, -3600, 161, -14412,
    8969, -12699, -6490, -19517, -6573, 19148, 19612, 10016, -20338, 18032,
    15187, 11093, -13153, -16404, -3501, 15792, 3198, 9690, -10952, 967,
    8576, 13305, 12580, -10965, 15286, -11617, 12366, 2256, -12868, 3629,
    747, 18787, -18779, -13757, 19796, 13607, -14325, -11096, 1603, -14050,
    -7219, -18460, 8670, -17262, 20259, 17227, 11830, 11158, -5417, 7320,
    10701, -787, -17960, 5165, -7137, 4509, -3243, 18536, -12223, 11012,
    8133, 2317, -17201, -13724, 19140, -11033, -13781, -8671, 1520, 803,
    -20344, -20350, -161, -12908, 4403, 12225, -16553, 212, -3845, 11897 >>

ideal_points == <<
    302842, 7404, 962747, 117782, 211504, 44643, 659279, 32827, 22813,
    338354, 650397, 37092, 629999, 189850, 989856, 16511, 991727, 293425,
    509837, 28789, 899318, 43095, 170174, 8453, 167309, 990759, 991740,
    920217, 6926, 987900, 976053, 937517, 38744, 17898, 298453, 979273,
    685865, 914184, 64538, 558722, 890305, 962613, 955691, 64349, 976613,
    55399, 953425, 634333, 41419, 708082, 545472, 989916, 10105, 33614,
    992100, 965178, 29390, 62452, 596616, 31365, 146491, 10913, 892523,
    14566, 992939, 985309, 947264, 938431, 210406, 856567, 931667, 452088,
    12313, 779205, 149009, 750427, 311800, 989285, 48151, 936348, 879279,
    637754, 14781, 33879, 990741, 63354, 33421, 107451, 591750, 548877, 6918,
    6908, 490167, 41034, 745548, 951875, 17272, 512915, 281179, 948070 >>

=============================================================================
