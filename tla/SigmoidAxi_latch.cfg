CONSTANTS
    Words <- TwoWords
    Sigmoid <- Vaisnav
    Transparent = TRUE
    WriteAddrs = {"X", "CTRL"}
    ReadAddrs = {"Y", "STATUS"}
SPECIFICATION Spec
INVARIANTS WritesAnsweredOnce ReadsAnsweredOnce ResultOfJob
PROPERTIES ResponseHeld ImplementsAccelSafety
