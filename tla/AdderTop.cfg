CONSTANTS
    Words <- TwoWords
    Add <- AddWords
    Pipelined = FALSE
    WriteAddrs = {"A", "B", "CTRL"}
    ReadAddrs = {"SUM"}
    MaxQuiet = 3
SPECIFICATION Spec
INVARIANTS  SumSettles Inductive
PROPERTIES ResponseHeld
