CONSTANTS
    Words <- TwoWords
    Sigmoid <- Azevedo
    Transparent = FALSE
    WriteAddrs = {"X", "CTRL", "OTHER"}
    ReadAddrs = {}
SPECIFICATION FairSpec
INVARIANTS Inductive
PROPERTIES ImplementsAccel StartServed WriteAcknowledged
