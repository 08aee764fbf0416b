CONSTANTS
    Words <- FourWords
    Sigmoid <- Azevedo
    Transparent = FALSE
    Programs = {FALSE}
    NumPoints = 2
    ReadDelay = 2
SPECIFICATION Spec
INVARIANTS ReadsOwnResult
