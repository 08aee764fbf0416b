CONSTANTS
    Words <- FourWords
    Sigmoid <- Vaisnav
    Transparent = TRUE
    Programs = {TRUE, FALSE}
    NumPoints = 3
    ReadDelay = 2
SPECIFICATION FairSpec
INVARIANTS ReadsOwnResult Inductive
PROPERTIES DsbTerminates
