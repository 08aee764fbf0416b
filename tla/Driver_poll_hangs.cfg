CONSTANTS
    Words <- FourWords
    Sigmoid <- Vaisnav
    Transparent = TRUE
    Programs = {TRUE}
    NumPoints = 1
    ReadDelay = 0
SPECIFICATION FairSpec
PROPERTIES Terminates
