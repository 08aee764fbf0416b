CONSTANTS
    N_POINTS = 4
    POLL_TIME = 2
SPECIFICATION FairSpec
INVARIANTS PlEnabledBeforeAccess MarkerComesLast 
PROPERTIES BootEnds
CHECK_DEADLOCK FALSE
