CONSTANTS
    N_POINTS = 3
    POLL_TIME = 2
SPECIFICATION Spec
INVARIANTS DdrWrittenAfterInit
CHECK_DEADLOCK FALSE
