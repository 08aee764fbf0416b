CONSTANTS
    Addrs <- LastWord
    widthBytes = 4
    depth = 16384
    queueSize = 2
    latency = 1
    MaxPackets = 2
SPECIFICATION FairSpec
PROPERTIES ReadsAnswered
