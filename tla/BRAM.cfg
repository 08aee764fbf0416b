CONSTANTS
    Addrs <- AtTheEnd
    widthBytes = 4
    depth = 16384
    queueSize = 2
    latency = 2
    MaxPackets = 4
SPECIFICATION FairSpec
INVARIANTS  ResponsesInOrder ResponseHasSender  Inductive
PROPERTIES  ResponsesDelivered
