CONSTANTS
    Inst = {"i1", "i2"}
    BroadcastCapacity = 2
    ChannelCapacity = 1
    BatchMaxItems = 3
    BatchConcurrency = 2
    MaxPublished = 4
    MaxFaults = 2
SPECIFICATION FairSpec
INVARIANTS  BatchInOrder
PROPERTY WsResumes
CHECK_DEADLOCK FALSE
