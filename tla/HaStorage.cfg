CONSTANTS
    Node = {n1, n2}
    NoNode = NoNode
    MaxMinute = 2
    Poison = {1}
    MaxResync = 1
    MaxHandover = 1
    MaxFaults = 1
SPECIFICATION FairSpec
INVARIANT ShownIsKept
PROPERTIES HeldUpOnlyByPoison 
CHECK_DEADLOCK FALSE
