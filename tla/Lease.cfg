\* 2.5 s per unit: the shipped ttl of 15 s and refresh_interval of 5 s.
CONSTANTS
    Node = {n1, n2}
    NoNode = NoNode
    TTL = 6
    RefreshInterval = 2
    MaxSlack = 1
    MaxRequest = 1
    MaxReply = 1
    MaxFaults = 2
SPECIFICATION FairSpec
INVARIANTS TypeOK AtMostOneLeader FailoverBound OverlapBound LeaseInv
PROPERTIES ElectionSpec EventuallyStableLeader
