\* 20 s per unit: ping_interval 20 s, idle_timeout longer than that.
CONSTANTS
    Symbol = {s1}
    Venue = {"okx"}
    PingInterval = 1
    IdleTimeout = 2
    MaxDelay = 1
    ChanCap = 1
    WireCap = 2
    MaxUpdates = 0
    MaxFaults = 1
SPECIFICATION FairSpec

PROPERTY SilentPeerReconnected
CHECK_DEADLOCK FALSE
