\* 20 s per unit: ping_interval 20 s, idle_timeout longer than that.  Two
\* failures, so that the backoff doubles up to its cap.
CONSTANTS
    Symbol = {s1}
    Venue = {"bybit", "okx", "bitget", "hyperliquid"}
    PingInterval = 1
    IdleTimeout = 2
    MaxDelay = 2
    ChanCap = 1
    WireCap = 1
    MaxUpdates = 1
    MaxFaults = 2
SPECIFICATION FairSpec
INVARIANT CaughtUp
PROPERTIES EachValueOnce MarkPriceKept EventuallyCaughtUp
CHECK_DEADLOCK FALSE
