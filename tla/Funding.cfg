\* Ten minutes per slot: hourly settlements, 30 minutes of sleep between two
\* sweeps of at most 10.  OKX has a run of its own.
CONSTANTS
    Node = {n1, n2}
    Venue = {"binance", "bybit", "bitget", "hyperliquid", "bingx", "kucoin", "mexc", "aster"}
    NoNode = NoNode
    Interval = 6
    SweepInterval = 3
    SweepTime = 1
    NotDueBefore = 5
    Cooldown = 24
    MaxTime = 42
    MaxFaults = 1
SPECIFICATION Spec
INVARIANTS OnlySettledStored StoredWithinOneCycle
CHECK_DEADLOCK FALSE
