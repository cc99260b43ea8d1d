CONSTANTS
    Amount = {1, 2, 3}
    Price = {1, 2}
    Multiplier = {2}
    None = None
    SampleCap = 3
    MaxSamples = 4
    Venue = {"binance", "bybit", "okx", "bitget", "hyperliquid", "mexc", "aster", "bingx", "kucoin"}
    Donor <- MCDonor
    Tolerance = 1
    MaxLag = 2
    MaxFaults = 1
SPECIFICATION MCSpec
INVARIANTS BarMatchesSamples PriceExplainsClose
PROPERTIES BestPriceUsed ListingsSampled
CHECK_DEADLOCK FALSE
