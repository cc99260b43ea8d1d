\* i1 has a WS feed, i2 is polled only.
CONSTANTS
    Instrument = {i1, i2}
    Live = {i1}
    MinuteLen = 2
    Offset = 1
    MaxTime = 8
    MaxSamples = 4
    MaxFaults = 1
SPECIFICATION Spec
INVARIANTS NoMinutesMixed FetchedMinuteStored HistoryWithoutHoles RestRowComplete
CHECK_DEADLOCK FALSE
