CONSTANTS
    Instrument = {i1}
    Live = {i1}
    MinuteLen = 2
    Offset = 1
    MaxTime = 8
    MaxSamples = 4
    MaxFaults = 0
SPECIFICATION Spec
INVARIANT StoredRowComplete
CHECK_DEADLOCK FALSE
