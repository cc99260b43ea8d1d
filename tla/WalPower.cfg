CONSTANTS
    Writer = {w1}
    MaxBatch = 2
    MaxFaults = 2
    Reaping = FALSE
    PowerLoss = TRUE
    Legacy = 1
SPECIFICATION FairSpec
INVARIANTS SyncedSurvives
PROPERTIES BacklogDrains
CHECK_DEADLOCK FALSE
