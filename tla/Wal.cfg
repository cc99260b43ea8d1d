CONSTANTS
    Writer = {w1, w2}
    MaxBatch = 2
    MaxFaults = 2
    Reaping = TRUE
    PowerLoss = FALSE
    Legacy = 1
SPECIFICATION Spec
INVARIANTS TypeOK NoSilentLoss ReapedAreAged WalInv
PROPERTIES QueueSpec
CHECK_DEADLOCK FALSE
SYMMETRY WriterSymmetry
